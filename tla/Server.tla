-------------------------------- MODULE Server --------------------------------
(***************************************************************************)
(* The server process, RelyConn_Server/src/main.c: the listener, a login   *)
(* thread per connection, the reader, the writer (the administrator's      *)
(* console) and main, over the registry of UserHandler.  A socket is       *)
(* reduced to whether its peer has closed it, a message to its             *)
(* destination, and a login to the username it offers.                     *)
(***************************************************************************)
EXTENDS UserHandler

CONSTANT Commands    \* what the administrator may type: a subset of {"kick", "end"}

ASSUME CommandAssumption == Commands \subseteq {"kick", "end"}

VARIABLES
  clients_fdset,  \* the handles whose sockets select() reported to the reader
  readable,       \* the sockets for which select() found something to receive
  recv_on,        \* what a recv of the reader waits on: see Closes
  name_target,    \* char* name_target of the kick being executed, else NULL
  is_terminated,  \* bool is_terminated
  cancelled,      \* main has called pthread_cancel on the other threads
  crashed         \* a null pointer dereference or SIGPIPE has ended the process

vars == <<heap, username, gone, clients, clients_table, hash_torn, clients_connected,
          lock_disconnect, pc, idx, hnd, count, clients_fdset, readable,
          recv_on, name_target, is_terminated, cancelled, crashed>>
control == <<readable, recv_on, name_target, is_terminated, cancelled, crashed>>
shared == <<registry, blocks, lock_disconnect, count>>

FirstLabel(t) ==
  CASE t = Listener -> "malloc" [] t = Reader -> "poll" [] t = Writer -> "stdin"
    [] t = Main -> "wait" [] t \in LoginThreads -> "none"

Init ==
  /\ heap = {}
  /\ username = [a \in Handles |-> NULL]
  /\ clients = [i \in Slots |-> NULL]
  /\ clients_table = {}
  /\ hash_torn = FALSE
  /\ clients_connected = 0
  /\ lock_disconnect = NULL
  /\ pc = [t \in Threads |-> FirstLabel(t)]
  /\ idx = [t \in Threads |-> 0]
  /\ hnd = [t \in Threads |-> NULL]
  /\ count = [t \in Threads |-> 0]
  /\ gone = {}
  /\ clients_fdset = {}
  /\ readable = {}
  /\ recv_on = "client"
  /\ name_target = NULL
  /\ is_terminated = FALSE
  /\ cancelled = FALSE
  /\ crashed = FALSE

-----------------------------------------------------------------------------
(* listen_connections *)

Malloc ==             \* malloc(sizeof(client_handle))
  /\ pc[Listener] = "malloc"
  /\ \E a \in Handles \ heap :
       /\ heap' = heap \cup {a}
       /\ hnd' = [hnd EXCEPT ![Listener] = a]
  /\ Goto(Listener, "accept")
  /\ UNCHANGED <<username, gone, registry, lock_disconnect, idx, count, clients_fdset, control>>

AcceptFails ==        \* accept < 0: close_client(newConnection)
  /\ pc[Listener] = "accept" /\ ~cancelled
  /\ close_client(hnd[Listener])
  /\ hnd' = [hnd EXCEPT ![Listener] = NULL]
  /\ Goto(Listener, "malloc")
  /\ UNCHANGED <<registry, lock_disconnect, idx, count, clients_fdset, control>>

Accept ==
  /\ pc[Listener] = "accept" /\ ~cancelled
  /\ Goto(Listener, "spawn")
  /\ UNCHANGED <<shared, idx, hnd, clients_fdset, control>>

Spawn(t) ==           \* pthread_create(&tid_login, NULL, &init_client_conn, newConnection)
  /\ pc[Listener] = "spawn" /\ pc[t] = "none"
  /\ pc' = [pc EXCEPT ![Listener] = "malloc", ![t] = "login"]
  /\ hnd' = [hnd EXCEPT ![Listener] = NULL, ![t] = hnd[Listener]]
  /\ UNCHANGED <<shared, idx, clients_fdset, control>>

ListenerCancelled ==  \* accept is a cancellation point
  /\ pc[Listener] = "accept" /\ cancelled
  /\ Goto(Listener, "cancelled")
  /\ UNCHANGED <<shared, idx, hnd, clients_fdset, control>>

-----------------------------------------------------------------------------
(* init_client_conn: the login thread t of one connection *)

\* Mutant of LoginEof: no pthread_exit after close_client.
LoginEofGoesOn(t) ==
  /\ pc[t] = "login" /\ hnd[t] \in gone
  /\ close_client(hnd[t])
  /\ Goto(t, "add_user")
  /\ UNCHANGED <<registry, lock_disconnect, idx, hnd, count, clients_fdset, control>>

LoginEof(t) ==        \* login_length <= 0: close_client and pthread_exit
  /\ pc[t] = "login" /\ hnd[t] \in gone
  /\ close_client(hnd[t])
  /\ EndThread(t)
  /\ UNCHANGED <<registry, lock_disconnect, count, clients_fdset, control>>

\* Mutant of LoginAccepted: the username is not looked up.
LoginUnchecked(t) ==
  /\ pc[t] = "login" /\ hnd[t] \notin gone
  /\ \E name \in Usernames : username' = [username EXCEPT ![hnd[t]] = name]
  /\ Goto(t, "add_user")
  /\ UNCHANGED <<heap, gone, registry, lock_disconnect, idx, hnd, count, clients_fdset, control>>

LoginAccepted(t) ==   \* no entry has that username: reply, strcpy, then add_user
  /\ pc[t] = "login" /\ hnd[t] \notin gone
  /\ \E name \in Usernames :
       /\ NULL \in Find(t, name)
       /\ username' = [username EXCEPT ![hnd[t]] = name]
  /\ Goto(t, "add_user")
  /\ UNCHANGED <<heap, gone, registry, lock_disconnect, idx, hnd, count, clients_fdset, control>>

LoginRefused(t) ==    \* too short, too long or taken: reply and wait for another
  /\ pc[t] = "login" /\ hnd[t] \notin gone
  /\ UNCHANGED vars

Login(t) == LoginEof(t) \/ LoginAccepted(t) \/ LoginRefused(t)

-----------------------------------------------------------------------------
(* read_clients *)

ReaderStep(i, label) == idx' = [idx EXCEPT ![Reader] = i] /\ Goto(Reader, label)
ReadersSlot == clients[idx[Reader]]

\* The reader tests clients[i] and then uses it again, several times.  The two
\* reads within the condition of main.c:96 are taken as one.
Dereferences ==
  pc[Reader] \in {"fd_set", "recv", "received", "forward"}

\* pthread_cancel takes effect where the reader next reaches a cancellation
\* point: sleep, select, recv, send, and inside disconnect_client_index the
\* close of close_client; the printf of user_handler.c:40 may be one too.
AtCancellationPoint ==
  \/ pc[Reader] = "poll" /\ clients_connected <= 0
  \/ pc[Reader] \in {"select", "receiving", "close"}
  \/ pc[Reader] = "forward" /\ ReadersSlot # NULL
ReaderCancelled ==
  /\ cancelled
  /\ AtCancellationPoint \/ pc[Reader] = "clear_slot"
  /\ Goto(Reader, "cancelled")
  /\ UNCHANGED <<shared, idx, hnd, clients_fdset, control>>
ReaderRuns == ~(cancelled /\ AtCancellationPoint)

ReaderSleeps ==       \* clients_connected <= 0: sleep(1) and continue
  /\ pc[Reader] = "poll" /\ ReaderRuns /\ clients_connected <= 0
  /\ UNCHANGED vars

ReaderPolls ==        \* clients_connected > 0: FD_ZERO
  /\ pc[Reader] = "poll" /\ ReaderRuns /\ clients_connected > 0
  /\ clients_fdset' = {}
  /\ ReaderStep(0, "build")
  /\ UNCHANGED <<shared, hnd, control>>

ReaderBuilds ==       \* for each slot: is_client_active(clients[i])
  /\ pc[Reader] = "build"
  /\ \/ idx[Reader] = MAX_HOSTS /\ ReaderStep(0, "select")
     \/ /\ idx[Reader] < MAX_HOSTS
        /\ IF ReadersSlot # NULL
             THEN Goto(Reader, "fd_set") /\ UNCHANGED idx
             ELSE ReaderStep(idx[Reader] + 1, "build")
  /\ UNCHANGED <<shared, hnd, clients_fdset, control>>

ReaderSets ==         \* FD_SET(clients[i]->sock, &clients_fdset)
  /\ pc[Reader] = "fd_set" /\ ReadersSlot # NULL
  /\ clients_fdset' = clients_fdset \cup {ReadersSlot}
  /\ ReaderStep(idx[Reader] + 1, "build")
  /\ UNCHANGED <<shared, hnd, control>>

\* select() keeps the readable sockets, a closed connection among them; when a
\* descriptor of the set has been closed meanwhile it fails and keeps them all.
ReaderSelects ==
  /\ pc[Reader] = "select" /\ ReaderRuns
  /\ IF clients_fdset \subseteq heap
       THEN /\ readable' \in {r \in SUBSET clients_fdset : clients_fdset \cap gone \subseteq r}
            /\ clients_fdset' = readable'
       ELSE UNCHANGED <<clients_fdset, readable>>
  /\ Goto(Reader, "scan")
  /\ UNCHANGED <<shared, idx, hnd, recv_on, name_target, is_terminated, cancelled, crashed>>

ReaderScans ==        \* is_client_active(clients[i]) && FD_ISSET(clients[i]->sock)
  /\ pc[Reader] = "scan"
  /\ \/ /\ idx[Reader] = MAX_HOSTS
        /\ clients_fdset' = {} /\ readable' = {}
        /\ ReaderStep(0, "poll")
     \/ /\ idx[Reader] < MAX_HOSTS
        /\ IF ReadersSlot \in clients_fdset
             THEN Goto(Reader, "recv") /\ UNCHANGED idx
             ELSE ReaderStep(idx[Reader] + 1, "scan")
        /\ UNCHANGED <<clients_fdset, readable>>
  /\ UNCHANGED <<shared, hnd, recv_on, name_target, is_terminated, cancelled, crashed>>

NullDereference ==    \* clients[i] set to NULL between the test and a use
  /\ Dereferences /\ ReadersSlot = NULL
  /\ crashed' = TRUE
  /\ UNCHANGED <<shared, pc, idx, hnd, clients_fdset, readable, recv_on, name_target, is_terminated, cancelled>>

RecvBegin ==          \* recv(clients[i]->sock, ...) is called
  /\ pc[Reader] = "recv" /\ ReadersSlot # NULL
  /\ hnd' = [hnd EXCEPT ![Reader] = ReadersSlot]
  /\ Goto(Reader, "receiving")
  /\ UNCHANGED <<shared, idx, clients_fdset, control>>

\* recv returns.  On Linux a recv that is under way goes on when another thread
\* closes its descriptor: it still waits for the peer of that connection.
Receives(label) ==
  /\ pc[Reader] = "receiving" /\ ReaderRuns
  /\ hnd' = [hnd EXCEPT ![Reader] = NULL]
  /\ recv_on' = "client" /\ readable' = readable \ {hnd[Reader]}
  /\ Goto(Reader, label)
  /\ UNCHANGED <<shared, clients_fdset, name_target, is_terminated, cancelled, crashed>>

Ended == recv_on = "ended" \/ (recv_on = "client" /\ hnd[Reader] \in gone)

\* Mutant of RecvEof: valread <= 0 is taken for a message that is badly formatted.
RecvEofIgnored ==
  /\ Ended
  /\ Receives("scan")
  /\ idx' = [idx EXCEPT ![Reader] = @ + 1]

RecvEof ==            \* valread <= 0: the peer has closed it, or EBADF
  /\ Ended
  /\ Receives("lock")
  /\ UNCHANGED idx

RecvData ==
  /\ recv_on = "client" /\ hnd[Reader] \notin gone
  /\ Receives("received")
  /\ UNCHANGED idx
RecvReadable == hnd[Reader] \in readable /\ RecvData

RecvOrphan ==         \* the peer of a connection closed here sends, or closes it
  /\ recv_on = "orphan"
  /\ Receives("received") \/ Receives("lock")
  /\ UNCHANGED idx

\* Thread t closes a descriptor: the socket of a recv under way becomes an orphan,
\* unless the peer has closed it too; a recv that has not begun gets EBADF.
Closes(t) ==
  /\ recv_on' \in
       IF pc[t] = "close" /\ pc[Reader] = "receiving" /\ recv_on = "client" /\ hnd[Reader] = hnd[t]
         THEN {"ended"} \cup (IF hnd[t] \in gone THEN {} ELSE {"orphan"})
         ELSE {recv_on}
  /\ readable' = IF pc[t] = "close" THEN readable \ {hnd[t]} ELSE readable

Dropped ==            \* bad format, or HASH_FIND_STR finds no such user
  /\ pc[Reader] = "received" /\ ReadersSlot # NULL
  /\ ReaderStep(idx[Reader] + 1, "scan")
  /\ UNCHANGED <<shared, hnd, clients_fdset, control>>

Addressed ==          \* HASH_FIND_STR finds client_dest
  /\ pc[Reader] = "received" /\ ReadersSlot # NULL
  /\ \E name \in Usernames : \E dest \in Find(Reader, name) \ {NULL} :
       hnd' = [hnd EXCEPT ![Reader] = dest]
  /\ Goto(Reader, "forward")
  /\ UNCHANGED <<shared, idx, clients_fdset, control>>

Forward ==            \* read clients[i]->account, encrypt for client_dest and send
  /\ pc[Reader] = "forward" /\ ReaderRuns /\ ReadersSlot # NULL
  /\ hnd' = [hnd EXCEPT ![Reader] = NULL]
  /\ ReaderStep(idx[Reader] + 1, "scan")
  /\ UNCHANGED <<shared, clients_fdset, control>>

\* The reader outside disconnect_client_index.  RecvData and RecvOrphan are apart: a
\* receipt from a peer is due only where select has found something.
ReaderLocal ==
  \/ ReaderSleeps \/ ReaderPolls \/ ReaderBuilds \/ ReaderSets \/ ReaderSelects
  \/ ReaderScans \/ RecvBegin \/ RecvEof \/ RecvReadable \/ Dropped \/ Addressed \/ Forward
  \/ NullDereference \/ ReaderCancelled
ReaderDisconnects ==
  /\ ReaderRuns
  /\ disconnect_client_index(Reader)
  /\ Closes(Reader)
  /\ UNCHANGED <<clients_fdset, name_target, is_terminated, cancelled, crashed>>
read_clients == RecvData \/ RecvOrphan \/ ReaderLocal \/ ReaderDisconnects

-----------------------------------------------------------------------------
(* write_clients *)

Kick(name) ==         \* server|kick:name:reason, and HASH_FIND_STR finds target
  /\ pc[Writer] = "stdin" /\ "kick" \in Commands
  /\ \E target \in Find(Writer, name) \ {NULL} : hnd' = [hnd EXCEPT ![Writer] = target]
  /\ name_target' = name
  /\ Goto(Writer, "notify")
  /\ UNCHANGED <<shared, idx, clients_fdset, readable, recv_on, is_terminated, cancelled, crashed>>

Notify ==             \* encrypt message_kick for target and send it
  /\ pc[Writer] = "notify"
  /\ Goto(Writer, "find_client")
  /\ UNCHANGED <<shared, idx, hnd, clients_fdset, control>>

FindClient ==         \* disconnect_client: if (clients[i] == client)
  /\ pc[Writer] = "find_client"
  /\ \/ /\ idx[Writer] = MAX_HOSTS
        /\ idx' = [idx EXCEPT ![Writer] = 0]
        /\ hnd' = [hnd EXCEPT ![Writer] = NULL]
        /\ name_target' = NULL
        /\ Goto(Writer, "stdin")
     \/ /\ idx[Writer] < MAX_HOSTS /\ clients[idx[Writer]] # hnd[Writer]
        /\ idx' = [idx EXCEPT ![Writer] = @ + 1]
        /\ UNCHANGED <<pc, hnd, name_target>>
     \/ /\ idx[Writer] < MAX_HOSTS /\ clients[idx[Writer]] = hnd[Writer]
        /\ Goto(Writer, "lock")
        /\ UNCHANGED <<idx, hnd, name_target>>
  /\ UNCHANGED <<shared, clients_fdset, readable, recv_on, is_terminated, cancelled, crashed>>

End ==                \* server|end
  /\ pc[Writer] = "stdin" /\ "end" \in Commands
  /\ is_terminated' = TRUE
  /\ Goto(Writer, "exit")
  /\ UNCHANGED <<shared, idx, hnd, clients_fdset, readable, recv_on, name_target, cancelled, crashed>>

WriterDisconnects ==
  /\ disconnect_client_index(Writer)
  /\ name_target' = IF pc'[Writer] = "stdin" THEN NULL ELSE name_target
  /\ Closes(Writer)
  /\ UNCHANGED <<clients_fdset, is_terminated, cancelled, crashed>>
write_clients == Notify \/ FindClient \/ WriterDisconnects

-----------------------------------------------------------------------------
(* main *)

CancelThreads ==      \* while (!is_terminated) ends; pthread_cancel three times
  /\ pc[Main] = "wait" /\ is_terminated
  /\ cancelled' = TRUE
  /\ Goto(Main, "sweep")
  /\ UNCHANGED <<shared, idx, hnd, clients_fdset, readable, recv_on, name_target, is_terminated, crashed>>

\* Mutant of Sweep: i is not advanced past a slot that is empty.
SweepStays ==
  /\ pc[Main] = "sweep" /\ idx[Main] < MAX_HOSTS
  /\ is_client_active(idx[Main])
  /\ Goto(Main, "lock")
  /\ UNCHANGED <<shared, idx, hnd, clients_fdset, control>>

Sweep ==              \* disconnect_clients: if (is_client_active(clients[i]))
  /\ pc[Main] = "sweep" /\ idx[Main] < MAX_HOSTS
  /\ IF is_client_active(idx[Main])
       THEN Goto(Main, "lock") /\ UNCHANGED idx
       ELSE idx' = [idx EXCEPT ![Main] = @ + 1] /\ UNCHANGED pc
  /\ UNCHANGED <<shared, hnd, clients_fdset, control>>

Exit ==               \* destroy the mutex, shut the listening socket down, return
  /\ pc[Main] = "sweep" /\ idx[Main] = MAX_HOSTS
  /\ Goto(Main, "exited")
  /\ UNCHANGED <<shared, idx, hnd, clients_fdset, control>>

MainDisconnects ==
  /\ disconnect_client_index(Main)
  /\ Closes(Main)
  /\ UNCHANGED <<clients_fdset, name_target, is_terminated, cancelled, crashed>>
main == CancelThreads \/ Sweep \/ Exit \/ MainDisconnects

-----------------------------------------------------------------------------
PeerCloses(a) ==      \* the client at the other end of the socket goes away
  /\ a \in heap /\ a \notin gone
  /\ gone' = gone \cup {a}
  /\ UNCHANGED <<heap, username, registry, lock_disconnect, count, pc, idx, hnd, clients_fdset, control>>

\* No thread ignores SIGPIPE: a send to a connection that the peer has reset
\* kills the server.  The login threads send in the handshake, the reader when
\* it forwards, the writer when it announces a kick.
Sending(t) ==
  \/ t \in LoginThreads /\ pc[t] = "login"
  \/ t = Reader /\ pc[t] = "forward" /\ ReadersSlot # NULL
  \/ t = Writer /\ pc[t] = "notify"
BrokenPipe(t) ==
  /\ Sending(t) /\ hnd[t] \in gone
  /\ crashed' = TRUE
  /\ UNCHANGED <<shared, pc, idx, hnd, clients_fdset, readable, recv_on, name_target, is_terminated, cancelled>>

\* Once main has returned or a thread has crashed there is no process left.
Running == ~crashed /\ pc[Main] # "exited"

add_user(t) == AddUser(t) /\ UNCHANGED <<clients_fdset, control>>

Next ==
  /\ Running
  /\ \/ Malloc \/ AcceptFails \/ Accept \/ ListenerCancelled
     \/ \E t \in LoginThreads : Spawn(t) \/ Login(t) \/ add_user(t)
     \/ read_clients
     \/ write_clients \/ End \/ \E name \in Usernames : Kick(name)
     \/ main
     \/ \E a \in Handles : PeerCloses(a)
     \/ \E t \in Threads : BrokenPipe(t)

Spec == Init /\ [][Next]_vars

\* The scheduler runs every thread that can take a step, and recv reports the
\* end of a connection of which the descriptor is open.  Clients and the administrator owe nothing.
Fairness ==
  /\ WF_vars(Running /\ (ReaderLocal \/ ReaderDisconnects))
  /\ WF_vars(Running /\ write_clients)
  /\ WF_vars(Running /\ main)
  /\ \A t \in LoginThreads : WF_vars(Running /\ (LoginEof(t) \/ add_user(t)))
FairSpec == Spec /\ Fairness
=============================================================================
