--------------------------- MODULE ServerProperties ---------------------------
(***************************************************************************)
(* What the registry of the server must keep, whatever the interleaving of *)
(* the login threads, the reader, the writer and main.                     *)
(***************************************************************************)
EXTENDS Server

-----------------------------------------------------------------------------
(* Types *)

ListenerLabels == {"malloc", "accept", "spawn", "cancelled"}
LoginLabels ==
  {"none", "login", "add_user", "hash_add", "find_slot", "take_slot",
   "load_inc", "store_inc", "exit"}
DisconnectLabels ==
  {"lock", "check_slot", "clear_slot", "del_user", "hash_del", "close",
   "load_dec", "store_dec", "unlock"}
ReaderLabels ==
  DisconnectLabels \cup
  {"poll", "build", "fd_set", "select", "scan", "recv", "receiving", "received",
   "forward", "cancelled"}
WriterLabels == DisconnectLabels \cup {"stdin", "notify", "find_client", "exit"}
MainLabels == DisconnectLabels \cup {"wait", "sweep", "exited"}

Labels == ListenerLabels \cup LoginLabels \cup ReaderLabels \cup WriterLabels \cup MainLabels

LabelsOK ==
  /\ pc[Listener] \in ListenerLabels
  /\ \A t \in LoginThreads : pc[t] \in LoginLabels
  /\ pc[Reader] \in ReaderLabels
  /\ pc[Writer] \in WriterLabels
  /\ pc[Main] \in MainLabels

RegistryOK ==
  /\ heap \subseteq Handles
  /\ username \in [Handles -> Usernames \cup {NULL}]
  /\ gone \subseteq Handles
  /\ clients \in [Slots -> Handles \cup {NULL}]
  /\ clients_table \subseteq Handles
  /\ hash_torn \in BOOLEAN
  /\ clients_connected \in Int
  /\ lock_disconnect \in Disconnectors \cup {NULL}

LocalsOK ==
  /\ idx \in [Threads -> 0 .. MAX_HOSTS]
  /\ hnd \in [Threads -> Handles \cup {NULL}]
  /\ count \in [Threads -> Int]

ControlOK ==
  /\ clients_fdset \subseteq Handles /\ readable \subseteq Handles
  /\ recv_on \in {"client", "orphan", "ended"}
  /\ name_target \in Usernames \cup {NULL}
  /\ is_terminated \in BOOLEAN /\ cancelled \in BOOLEAN /\ crashed \in BOOLEAN

\* The type invariant: every thread keeps to the steps of its own function, and
\* the loop variables stay within the array and one past it.
TypeOK ==
  /\ pc \in [Threads -> Labels] /\ LabelsOK
  /\ RegistryOK /\ LocalsOK /\ ControlOK

-----------------------------------------------------------------------------
(* Safety *)

\* A thread that holds a block no other thread has been given yet.
HolderLabels ==
  {"accept", "spawn", "login", "add_user", "hash_add", "find_slot", "take_slot"}
Holders == {x \in Threads : pc[x] \in HolderLabels}
\* A thread whose next step, or one of its next steps, is close_client(hnd[t]).
Freeing == {t \in Threads : pc[t] \in {"accept", "login", "close"}}

\* free() is called on an allocated block, and never by two threads for the same
\* block (user_handler.c:27, called from lines 44, main.c:272 and main.c:437).
NoDoubleFree ==
  /\ \A t \in Freeing : hnd[t] \in heap
  /\ \A t, u \in Freeing : hnd[t] = hnd[u] => t = u

\* The array clients never points to a freed block and never twice to the same
\* one, although add_user fills it without the mutex (user_handler.c:42, 92).
SlotsLive ==
  /\ \A i \in Slots : clients[i] # NULL => clients[i] \in heap
  /\ \A i, j \in Slots : clients[i] # NULL /\ clients[i] = clients[j] => i = j

\* While no two updates of the uthash table have overlapped, every client that
\* the reader serves can be found by name, and what is found is not freed
\* (user_handler.c:83 before 92, and 42 before 43 before 44).
TableLive == ~hash_torn => Occupied \subseteq clients_table /\ clients_table \subseteq heap

\* A login that is accepted while no update of the table is under way, nor has one
\* been spoilt, takes a name that nobody in the array has: what breaks the unicity
\* of usernames is two logins at once, and nothing else (main.c:308-330).
NamesFresh == [][\A t \in LoginThreads :
  pc[t] = "login" /\ pc'[t] = "add_user" /\ ~hash_torn /\ ~HashBusy(t)
    => \A a \in Occupied : username[a] # username'[hnd[t]]]_vars

-----------------------------------------------------------------------------
(* The inductive invariant *)

Critical == {"check_slot", "clear_slot", "del_user", "hash_del", "close",
             "load_dec", "store_dec", "unlock"}

\* The mutex is held by whoever is between Lock and Unlock.
LockInv == \A t \in Disconnectors : pc[t] \in Critical => lock_disconnect = t

\* Wherever clients[i] is used, the loop has left i inside the array.
Indexing == Critical \cup
  {"take_slot", "lock", "fd_set", "recv", "receiving", "received", "forward"}
IndexInv == \A t \in Threads : pc[t] \in Indexing => idx[t] \in Slots

\* A block that add_user has not stored yet belongs to one thread.
HolderInv ==
  /\ \A t \in Holders : hnd[t] \in heap /\ hnd[t] \notin Occupied
  /\ \A t, u \in Holders : hnd[t] = hnd[u] => t = u

\* A block being disconnected is in the slot it was loaded from, or in none, and
\* is not one that a login still holds.
Detached == {"del_user", "hash_del", "close"}
DisconnectInv == \A t \in Disconnectors :
  /\ pc[t] \in Detached \cup {"clear_slot"} =>
       hnd[t] \in heap /\ \A u \in Holders : hnd[u] # hnd[t]
  /\ pc[t] = "clear_slot" => \A i \in Slots : clients[i] = hnd[t] => i = idx[t]
  /\ pc[t] \in Detached => hnd[t] \notin Occupied

\* A user enters the table before its slot and leaves it after, and a block is
\* outside the table before it enters and when it is freed.
TableInv == ~hash_torn =>
  /\ Occupied \subseteq clients_table /\ clients_table \subseteq heap
  /\ \A t \in Threads :
       /\ pc[t] \in {"find_slot", "take_slot"} => hnd[t] \in clients_table
       /\ pc[t] \in {"accept", "spawn", "login", "close"} => hnd[t] \notin clients_table

\* The invariant that is preserved by every step.  No part is preserved alone:
\* SlotsLive needs DisconnectInv when a block is freed and HolderInv when a slot
\* is taken, DisconnectInv needs LockInv so that two threads do not load the same
\* block, and all of them need the types and the indexes.
IInv ==
  TypeOK /\ LockInv /\ IndexInv /\ HolderInv /\ DisconnectInv /\ SlotsLive /\ TableInv

-----------------------------------------------------------------------------
(* The life of a block *)

Connecting == {hnd[t] : t \in Holders}
Leaving == {hnd[t] : t \in {u \in Disconnectors : pc[u] \in Detached \cup {"clear_slot"}}}

Life == [a \in Handles |->
  IF a \notin heap THEN "free" ELSE IF a \in Connecting THEN "connecting"
  ELSE IF a \in Leaving THEN "leaving" ELSE IF a \in Occupied THEN "online" ELSE "lost"]

Abstract == INSTANCE Sessions WITH life <- Life, name <- username

\* Every block lives the life of Sessions, whatever add_user overwrites without the
\* mutex: it is freed by the one disconnection that took it out of the array or
\* before its login, keeps its username while it lives, and one that is displaced
\* from its slot is lost for good, never freed and never served again
\* (user_handler.c:32-48, 81-97; main.c:270-273, 330-339, 432-442).
SessionsSpec == Abstract!Spec

-----------------------------------------------------------------------------
(* Liveness *)

\* The reader waits in recv and nothing is due: select had failed (main.c:88-92), or
\* between it and recv the descriptor was closed and reused or another login was stored
\* in the slot; and the peer, that of a connection closed here included, sends nothing.
Stuck == pc[Reader] = "receiving" /\ ~Ended /\ ~(recv_on = "client" /\ hnd[Reader] \in readable)

\* The reader was cancelled inside disconnect_client_index and keeps the mutex.
Abandoned == pc[Reader] = "cancelled" /\ lock_disconnect = Reader

\* Unless the reader is stuck for ever, each client that has closed its connection is
\* disconnected, whatever the other clients do, as long as the counter lets the
\* reader poll (main.c:64, 94-109); and by main when the server ends, unless it
\* waits for an abandoned mutex.
DepartedCleared == []<>~Stuck => \A a \in Handles :
  a \in Occupied \cap gone
    ~> (a \notin Occupied \/ a \notin gone \/ clients_connected <= 0 \/ Abandoned \/ ~Running)

\* Who takes lock_disconnect gives it back, whatever the administrator types and
\* whoever logs in or leaves at the same time (user_handler.c:34-48), unless it is
\* the reader and main cancels it there.
LockReleased == lock_disconnect # NULL ~> (lock_disconnect = NULL \/ Abandoned \/ ~Running)

\* server|end brings main to its return, past every client still connected
\* (main.c:475-491): an abandoned mutex is the one thing that keeps it from it.
ShutdownEnds == is_terminated ~> (Abandoned \/ ~Running)

-----------------------------------------------------------------------------
(* What the repository says of the program and the code does not keep *)

\* The README, lines 44 and 52: the username is an id, and one already taken is
\* refused, so that no two clients in the array have the same.
UsernamesUnique ==
  \A i, j \in Slots : i # j /\ clients[i] # NULL /\ clients[j] # NULL
    => username[clients[i]] # username[clients[j]]

\* The README, lines 63 to 76: server|kick:username:reason kicks that user.
KickHitsTarget == pc[Writer] = "clear_slot" => username[hnd[Writer]] = name_target

\* main.c:63: the reader sleeps "if no clients are connected".
Counting == \E t \in Threads : pc[t] \in {"load_inc", "store_inc"} \cup Critical
SleepsOnlyIfEmpty ==
  pc[Reader] = "poll" /\ clients_connected <= 0 /\ ~Counting => Occupied = {}
=============================================================================
