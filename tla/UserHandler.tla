----------------------------- MODULE UserHandler -----------------------------
(***************************************************************************)
(* The registry of connected users, RelyConn_Server/src/user_handler.c:    *)
(* the array clients, the uthash table clients_table, the counter          *)
(* clients_connected and the mutex lock_disconnect, with the functions     *)
(* that change them.  Each function is cut into the steps between which    *)
(* another thread can run; pc[t] says which step thread t takes next.      *)
(* Only disconnect_client_index takes the mutex; add_user does not.        *)
(***************************************************************************)
EXTENDS Integers, FiniteSets

CONSTANTS
  MAX_HOSTS,      \* length of the array clients
  Handles,        \* addresses that malloc can return for a client_handle
  Usernames,      \* usernames of a legal length
  LoginThreads,   \* one thread per accepted connection
  Listener, Reader, Writer, Main,     \* the other threads of the server
  NULL            \* the null pointer

Disconnectors == {Reader, Writer, Main}
Threads == LoginThreads \cup Disconnectors \cup {Listener}

ASSUME HostsAssumption == MAX_HOSTS \in Nat \ {0}
ASSUME NullAssumption == NULL \notin Handles /\ NULL \notin Usernames /\ NULL \notin Threads
ASSUME ThreadAssumption ==
  /\ Reader # Writer /\ Reader # Main /\ Writer # Main
  /\ Listener \notin Disconnectors
  /\ LoginThreads \cap (Disconnectors \cup {Listener}) = {}

Slots == 0 .. MAX_HOSTS - 1

VARIABLES
  heap,               \* the client_handle blocks now allocated
  username,           \* account.username of each block, NULL while unset
  gone,               \* the blocks whose peer has closed the connection and
                      \* whose next recv finds it: what it sent has been read
  clients,            \* client_handle* clients[MAX_HOSTS]
  clients_table,      \* the handles linked in the uthash table
  hash_torn,          \* two updates of clients_table have overlapped
  clients_connected,  \* int clients_connected
  lock_disconnect,    \* the holder of the mutex, NULL when it is free
  pc,                 \* the next step of each thread
  idx,                \* the loop variable i of each thread
  hnd,                \* the client_handle* local of each thread
  count               \* clients_connected as a thread has read it

registry == <<clients, clients_table, hash_torn, clients_connected>>
blocks == <<heap, username, gone>>

-----------------------------------------------------------------------------
Goto(t, label) == pc' = [pc EXCEPT ![t] = label]

\* pthread_exit in a login thread; its locals are gone with it.
EndThread(t) ==
  /\ Goto(t, "exit")
  /\ idx' = [idx EXCEPT ![t] = 0]
  /\ hnd' = [hnd EXCEPT ![t] = NULL]

\* disconnect_client_index returns into the loop of the reader (main.c:94), out
\* of disconnect_client for the writer, and into disconnect_clients for main.
ReturnPc == [t \in Disconnectors |->
  IF t = Reader THEN "scan" ELSE IF t = Writer THEN "stdin" ELSE "sweep"]
ReturnIdx(t) == IF t = Writer THEN 0 ELSE idx[t] + 1

Occupied == {clients[i] : i \in Slots} \ {NULL}
is_client_active(i) == clients[i] # NULL

Updating(t) == pc[t] \in {"hash_add", "hash_del"}
HashBusy(t) == \E u \in Threads \ {t} : Updating(u)

\* HASH_FIND_STR by thread t.  It returns some handle with that key, or NULL.
\* Beside an update of another thread it may or may not see the entry moved.
Find(t, name) ==
  LET found == {a \in clients_table : username[a] = name}
      moving == {hnd[u] : u \in {v \in Threads \ {t} : Updating(v)}}
  IN IF hash_torn \/ HashBusy(t)
       THEN {NULL} \cup found \cup {a \in moving : username[a] = name}
       ELSE IF found = {} THEN {NULL} ELSE found

\* What clients_table may be after an update that should have left new: once
\* updates have overlapped, links can have been lost.
Updated(new) == IF hash_torn THEN SUBSET (clients_table \cup new) ELSE {new}

\* close_client(h): close the socket and free the block.
close_client(h) ==
  /\ heap' = heap \ {h}
  /\ username' = [username EXCEPT ![h] = NULL]
  /\ gone' = gone \ {h}

-----------------------------------------------------------------------------
(* add_user(handle), run by login thread t with hnd[t] = handle.           *)

AddBegin(t) ==        \* HASH_ADD_STR starts
  /\ pc[t] = "add_user"
  /\ hash_torn' = (hash_torn \/ HashBusy(t))
  /\ Goto(t, "hash_add")
  /\ UNCHANGED <<blocks, clients, clients_table, clients_connected, lock_disconnect, idx, hnd, count>>

AddEnd(t) ==          \* HASH_ADD_STR ends
  /\ pc[t] = "hash_add"
  /\ clients_table' \in Updated(clients_table \cup {hnd[t]})
  /\ idx' = [idx EXCEPT ![t] = 0]
  /\ Goto(t, "find_slot")
  /\ UNCHANGED <<blocks, clients, hash_torn, clients_connected, lock_disconnect, hnd, count>>

FindSlot(t) ==        \* the loop test and if (!is_client_active(clients[i]))
  /\ pc[t] = "find_slot"
  /\ \/ /\ idx[t] = MAX_HOSTS                          \* no slot is empty
        /\ EndThread(t)
     \/ /\ idx[t] < MAX_HOSTS /\ is_client_active(idx[t])
        /\ idx' = [idx EXCEPT ![t] = @ + 1]
        /\ UNCHANGED <<pc, hnd>>
     \/ /\ idx[t] < MAX_HOSTS /\ ~is_client_active(idx[t])
        /\ Goto(t, "take_slot")
        /\ UNCHANGED <<idx, hnd>>
  /\ UNCHANGED <<registry, blocks, lock_disconnect, count>>

TakeSlot(t) ==        \* clients[i] = handle
  /\ pc[t] = "take_slot"
  /\ clients' = [clients EXCEPT ![idx[t]] = hnd[t]]
  /\ Goto(t, "load_inc")
  /\ UNCHANGED <<blocks, clients_table, hash_torn, clients_connected, lock_disconnect, idx, hnd, count>>

LoadInc(t) ==         \* clients_connected++, the load
  /\ pc[t] = "load_inc"
  /\ count' = [count EXCEPT ![t] = clients_connected]
  /\ Goto(t, "store_inc")
  /\ UNCHANGED <<registry, blocks, lock_disconnect, idx, hnd>>

StoreInc(t) ==        \* clients_connected++, the store
  /\ pc[t] = "store_inc"
  /\ clients_connected' = count[t] + 1
  /\ count' = [count EXCEPT ![t] = 0]
  /\ EndThread(t)
  /\ UNCHANGED <<blocks, clients, clients_table, hash_torn, lock_disconnect>>

AddUser(t) ==
  AddBegin(t) \/ AddEnd(t) \/ FindSlot(t) \/ TakeSlot(t) \/ LoadInc(t) \/ StoreInc(t)

-----------------------------------------------------------------------------
(* disconnect_client_index(idx[t]), run by the reader, the writer or main. *)

\* Mutant of Lock: the mutex does not exclude.
LockUnguarded(t) ==
  /\ pc[t] = "lock"
  /\ lock_disconnect' = t
  /\ Goto(t, "check_slot")
  /\ UNCHANGED <<registry, blocks, idx, hnd, count>>

Lock(t) ==
  /\ pc[t] = "lock"
  /\ lock_disconnect = NULL
  /\ lock_disconnect' = t
  /\ Goto(t, "check_slot")
  /\ UNCHANGED <<registry, blocks, idx, hnd, count>>

\* Mutant of CheckSlot: the slot is empty, and it returns with the mutex held.
CheckSlotKeepsLock(t) ==
  /\ pc[t] = "check_slot"
  /\ IF is_client_active(idx[t])
       THEN /\ hnd' = [hnd EXCEPT ![t] = clients[idx[t]]]
            /\ Goto(t, "clear_slot") /\ UNCHANGED idx
       ELSE /\ hnd' = [hnd EXCEPT ![t] = NULL]
            /\ Goto(t, ReturnPc[t]) /\ idx' = [idx EXCEPT ![t] = ReturnIdx(t)]
  /\ UNCHANGED <<registry, blocks, lock_disconnect, count>>

CheckSlot(t) ==       \* is_client_active, and clienthandle_tmp = clients[index]
  /\ pc[t] = "check_slot"
  /\ IF is_client_active(idx[t])
       THEN hnd' = [hnd EXCEPT ![t] = clients[idx[t]]] /\ Goto(t, "clear_slot")
       ELSE UNCHANGED hnd /\ Goto(t, "unlock")
  /\ UNCHANGED <<registry, blocks, lock_disconnect, idx, count>>

\* Mutant of ClearSlot: the slot keeps the pointer.
ClearSlotForgotten(t) ==
  /\ pc[t] = "clear_slot"
  /\ Goto(t, "del_user")
  /\ UNCHANGED <<registry, blocks, lock_disconnect, idx, hnd, count>>

ClearSlot(t) ==       \* clients[index] = NULL
  /\ pc[t] = "clear_slot"
  /\ clients' = [clients EXCEPT ![idx[t]] = NULL]
  /\ Goto(t, "del_user")
  /\ UNCHANGED <<blocks, clients_table, hash_torn, clients_connected, lock_disconnect, idx, hnd, count>>

DelBegin(t) ==        \* HASH_DEL starts
  /\ pc[t] = "del_user"
  /\ hash_torn' = (hash_torn \/ HashBusy(t))
  /\ Goto(t, "hash_del")
  /\ UNCHANGED <<blocks, clients, clients_table, clients_connected, lock_disconnect, idx, hnd, count>>

\* Mutant of DelEnd: the handle stays in the table.
DelEndForgotten(t) ==
  /\ pc[t] = "hash_del"
  /\ Goto(t, "close")
  /\ UNCHANGED <<registry, blocks, lock_disconnect, idx, hnd, count>>

DelEnd(t) ==          \* HASH_DEL ends
  /\ pc[t] = "hash_del"
  /\ clients_table' \in Updated(clients_table \ {hnd[t]})
  /\ Goto(t, "close")
  /\ UNCHANGED <<blocks, clients, hash_torn, clients_connected, lock_disconnect, idx, hnd, count>>

Close(t) ==           \* close_client(clienthandle_tmp)
  /\ pc[t] = "close"
  /\ close_client(hnd[t])
  /\ Goto(t, "load_dec")
  /\ UNCHANGED <<registry, lock_disconnect, idx, hnd, count>>

LoadDec(t) ==         \* clients_connected--, the load
  /\ pc[t] = "load_dec"
  /\ count' = [count EXCEPT ![t] = clients_connected]
  /\ Goto(t, "store_dec")
  /\ UNCHANGED <<registry, blocks, lock_disconnect, idx, hnd>>

StoreDec(t) ==        \* clients_connected--, the store
  /\ pc[t] = "store_dec"
  /\ clients_connected' = count[t] - 1
  /\ count' = [count EXCEPT ![t] = 0]
  /\ Goto(t, "unlock")
  /\ UNCHANGED <<blocks, clients, clients_table, hash_torn, lock_disconnect, idx, hnd>>

Unlock(t) ==          \* pthread_mutex_unlock and the return to the caller
  /\ pc[t] = "unlock"
  /\ lock_disconnect' = NULL
  /\ hnd' = [hnd EXCEPT ![t] = NULL]
  /\ idx' = [idx EXCEPT ![t] = ReturnIdx(t)]
  /\ Goto(t, ReturnPc[t])
  /\ UNCHANGED <<registry, blocks, count>>

disconnect_client_index(t) ==
  \/ Lock(t) \/ CheckSlot(t) \/ ClearSlot(t) \/ DelBegin(t) \/ DelEnd(t)
  \/ Close(t) \/ LoadDec(t) \/ StoreDec(t) \/ Unlock(t)

=============================================================================
