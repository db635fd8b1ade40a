------------------------------- MODULE Sessions -------------------------------
(***************************************************************************)
(* What the server owes every client_handle block, whoever handles it: a   *)
(* block is allocated for a connection, gets its username once, comes into *)
(* the array clients, leaves it by one disconnection and is freed.  The    *)
(* registry of UserHandler under the threads of Server implements it.      *)
(***************************************************************************)
CONSTANTS Handles, Usernames, NULL

VARIABLES
  life,   \* free, connecting, online (in the array), leaving, or lost:
          \* allocated, but out of reach of every thread that could free it
  name    \* account.username, NULL while unset

vars == <<life, name>>

Becomes(a, stage) == life' = [life EXCEPT ![a] = stage]

Init ==
  /\ life = [a \in Handles |-> "free"]
  /\ name = [a \in Handles |-> NULL]

Arrive(a) ==          \* malloc in listen_connections
  /\ life[a] = "free"
  /\ Becomes(a, "connecting")
  /\ UNCHANGED name

Refuse(a) ==          \* accept fails, or the connection ends before its login
  /\ life[a] = "connecting" /\ name[a] = NULL
  /\ Becomes(a, "free")
  /\ UNCHANGED name

Admit(a) ==           \* the login is accepted
  /\ life[a] = "connecting" /\ name[a] = NULL
  /\ \E u \in Usernames : name' = [name EXCEPT ![a] = u]
  /\ UNCHANGED life

\* clients[i] = handle: another login may have found the same slot empty.
Enter(a) ==
  /\ life[a] = "connecting" /\ name[a] # NULL
  /\ \/ Becomes(a, "online")
     \/ \E b \in Handles :
          life[b] = "online" /\ life' = [life EXCEPT ![a] = "online", ![b] = "lost"]
  /\ UNCHANGED name

Drop(a) ==            \* no slot is empty, or the listener is cancelled
  /\ life[a] = "connecting"
  /\ Becomes(a, "lost")
  /\ UNCHANGED name

\* disconnect_client_index loads clients[index]: one block at a time.
Leave(a) ==
  /\ life[a] = "online" /\ \A b \in Handles : life[b] # "leaving"
  /\ Becomes(a, "leaving")
  /\ UNCHANGED name

\* clients[index] = NULL, when the slot has been overwritten since it was loaded.
Clear(a) ==
  /\ life[a] = "online" /\ \E b \in Handles : life[b] = "leaving"
  /\ Becomes(a, "lost")
  /\ UNCHANGED name

Close(a) ==           \* close_client
  /\ life[a] = "leaving"
  /\ Becomes(a, "free")
  /\ name' = [name EXCEPT ![a] = NULL]

Abandon(a) ==         \* the reader is cancelled in disconnect_client_index
  /\ life[a] = "leaving"
  /\ Becomes(a, "online") \/ Becomes(a, "lost")
  /\ UNCHANGED name

\* Every step changes the block it is about.
Next == \E a \in Handles :
  /\ life'[a] # life[a] \/ name'[a] # name[a]
  /\ \/ Arrive(a) \/ Refuse(a) \/ Admit(a) \/ Enter(a) \/ Drop(a)
     \/ Leave(a) \/ Clear(a) \/ Close(a) \/ Abandon(a)

Spec == Init /\ [][Next]_vars
=============================================================================
