----------------------------- MODULE ServerProofs -----------------------------
(***************************************************************************)
(* Proofs, for any number of slots, handles, usernames and login threads,  *)
(* of the safety properties of ServerProperties.                           *)
(***************************************************************************)
EXTENDS ServerProperties, TLAPS

USE HostsAssumption, NullAssumption, ThreadAssumption

LEMMA InitTypes == Init => TypeOK /\ IndexInv
<1> SUFFICES ASSUME Init PROVE TypeOK /\ IndexInv
  OBVIOUS
<1>1. /\ FirstLabel(Listener) = "malloc" /\ FirstLabel(Reader) = "poll"
      /\ FirstLabel(Writer) = "stdin" /\ FirstLabel(Main) = "wait"
      /\ \A t \in LoginThreads : FirstLabel(t) = "none"
  BY DEF FirstLabel, Disconnectors
<1>2. pc \in [Threads -> Labels] /\ LabelsOK
  BY <1>1 DEF Init, LabelsOK, Threads, Disconnectors, Labels, ListenerLabels, LoginLabels,
    ReaderLabels, WriterLabels, MainLabels, DisconnectLabels
<1>6. IndexInv
  BY <1>1 DEF Init, IndexInv, Indexing, Critical, Threads, Disconnectors
<1>0. 0 \in Int
  OBVIOUS
<1>3. RegistryOK
  BY <1>0, Zenon DEF Init, RegistryOK
<1>4. LocalsOK
  BY DEF Init, LocalsOK
<1>5. ControlOK
  BY DEF Init, ControlOK
<1> QED BY <1>1, <1>2, <1>3, <1>4, <1>5, <1>6 DEF TypeOK

-----------------------------------------------------------------------------
(* Types: one lemma for each group of actions. *)

\* What an update of the table, torn or not, can leave in it.
LEMMA UpdatedTypes ==
  ASSUME RegistryOK, NEW new \in SUBSET Handles
  PROVE  Updated(new) \subseteq SUBSET Handles
BY DEF Updated, RegistryOK

\* HASH_FIND_STR gives a handle or the null pointer.
LEMMA FindTypes ==
  ASSUME RegistryOK, LocalsOK, NEW t \in Threads, NEW name
  PROVE  Find(t, name) \subseteq Handles \cup {NULL}
<1>1. {hnd[u] : u \in {v \in Threads \ {t} : Updating(v)}} \subseteq Handles \cup {NULL}
  BY DEF LocalsOK
<1> QED BY <1>1 DEF Find, RegistryOK

LEMMA ListenTypes ==
  ASSUME TypeOK, IndexInv,
         \/ Malloc \/ AcceptFails \/ Accept \/ ListenerCancelled
         \/ \E t \in LoginThreads : Spawn(t)
  PROVE  TypeOK' /\ IndexInv'
<1> USE DEF TypeOK, Malloc, AcceptFails, Accept, ListenerCancelled, Spawn, Goto, close_client,
  shared, registry, blocks, control
<1>1. pc' \in [Threads -> Labels] /\ LabelsOK'
  BY DEF LabelsOK, ListenerLabels, LoginLabels, Threads, Disconnectors, Labels
<1>2. IndexInv'
  BY DEF IndexInv, Indexing, Critical, Threads, LocalsOK
<1>3. RegistryOK'
  BY DEF RegistryOK
<1>4. LocalsOK'
  BY DEF LocalsOK, RegistryOK, Threads
<1>5. ControlOK'
  BY DEF ControlOK
<1> QED BY <1>1, <1>2, <1>3, <1>4, <1>5

LEMMA LoginTypes ==
  ASSUME TypeOK, IndexInv, NEW t \in LoginThreads, Login(t)
  PROVE  TypeOK' /\ IndexInv'
<1> USE DEF TypeOK, Login, LoginEof, LoginAccepted, LoginRefused, Goto, EndThread, close_client,
  vars, registry, control
<1>1. pc' \in [Threads -> Labels] /\ LabelsOK'
  BY DEF LabelsOK, LoginLabels, Threads, Disconnectors, Labels
<1>2. IndexInv'
  BY DEF IndexInv, Indexing, Critical, Threads, LocalsOK
<1>3. RegistryOK'
  BY DEF RegistryOK
<1>4. LocalsOK'
  BY DEF LocalsOK, RegistryOK, Threads
<1>5. ControlOK'
  BY DEF ControlOK
<1> QED BY <1>1, <1>2, <1>3, <1>4, <1>5

LEMMA AddUserTypes ==
  ASSUME TypeOK, IndexInv, HolderInv, NEW t \in LoginThreads, add_user(t)
  PROVE  TypeOK' /\ IndexInv'
<1> USE DEF TypeOK, add_user, AddUser, AddBegin, AddEnd, FindSlot, TakeSlot, LoadInc, StoreInc,
  Goto, EndThread, is_client_active, registry, blocks, control
<1>1. pc' \in [Threads -> Labels] /\ LabelsOK'
  BY DEF LabelsOK, LoginLabels, Threads, Disconnectors, Labels
<1>2. IndexInv'
  BY DEF IndexInv, Indexing, Critical, Threads, Slots, LocalsOK
<1>3. RegistryOK'
  <2>1. CASE AddEnd(t)
    <3>1. hnd[t] \in Handles
      BY <2>1 DEF HolderInv, Holders, HolderLabels, RegistryOK, Threads
    <3>2. Updated(clients_table \cup {hnd[t]}) \subseteq SUBSET Handles
      BY <3>1, UpdatedTypes DEF RegistryOK
    <3> QED BY <2>1, <3>2 DEF RegistryOK
  <2>2. CASE AddBegin(t)
    BY <2>2 DEF RegistryOK
  <2>3. CASE FindSlot(t) \/ TakeSlot(t) \/ LoadInc(t) \/ StoreInc(t)
    BY <2>3 DEF RegistryOK, LocalsOK, Threads
  <2> QED BY <2>1, <2>2, <2>3
<1>4. LocalsOK'
  BY DEF LocalsOK, RegistryOK, Threads
<1>5. ControlOK'
  BY DEF ControlOK
<1> QED BY <1>1, <1>2, <1>3, <1>4, <1>5

LEMMA DisconnectTypes ==
  ASSUME TypeOK, IndexInv, NEW t \in Disconnectors, disconnect_client_index(t)
  PROVE  /\ pc' \in [Threads -> Labels] /\ LabelsOK'
         /\ IndexInv' /\ RegistryOK' /\ LocalsOK'
<1> USE DEF TypeOK, disconnect_client_index, Lock, CheckSlot, ClearSlot, DelBegin, DelEnd, Close,
  LoadDec, StoreDec, Unlock, Goto, is_client_active, close_client, registry, blocks
<1>1. pc' \in [Threads -> Labels] /\ LabelsOK'
  BY DEF LabelsOK, ReaderLabels, WriterLabels, MainLabels, DisconnectLabels, ReturnPc,
         Threads, Disconnectors, Labels
<1>2. IndexInv'
  BY DEF IndexInv, Indexing, Critical, Threads, Slots, LocalsOK, ReturnPc, ReturnIdx
<1>3. RegistryOK'
  <2>1. CASE DelEnd(t)
    <3>1. Updated(clients_table \ {hnd[t]}) \subseteq SUBSET Handles
      BY UpdatedTypes DEF RegistryOK
    <3> QED BY <2>1, <3>1 DEF RegistryOK
  <2>2. CASE DelBegin(t)
    BY <2>2 DEF RegistryOK
  <2>3. CASE Lock(t) \/ CheckSlot(t) \/ ClearSlot(t) \/ Close(t)
    BY <2>3 DEF RegistryOK, LocalsOK, Threads
  <2>4. CASE LoadDec(t) \/ StoreDec(t) \/ Unlock(t)
    BY <2>4 DEF RegistryOK, LocalsOK, Threads
  <2> QED BY <2>1, <2>2, <2>3, <2>4
<1>4. LocalsOK'
  <2>1. CASE CheckSlot(t)
    BY <2>1 DEF LocalsOK, RegistryOK, IndexInv, Indexing, Critical, Threads
  <2>2. CASE LoadDec(t) \/ StoreDec(t)
    BY <2>2 DEF LocalsOK, RegistryOK, Threads
  <2>3. CASE Unlock(t)
    <3>1. ReturnIdx(t) \in 0 .. MAX_HOSTS
      BY <2>3 DEF IndexInv, Indexing, Critical, Slots, Threads, ReturnIdx
    <3> QED BY <2>3, <3>1 DEF LocalsOK
  <2>4. CASE Lock(t) \/ ClearSlot(t) \/ DelBegin(t) \/ DelEnd(t) \/ Close(t)
    BY <2>4 DEF LocalsOK
  <2> QED BY <2>1, <2>2, <2>3, <2>4
<1> QED BY <1>1, <1>2, <1>3, <1>4

LEMMA ReaderTypes ==
  ASSUME TypeOK, IndexInv, RecvData \/ RecvOrphan \/ ReaderLocal
  PROVE  TypeOK' /\ IndexInv'
<1> USE DEF TypeOK, ReaderLocal, ReaderSleeps, ReaderPolls, ReaderBuilds, ReaderSets, ReaderSelects,
  ReaderScans, RecvBegin, RecvEof, Dropped, Addressed, Forward, NullDereference, RecvData, RecvReadable, RecvOrphan, Receives, Ended,
  ReaderCancelled, Goto, ReaderStep, ReadersSlot, Dereferences, vars, shared, registry, blocks, control
<1>1. pc' \in [Threads -> Labels] /\ LabelsOK'
  BY DEF LabelsOK, ReaderLabels, DisconnectLabels, Threads, Disconnectors, Labels
<1>2. IndexInv'
  BY DEF IndexInv, Indexing, Critical, Threads, Disconnectors, Slots, LocalsOK
<1>3. RegistryOK'
  BY DEF RegistryOK
<1>4. LocalsOK'
  <2>1. CASE Addressed
    BY <2>1, FindTypes DEF LocalsOK, Threads, Disconnectors
  <2>2. CASE ReaderPolls \/ ReaderBuilds \/ ReaderSets \/ ReaderScans
    BY <2>2 DEF LocalsOK, IndexInv, Indexing, Slots, Threads, Disconnectors
  <2>3. CASE RecvBegin
    BY <2>3 DEF LocalsOK, RegistryOK, IndexInv, Indexing, Threads, Disconnectors
  <2>4. CASE Dropped \/ Forward
    BY <2>4 DEF LocalsOK, IndexInv, Indexing, Slots, Threads, Disconnectors
  <2>5. CASE \/ ReaderSleeps \/ ReaderSelects \/ RecvEof \/ RecvReadable \/ RecvData \/ RecvOrphan
             \/ NullDereference \/ ReaderCancelled
    BY <2>5 DEF LocalsOK
  <2> QED BY <2>1, <2>2, <2>3, <2>4, <2>5
<1>5. ControlOK'
  <2>1. CASE ReaderSets
    BY <2>1 DEF ControlOK, RegistryOK, IndexInv, Indexing, Threads, Disconnectors
  <2>2. CASE ReaderSelects
    BY <2>2 DEF ControlOK
  <2>3. CASE ~ReaderSets /\ ~ReaderSelects
    BY <2>3 DEF ControlOK
  <2> QED BY <2>1, <2>2, <2>3
<1> QED BY <1>1, <1>2, <1>3, <1>4, <1>5

LEMMA WriterTypes ==
  ASSUME TypeOK, IndexInv,
         Notify \/ FindClient \/ End \/ \E name \in Usernames : Kick(name)
  PROVE  TypeOK' /\ IndexInv'
<1> USE DEF TypeOK, Notify, FindClient, End, Kick, Goto, shared, registry, blocks, control
<1>1. pc' \in [Threads -> Labels] /\ LabelsOK'
  BY DEF LabelsOK, WriterLabels, DisconnectLabels, Threads, Disconnectors, Labels
<1>2. IndexInv'
  BY DEF IndexInv, Indexing, Critical, Threads, Disconnectors, Slots, LocalsOK
<1>3. RegistryOK'
  BY DEF RegistryOK
<1>4. LocalsOK'
  <2>1. CASE \E name \in Usernames : Kick(name)
    BY <2>1, FindTypes DEF LocalsOK, Threads, Disconnectors
  <2>2. CASE Notify \/ FindClient \/ End
    BY <2>2 DEF LocalsOK, Threads, Disconnectors
  <2> QED BY <2>1, <2>2
<1>5. ControlOK'
  BY DEF ControlOK
<1> QED BY <1>1, <1>2, <1>3, <1>4, <1>5

LEMMA MainTypes ==
  ASSUME TypeOK, IndexInv, CancelThreads \/ Sweep \/ Exit
  PROVE  TypeOK' /\ IndexInv'
<1> USE DEF TypeOK, CancelThreads, Sweep, Exit, Goto, shared, registry, blocks, control
<1>1. pc' \in [Threads -> Labels] /\ LabelsOK'
  BY DEF LabelsOK, MainLabels, DisconnectLabels, Threads, Disconnectors, Labels
<1>2. IndexInv'
  BY DEF IndexInv, Indexing, Critical, Threads, Disconnectors, Slots, LocalsOK
<1>3. RegistryOK'
  BY DEF RegistryOK
<1>4. LocalsOK'
  BY DEF LocalsOK, Threads, Disconnectors
<1>5. ControlOK'
  BY DEF ControlOK
<1> QED BY <1>1, <1>2, <1>3, <1>4, <1>5

\* All groups together.
LEMMA TypesStep ==
  ASSUME TypeOK, IndexInv, HolderInv, [Next]_vars
  PROVE  TypeOK' /\ IndexInv'
<1>1. CASE \/ Malloc \/ AcceptFails \/ Accept \/ ListenerCancelled
           \/ \E t \in LoginThreads : Spawn(t)
  BY <1>1, ListenTypes
<1>2. CASE \E t \in LoginThreads : Login(t) \/ add_user(t)
  BY <1>2, LoginTypes, AddUserTypes
<1>3. CASE read_clients
  <2>1. CASE RecvData \/ RecvOrphan \/ ReaderLocal
    BY <2>1, ReaderTypes
  <2>2. CASE ReaderDisconnects
    BY <2>2, DisconnectTypes DEF ReaderDisconnects, Closes, Disconnectors, TypeOK, ControlOK, control
  <2> QED BY <1>3, <2>1, <2>2 DEF read_clients
<1>4. CASE write_clients \/ End \/ \E name \in Usernames : Kick(name)
  <2>1. CASE Notify \/ FindClient \/ End \/ \E name \in Usernames : Kick(name)
    BY <2>1, WriterTypes
  <2>2. CASE WriterDisconnects
    BY <2>2, DisconnectTypes DEF WriterDisconnects, Closes, Disconnectors, TypeOK, ControlOK, control
  <2> QED BY <1>4, <2>1, <2>2 DEF write_clients
<1>5. CASE main
  <2>1. CASE CancelThreads \/ Sweep \/ Exit
    BY <2>1, MainTypes
  <2>2. CASE MainDisconnects
    BY <2>2, DisconnectTypes DEF MainDisconnects, Closes, Disconnectors, TypeOK, ControlOK, control
  <2> QED BY <1>5, <2>1, <2>2 DEF main
<1>6. CASE \E a \in Handles : PeerCloses(a)
  BY <1>6 DEF PeerCloses, TypeOK, RegistryOK, LocalsOK, ControlOK, LabelsOK, IndexInv, registry, control
<1>7. CASE \E t \in Threads : BrokenPipe(t)
  BY <1>7 DEF BrokenPipe, TypeOK, RegistryOK, LocalsOK, ControlOK, LabelsOK, IndexInv,
    shared, registry, blocks, control
<1>8. CASE UNCHANGED vars
  BY <1>8 DEF vars, TypeOK, RegistryOK, LocalsOK, ControlOK, LabelsOK, IndexInv
<1> QED BY <1>1, <1>2, <1>3, <1>4, <1>5, <1>6, <1>7, <1>8 DEF Next

-----------------------------------------------------------------------------
(* The ownership of blocks: one lemma for each group of actions. *)

Blocks == LockInv /\ HolderInv /\ DisconnectInv /\ SlotsLive
Ownership == Blocks /\ TableInv

LEMMA InitOwnership == Init => Ownership
<1> SUFFICES ASSUME Init PROVE Ownership
  OBVIOUS
<1>1. /\ FirstLabel(Listener) = "malloc" /\ FirstLabel(Reader) = "poll"
      /\ FirstLabel(Writer) = "stdin" /\ FirstLabel(Main) = "wait"
      /\ \A t \in LoginThreads : FirstLabel(t) = "none"
  BY DEF FirstLabel, Disconnectors
<1>2. \A t \in Threads : pc[t] \in {"malloc", "poll", "stdin", "wait", "none"}
  BY <1>1 DEF Init, Threads, Disconnectors
<1>3. Holders = {}
  BY <1>2 DEF Holders, HolderLabels
<1>4. LockInv /\ HolderInv /\ DisconnectInv
  BY <1>2, <1>3 DEF LockInv, HolderInv, DisconnectInv, Critical, Detached, Threads
<1>5. SlotsLive
  BY DEF Init, SlotsLive
<1>6. TableInv
  BY <1>2 DEF Init, TableInv, Occupied
<1> QED BY <1>4, <1>5, <1>6 DEF Ownership, Blocks

\* A step of one of the three disconnecting threads that leaves the registry
\* alone and does not lead into the critical section.
LEMMA LocalStep ==
  ASSUME Ownership, TypeOK, TypeOK', NEW t \in Disconnectors, pc'[t] \notin Critical,
         \A u \in Threads \ {t} : pc'[u] = pc[u] /\ hnd'[u] = hnd[u] /\ idx'[u] = idx[u],
         UNCHANGED <<heap, clients, clients_table, hash_torn, lock_disconnect>>
  PROVE  Ownership'
<1>1. t \in Threads /\ pc'[t] \notin HolderLabels /\ pc[t] \notin HolderLabels
  BY DEF TypeOK, LabelsOK, HolderLabels, ReaderLabels, WriterLabels, MainLabels,
    DisconnectLabels, Disconnectors, Threads
<1>2. Holders' = Holders /\ t \notin Holders
  BY <1>1 DEF Holders
<1>3. Occupied' = Occupied
  BY DEF Occupied
<1>4. LockInv'
  BY DEF Ownership, Blocks, LockInv, Disconnectors, Threads
<1>5. HolderInv'
  BY <1>2, <1>3 DEF Ownership, Blocks, HolderInv, Holders
<1>6. DisconnectInv'
  <2> SUFFICES ASSUME NEW d \in Disconnectors, pc'[d] \in Detached \cup {"clear_slot"}
               PROVE  /\ hnd'[d] \in heap' /\ \A u \in Holders' : hnd'[u] # hnd'[d]
                      /\ pc'[d] = "clear_slot" => \A i \in Slots : clients'[i] = hnd'[d] => i = idx'[d]
                      /\ pc'[d] \in Detached => hnd'[d] \notin Occupied'
    BY DEF DisconnectInv
  <2>1. d # t /\ d \in Threads
    BY DEF Critical, Detached, Threads
  <2> QED BY <1>2, <1>3, <2>1 DEF Ownership, Blocks, DisconnectInv, Holders
<1>7. SlotsLive'
  BY DEF Ownership, Blocks, SlotsLive
<1>8. TableInv'
  BY <1>1, <1>3 DEF Ownership, TableInv, HolderLabels, Critical
<1> QED BY <1>4, <1>5, <1>6, <1>7, <1>8 DEF Ownership, Blocks

LEMMA MallocOwnership ==
  ASSUME Ownership, TypeOK, TypeOK', Malloc
  PROVE  Ownership'
<1> USE DEF Ownership, Blocks
<1>1. PICK a \in Handles \ heap : heap' = heap \cup {a} /\ hnd' = [hnd EXCEPT ![Listener] = a]
  BY DEF Malloc
<1>2. /\ pc' = [pc EXCEPT ![Listener] = "accept"] /\ pc[Listener] = "malloc"
      /\ UNCHANGED <<clients, clients_table, hash_torn, lock_disconnect, idx>>
  BY DEF Malloc, Goto, registry
<1>3. Listener \in Threads /\ Listener \notin Disconnectors
  BY DEF Threads
<1>4. Holders' = Holders \cup {Listener} /\ Listener \notin Holders
  BY <1>2, <1>3 DEF Holders, HolderLabels, TypeOK
<1>5. Occupied' = Occupied /\ Occupied \subseteq heap
  BY <1>2 DEF Occupied, SlotsLive
<1>6. \A u \in Holders : u # Listener /\ u \in Threads /\ hnd[u] \in heap /\ hnd'[u] = hnd[u]
  BY <1>1, <1>4 DEF HolderInv, Holders, TypeOK, LocalsOK
<1>7. hnd'[Listener] = a
  BY <1>1, <1>3 DEF TypeOK, LocalsOK
<1>8. \A d \in Disconnectors : d \in Threads /\ pc'[d] = pc[d] /\ hnd'[d] = hnd[d] /\ idx'[d] = idx[d]
  BY <1>1, <1>2, <1>3 DEF Threads, TypeOK, LocalsOK
<1>9. LockInv'
  BY <1>2, <1>8 DEF LockInv
<1>10. HolderInv'
  BY <1>1, <1>4, <1>5, <1>6, <1>7 DEF HolderInv
<1>11. DisconnectInv'
  BY <1>1, <1>2, <1>4, <1>5, <1>6, <1>7, <1>8 DEF DisconnectInv
<1>12. SlotsLive'
  BY <1>1, <1>2 DEF SlotsLive
<1>13. TableInv'
  BY <1>1, <1>2, <1>3, <1>5, <1>7 DEF TableInv, TypeOK, LocalsOK
<1> QED BY <1>9, <1>10, <1>11, <1>12, <1>13

\* A step of a login thread or the listener that leaves the slots and the mutex
\* alone: it keeps its block, or gives it up and possibly frees it.
LEMMA HolderStep ==
  ASSUME Blocks, TypeOK, TypeOK', NEW t \in LoginThreads \cup {Listener},
         \A u \in Threads \ {t} : pc'[u] = pc[u] /\ hnd'[u] = hnd[u] /\ idx'[u] = idx[u],
         UNCHANGED <<clients, lock_disconnect>>,
         \/ /\ pc[t] \in HolderLabels /\ pc'[t] \in HolderLabels
            /\ hnd'[t] = hnd[t] /\ heap' = heap
         \/ /\ pc'[t] \notin HolderLabels
            /\ heap' = heap \/ (pc[t] \in HolderLabels /\ heap' = heap \ {hnd[t]})
  PROVE  Blocks'
<1> USE DEF Blocks
<1>1. t \in Threads /\ t \notin Disconnectors
  BY DEF Threads
<1>2. \A u \in Holders' : u \in Holders /\ hnd'[u] = hnd[u]
  BY <1>1 DEF Holders
<1>3. Occupied' = Occupied
  BY DEF Occupied
<1>4. \A a \in heap \ heap' : t \in Holders /\ a = hnd[t] /\ t \notin Holders'
  BY <1>1 DEF Holders
<1>5. heap' \subseteq heap
  OBVIOUS
<1>6. \A d \in Disconnectors : d \in Threads /\ pc'[d] = pc[d] /\ hnd'[d] = hnd[d] /\ idx'[d] = idx[d]
  BY <1>1 DEF Threads
<1>7. LockInv'
  BY <1>6 DEF LockInv
<1>8. HolderInv'
  BY <1>2, <1>3, <1>4 DEF HolderInv
<1>9. DisconnectInv'
  BY <1>2, <1>3, <1>4, <1>6 DEF DisconnectInv
<1>10. SlotsLive'
  <2>1. \A i \in Slots : clients[i] # NULL => clients[i] \in Occupied
    BY DEF Occupied
  <2>2. \A i \in Slots : clients[i] # NULL => clients[i] \in heap'
    BY <1>4, <2>1 DEF SlotsLive, HolderInv
  <2> QED BY <2>2 DEF SlotsLive
<1> QED BY <1>7, <1>8, <1>9, <1>10

LEMMA ListenOwnership ==
  ASSUME Ownership, TypeOK, TypeOK', AcceptFails \/ Accept \/ ListenerCancelled
  PROVE  Ownership'
<1>1. Listener \in Threads /\ pc[Listener] = "accept" /\ Listener \in Holders
  BY DEF AcceptFails, Accept, ListenerCancelled, Threads, Holders, HolderLabels
<1>2. Blocks'
  <2>1. CASE Accept
    BY <1>1, <2>1, HolderStep
      DEF Accept, Ownership, Goto, shared, registry, blocks, HolderLabels, TypeOK
  <2>2. CASE AcceptFails
    <3>1. heap' = heap \ {hnd[Listener]} /\ pc'[Listener] = "malloc"
      BY <1>1, <2>2 DEF AcceptFails, Goto, close_client, TypeOK
    <3>2. \A u \in Threads \ {Listener} : pc'[u] = pc[u] /\ hnd'[u] = hnd[u] /\ idx'[u] = idx[u]
      BY <2>2 DEF AcceptFails, Goto, TypeOK, LocalsOK
    <3> QED BY <1>1, <2>2, <3>1, <3>2, HolderStep DEF AcceptFails, Ownership, registry, HolderLabels
  <2>3. CASE ListenerCancelled
    <3>1. heap' = heap /\ pc'[Listener] = "cancelled" /\ hnd'[Listener] = hnd[Listener]
      BY <1>1, <2>3 DEF ListenerCancelled, Goto, shared, blocks, TypeOK
    <3>2. \A u \in Threads \ {Listener} : pc'[u] = pc[u] /\ hnd'[u] = hnd[u] /\ idx'[u] = idx[u]
      BY <2>3 DEF ListenerCancelled, Goto, TypeOK
    <3>3. UNCHANGED <<clients, lock_disconnect>>
      BY <2>3 DEF ListenerCancelled, shared, registry
    <3> QED BY <1>1, <3>1, <3>2, <3>3, HolderStep DEF Ownership, HolderLabels
  <2> QED BY <2>1, <2>2, <2>3
<1>3. TableInv'
  <2>1. CASE Accept \/ ListenerCancelled
    BY <1>1, <2>1
      DEF Accept, ListenerCancelled, Ownership, Goto, shared, registry, blocks, TypeOK, TableInv, Occupied
  <2>2. CASE AcceptFails
    BY <1>1, <2>2
      DEF AcceptFails, Ownership, Goto, close_client, registry, TypeOK, LocalsOK, TableInv, Occupied
  <2> QED BY <2>1, <2>2
<1> QED BY <1>2, <1>3 DEF Ownership

\* The listener hands its block to a new login thread.
LEMMA SpawnOwnership ==
  ASSUME Ownership, TypeOK, TypeOK', NEW t \in LoginThreads, Spawn(t)
  PROVE  Ownership'
<1> USE DEF Ownership, Blocks
<1>1. /\ pc[Listener] = "spawn" /\ pc[t] = "none"
      /\ pc' = [pc EXCEPT ![Listener] = "malloc", ![t] = "login"]
      /\ hnd' = [hnd EXCEPT ![Listener] = NULL, ![t] = hnd[Listener]]
  BY DEF Spawn
<1>13. /\ heap' = heap /\ clients' = clients /\ clients_table' = clients_table
       /\ hash_torn' = hash_torn /\ lock_disconnect' = lock_disconnect /\ idx' = idx
  BY DEF Spawn, shared, registry, blocks
<1>2. /\ Listener \in Threads /\ t \in Threads /\ t # Listener
      /\ Listener \notin Disconnectors /\ t \notin Disconnectors
  BY DEF Threads
<1>3. /\ pc'[Listener] = "malloc" /\ pc'[t] = "login" /\ hnd'[t] = hnd[Listener]
      /\ \A u \in Threads \ {t, Listener} : pc'[u] = pc[u] /\ hnd'[u] = hnd[u]
  BY <1>1, <1>2 DEF TypeOK, LocalsOK
<1>4. Listener \in Holders /\ t \notin Holders
  BY <1>1, <1>2 DEF Holders, HolderLabels
<1>5. ASSUME NEW u \in Holders', u # t
      PROVE  u \in Holders /\ u # Listener /\ hnd'[u] = hnd[u]
  <2>0. u \in Threads /\ pc'[u] \in HolderLabels
    BY DEF Holders
  <2>1. u # Listener
    BY <1>3, <2>0 DEF HolderLabels
  <2>2. pc'[u] = pc[u] /\ hnd'[u] = hnd[u]
    BY <1>3, <1>5, <2>0, <2>1
  <2> QED BY <2>0, <2>1, <2>2 DEF Holders
<1>6. Occupied' = Occupied
  BY <1>13 DEF Occupied
<1>7. \A d \in Disconnectors : d \in Threads /\ pc'[d] = pc[d] /\ hnd'[d] = hnd[d] /\ idx'[d] = idx[d]
  <2>1. \A d \in Disconnectors : d \in Threads \ {t, Listener}
    BY <1>2 DEF Threads
  <2> QED BY <1>3, <1>13, <2>1
<1>8. LockInv'
  BY <1>7, <1>13 DEF LockInv
<1>9. HolderInv'
  <2>1. \A u \in Holders' : hnd'[u] \in heap /\ hnd'[u] \notin Occupied
    BY <1>3, <1>4, <1>5 DEF HolderInv
  <2>2. ASSUME NEW u \in Holders', NEW v \in Holders', hnd'[u] = hnd'[v]
        PROVE  u = v
    BY <1>3, <1>4, <1>5, <2>2 DEF HolderInv
  <2> QED BY <1>6, <1>13, <2>1, <2>2 DEF HolderInv
<1>10. DisconnectInv'
  <2>1. \A d \in Disconnectors : pc[d] \in Detached \cup {"clear_slot"} =>
          \A u \in Holders' : hnd'[u] # hnd[d]
    BY <1>3, <1>4, <1>5 DEF DisconnectInv
  <2> QED BY <1>6, <1>7, <1>13, <2>1 DEF DisconnectInv
<1>11. SlotsLive'
  BY <1>13 DEF SlotsLive
<1>12. TableInv'
  <2>1. \A u \in Threads : pc'[u] \in {"accept", "spawn", "login", "close"} =>
          \/ u = t
          \/ u # Listener /\ pc'[u] = pc[u] /\ hnd'[u] = hnd[u]
    BY <1>3
  <2>2. \A u \in Threads : pc'[u] \in {"find_slot", "take_slot"} => pc'[u] = pc[u] /\ hnd'[u] = hnd[u]
    BY <1>3
  <2>3. pc[Listener] = "spawn" /\ hnd'[t] = hnd[Listener]
    BY <1>1, <1>3
  <2> QED BY <1>2, <1>6, <1>13, <2>1, <2>2, <2>3 DEF TableInv
<1> QED BY <1>8, <1>9, <1>10, <1>11, <1>12

LEMMA LoginOwnership ==
  ASSUME Ownership, TypeOK, TypeOK', NEW t \in LoginThreads, Login(t)
  PROVE  Ownership'
<1>1. t \in Threads /\ pc[t] = "login" /\ t \in Holders
  BY DEF Login, LoginEof, LoginAccepted, LoginRefused, Threads, Holders, HolderLabels
<1>2. CASE LoginEof(t)
  <2>1. heap' = heap \ {hnd[t]} /\ pc'[t] = "exit"
    BY <1>1, <1>2 DEF LoginEof, EndThread, Goto, close_client, TypeOK
  <2>2. \A u \in Threads \ {t} : pc'[u] = pc[u] /\ hnd'[u] = hnd[u] /\ idx'[u] = idx[u]
    BY <1>2 DEF LoginEof, EndThread, Goto, TypeOK, LocalsOK
  <2>3. UNCHANGED <<clients, clients_table, hash_torn, lock_disconnect>>
    BY <1>2 DEF LoginEof, registry
  <2>4. Blocks'
    BY <1>1, <2>1, <2>2, <2>3, HolderStep DEF Ownership, HolderLabels
  <2>5. TableInv'
    BY <1>1, <2>1, <2>2, <2>3 DEF Ownership, TableInv, Occupied
  <2> QED BY <2>4, <2>5 DEF Ownership
<1>3. CASE LoginAccepted(t)
  <2>1. heap' = heap /\ pc'[t] = "add_user" /\ hnd'[t] = hnd[t]
    BY <1>1, <1>3 DEF LoginAccepted, Goto, TypeOK
  <2>2. \A u \in Threads \ {t} : pc'[u] = pc[u] /\ hnd'[u] = hnd[u] /\ idx'[u] = idx[u]
    BY <1>3 DEF LoginAccepted, Goto, TypeOK
  <2>3. UNCHANGED <<clients, clients_table, hash_torn, lock_disconnect>>
    BY <1>3 DEF LoginAccepted, registry
  <2>4. Blocks'
    BY <1>1, <2>1, <2>2, <2>3, HolderStep DEF Ownership, HolderLabels
  <2>5. TableInv'
    BY <1>1, <2>1, <2>2, <2>3 DEF Ownership, TableInv, Occupied
  <2> QED BY <2>4, <2>5 DEF Ownership
<1>4. CASE LoginRefused(t)
  BY <1>4 DEF LoginRefused, vars, Ownership, Blocks, LockInv, HolderInv, DisconnectInv, SlotsLive,
    TableInv, Holders, Occupied
<1> QED BY <1>2, <1>3, <1>4 DEF Login

LEMMA AddBeginOwnership ==
  ASSUME Ownership, TypeOK, TypeOK', NEW t \in LoginThreads, AddBegin(t)
  PROVE  Ownership'
<1>1. t \in Threads /\ pc[t] = "add_user" /\ pc'[t] = "hash_add" /\ hnd'[t] = hnd[t] /\ heap' = heap
  BY DEF AddBegin, Goto, blocks, TypeOK, Threads
<1>2. \A u \in Threads \ {t} : pc'[u] = pc[u] /\ hnd'[u] = hnd[u] /\ idx'[u] = idx[u]
  BY DEF AddBegin, Goto, TypeOK
<1>3. UNCHANGED <<clients, clients_table, lock_disconnect>> /\ (hash_torn => hash_torn')
  BY DEF AddBegin
<1>4. Blocks'
  BY <1>1, <1>2, <1>3, HolderStep DEF Ownership, HolderLabels
<1>5. TableInv'
  BY <1>1, <1>2, <1>3 DEF Ownership, TableInv, Occupied
<1> QED BY <1>4, <1>5 DEF Ownership

LEMMA AddEndOwnership ==
  ASSUME Ownership, TypeOK, TypeOK', NEW t \in LoginThreads, AddEnd(t)
  PROVE  Ownership'
<1>1. t \in Threads /\ pc[t] = "hash_add" /\ pc'[t] = "find_slot" /\ hnd'[t] = hnd[t] /\ heap' = heap
  BY DEF AddEnd, Goto, blocks, TypeOK, Threads
<1>2. \A u \in Threads \ {t} : pc'[u] = pc[u] /\ hnd'[u] = hnd[u] /\ idx'[u] = idx[u]
  BY DEF AddEnd, Goto, TypeOK, LocalsOK
<1>3. /\ UNCHANGED <<clients, hash_torn, lock_disconnect>>
      /\ ~hash_torn => clients_table' = clients_table \cup {hnd[t]}
  BY DEF AddEnd, Updated
<1>4. Blocks'
  BY <1>1, <1>2, <1>3, HolderStep DEF Ownership, HolderLabels
<1>5. ASSUME ~hash_torn
      PROVE  /\ hnd[t] \in heap
             /\ \A u \in Threads : pc[u] \in {"accept", "spawn", "login", "close"} => hnd[u] # hnd[t]
  <2>1. t \in Holders /\ hnd[t] \in heap
    BY <1>1 DEF Ownership, Blocks, HolderInv, Holders, HolderLabels
  <2>2. \A u \in Threads : pc[u] \in {"accept", "spawn", "login"} => hnd[u] # hnd[t]
    BY <1>1, <2>1 DEF Ownership, Blocks, HolderInv, Holders, HolderLabels
  <2>3. \A u \in Threads : pc[u] = "close" => u \in Disconnectors
    BY DEF TypeOK, LabelsOK, Threads, ListenerLabels, LoginLabels
  <2>4. \A u \in Threads : pc[u] = "close" => hnd[u] # hnd[t]
    BY <2>1, <2>3 DEF Ownership, Blocks, DisconnectInv, Detached
  <2> QED BY <2>1, <2>2, <2>4
<1>6. TableInv'
  BY <1>1, <1>2, <1>3, <1>5 DEF Ownership, TableInv, Occupied
<1> QED BY <1>4, <1>6 DEF Ownership

LEMMA FindSlotOwnership ==
  ASSUME Ownership, TypeOK, TypeOK', NEW t \in LoginThreads, FindSlot(t)
  PROVE  Ownership'
<1>1. t \in Threads /\ pc[t] = "find_slot" /\ heap' = heap
  BY DEF FindSlot, blocks, Threads
<1>2. \/ pc'[t] \in {"find_slot", "take_slot"} /\ hnd'[t] = hnd[t]
      \/ pc'[t] = "exit"
  BY <1>1 DEF FindSlot, EndThread, Goto, TypeOK
<1>3. \A u \in Threads \ {t} : pc'[u] = pc[u] /\ hnd'[u] = hnd[u] /\ idx'[u] = idx[u]
  BY DEF FindSlot, EndThread, Goto, TypeOK, LocalsOK
<1>4. UNCHANGED <<clients, clients_table, hash_torn, lock_disconnect>>
  BY DEF FindSlot, registry
<1>5. Blocks'
  BY <1>1, <1>2, <1>3, <1>4, HolderStep DEF Ownership, HolderLabels
<1>6. TableInv'
  BY <1>1, <1>2, <1>3, <1>4 DEF Ownership, TableInv, Occupied
<1> QED BY <1>5, <1>6 DEF Ownership

LEMMA CountOwnership ==
  ASSUME Ownership, TypeOK, TypeOK', NEW t \in LoginThreads, LoadInc(t) \/ StoreInc(t)
  PROVE  Ownership'
<1>1. t \in Threads /\ pc'[t] \in {"store_inc", "exit"} /\ heap' = heap
  BY DEF LoadInc, StoreInc, EndThread, Goto, blocks, TypeOK, Threads
<1>2. \A u \in Threads \ {t} : pc'[u] = pc[u] /\ hnd'[u] = hnd[u] /\ idx'[u] = idx[u]
  BY DEF LoadInc, StoreInc, EndThread, Goto, TypeOK, LocalsOK
<1>3. UNCHANGED <<clients, clients_table, hash_torn, lock_disconnect>>
  BY DEF LoadInc, StoreInc, registry
<1>4. Blocks'
  BY <1>1, <1>2, <1>3, HolderStep DEF Ownership, HolderLabels
<1>5. TableInv'
  BY <1>1, <1>2, <1>3 DEF Ownership, TableInv, Occupied
<1> QED BY <1>4, <1>5 DEF Ownership

\* clients[i] = handle, whatever the slot held.
LEMMA TakeSlotOwnership ==
  ASSUME Ownership, TypeOK, IndexInv, TypeOK', NEW t \in LoginThreads, TakeSlot(t)
  PROVE  Ownership'
<1> USE DEF Ownership, Blocks
<1>1. /\ t \in Threads /\ t \notin Disconnectors /\ pc[t] = "take_slot" /\ pc'[t] = "load_inc"
      /\ t \in Holders /\ idx[t] \in Slots
  BY DEF TakeSlot, Goto, TypeOK, Threads, Holders, HolderLabels, IndexInv, Indexing
<1>2. \A u \in Threads \ {t} : pc'[u] = pc[u]
  BY DEF TakeSlot, Goto, TypeOK
<1>3. UNCHANGED <<heap, clients_table, hash_torn, lock_disconnect, idx, hnd>>
  BY DEF TakeSlot, blocks
<1>4. /\ clients'[idx[t]] = hnd[t]
      /\ \A i \in Slots \ {idx[t]} : clients'[i] = clients[i]
  BY <1>1 DEF TakeSlot, TypeOK, RegistryOK
<1>5. hnd[t] \in heap /\ hnd[t] \notin Occupied /\ \A i \in Slots : clients[i] # hnd[t]
  BY <1>1 DEF HolderInv, Occupied, TypeOK, RegistryOK
<1>6. Occupied' \subseteq Occupied \cup {hnd[t]}
  BY <1>4 DEF Occupied
<1>7. \A u \in Holders' : u \in Holders /\ u # t
  BY <1>1, <1>2 DEF Holders, HolderLabels
<1>8. \A u \in Holders' : hnd[u] # hnd[t]
  BY <1>1, <1>7 DEF HolderInv
<1>9. \A d \in Disconnectors : d \in Threads /\ pc'[d] = pc[d]
  BY <1>1, <1>2 DEF Threads
<1>10. \A d \in Disconnectors : pc[d] \in Detached \cup {"clear_slot"} => hnd[d] # hnd[t]
  BY <1>1 DEF DisconnectInv
<1>11. LockInv'
  BY <1>3, <1>9 DEF LockInv
<1>12. HolderInv'
  BY <1>3, <1>6, <1>7, <1>8 DEF HolderInv
<1>13. DisconnectInv'
  <2>1. \A d \in Disconnectors : pc'[d] = "clear_slot" =>
          \A i \in Slots : clients'[i] = hnd'[d] => i = idx'[d]
    BY <1>3, <1>4, <1>9, <1>10 DEF DisconnectInv
  <2> QED BY <1>3, <1>6, <1>7, <1>9, <1>10, <2>1 DEF DisconnectInv
<1>14. SlotsLive'
  BY <1>3, <1>4, <1>5 DEF SlotsLive
<1>15. TableInv'
  BY <1>1, <1>2, <1>3, <1>6 DEF TableInv
<1> QED BY <1>11, <1>12, <1>13, <1>14, <1>15

\* A step inside disconnect_client_index touches no block that a login holds.
LEMMA DisconnectFrame ==
  ASSUME TypeOK, TypeOK', NEW t \in Disconnectors,
         \A u \in Threads \ {t} : pc'[u] = pc[u] /\ hnd'[u] = hnd[u] /\ idx'[u] = idx[u]
  PROVE  /\ t \in Threads /\ t \notin Holders /\ Holders' = Holders
         /\ \A u \in Holders : hnd'[u] = hnd[u]
         /\ \A d \in Disconnectors \ {t} : pc'[d] = pc[d] /\ hnd'[d] = hnd[d] /\ idx'[d] = idx[d]
<1>1. t \in Threads /\ pc'[t] \notin HolderLabels /\ pc[t] \notin HolderLabels
  BY DEF TypeOK, LabelsOK, HolderLabels, ReaderLabels, WriterLabels, MainLabels,
    DisconnectLabels, Disconnectors, Threads
<1>2. Disconnectors \subseteq Threads
  BY DEF Threads
<1> QED BY <1>1, <1>2 DEF Holders

\* Two threads are not in the critical section together.
LEMMA MutualExclusion ==
  ASSUME LockInv, NEW t \in Disconnectors, pc[t] \in Critical
  PROVE  \A d \in Disconnectors \ {t} : pc[d] \notin Critical
BY DEF LockInv

\* A step of the critical section that changes neither the slots nor the heap.
LEMMA QuietStep ==
  ASSUME Blocks, TypeOK, TypeOK', NEW t \in Disconnectors, pc[t] \in Critical,
         \A u \in Threads \ {t} : pc'[u] = pc[u] /\ hnd'[u] = hnd[u] /\ idx'[u] = idx[u],
         UNCHANGED <<heap, clients>>,
         lock_disconnect' = lock_disconnect \/ pc'[t] \notin Critical,
         pc'[t] # "clear_slot",
         pc'[t] \in Detached => pc[t] \in Detached /\ hnd'[t] = hnd[t]
  PROVE  Blocks'
<1> USE DEF Blocks
<1>1. /\ t \in Threads /\ t \notin Holders /\ Holders' = Holders
      /\ \A u \in Holders : hnd'[u] = hnd[u]
      /\ \A d \in Disconnectors \ {t} : pc'[d] = pc[d] /\ hnd'[d] = hnd[d] /\ idx'[d] = idx[d]
  BY DisconnectFrame
<1>2. Occupied' = Occupied
  BY DEF Occupied
<1>3. LockInv'
  BY <1>1, MutualExclusion DEF LockInv
<1>4. HolderInv'
  BY <1>1, <1>2 DEF HolderInv
<1>5. DisconnectInv'
  BY <1>1, <1>2 DEF DisconnectInv
<1>6. SlotsLive'
  BY DEF SlotsLive
<1> QED BY <1>3, <1>4, <1>5, <1>6

LEMMA LockOwnership ==
  ASSUME Ownership, TypeOK, TypeOK', NEW t \in Disconnectors, Lock(t)
  PROVE  Ownership'
<1> USE DEF Ownership, Blocks
<1>1. /\ \A u \in Threads \ {t} : pc'[u] = pc[u] /\ hnd'[u] = hnd[u] /\ idx'[u] = idx[u]
      /\ UNCHANGED <<heap, clients, clients_table, hash_torn>>
      /\ lock_disconnect = NULL /\ lock_disconnect' = t
  BY DEF Lock, Goto, registry, blocks, TypeOK
<1>2. /\ t \in Threads /\ t \notin Holders /\ Holders' = Holders
      /\ \A u \in Holders : hnd'[u] = hnd[u]
      /\ \A d \in Disconnectors \ {t} : pc'[d] = pc[d] /\ hnd'[d] = hnd[d] /\ idx'[d] = idx[d]
  BY <1>1, DisconnectFrame
<1>3. pc'[t] = "check_slot"
  BY <1>2 DEF Lock, Goto, TypeOK
<1>4. \A d \in Disconnectors : pc[d] \notin Critical
  BY <1>1 DEF LockInv, Threads
<1>5. Occupied' = Occupied
  BY <1>1 DEF Occupied
<1>6. LockInv'
  BY <1>1, <1>2, <1>4 DEF LockInv
<1>7. HolderInv'
  BY <1>1, <1>2, <1>5 DEF HolderInv
<1>8. DisconnectInv'
  BY <1>2, <1>3, <1>4 DEF DisconnectInv, Detached, Critical
<1>9. SlotsLive'
  BY <1>1 DEF SlotsLive
<1>10. TableInv'
  BY <1>1, <1>3, <1>5 DEF TableInv
<1> QED BY <1>6, <1>7, <1>8, <1>9, <1>10

LEMMA CheckSlotOwnership ==
  ASSUME Ownership, TypeOK, IndexInv, TypeOK', NEW t \in Disconnectors, CheckSlot(t)
  PROVE  Ownership'
<1> USE DEF Ownership
<1>1. /\ \A u \in Threads \ {t} : pc'[u] = pc[u] /\ hnd'[u] = hnd[u] /\ idx'[u] = idx[u]
      /\ UNCHANGED <<heap, clients, clients_table, hash_torn, lock_disconnect, idx>>
      /\ pc[t] = "check_slot"
  BY DEF CheckSlot, Goto, registry, blocks, TypeOK, LocalsOK
<1>2. /\ t \in Threads /\ t \notin Holders /\ Holders' = Holders
      /\ \A u \in Holders : hnd'[u] = hnd[u]
      /\ \A d \in Disconnectors \ {t} : pc'[d] = pc[d] /\ hnd'[d] = hnd[d] /\ idx'[d] = idx[d]
  BY <1>1, DisconnectFrame
<1>3. Occupied' = Occupied
  BY <1>1 DEF Occupied
<1>4. pc'[t] \in {"clear_slot", "unlock"}
  BY <1>2 DEF CheckSlot, Goto, TypeOK
<1>5. TableInv'
  BY <1>1, <1>3, <1>4 DEF TableInv
<1>6. CASE ~is_client_active(idx[t])
  <2>1. pc'[t] = "unlock"
    BY <1>2, <1>6 DEF CheckSlot, Goto, TypeOK
  <2>2. Blocks'
    BY <1>1, <2>1, QuietStep DEF Critical, Detached
  <2> QED BY <1>5, <2>2
<1>7. CASE is_client_active(idx[t])
  <2> USE DEF Blocks
  <2>1. pc'[t] = "clear_slot" /\ hnd'[t] = clients[idx[t]] /\ clients[idx[t]] # NULL
    BY <1>2, <1>7 DEF CheckSlot, Goto, is_client_active, TypeOK, LocalsOK
  <2>2. idx[t] \in Slots
    BY <1>1, <1>2 DEF IndexInv, Indexing, Critical
  <2>3. hnd'[t] \in heap /\ hnd'[t] \in Occupied
    BY <2>1, <2>2 DEF SlotsLive, Occupied
  <2>4. \A i \in Slots : clients[i] = hnd'[t] => i = idx[t]
    BY <2>1, <2>2 DEF SlotsLive
  <2>5. \A u \in Holders : hnd[u] # hnd'[t]
    BY <2>3 DEF HolderInv
  <2>6. LockInv'
    BY <1>1, <1>2 DEF LockInv, Critical
  <2>7. HolderInv'
    BY <1>1, <1>2, <1>3 DEF HolderInv
  <2>8. DisconnectInv'
    <3>1. \A d \in Disconnectors \ {t} : pc'[d] \notin Detached \cup {"clear_slot"}
      BY <1>1, <1>2, MutualExclusion DEF Critical, Detached
    <3> QED BY <1>1, <1>2, <2>1, <2>3, <2>4, <2>5, <3>1 DEF DisconnectInv, Detached
  <2>9. SlotsLive'
    BY <1>1 DEF SlotsLive
  <2> QED BY <1>5, <2>6, <2>7, <2>8, <2>9
<1> QED BY <1>6, <1>7

LEMMA ClearSlotOwnership ==
  ASSUME Ownership, TypeOK, IndexInv, TypeOK', NEW t \in Disconnectors, ClearSlot(t)
  PROVE  Ownership'
<1> USE DEF Ownership, Blocks
<1>1. /\ \A u \in Threads \ {t} : pc'[u] = pc[u] /\ hnd'[u] = hnd[u] /\ idx'[u] = idx[u]
      /\ UNCHANGED <<heap, clients_table, hash_torn, lock_disconnect, hnd>>
      /\ pc[t] = "clear_slot"
  BY DEF ClearSlot, Goto, blocks, TypeOK
<1>2. /\ t \in Threads /\ t \notin Holders /\ Holders' = Holders
      /\ \A u \in Holders : hnd'[u] = hnd[u]
      /\ \A d \in Disconnectors \ {t} : pc'[d] = pc[d] /\ hnd'[d] = hnd[d] /\ idx'[d] = idx[d]
  BY <1>1, DisconnectFrame
<1>3. pc'[t] = "del_user" /\ idx[t] \in Slots
  BY <1>1, <1>2 DEF ClearSlot, Goto, TypeOK, IndexInv, Indexing, Critical
<1>4. clients'[idx[t]] = NULL /\ \A i \in Slots \ {idx[t]} : clients'[i] = clients[i]
  BY <1>3 DEF ClearSlot, TypeOK, RegistryOK
<1>5. Occupied' \subseteq Occupied
  BY <1>4 DEF Occupied
<1>6. hnd[t] \in heap /\ \A u \in Holders : hnd[u] # hnd[t]
  BY <1>1 DEF DisconnectInv
<1>7. hnd[t] \notin Occupied'
  BY <1>1, <1>4 DEF DisconnectInv, Occupied
<1>8. LockInv'
  BY <1>1, <1>2 DEF LockInv, Critical
<1>9. HolderInv'
  BY <1>1, <1>2, <1>5 DEF HolderInv
<1>10. DisconnectInv'
  <2>1. \A d \in Disconnectors \ {t} : pc'[d] \notin Detached \cup {"clear_slot"}
    BY <1>1, <1>2, MutualExclusion DEF Critical, Detached
  <2> QED BY <1>1, <1>2, <1>3, <1>6, <1>7, <2>1 DEF DisconnectInv
<1>11. SlotsLive'
  BY <1>1, <1>4 DEF SlotsLive
<1>12. TableInv'
  BY <1>1, <1>3, <1>5 DEF TableInv
<1> QED BY <1>8, <1>9, <1>10, <1>11, <1>12

LEMMA DeleteOwnership ==
  ASSUME Ownership, TypeOK, TypeOK', NEW t \in Disconnectors, DelBegin(t) \/ DelEnd(t)
  PROVE  Ownership'
<1> USE DEF Ownership
<1>1. /\ \A u \in Threads \ {t} : pc'[u] = pc[u] /\ hnd'[u] = hnd[u] /\ idx'[u] = idx[u]
      /\ UNCHANGED <<heap, clients, lock_disconnect, hnd>>
      /\ pc[t] \in {"del_user", "hash_del"}
  BY DEF DelBegin, DelEnd, Goto, blocks, TypeOK
<1>2. /\ t \in Threads /\ t \notin Holders /\ Holders' = Holders
      /\ \A u \in Holders : hnd'[u] = hnd[u]
      /\ \A d \in Disconnectors \ {t} : pc'[d] = pc[d] /\ hnd'[d] = hnd[d] /\ idx'[d] = idx[d]
  BY <1>1, DisconnectFrame
<1>3. Occupied' = Occupied
  BY <1>1 DEF Occupied
<1>4. pc'[t] \in {"hash_del", "close"}
  BY <1>2 DEF DelBegin, DelEnd, Goto, TypeOK
<1>5. Blocks'
  BY <1>1, <1>4, QuietStep DEF Critical, Detached
<1>6. CASE DelBegin(t)
  <2>1. pc'[t] = "hash_del" /\ UNCHANGED clients_table /\ (hash_torn => hash_torn')
    BY <1>2, <1>6 DEF DelBegin, Goto, TypeOK
  <2>2. TableInv'
    BY <1>1, <1>3, <2>1 DEF TableInv
  <2> QED BY <1>5, <2>2
<1>7. CASE DelEnd(t)
  <2>1. /\ pc'[t] = "close" /\ pc[t] = "hash_del" /\ UNCHANGED hash_torn
        /\ ~hash_torn => clients_table' = clients_table \ {hnd[t]}
    BY <1>2, <1>7 DEF DelEnd, Goto, Updated, TypeOK
  <2>2. hnd[t] \notin Occupied /\ \A u \in Holders : hnd[u] # hnd[t]
    BY <2>1 DEF Blocks, DisconnectInv, Detached
  <2>3. \A u \in Threads : pc[u] \in {"find_slot", "take_slot"} => hnd[u] # hnd[t]
    BY <2>2 DEF Holders, HolderLabels
  <2>4. TableInv'
    BY <1>1, <1>3, <2>1, <2>2, <2>3 DEF TableInv
  <2> QED BY <1>5, <2>4
<1> QED BY <1>6, <1>7

\* close_client(clienthandle_tmp): the block is freed.
LEMMA CloseOwnership ==
  ASSUME Ownership, TypeOK, TypeOK', NEW t \in Disconnectors, Close(t)
  PROVE  Ownership'
<1> USE DEF Ownership, Blocks
<1>1. /\ \A u \in Threads \ {t} : pc'[u] = pc[u] /\ hnd'[u] = hnd[u] /\ idx'[u] = idx[u]
      /\ UNCHANGED <<clients, clients_table, hash_torn, lock_disconnect, hnd>>
      /\ pc[t] = "close" /\ heap' = heap \ {hnd[t]}
  BY DEF Close, Goto, registry, close_client, TypeOK
<1>2. /\ t \in Threads /\ t \notin Holders /\ Holders' = Holders
      /\ \A u \in Holders : hnd'[u] = hnd[u]
      /\ \A d \in Disconnectors \ {t} : pc'[d] = pc[d] /\ hnd'[d] = hnd[d] /\ idx'[d] = idx[d]
  BY <1>1, DisconnectFrame
<1>3. Occupied' = Occupied
  BY <1>1 DEF Occupied
<1>4. pc'[t] = "load_dec"
  BY <1>2 DEF Close, Goto, TypeOK
<1>5. hnd[t] \notin Occupied /\ \A u \in Holders : hnd[u] # hnd[t]
  BY <1>1 DEF DisconnectInv, Detached
<1>6. LockInv'
  BY <1>1, <1>2 DEF LockInv, Critical
<1>7. HolderInv'
  BY <1>1, <1>2, <1>3, <1>5 DEF HolderInv
<1>8. DisconnectInv'
  <2>1. \A d \in Disconnectors \ {t} : pc'[d] \notin Detached \cup {"clear_slot"}
    BY <1>1, <1>2, MutualExclusion DEF Critical, Detached
  <2> QED BY <1>4, <2>1 DEF DisconnectInv, Detached
<1>9. SlotsLive'
  BY <1>1, <1>5 DEF SlotsLive, Occupied
<1>10. TableInv'
  BY <1>1, <1>2, <1>3, <1>4 DEF TableInv
<1> QED BY <1>6, <1>7, <1>8, <1>9, <1>10

LEMMA LeaveOwnership ==
  ASSUME Ownership, TypeOK, TypeOK', NEW t \in Disconnectors,
         LoadDec(t) \/ StoreDec(t) \/ Unlock(t)
  PROVE  Ownership'
<1> USE DEF Ownership
<1>1. /\ \A u \in Threads \ {t} : pc'[u] = pc[u] /\ hnd'[u] = hnd[u] /\ idx'[u] = idx[u]
      /\ UNCHANGED <<heap, clients, clients_table, hash_torn>>
      /\ pc[t] \in Critical
  BY DEF LoadDec, StoreDec, Unlock, Goto, registry, blocks, TypeOK, LocalsOK, Critical
<1>2. /\ t \in Threads /\ pc'[t] \in {"store_dec", "unlock", "scan", "stdin", "sweep"}
      /\ lock_disconnect' = lock_disconnect \/ pc'[t] \in {"scan", "stdin", "sweep"}
  BY DEF LoadDec, StoreDec, Unlock, ReturnPc, Goto, TypeOK, Threads
<1>3. Blocks'
  BY <1>1, <1>2, QuietStep DEF Critical, Detached
<1>4. Occupied' = Occupied
  BY <1>1 DEF Occupied
<1>5. TableInv'
  BY <1>1, <1>2, <1>4 DEF TableInv
<1> QED BY <1>3, <1>5

LEMMA DisconnectOwnership ==
  ASSUME Ownership, TypeOK, IndexInv, TypeOK', NEW t \in Disconnectors, disconnect_client_index(t)
  PROVE  Ownership'
BY LockOwnership, CheckSlotOwnership, ClearSlotOwnership, DeleteOwnership, CloseOwnership,
   LeaveOwnership DEF disconnect_client_index

LEMMA ReaderOwnership ==
  ASSUME Ownership, TypeOK, TypeOK', RecvData \/ RecvOrphan \/ ReaderLocal
  PROVE  Ownership'
<1> USE DEF ReaderLocal, ReaderSleeps, ReaderPolls, ReaderBuilds, ReaderSets, ReaderSelects,
  ReaderScans, RecvBegin, RecvEof, Dropped, Addressed, Forward, NullDereference, RecvData, RecvReadable, RecvOrphan, Receives, Ended,
  ReaderCancelled, Dereferences, AtCancellationPoint, Goto, ReaderStep, vars, shared, registry, blocks
<1>1. Reader \in Disconnectors /\ Reader \in Threads
  BY DEF Disconnectors, Threads
<1>2. UNCHANGED <<heap, clients, clients_table, hash_torn, lock_disconnect>>
  OBVIOUS
<1>3. \A u \in Threads \ {Reader} : pc'[u] = pc[u] /\ hnd'[u] = hnd[u] /\ idx'[u] = idx[u]
  BY DEF TypeOK, LocalsOK
<1>4. pc'[Reader] \notin Critical
  BY <1>1 DEF TypeOK, Critical
<1> QED BY <1>1, <1>2, <1>3, <1>4, LocalStep

LEMMA WriterOwnership ==
  ASSUME Ownership, TypeOK, TypeOK',
         Notify \/ FindClient \/ End \/ \E name \in Usernames : Kick(name)
  PROVE  Ownership'
<1> USE DEF Notify, FindClient, End, Kick, Goto, shared, registry, blocks
<1>1. Writer \in Disconnectors /\ Writer \in Threads
  BY DEF Disconnectors, Threads
<1>2. UNCHANGED <<heap, clients, clients_table, hash_torn, lock_disconnect>>
  OBVIOUS
<1>3. \A u \in Threads \ {Writer} : pc'[u] = pc[u] /\ hnd'[u] = hnd[u] /\ idx'[u] = idx[u]
  BY DEF TypeOK, LocalsOK
<1>4. pc'[Writer] \notin Critical
  BY <1>1 DEF TypeOK, Critical
<1> QED BY <1>1, <1>2, <1>3, <1>4, LocalStep

LEMMA MainOwnership ==
  ASSUME Ownership, TypeOK, TypeOK', CancelThreads \/ Sweep \/ Exit
  PROVE  Ownership'
<1> USE DEF CancelThreads, Sweep, Exit, Goto, shared, registry, blocks
<1>1. Main \in Disconnectors /\ Main \in Threads
  BY DEF Disconnectors, Threads
<1>2. UNCHANGED <<heap, clients, clients_table, hash_torn, lock_disconnect>>
  OBVIOUS
<1>3. \A u \in Threads \ {Main} : pc'[u] = pc[u] /\ hnd'[u] = hnd[u] /\ idx'[u] = idx[u]
  BY DEF TypeOK, LocalsOK
<1>4. pc'[Main] \notin Critical
  BY <1>1 DEF TypeOK, Critical
<1> QED BY <1>1, <1>2, <1>3, <1>4, LocalStep

\* Nothing that Ownership speaks of changes.
LEMMA StutterOwnership ==
  ASSUME Ownership,
         UNCHANGED <<heap, clients, clients_table, hash_torn, lock_disconnect, pc, idx, hnd>>
  PROVE  Ownership'
BY DEF Ownership, Blocks, LockInv, HolderInv, DisconnectInv, SlotsLive, TableInv, Holders, Occupied

LEMMA OwnershipStep ==
  ASSUME Ownership, TypeOK, IndexInv, TypeOK', [Next]_vars
  PROVE  Ownership'
<1>1. CASE Malloc \/ AcceptFails \/ Accept \/ ListenerCancelled
  BY <1>1, MallocOwnership, ListenOwnership
<1>2. CASE \E t \in LoginThreads : Spawn(t) \/ Login(t)
  BY <1>2, SpawnOwnership, LoginOwnership
<1>3. CASE \E t \in LoginThreads : add_user(t)
  BY <1>3, AddBeginOwnership, AddEndOwnership, FindSlotOwnership, TakeSlotOwnership,
     CountOwnership DEF add_user, AddUser
<1>4. CASE RecvData \/ RecvOrphan \/ ReaderLocal
  BY <1>4, ReaderOwnership
<1>5. CASE Notify \/ FindClient \/ End \/ \E name \in Usernames : Kick(name)
  BY <1>5, WriterOwnership
<1>6. CASE CancelThreads \/ Sweep \/ Exit
  BY <1>6, MainOwnership
<1>7. CASE ReaderDisconnects \/ WriterDisconnects \/ MainDisconnects
  BY <1>7, DisconnectOwnership
     DEF ReaderDisconnects, WriterDisconnects, MainDisconnects, Disconnectors
<1>8. CASE \E a \in Handles : PeerCloses(a)
  BY <1>8, StutterOwnership DEF PeerCloses, registry
<1>9. CASE \E t \in Threads : BrokenPipe(t)
  BY <1>9, StutterOwnership DEF BrokenPipe, shared, registry, blocks
<1>10. CASE UNCHANGED vars
  BY <1>10, StutterOwnership DEF vars
<1> QED BY <1>1, <1>2, <1>3, <1>4, <1>5, <1>6, <1>7, <1>8, <1>9, <1>10
        DEF Next, read_clients, write_clients, main

-----------------------------------------------------------------------------
(* The theorems *)

\* IInv holds in every reachable state, for any number of slots, blocks,
\* usernames and login threads and whatever the administrator may type.
THEOREM Invariance == Spec => []IInv
<1>1. Init => IInv
  BY InitTypes, InitOwnership DEF IInv, Ownership, Blocks
<1>2. IInv /\ [Next]_vars => IInv'
  BY TypesStep, OwnershipStep DEF IInv, Ownership, Blocks
<1> QED BY <1>1, <1>2, PTL DEF Spec

\* Type correctness: every thread keeps to its own function and every loop to
\* the array.
THEOREM TypeCorrectness == Spec => []TypeOK
BY Invariance, PTL DEF IInv

\* The array clients never points to freed memory nor twice to one block
\* (user_handler.c:42, 92).
THEOREM SlotsAreLive == Spec => []SlotsLive
BY Invariance, PTL DEF IInv

\* What the table holds is allocated and covers the slots, as long as no two
\* updates of the table have overlapped (user_handler.c:43, 83).
THEOREM TableIsLive == Spec => []TableLive
<1>1. IInv => TableLive
  BY DEF IInv, TableInv, TableLive
<1> QED BY Invariance, <1>1, PTL

\* No block is freed twice, by the threads that disconnect, the login threads
\* and the listener together (user_handler.c:27).
THEOREM NoBlockFreedTwice == Spec => []NoDoubleFree
<1>1. IInv => NoDoubleFree
  <2> SUFFICES ASSUME IInv PROVE NoDoubleFree
    OBVIOUS
  <2>1. \A t \in Freeing : t \in Holders \/ (t \in Disconnectors /\ pc[t] = "close")
    BY DEF Freeing, Holders, HolderLabels, IInv, TypeOK, LabelsOK, Threads, ListenerLabels, LoginLabels
  <2>2. \A t \in Freeing : hnd[t] \in heap
    BY <2>1 DEF IInv, HolderInv, DisconnectInv, Detached
  <2>3. ASSUME NEW t \in Freeing, NEW u \in Freeing, hnd[t] = hnd[u]
        PROVE  t = u
    <3>1. CASE t \in Holders /\ u \in Holders
      BY <2>3, <3>1 DEF IInv, HolderInv
    <3>2. CASE t \in Holders /\ u \in Disconnectors /\ pc[u] = "close"
      BY <2>3, <3>2 DEF IInv, DisconnectInv, Detached
    <3>3. CASE u \in Holders /\ t \in Disconnectors /\ pc[t] = "close"
      BY <2>3, <3>3 DEF IInv, DisconnectInv, Detached
    <3>4. CASE t \in Disconnectors /\ pc[t] = "close" /\ u \in Disconnectors /\ pc[u] = "close"
      BY <3>4 DEF IInv, LockInv, Critical
    <3> QED BY <2>1, <3>1, <3>2, <3>3, <3>4
  <2> QED BY <2>2, <2>3 DEF NoDoubleFree
<1> QED BY Invariance, <1>1, PTL

\* A login thread leaves the login for add_user in one way only.
LEMMA OnlyAccepted ==
  ASSUME TypeOK, [Next]_vars, NEW t \in LoginThreads, pc[t] = "login", pc'[t] = "add_user"
  PROVE  LoginAccepted(t)
<1> USE DEF TypeOK, Goto
<1>0. t \in Threads /\ t # Listener /\ t \notin Disconnectors
  BY DEF Threads
<1>1. CASE Malloc \/ AcceptFails \/ Accept \/ ListenerCancelled
  BY <1>0, <1>1 DEF Malloc, AcceptFails, Accept, ListenerCancelled
<1>2. CASE \E u \in LoginThreads : Spawn(u)
  BY <1>0, <1>2 DEF Spawn, Threads
<1>3. ASSUME NEW u \in LoginThreads, Login(u)
      PROVE  LoginAccepted(t)
  <2>1. u \in Threads
    BY DEF Threads
  <2> QED BY <1>0, <1>3, <2>1 DEF Login, LoginEof, LoginAccepted, LoginRefused, EndThread, vars
<1>4. CASE \E u \in LoginThreads : add_user(u)
  BY <1>0, <1>4 DEF add_user, AddUser, AddBegin, AddEnd, FindSlot, TakeSlot, LoadInc, StoreInc,
     EndThread, Threads
<1>5. CASE RecvData \/ RecvOrphan \/ ReaderLocal
  BY <1>0, <1>5 DEF RecvData, RecvReadable, RecvOrphan, Receives, Ended, ReaderLocal, ReaderStep,
     ReaderSleeps, ReaderPolls, ReaderBuilds, ReaderSets, ReaderSelects, ReaderScans, RecvBegin,
     RecvEof, Dropped, Addressed, Forward, NullDereference, ReaderCancelled, Disconnectors, vars
<1>6. CASE Notify \/ FindClient \/ End \/ \E name \in Usernames : Kick(name)
  BY <1>0, <1>6 DEF Notify, FindClient, End, Kick, Disconnectors
<1>7. CASE CancelThreads \/ Sweep \/ Exit
  BY <1>0, <1>7 DEF CancelThreads, Sweep, Exit, Disconnectors
<1>8. ASSUME NEW u \in Disconnectors, disconnect_client_index(u)
      PROVE  FALSE
  BY <1>0, <1>8 DEF disconnect_client_index, Lock, CheckSlot, ClearSlot, DelBegin, DelEnd, Close,
     LoadDec, StoreDec, Unlock
<1>9. CASE \/ \E a \in Handles : PeerCloses(a)
           \/ \E u \in Threads : BrokenPipe(u)
           \/ UNCHANGED vars
  BY <1>9 DEF PeerCloses, BrokenPipe, vars
<1> QED BY <1>1, <1>2, <1>3, <1>4, <1>5, <1>6, <1>7, <1>8, <1>9
        DEF Next, read_clients, write_clients, main, ReaderDisconnects, WriterDisconnects,
            MainDisconnects, Disconnectors

\* A login accepted beside no update of the table takes a name that nobody in the
\* array has (main.c:308-330), whatever the other threads are doing to the array.
THEOREM NewNamesAreFresh == Spec => NamesFresh
<1>1. ASSUME IInv, [Next]_vars, NEW t \in LoginThreads, pc[t] = "login", pc'[t] = "add_user",
             ~hash_torn, ~HashBusy(t), NEW a \in Occupied
      PROVE  username[a] # username'[hnd[t]]
  <2>1. LoginAccepted(t)
    BY <1>1, OnlyAccepted DEF IInv
  <2>2. PICK name \in Usernames : NULL \in Find(t, name) /\ username' = [username EXCEPT ![hnd[t]] = name]
    BY <2>1 DEF LoginAccepted
  <2>3. a \in clients_table /\ clients_table \subseteq Handles
    BY <1>1 DEF IInv, TableInv, TypeOK, RegistryOK
  <2>4. \A b \in clients_table : username[b] # name
    BY <1>1, <2>2, <2>3 DEF Find
  <2>5. hnd[t] \in Handles
    BY <1>1 DEF IInv, HolderInv, Holders, HolderLabels, Threads, TypeOK, RegistryOK
  <2>6. username'[hnd[t]] = name
    BY <1>1, <2>2, <2>5 DEF IInv, TypeOK, RegistryOK
  <2> QED BY <2>3, <2>4, <2>6
<1>2. IInv /\ [Next]_vars =>
        [\A t \in LoginThreads :
           pc[t] = "login" /\ pc'[t] = "add_user" /\ ~hash_torn /\ ~HashBusy(t)
             => \A a \in Occupied : username[a] # username'[hnd[t]]]_vars
  BY <1>1
<1> QED BY Invariance, <1>2, PTL DEF Spec, NamesFresh

-----------------------------------------------------------------------------
(***************************************************************************)
(* The server implements Sessions: every step of a thread is a step in the *)
(* life of one block, or changes no life at all.                           *)
(***************************************************************************)

-----------------------------------------------------------------------------
(* Names: a block has none until its login is accepted.                    *)

Unnamed == {"accept", "spawn", "login"}
Named == {"add_user", "hash_add", "find_slot", "take_slot"}

NamedInv ==
  /\ \A a \in Handles \ heap : username[a] = NULL
  /\ \A t \in Threads : pc[t] \in Unnamed => username[hnd[t]] = NULL
  /\ \A t \in Threads : pc[t] \in Named => username[hnd[t]] # NULL

SInv == IInv /\ NamedInv

LEMMA InitNamed == Init => NamedInv
<1> SUFFICES ASSUME Init PROVE NamedInv
  OBVIOUS
<1>1. /\ FirstLabel(Listener) = "malloc" /\ FirstLabel(Reader) = "poll"
      /\ FirstLabel(Writer) = "stdin" /\ FirstLabel(Main) = "wait"
      /\ \A t \in LoginThreads : FirstLabel(t) = "none"
  BY DEF FirstLabel, Disconnectors
<1>2. \A t \in Threads : pc[t] \in {"malloc", "poll", "stdin", "wait", "none"}
  BY <1>1 DEF Init, Threads, Disconnectors
<1> QED BY <1>2 DEF Init, NamedInv, Unnamed, Named

-----------------------------------------------------------------------------
(* Which blocks a step can be about                                        *)

LeaverLabels == Detached \cup {"clear_slot"}

\* Thread t decides about the stage of b.
Held(t, b) == pc[t] \in HolderLabels \cup LeaverLabels /\ hnd[t] = b

\* Only t moves.
Alone(t) == \A u \in Threads \ {t} : pc'[u] = pc[u] /\ hnd'[u] = hnd[u]

Stays == UNCHANGED <<Life, username>>

\* A block that t does not hold, before or after, is held as it was.
LEMMA Elsewhere ==
  ASSUME NEW t \in Threads, Alone(t), NEW b, ~Held(t, b), ~(Held(t, b)')
  PROVE  (b \in Connecting <=> b \in Connecting') /\ (b \in Leaving <=> b \in Leaving')
<1>1. Disconnectors \subseteq Threads
  BY DEF Threads
<1> QED BY <1>1 DEF Alone, Held, Connecting, Leaving, Holders, LeaverLabels

\* A thread that keeps its block, or has none, changes no stage.
LEMMA SameParts ==
  ASSUME NEW t \in Threads, Alone(t),
         pc'[t] \in HolderLabels <=> pc[t] \in HolderLabels,
         pc'[t] \in LeaverLabels <=> pc[t] \in LeaverLabels,
         pc[t] \in HolderLabels \cup LeaverLabels => hnd'[t] = hnd[t]
  PROVE  Connecting' = Connecting /\ Leaving' = Leaving
<1>1. Disconnectors \subseteq Threads
  BY DEF Threads
<1>2. Holders' = Holders /\ \A u \in Holders : hnd'[u] = hnd[u]
  BY DEF Alone, Holders
<1>3. Connecting' = Connecting
  BY <1>2 DEF Connecting
<1>4. Leaving' = Leaving
  BY <1>1 DEF Alone, Leaving, LeaverLabels
<1> QED BY <1>3, <1>4

LEMMA NothingStirs ==
  ASSUME UNCHANGED <<heap, clients, username>>, Connecting' = Connecting, Leaving' = Leaving
  PROVE  Stays
BY DEF Stays, Life, Occupied

\* The stage of a single block has changed.
LEMMA OneBlock ==
  ASSUME NEW a \in Handles,
         \A b \in Handles \ {a} :
           /\ b \in heap' <=> b \in heap
           /\ b \in Occupied' <=> b \in Occupied
           /\ b \in Connecting' <=> b \in Connecting
           /\ b \in Leaving' <=> b \in Leaving
  PROVE  Life' = [Life EXCEPT ![a] = Life'[a]]
<1>1. \A b \in Handles \ {a} : Life'[b] = Life[b]
  BY DEF Life
<1> QED BY <1>1 DEF Life

\* The stage of a block, from who holds it.
StagesInv == \A a \in Handles :
  /\ a \notin heap => Life[a] = "free"
  /\ a \in Connecting => Life[a] = "connecting"
  /\ a \in Leaving => Life[a] = "leaving"
  /\ a \in Occupied \ Leaving => Life[a] = "online"
  /\ a \in heap \ (Connecting \cup Leaving \cup Occupied) => Life[a] = "lost"
  /\ Life[a] = "leaving" => a \in Leaving

LEMMA Stages == SInv => StagesInv
<1> SUFFICES ASSUME SInv, NEW a \in Handles
             PROVE  /\ a \notin heap => Life[a] = "free"
                    /\ a \in Connecting => Life[a] = "connecting"
                    /\ a \in Leaving => Life[a] = "leaving"
                    /\ a \in Occupied \ Leaving => Life[a] = "online"
                    /\ a \in heap \ (Connecting \cup Leaving \cup Occupied) => Life[a] = "lost"
                    /\ Life[a] = "leaving" => a \in Leaving
  BY DEF StagesInv
<1>1. a \in Connecting => a \in heap
  BY DEF SInv, IInv, HolderInv, Connecting
<1>2. a \in Leaving => a \in heap /\ a \notin Connecting
  BY DEF SInv, IInv, DisconnectInv, Leaving, Connecting
<1>3. a \in Occupied => a \in heap /\ a \notin Connecting
  BY DEF SInv, IInv, HolderInv, SlotsLive, Occupied, Connecting
<1> QED BY <1>1, <1>2, <1>3 DEF Life

LEMMA StagesNext == SInv' => StagesInv'
BY Stages, PTL

\* What a holder holds is held by it alone, and by no disconnecting thread.
LEMMA HeldAlone ==
  ASSUME SInv, NEW t \in Holders
  PROVE  /\ t \in Threads /\ hnd[t] \in heap /\ hnd[t] \in Handles
         /\ hnd[t] \in Connecting /\ hnd[t] \notin Leaving /\ hnd[t] \notin Occupied
         /\ \A u \in Threads \ {t} : ~Held(u, hnd[t])
<1>1. t \in Threads /\ hnd[t] \in heap /\ hnd[t] \notin Occupied /\ hnd[t] \in Connecting
  BY DEF SInv, IInv, HolderInv, Holders, Connecting
<1>2. hnd[t] \in Handles
  BY <1>1 DEF SInv, IInv, TypeOK, RegistryOK
<1>3. hnd[t] \notin Leaving
  BY DEF SInv, IInv, DisconnectInv, Leaving
<1>4. ASSUME NEW u \in Threads \ {t}, Held(u, hnd[t])
      PROVE  FALSE
  <2>1. pc[u] \in LeaverLabels => u \in Disconnectors
    BY DEF SInv, IInv, TypeOK, LabelsOK, ListenerLabels, LoginLabels, LeaverLabels, Detached, Threads
  <2>2. CASE pc[u] \in HolderLabels
    BY <1>4, <2>2 DEF Held, SInv, IInv, HolderInv, Holders
  <2>3. CASE pc[u] \in LeaverLabels
    BY <1>4, <2>1, <2>3 DEF Held, SInv, IInv, DisconnectInv, LeaverLabels
  <2> QED BY <1>4, <2>2, <2>3 DEF Held
<1> QED BY <1>1, <1>2, <1>3, <1>4

\* What a thread disconnects is the one block that is leaving.
LEMMA LeavesAlone ==
  ASSUME SInv, NEW t \in Disconnectors, pc[t] \in Critical
  PROVE  /\ t \in Threads
         /\ pc[t] \in LeaverLabels => Leaving = {hnd[t]} /\ hnd[t] \in heap
                                      /\ hnd[t] \in Handles /\ hnd[t] \notin Connecting
         /\ pc[t] \notin LeaverLabels => Leaving = {}
<1>1. \A d \in Disconnectors \ {t} : pc[d] \notin LeaverLabels
  BY MutualExclusion DEF SInv, IInv, LeaverLabels, Detached, Critical
<1>2. pc[t] \in LeaverLabels => Leaving = {hnd[t]}
  BY <1>1 DEF Leaving, LeaverLabels
<1>3. pc[t] \notin LeaverLabels => Leaving = {}
  BY <1>1 DEF Leaving, LeaverLabels
<1>4. pc[t] \in LeaverLabels => hnd[t] \in heap /\ hnd[t] \notin Connecting
  BY DEF SInv, IInv, DisconnectInv, LeaverLabels, Connecting
<1> QED BY <1>2, <1>3, <1>4 DEF Threads, SInv, IInv, TypeOK, RegistryOK

\* A block that its holder t gives up is nobody's.
LEMMA Released ==
  ASSUME NEW t \in Threads, Alone(t), NEW a, ~(Held(t, a)'),
         \A u \in Threads \ {t} : ~Held(u, a)
  PROVE  a \notin Connecting' /\ a \notin Leaving'
<1>1. Disconnectors \subseteq Threads
  BY DEF Threads
<1> QED BY <1>1 DEF Alone, Held, Connecting, Leaving, Holders, LeaverLabels

-----------------------------------------------------------------------------
(* NamedInv is kept                                                        *)

\* No name and no block changes, and no thread comes to hold another block.
LEMMA QuietNamed ==
  ASSUME NamedInv, UNCHANGED <<heap, username>>,
         \A u \in Threads :
           /\ pc'[u] \in Unnamed => pc[u] \in Unnamed /\ hnd'[u] = hnd[u]
           /\ pc'[u] \in Named => pc[u] \in Named /\ hnd'[u] = hnd[u]
  PROVE  NamedInv'
BY DEF NamedInv

\* The steps of the disconnecting threads before and after close_client.
LEMMA OthersNamed ==
  ASSUME SInv, IInv', NEW t \in Disconnectors, UNCHANGED <<heap, username>>, Alone(t)
  PROVE  NamedInv'
<1>1. pc'[t] \notin Unnamed \cup Named
  BY DEF IInv, TypeOK, LabelsOK, ReaderLabels, WriterLabels, MainLabels, DisconnectLabels,
    Disconnectors, Unnamed, Named
<1>2. \A u \in Threads \ {t} : pc'[u] = pc[u] /\ hnd'[u] = hnd[u]
  BY DEF Alone
<1> QED BY <1>1, <1>2, QuietNamed DEF SInv

LEMMA CloseNamed ==
  ASSUME SInv, NEW t \in Threads, Alone(t), pc'[t] \notin Unnamed \cup Named,
         Held(t, hnd[t]), hnd[t] \in Handles, close_client(hnd[t]),
         \A u \in Threads \ {t} : ~Held(u, hnd[t])
  PROVE  NamedInv'
<1>1. /\ heap' = heap \ {hnd[t]}
      /\ username'[hnd[t]] = NULL /\ \A b \in Handles \ {hnd[t]} : username'[b] = username[b]
  BY DEF close_client, SInv, IInv, TypeOK, RegistryOK
<1>2. ASSUME NEW u \in Threads, pc'[u] \in Unnamed \cup Named
      PROVE  u # t /\ pc'[u] = pc[u] /\ hnd'[u] = hnd[u] /\ username'[hnd[u]] = username[hnd[u]]
  <2>1. u # t /\ pc'[u] = pc[u] /\ hnd'[u] = hnd[u]
    BY <1>2 DEF Alone
  <2>2. u \in Holders
    BY <1>2, <2>1 DEF Holders, HolderLabels, Unnamed, Named
  <2>3. hnd[u] \in Handles \ {hnd[t]}
    BY <2>1, <2>2, HeldAlone DEF Held, Holders
  <2> QED BY <1>1, <2>1, <2>3
<1>3. \A b \in Handles \ heap' : username'[b] = NULL
  BY <1>1 DEF SInv, NamedInv
<1> QED BY <1>2, <1>3 DEF SInv, NamedInv

LEMMA MallocNamed ==
  ASSUME SInv, Malloc
  PROVE  NamedInv'
<1>1. PICK a \in Handles \ heap : heap' = heap \cup {a} /\ hnd' = [hnd EXCEPT ![Listener] = a]
  BY DEF Malloc
<1>2. /\ pc' = [pc EXCEPT ![Listener] = "accept"]
      /\ UNCHANGED username
  BY DEF Malloc, Goto
<1>3. Listener \in Threads
  BY DEF Threads
<1>4. /\ pc'[Listener] = "accept" /\ hnd'[Listener] = a
      /\ \A u \in Threads \ {Listener} : pc'[u] = pc[u] /\ hnd'[u] = hnd[u]
  BY <1>1, <1>2, <1>3 DEF SInv, IInv, TypeOK, LocalsOK
<1> QED BY <1>1, <1>2, <1>4 DEF SInv, NamedInv, Unnamed, Named

LEMMA LoginNamed ==
  ASSUME SInv, NEW t \in LoginThreads, LoginAccepted(t)
  PROVE  NamedInv'
<1>1. PICK name \in Usernames : username' = [username EXCEPT ![hnd[t]] = name]
  BY DEF LoginAccepted
<1>2. /\ pc[t] = "login" /\ pc' = [pc EXCEPT ![t] = "add_user"]
      /\ UNCHANGED <<heap, hnd>>
  BY DEF LoginAccepted, Goto
<1>3. t \in Holders /\ t \in Threads
  BY <1>2 DEF Holders, HolderLabels, Threads
<1>4. pc'[t] = "add_user" /\ \A u \in Threads \ {t} : pc'[u] = pc[u]
  BY <1>2, <1>3 DEF SInv, IInv, TypeOK
<1>5. hnd[t] \in heap /\ hnd[t] \in Handles
  BY <1>3, HeldAlone
<1>6. \A u \in Threads \ {t} : pc[u] \in HolderLabels => hnd[u] # hnd[t]
  BY <1>3, HeldAlone DEF Held
<1>7. username'[hnd[t]] # NULL /\ \A b \in Handles \ {hnd[t]} : username'[b] = username[b]
  BY <1>1, <1>5 DEF SInv, IInv, TypeOK, RegistryOK
<1>8. \A u \in Threads : pc[u] \in Unnamed \cup Named => u \in Holders /\ hnd[u] \in Handles
  BY HeldAlone DEF Holders, HolderLabels, Unnamed, Named
<1>9. \A b \in Handles \ heap' : username'[b] = NULL
  BY <1>2, <1>5, <1>7 DEF SInv, NamedInv
<1>10. ASSUME NEW u \in Threads, pc'[u] \in Unnamed
       PROVE  username'[hnd'[u]] = NULL
  BY <1>2, <1>4, <1>6, <1>7, <1>8, <1>10 DEF SInv, NamedInv, Unnamed, HolderLabels
<1>11. ASSUME NEW u \in Threads, pc'[u] \in Named
       PROVE  username'[hnd'[u]] # NULL
  BY <1>2, <1>4, <1>6, <1>7, <1>8, <1>11 DEF SInv, NamedInv, Named, HolderLabels
<1> QED BY <1>9, <1>10, <1>11 DEF NamedInv

LEMMA ListenNamed ==
  ASSUME SInv, IInv', Malloc \/ AcceptFails \/ Accept \/ ListenerCancelled
  PROVE  NamedInv'
<1>1. Listener \in Threads
  BY DEF Threads
<1>2. CASE AcceptFails
  <2>1. /\ Alone(Listener) /\ pc[Listener] = "accept" /\ pc'[Listener] = "malloc"
        /\ close_client(hnd[Listener])
    BY <1>1, <1>2 DEF AcceptFails, Goto, registry, Alone, SInv, IInv, TypeOK, LocalsOK
  <2>2. Listener \in Holders /\ Held(Listener, hnd[Listener])
    BY <1>1, <2>1 DEF Holders, Held, HolderLabels
  <2> QED BY <1>1, <2>1, <2>2, HeldAlone, CloseNamed DEF Unnamed, Named
<1>3. CASE Accept \/ ListenerCancelled
  <2>1. /\ Alone(Listener) /\ pc[Listener] = "accept" /\ pc'[Listener] \in {"spawn", "cancelled"}
        /\ UNCHANGED <<heap, username, hnd>>
    BY <1>1, <1>3 DEF Accept, ListenerCancelled, Goto, shared, blocks, Alone, SInv, IInv, TypeOK
  <2>2. \A u \in Threads :
          (pc'[u] \in Unnamed => pc[u] \in Unnamed) /\ (pc'[u] \in Named => pc[u] \in Named)
    BY <2>1 DEF Alone, Unnamed, Named
  <2> QED BY <2>1, <2>2, QuietNamed DEF SInv
<1> QED BY <1>2, <1>3, MallocNamed

LEMMA SpawnNamed ==
  ASSUME SInv, NEW t \in LoginThreads, Spawn(t)
  PROVE  NamedInv'
<1>1. /\ pc[Listener] = "spawn" /\ UNCHANGED <<heap, username>>
      /\ pc' = [pc EXCEPT ![Listener] = "malloc", ![t] = "login"]
      /\ hnd' = [hnd EXCEPT ![Listener] = NULL, ![t] = hnd[Listener]]
  BY DEF Spawn, shared, blocks
<1>2. Listener \in Threads /\ t \in Threads /\ t # Listener
  BY DEF Threads
<1>3. /\ pc'[Listener] = "malloc" /\ pc'[t] = "login" /\ hnd'[t] = hnd[Listener]
      /\ \A u \in Threads \ {Listener, t} : pc'[u] = pc[u] /\ hnd'[u] = hnd[u]
  BY <1>1, <1>2 DEF SInv, IInv, TypeOK, LocalsOK
<1>4. username[hnd[Listener]] = NULL
  BY <1>1, <1>2 DEF SInv, NamedInv, Unnamed
<1>5. \A u \in Threads : pc'[u] \in Unnamed => username[hnd'[u]] = NULL
  BY <1>3, <1>4 DEF SInv, NamedInv, Unnamed
<1>6. \A u \in Threads : pc'[u] \in Named => username[hnd'[u]] # NULL
  BY <1>3 DEF SInv, NamedInv, Named
<1> QED BY <1>1, <1>5, <1>6 DEF SInv, NamedInv

LEMMA ThreadNamed ==
  ASSUME SInv, IInv', NEW t \in LoginThreads, Login(t) \/ add_user(t)
  PROVE  NamedInv'
<1>1. t \in Threads
  BY DEF Threads
<1>2. CASE LoginEof(t)
  <2>1. Alone(t) /\ pc[t] = "login" /\ pc'[t] = "exit" /\ close_client(hnd[t])
    BY <1>1, <1>2 DEF LoginEof, EndThread, Goto, Alone, SInv, IInv, TypeOK, LocalsOK
  <2>2. t \in Holders /\ Held(t, hnd[t])
    BY <1>1, <2>1 DEF Holders, Held, HolderLabels
  <2> QED BY <1>1, <2>1, <2>2, HeldAlone, CloseNamed DEF Unnamed, Named
<1>3. CASE LoginRefused(t)
  BY <1>3, QuietNamed DEF LoginRefused, vars, SInv
<1>4. CASE add_user(t)
  <2>1. /\ Alone(t) /\ UNCHANGED <<heap, username>>
        /\ pc'[t] \in {"hash_add", "find_slot", "take_slot"} =>
             pc[t] \in {"add_user", "hash_add", "find_slot"} /\ hnd' = hnd
        /\ pc'[t] \in Unnamed \cup Named => pc'[t] \in {"hash_add", "find_slot", "take_slot"}
    BY <1>1, <1>4 DEF add_user, AddUser, AddBegin, AddEnd, FindSlot, TakeSlot, LoadInc, StoreInc,
      EndThread, Goto, registry, blocks, Alone, SInv, IInv, TypeOK, LocalsOK, Unnamed, Named
  <2> QED BY <2>1, QuietNamed DEF Alone, SInv, Unnamed, Named
<1> QED BY <1>2, <1>3, <1>4, LoginNamed DEF Login

LEMMA DisconnectNamed ==
  ASSUME SInv, IInv', NEW t \in Disconnectors, disconnect_client_index(t)
  PROVE  NamedInv'
<1>1. t \in Threads
  BY DEF Threads
<1>2. CASE Close(t)
  <2>1. Alone(t) /\ pc[t] = "close" /\ pc'[t] = "load_dec" /\ close_client(hnd[t])
    BY <1>1, <1>2 DEF Close, Goto, Alone, SInv, IInv, TypeOK
  <2>2. hnd[t] \in Handles /\ hnd[t] \notin Connecting
    BY <2>1, LeavesAlone DEF Critical, LeaverLabels, Detached
  <2>3. Held(t, hnd[t])
    BY <2>1 DEF Held, LeaverLabels, Detached
  <2>4. \A u \in Threads \ {t} : pc[u] \in LeaverLabels => u \in Disconnectors
    BY DEF SInv, IInv, TypeOK, LabelsOK, ListenerLabels, LoginLabels, LeaverLabels, Detached, Threads
  <2>5. \A u \in Threads \ {t} : pc[u] \notin LeaverLabels
    BY <2>1, <2>4, MutualExclusion DEF SInv, IInv, LeaverLabels, Detached, Critical
  <2>6. \A u \in Threads \ {t} : ~Held(u, hnd[t])
    BY <2>2, <2>5 DEF Held, Connecting, Holders
  <2> QED BY <1>1, <2>1, <2>2, <2>3, <2>6, CloseNamed DEF Unnamed, Named
<1>3. CASE ~Close(t)
  <2>1. Alone(t) /\ UNCHANGED <<heap, username>>
    BY <1>1, <1>3 DEF disconnect_client_index, Lock, CheckSlot, ClearSlot, DelBegin, DelEnd,
      LoadDec, StoreDec, Unlock, Goto, registry, blocks, Alone, SInv, IInv, TypeOK, LocalsOK
  <2> QED BY <2>1, OthersNamed
<1> QED BY <1>2, <1>3

LEMMA NamedStep ==
  ASSUME SInv, IInv', [Next]_vars
  PROVE  NamedInv'
<1>0. {Reader, Writer, Main} \subseteq Disconnectors /\ {Reader, Writer, Main} \subseteq Threads
  BY DEF Disconnectors, Threads
<1>1. CASE Malloc \/ AcceptFails \/ Accept \/ ListenerCancelled
  BY <1>1, ListenNamed
<1>2. CASE \E t \in LoginThreads : Spawn(t) \/ Login(t) \/ add_user(t)
  BY <1>2, SpawnNamed, ThreadNamed
<1>3. CASE RecvData \/ RecvOrphan \/ ReaderLocal
  <2>1. UNCHANGED <<heap, username>> /\ Alone(Reader)
    BY <1>3 DEF ReaderLocal, ReaderSleeps, ReaderPolls, ReaderBuilds, ReaderSets, ReaderSelects,
      ReaderScans, RecvBegin, RecvEof, Dropped, Addressed, Forward, NullDereference, RecvData, RecvReadable, RecvOrphan, Receives, Ended,
      ReaderCancelled, Dereferences, Goto, ReaderStep, vars, shared, blocks,
      Alone, SInv, IInv, TypeOK, LocalsOK
  <2> QED BY <1>0, <2>1, OthersNamed
<1>4. CASE Notify \/ FindClient \/ End \/ \E name \in Usernames : Kick(name)
  <2>1. UNCHANGED <<heap, username>> /\ Alone(Writer)
    BY <1>4 DEF Notify, FindClient, End, Kick, Goto, shared, blocks, Alone, SInv, IInv, TypeOK, LocalsOK
  <2> QED BY <1>0, <2>1, OthersNamed
<1>5. CASE CancelThreads \/ Sweep \/ Exit
  <2>1. UNCHANGED <<heap, username>> /\ Alone(Main)
    BY <1>5 DEF CancelThreads, Sweep, Exit, Goto, shared, blocks, Alone, SInv, IInv, TypeOK
  <2> QED BY <1>0, <2>1, OthersNamed
<1>6. CASE ReaderDisconnects \/ WriterDisconnects \/ MainDisconnects
  BY <1>0, <1>6, DisconnectNamed DEF ReaderDisconnects, WriterDisconnects, MainDisconnects
<1>7. CASE \/ \E a \in Handles : PeerCloses(a)
           \/ \E t \in Threads : BrokenPipe(t)
           \/ UNCHANGED vars
  BY <1>7, QuietNamed DEF PeerCloses, BrokenPipe, vars, shared, blocks, SInv
<1> QED BY <1>1, <1>2, <1>3, <1>4, <1>5, <1>6, <1>7
        DEF Next, read_clients, write_clients, main

-----------------------------------------------------------------------------
(* The listener and the login threads                                      *)

Step == Abstract!Next \/ Stays

LEMMA MallocLives ==
  ASSUME SInv, SInv', Malloc
  PROVE  Step
<1>1. PICK a \in Handles \ heap : heap' = heap \cup {a} /\ hnd' = [hnd EXCEPT ![Listener] = a]
  BY DEF Malloc
<1>2. /\ pc' = [pc EXCEPT ![Listener] = "accept"] /\ pc[Listener] = "malloc"
      /\ UNCHANGED <<clients, username>>
  BY DEF Malloc, Goto, registry
<1>3. Listener \in Threads
  BY DEF Threads
<1>4. pc'[Listener] = "accept" /\ hnd'[Listener] = a /\ Alone(Listener)
  BY <1>1, <1>2, <1>3 DEF SInv, IInv, TypeOK, LocalsOK, Alone
<1>5. a \in Connecting'
  BY <1>3, <1>4 DEF Connecting, Holders, HolderLabels
<1>6. \A b \in Handles \ {a} : ~Held(Listener, b) /\ ~(Held(Listener, b)')
  BY <1>2, <1>4 DEF Held, HolderLabels, LeaverLabels, Detached
<1>7. Life' = [Life EXCEPT ![a] = Life'[a]]
  BY <1>1, <1>2, <1>3, <1>4, <1>6, Elsewhere, OneBlock DEF Occupied
<1>8. Life[a] = "free" /\ Life'[a] = "connecting"
  BY <1>1, <1>5, Stages, StagesNext DEF StagesInv
<1>9. Abstract!Arrive(a)
  BY <1>2, <1>7, <1>8 DEF Abstract!Arrive, Abstract!Becomes
<1> QED BY <1>8, <1>9 DEF Step, Abstract!Next

\* The thread keeps its block and its part; nothing else changes.
LEMMA HolderKeeps ==
  ASSUME NEW t \in Threads, Alone(t), UNCHANGED <<heap, clients, username>>,
         pc'[t] \in HolderLabels <=> pc[t] \in HolderLabels,
         pc[t] \notin LeaverLabels, pc'[t] \notin LeaverLabels,
         pc[t] \in HolderLabels => hnd'[t] = hnd[t]
  PROVE  Step
BY SameParts, NothingStirs DEF Step

\* A thread that still waits for a name frees its block and holds none.
LEMMA RefusedLives ==
  ASSUME SInv, SInv', NEW t \in Threads, Alone(t), pc[t] \in Unnamed, UNCHANGED clients,
         pc'[t] \notin HolderLabels \cup LeaverLabels, close_client(hnd[t])
  PROVE  Step
<1> DEFINE a == hnd[t]
<1>1. t \in Holders
  BY DEF Holders, HolderLabels, Unnamed
<1>2. a \in Handles /\ a \in heap /\ a \in Connecting
  BY <1>1, HeldAlone
<1>3. username[a] = NULL
  BY DEF SInv, NamedInv
<1>4. heap' = heap \ {a} /\ username' = username
  BY <1>2, <1>3 DEF close_client, SInv, IInv, TypeOK, RegistryOK
<1>5. \A b \in Handles \ {a} : ~Held(t, b) /\ ~(Held(t, b)')
  BY DEF Held
<1>6. Life' = [Life EXCEPT ![a] = Life'[a]]
  BY <1>2, <1>4, <1>5, Elsewhere, OneBlock DEF Occupied
<1>7. Life[a] = "connecting" /\ Life'[a] = "free"
  BY <1>2, <1>4, Stages, StagesNext DEF StagesInv
<1>8. Abstract!Refuse(a)
  BY <1>3, <1>4, <1>6, <1>7 DEF Abstract!Refuse, Abstract!Becomes
<1> QED BY <1>2, <1>7, <1>8 DEF Step, Abstract!Next

\* A thread gives its block up and nobody else has it.
LEMMA DroppedLives ==
  ASSUME SInv, SInv', NEW t \in Threads, Alone(t), t \in Holders,
         UNCHANGED <<heap, clients, username>>, pc'[t] \notin HolderLabels \cup LeaverLabels
  PROVE  Step
<1>0. PICK a \in Handles : a = hnd[t]
  BY HeldAlone
<1>1. /\ a \in Handles /\ a \in heap /\ a \in Connecting /\ a \notin Occupied
      /\ \A u \in Threads \ {t} : ~Held(u, a)
  BY <1>0, HeldAlone
<1>2. Occupied' = Occupied
  BY DEF Occupied
<1>3. \A b \in Handles \ {a} : ~Held(t, b) /\ ~(Held(t, b)')
  BY <1>0 DEF Held
<1>4. ~(Held(t, a)')
  BY DEF Held
<1>5. a \notin Connecting' /\ a \notin Leaving'
  BY <1>1, <1>4, Released
<1>6. Life' = [Life EXCEPT ![a] = Life'[a]]
  BY <1>1, <1>2, <1>3, Elsewhere, OneBlock
<1>7. Life[a] = "connecting" /\ Life'[a] = "lost"
  BY <1>1, <1>2, <1>5, Stages, StagesNext DEF StagesInv
<1>8. Abstract!Drop(a)
  BY <1>6, <1>7 DEF Abstract!Drop, Abstract!Becomes
<1> QED BY <1>1, <1>7, <1>8 DEF Step, Abstract!Next

LEMMA ListenLives ==
  ASSUME SInv, SInv', Malloc \/ AcceptFails \/ Accept \/ ListenerCancelled
  PROVE  Step
<1>1. Listener \in Threads
  BY DEF Threads
<1>2. CASE AcceptFails
  <2>1. /\ Alone(Listener) /\ pc[Listener] = "accept" /\ pc'[Listener] = "malloc"
        /\ UNCHANGED clients /\ close_client(hnd[Listener])
    BY <1>1, <1>2 DEF AcceptFails, Goto, registry, Alone, SInv, IInv, TypeOK, LocalsOK
  <2> QED BY <1>1, <2>1, RefusedLives DEF Unnamed, HolderLabels, LeaverLabels, Detached
<1>3. CASE Accept
  <2>1. /\ Alone(Listener) /\ pc[Listener] = "accept" /\ pc'[Listener] = "spawn"
        /\ UNCHANGED <<heap, clients, username, hnd>>
    BY <1>1, <1>3 DEF Accept, Goto, shared, registry, blocks, Alone, SInv, IInv, TypeOK
  <2> QED BY <1>1, <2>1, HolderKeeps DEF HolderLabels, LeaverLabels, Detached
<1>4. CASE ListenerCancelled
  <2>1. /\ Alone(Listener) /\ pc[Listener] = "accept" /\ pc'[Listener] = "cancelled"
        /\ UNCHANGED <<heap, clients, username>>
    BY <1>1, <1>4 DEF ListenerCancelled, Goto, shared, registry, blocks, Alone, SInv, IInv, TypeOK
  <2> QED BY <1>1, <2>1, DroppedLives DEF Holders, HolderLabels, LeaverLabels, Detached
<1> QED BY <1>2, <1>3, <1>4, MallocLives

\* The block goes from the listener to the login thread.
LEMMA SpawnLives ==
  ASSUME SInv, NEW t \in LoginThreads, Spawn(t)
  PROVE  Step
<1>1. /\ pc[Listener] = "spawn" /\ pc[t] = "none" /\ UNCHANGED <<heap, clients, username>>
      /\ pc' = [pc EXCEPT ![Listener] = "malloc", ![t] = "login"]
      /\ hnd' = [hnd EXCEPT ![Listener] = NULL, ![t] = hnd[Listener]]
  BY DEF Spawn, shared, registry, blocks
<1>2. Listener \in Threads /\ t \in Threads /\ t # Listener /\ t \notin Disconnectors
      /\ Disconnectors \subseteq Threads /\ Listener \notin Disconnectors
  BY DEF Threads
<1>3. /\ pc'[Listener] = "malloc" /\ pc'[t] = "login" /\ hnd'[t] = hnd[Listener]
      /\ \A u \in Threads \ {Listener, t} : pc'[u] = pc[u] /\ hnd'[u] = hnd[u]
  BY <1>1, <1>2 DEF SInv, IInv, TypeOK, LocalsOK
<1>4. Holders' = (Holders \ {Listener}) \cup {t} /\ Listener \in Holders /\ t \notin Holders
  BY <1>1, <1>2, <1>3 DEF Holders, HolderLabels
<1>5. Connecting' = Connecting
  <2>1. \A u \in Holders \ {Listener} : hnd'[u] = hnd[u]
    BY <1>3, <1>4 DEF Holders
  <2> QED BY <1>3, <1>4, <2>1 DEF Connecting
<1>6. Leaving' = Leaving
  BY <1>2, <1>3 DEF Leaving
<1> QED BY <1>1, <1>5, <1>6, NothingStirs DEF Step

LEMMA LoginLives ==
  ASSUME SInv, SInv', NEW t \in LoginThreads, Login(t)
  PROVE  Step
<1>1. t \in Threads
  BY DEF Threads
<1>2. CASE LoginEof(t)
  <2>1. /\ Alone(t) /\ pc[t] = "login" /\ pc'[t] = "exit" /\ UNCHANGED clients
        /\ close_client(hnd[t])
    BY <1>1, <1>2 DEF LoginEof, EndThread, Goto, registry, Alone, SInv, IInv, TypeOK, LocalsOK
  <2> QED BY <1>1, <2>1, RefusedLives DEF Unnamed, HolderLabels, LeaverLabels, Detached
<1>3. CASE LoginAccepted(t)
  <2> DEFINE a == hnd[t]
  <2>1. PICK name \in Usernames : username' = [username EXCEPT ![a] = name]
    BY <1>3 DEF LoginAccepted
  <2>2. /\ Alone(t) /\ pc[t] = "login" /\ pc'[t] = "add_user" /\ UNCHANGED <<heap, clients, hnd>>
    BY <1>1, <1>3 DEF LoginAccepted, Goto, registry, Alone, SInv, IInv, TypeOK
  <2>3. Connecting' = Connecting /\ Leaving' = Leaving
    BY <1>1, <2>2, SameParts DEF HolderLabels, LeaverLabels, Detached
  <2>4. Life' = Life
    BY <2>2, <2>3 DEF Life, Occupied
  <2>5. a \in Handles /\ a \in Connecting
    BY <2>2, HeldAlone, <1>1 DEF Holders, HolderLabels
  <2>6. Life[a] = "connecting" /\ username[a] = NULL
    BY <1>1, <2>2, <2>5, Stages DEF StagesInv, SInv, NamedInv, Unnamed
  <2>7. username'[a] # username[a]
    BY <2>1, <2>5, <2>6 DEF SInv, IInv, TypeOK, RegistryOK
  <2>8. Abstract!Admit(a)
    BY <2>1, <2>4, <2>6 DEF Abstract!Admit
  <2> QED BY <2>5, <2>7, <2>8 DEF Step, Abstract!Next
<1>4. CASE LoginRefused(t)
  BY <1>4, NothingStirs DEF LoginRefused, vars, Connecting, Leaving, Holders, Step
<1> QED BY <1>2, <1>3, <1>4 DEF Login

\* clients[i] = handle, over an empty slot or over what another login has stored.
LEMMA TakeSlotLives ==
  ASSUME SInv, SInv', NEW t \in LoginThreads, TakeSlot(t)
  PROVE  Step
<1>0. t \in Threads /\ t \in Holders /\ pc[t] = "take_slot"
  BY DEF TakeSlot, Holders, HolderLabels, Threads
<1>1. PICK a \in Handles : a = hnd[t]
  BY <1>0, HeldAlone
<1>2. /\ a \in heap /\ a \in Connecting /\ a \notin Leaving /\ a \notin Occupied /\ username[a] # NULL
      /\ \A u \in Threads \ {t} : ~Held(u, a)
  BY <1>0, <1>1, HeldAlone DEF SInv, NamedInv, Named
<1>3. PICK i \in Slots : i = idx[t]
  BY <1>0 DEF SInv, IInv, IndexInv, Indexing
<1>4. /\ Alone(t) /\ pc'[t] = "load_inc" /\ UNCHANGED <<heap, username, hnd>>
      /\ clients'[i] = a /\ \A j \in Slots \ {i} : clients'[j] = clients[j]
  BY <1>0, <1>1, <1>3 DEF TakeSlot, Goto, blocks, Alone, SInv, IInv, TypeOK, RegistryOK
<1>5. a # NULL
  OBVIOUS
<1>6. ~(Held(t, a)')
  BY <1>4 DEF Held, HolderLabels, LeaverLabels, Detached
<1>7. a \notin Connecting' /\ a \notin Leaving'
  BY <1>0, <1>2, <1>4, <1>6, Released
<1>8. a \in Occupied'
  BY <1>4, <1>5 DEF Occupied
<1>9. Life[a] = "connecting" /\ Life'[a] = "online"
  BY <1>2, <1>7, <1>8, Stages, StagesNext DEF StagesInv
<1>10. ASSUME NEW b \in Handles \ {a}
       PROVE  (b \in Connecting' <=> b \in Connecting) /\ (b \in Leaving' <=> b \in Leaving)
  <2>1. ~Held(t, b) /\ ~(Held(t, b)')
    BY <1>1, <1>4 DEF Held
  <2> QED BY <1>0, <1>4, <2>1, Elsewhere
<1>11. Occupied' = (Occupied \ {clients[i]}) \cup {a}
  <2>1. \A j \in Slots \ {i} : clients[j] # NULL => clients[j] # clients[i]
    BY DEF SInv, IInv, SlotsLive
  <2> QED BY <1>4, <1>5, <2>1 DEF Occupied
<1>12. CASE clients[i] = NULL \/ clients[i] \in Leaving
  <2>1. ASSUME NEW b \in Handles \ {a}
        PROVE  Life'[b] = Life[b]
    <3>1. CASE b \in Leaving
      BY <1>10, <3>1, Stages, StagesNext DEF StagesInv
    <3>2. CASE b \notin Leaving
      <4>1. b \in Occupied' <=> b \in Occupied
        BY <1>11, <1>12, <3>2
      <4> QED BY <1>4, <1>10, <4>1 DEF Life
    <3> QED BY <3>1, <3>2
  <2>2. Life' = [Life EXCEPT ![a] = "online"]
    BY <1>9, <2>1 DEF Life
  <2>3. Abstract!Enter(a)
    BY <1>2, <1>4, <1>9, <2>2 DEF Abstract!Enter, Abstract!Becomes
  <2> QED BY <1>9, <2>3 DEF Step, Abstract!Next
<1>13. CASE clients[i] # NULL /\ clients[i] \notin Leaving
  <2>1. PICK o \in Handles : o = clients[i]
    BY <1>13 DEF SInv, IInv, TypeOK, RegistryOK
  <2>2. o \in Occupied /\ o \in heap /\ o # a
    BY <1>2, <1>13, <2>1 DEF Occupied, SInv, IInv, SlotsLive
  <2>3. o \notin Connecting
    BY <2>2 DEF SInv, IInv, HolderInv, Connecting
  <2>4. Life[o] = "online" /\ Life'[o] = "lost"
    BY <1>4, <1>10, <1>11, <1>13, <2>1, <2>2, <2>3, Stages, StagesNext DEF StagesInv
  <2>5. \A b \in Handles \ {a, o} : Life'[b] = Life[b]
    <3>1. \A b \in Handles \ {a, o} : b \in Occupied' <=> b \in Occupied
      BY <1>11, <2>1
    <3> QED BY <1>4, <1>10, <3>1 DEF Life
  <2>6. Life' = [Life EXCEPT ![a] = "online", ![o] = "lost"]
    BY <1>9, <2>2, <2>4, <2>5 DEF Life
  <2>7. Abstract!Enter(a)
    BY <1>2, <1>4, <1>9, <2>4, <2>6 DEF Abstract!Enter
  <2> QED BY <1>9, <2>7 DEF Step, Abstract!Next
<1> QED BY <1>12, <1>13

LEMMA AddUserLives ==
  ASSUME SInv, SInv', NEW t \in LoginThreads, add_user(t)
  PROVE  Step
<1>1. t \in Threads
  BY DEF Threads
<1>2. CASE AddBegin(t) \/ AddEnd(t) \/ LoadInc(t) \/ StoreInc(t)
  <2>1. /\ Alone(t) /\ UNCHANGED <<heap, clients, username>>
        /\ \/ pc[t] \in {"add_user", "hash_add"} /\ pc'[t] \in {"hash_add", "find_slot"} /\ hnd' = hnd
           \/ pc[t] \in {"load_inc", "store_inc"} /\ pc'[t] \in {"store_inc", "exit"}
    BY <1>1, <1>2 DEF AddBegin, AddEnd, LoadInc, StoreInc, EndThread, Goto, registry, blocks,
      Alone, SInv, IInv, TypeOK, LocalsOK
  <2> QED BY <1>1, <2>1, HolderKeeps DEF HolderLabels, LeaverLabels, Detached
<1>3. CASE FindSlot(t)
  <2>1. /\ Alone(t) /\ UNCHANGED <<heap, clients, username>> /\ pc[t] = "find_slot"
        /\ \/ pc'[t] = "exit"
           \/ pc'[t] \in {"find_slot", "take_slot"} /\ hnd' = hnd
    BY <1>1, <1>3 DEF FindSlot, EndThread, Goto, registry, blocks, Alone, SInv, IInv, TypeOK, LocalsOK
  <2>2. CASE pc'[t] = "exit"
    BY <1>1, <2>1, <2>2, DroppedLives DEF Holders, HolderLabels, LeaverLabels, Detached
  <2>3. CASE pc'[t] \in {"find_slot", "take_slot"} /\ hnd' = hnd
    BY <1>1, <2>1, <2>3, HolderKeeps DEF HolderLabels, LeaverLabels, Detached
  <2> QED BY <2>1, <2>2, <2>3
<1> QED BY <1>2, <1>3, TakeSlotLives DEF add_user, AddUser

-----------------------------------------------------------------------------
(* The reader, the writer and main                                         *)

\* A disconnecting thread never holds a block of a login.
LEMMA NoHolder ==
  ASSUME SInv, SInv', NEW t \in Disconnectors
  PROVE  t \in Threads /\ pc[t] \notin HolderLabels /\ pc'[t] \notin HolderLabels
BY DEF SInv, IInv, TypeOK, LabelsOK, HolderLabels, ReaderLabels, WriterLabels, MainLabels,
   DisconnectLabels, Disconnectors, Threads

\* A thread that disconnects nothing, or the same block as before.
LEMMA DisconnectorKeeps ==
  ASSUME SInv, SInv', NEW t \in Disconnectors, Alone(t), UNCHANGED <<heap, clients, username>>,
         pc'[t] \in LeaverLabels <=> pc[t] \in LeaverLabels,
         pc[t] \in LeaverLabels => hnd'[t] = hnd[t]
  PROVE  Step
BY NoHolder, SameParts, NothingStirs DEF Step

LEMMA CheckSlotLives ==
  ASSUME SInv, SInv', NEW t \in Disconnectors, CheckSlot(t)
  PROVE  Step
<1>1. /\ t \in Threads /\ Alone(t) /\ pc[t] = "check_slot" /\ UNCHANGED <<heap, clients, username>>
  BY NoHolder DEF CheckSlot, Goto, registry, blocks, Alone, SInv, IInv, TypeOK, LocalsOK
<1>2. PICK i \in Slots : i = idx[t]
  BY <1>1 DEF SInv, IInv, IndexInv, Indexing, Critical
<1>3. CASE clients[i] = NULL
  <2>1. pc'[t] = "unlock"
    BY <1>1, <1>2, <1>3 DEF CheckSlot, Goto, is_client_active, SInv, IInv, TypeOK
  <2> QED BY <1>1, <2>1, DisconnectorKeeps DEF LeaverLabels, Detached
<1>4. CASE clients[i] # NULL
  <2>1. PICK a \in Handles : a = clients[i]
    BY <1>4 DEF SInv, IInv, TypeOK, RegistryOK
  <2>2. pc'[t] = "clear_slot" /\ hnd'[t] = a
    BY <1>1, <1>2, <1>4, <2>1 DEF CheckSlot, Goto, is_client_active, SInv, IInv, TypeOK, LocalsOK
  <2>3. Leaving = {}
    BY <1>1, LeavesAlone DEF Critical, LeaverLabels, Detached
  <2>4. a \in Occupied /\ a \in Leaving'
    BY <1>4, <2>1, <2>2 DEF Occupied, Leaving
  <2>5. Life[a] = "online" /\ Life'[a] = "leaving"
    BY <2>3, <2>4, Stages, StagesNext DEF StagesInv
  <2>6. \A b \in Handles : Life[b] # "leaving"
    BY <2>3, Stages DEF StagesInv
  <2>7. \A b \in Handles \ {a} : ~Held(t, b) /\ ~(Held(t, b)')
    BY <1>1, <2>2 DEF Held, HolderLabels, LeaverLabels, Detached
  <2>8. Life' = [Life EXCEPT ![a] = Life'[a]]
    BY <1>1, <2>7, Elsewhere, OneBlock DEF Occupied
  <2>9. Abstract!Leave(a)
    BY <1>1, <2>5, <2>6, <2>8 DEF Abstract!Leave, Abstract!Becomes
  <2> QED BY <2>5, <2>9 DEF Step, Abstract!Next
<1> QED BY <1>3, <1>4

\* The slot is cleared of the block being disconnected, or of one that add_user
\* has stored over it.
LEMMA ClearSlotLives ==
  ASSUME SInv, SInv', NEW t \in Disconnectors, ClearSlot(t)
  PROVE  Step
<1>1. /\ t \in Threads /\ Alone(t) /\ pc[t] = "clear_slot" /\ pc'[t] = "del_user"
      /\ UNCHANGED <<heap, username, hnd>>
  BY NoHolder DEF ClearSlot, Goto, blocks, Alone, SInv, IInv, TypeOK
<1>2. PICK i \in Slots : i = idx[t]
  BY <1>1 DEF SInv, IInv, IndexInv, Indexing, Critical
<1>3. clients'[i] = NULL /\ \A j \in Slots \ {i} : clients'[j] = clients[j]
  BY <1>2 DEF ClearSlot, SInv, IInv, TypeOK, RegistryOK
<1>4. Connecting' = Connecting /\ Leaving' = Leaving
  BY <1>1, SameParts DEF HolderLabels, LeaverLabels, Detached
<1>5. PICK a \in Handles : a = hnd[t] /\ Leaving = {a}
  BY <1>1, LeavesAlone DEF Critical, LeaverLabels, Detached
<1>6. Occupied' = Occupied \ {clients[i]}
  <2>1. \A j \in Slots \ {i} : clients[j] # NULL => clients[j] # clients[i]
    BY DEF SInv, IInv, SlotsLive
  <2> QED BY <1>3, <2>1 DEF Occupied
<1>7. Life[a] = "leaving" /\ Life'[a] = "leaving"
  BY <1>4, <1>5, Stages, StagesNext DEF StagesInv
<1>8. CASE clients[i] = NULL \/ clients[i] = a
  <2>1. \A b \in Handles \ {a} : b \in Occupied' <=> b \in Occupied
    BY <1>6, <1>8
  <2>2. \A b \in Handles \ {a} : Life'[b] = Life[b]
    BY <1>1, <1>4, <2>1 DEF Life
  <2>3. Life' = Life
    BY <1>7, <2>2 DEF Life
  <2> QED BY <1>1, <2>3 DEF Step, Stays
<1>9. CASE clients[i] # NULL /\ clients[i] # a
  <2>1. PICK o \in Handles : o = clients[i]
    BY <1>9 DEF SInv, IInv, TypeOK, RegistryOK
  <2>2. o \in Occupied /\ o \in heap /\ o \notin Leaving
    BY <1>5, <1>9, <2>1 DEF Occupied, SInv, IInv, SlotsLive
  <2>3. o \notin Connecting
    BY <2>2 DEF SInv, IInv, HolderInv, Connecting
  <2>4. Life[o] = "online" /\ Life'[o] = "lost"
    BY <1>1, <1>4, <1>6, <2>1, <2>2, <2>3, Stages, StagesNext DEF StagesInv
  <2>5. Life' = [Life EXCEPT ![o] = Life'[o]]
    BY <1>1, <1>4, <1>6, <2>1, OneBlock
  <2>6. Abstract!Clear(o)
    BY <1>1, <1>7, <2>4, <2>5 DEF Abstract!Clear, Abstract!Becomes
  <2> QED BY <2>4, <2>6 DEF Step, Abstract!Next
<1> QED BY <1>8, <1>9

LEMMA CloseLives ==
  ASSUME SInv, SInv', NEW t \in Disconnectors, Close(t)
  PROVE  Step
<1>1. /\ t \in Threads /\ Alone(t) /\ pc[t] = "close" /\ pc'[t] = "load_dec"
      /\ UNCHANGED clients /\ close_client(hnd[t])
  BY NoHolder DEF Close, Goto, registry, Alone, SInv, IInv, TypeOK
<1>2. PICK a \in Handles : a = hnd[t] /\ a \in heap /\ a \in Leaving
  BY <1>1, LeavesAlone DEF Critical, LeaverLabels, Detached
<1>3. heap' = heap \ {a} /\ username' = [username EXCEPT ![a] = NULL]
  BY <1>1, <1>2 DEF close_client
<1>4. Life[a] = "leaving" /\ Life'[a] = "free"
  BY <1>2, <1>3, Stages, StagesNext DEF StagesInv
<1>5. \A b \in Handles \ {a} : ~Held(t, b) /\ ~(Held(t, b)')
  BY <1>1, <1>2 DEF Held, HolderLabels, LeaverLabels, Detached
<1>6. Life' = [Life EXCEPT ![a] = Life'[a]]
  BY <1>1, <1>3, <1>5, Elsewhere, OneBlock DEF Occupied
<1>7. Abstract!Close(a)
  BY <1>3, <1>4, <1>6 DEF Abstract!Close, Abstract!Becomes
<1> QED BY <1>4, <1>7 DEF Step, Abstract!Next

LEMMA DisconnectLives ==
  ASSUME SInv, SInv', NEW t \in Disconnectors, disconnect_client_index(t)
  PROVE  Step
<1>1. CASE Lock(t) \/ LoadDec(t) \/ StoreDec(t) \/ Unlock(t)
  <2>1. /\ Alone(t) /\ UNCHANGED <<heap, clients, username>>
        /\ pc[t] \in {"lock", "load_dec", "store_dec", "unlock"}
        /\ pc'[t] \in {"check_slot", "store_dec", "unlock", "scan", "stdin", "sweep"}
    BY <1>1, NoHolder DEF Lock, LoadDec, StoreDec, Unlock, ReturnPc, Goto, registry, blocks, Alone,
      SInv, IInv, TypeOK, LocalsOK
  <2> QED BY <2>1, DisconnectorKeeps DEF LeaverLabels, Detached
<1>2. CASE DelBegin(t) \/ DelEnd(t)
  <2>1. /\ Alone(t) /\ UNCHANGED <<heap, clients, username, hnd>>
        /\ pc[t] \in {"del_user", "hash_del"} /\ pc'[t] \in {"hash_del", "close"}
    BY <1>2, NoHolder DEF DelBegin, DelEnd, Goto, blocks, Alone, SInv, IInv, TypeOK
  <2> QED BY <2>1, DisconnectorKeeps DEF LeaverLabels, Detached
<1> QED BY <1>1, <1>2, CheckSlotLives, ClearSlotLives, CloseLives DEF disconnect_client_index

\* The reader is cancelled, perhaps with a block that it was disconnecting.
LEMMA CancelLives ==
  ASSUME SInv, SInv', ReaderCancelled
  PROVE  Step
<1>1. Reader \in Disconnectors
  BY DEF Disconnectors
<1>2. /\ Reader \in Threads /\ Alone(Reader) /\ pc'[Reader] = "cancelled"
      /\ UNCHANGED <<heap, clients, username, hnd>>
  BY <1>1, NoHolder DEF ReaderCancelled, Goto, shared, registry, blocks, Alone, SInv, IInv, TypeOK
<1>3. CASE pc[Reader] \notin LeaverLabels
  BY <1>1, <1>2, <1>3, DisconnectorKeeps DEF LeaverLabels, Detached
<1>4. CASE pc[Reader] \in LeaverLabels
  <2>1. PICK a \in Handles : a = hnd[Reader] /\ Leaving = {a} /\ a \in heap /\ a \notin Connecting
    BY <1>1, <1>4, LeavesAlone DEF Critical, LeaverLabels, Detached
  <2>2. \A b \in Handles \ {a} : ~Held(Reader, b) /\ ~(Held(Reader, b)')
    BY <1>2, <2>1 DEF Held
  <2>3. \A b \in Handles \ {a} :
          (b \in Connecting' <=> b \in Connecting) /\ (b \in Leaving' <=> b \in Leaving)
    BY <1>2, <2>2, Elsewhere
  <2>4. a \notin Connecting' /\ a \notin Leaving'
    <3>1. ~(Held(Reader, a)')
      BY <1>2 DEF Held, HolderLabels, LeaverLabels, Detached
    <3>2. \A u \in Threads \ {Reader} : ~Held(u, a)
      <4>1. ASSUME NEW u \in Threads \ {Reader}, pc[u] \in LeaverLabels
            PROVE  FALSE
        <5>1. u \in Disconnectors
          BY <4>1 DEF SInv, IInv, TypeOK, LabelsOK, ListenerLabels, LoginLabels, LeaverLabels,
            Detached, Threads
        <5> QED BY <1>1, <1>4, <4>1, <5>1, MutualExclusion
                DEF SInv, IInv, LeaverLabels, Detached, Critical
      <4>2. \A u \in Holders : hnd[u] # a
        BY <2>1 DEF Connecting
      <4> QED BY <4>1, <4>2 DEF Held, Holders
    <3> QED BY <1>2, <3>1, <3>2, Released
  <2>5. Life[a] = "leaving" /\ Life'[a] \in {"online", "lost"}
    BY <1>2, <2>1, <2>4, Stages, StagesNext DEF StagesInv
  <2>6. Life' = [Life EXCEPT ![a] = Life'[a]]
    BY <1>2, <2>3, OneBlock DEF Occupied
  <2>7. Abstract!Abandon(a)
    BY <1>2, <2>5, <2>6 DEF Abstract!Abandon, Abstract!Becomes
  <2> QED BY <2>5, <2>7 DEF Step, Abstract!Next
<1> QED BY <1>3, <1>4

LEMMA ReaderLives ==
  ASSUME SInv, SInv', RecvData \/ RecvOrphan \/ ReaderLocal
  PROVE  Step
<1>1. Reader \in Disconnectors /\ Reader \in Threads
  BY DEF Disconnectors, Threads
<1>2. CASE ~ReaderCancelled
  <2> USE <1>2 DEF ReaderLocal, ReaderSleeps, ReaderPolls, ReaderBuilds, ReaderSets, ReaderSelects,
    ReaderScans, RecvBegin, RecvEof, Dropped, Addressed, Forward, NullDereference, RecvData, RecvReadable, RecvOrphan, Receives, Ended,
    Dereferences, Goto, ReaderStep, vars, shared, registry, blocks
  <2>1. UNCHANGED <<heap, clients, username>> /\ Alone(Reader)
    BY DEF Alone, SInv, IInv, TypeOK, LocalsOK
  <2>2. pc[Reader] \notin LeaverLabels /\ pc'[Reader] \notin LeaverLabels
    BY <1>1 DEF LeaverLabels, Detached, SInv, IInv, TypeOK
  <2> QED BY <1>1, <2>1, <2>2, DisconnectorKeeps
<1> QED BY <1>2, CancelLives

LEMMA WriterLives ==
  ASSUME SInv, SInv', Notify \/ FindClient \/ End \/ \E name \in Usernames : Kick(name)
  PROVE  Step
<1> USE DEF Notify, FindClient, End, Kick, Goto, shared, registry, blocks
<1>1. Writer \in Disconnectors /\ Writer \in Threads
  BY DEF Disconnectors, Threads
<1>2. UNCHANGED <<heap, clients, username>> /\ Alone(Writer)
  BY DEF Alone, SInv, IInv, TypeOK, LocalsOK
<1>3. pc[Writer] \notin LeaverLabels /\ pc'[Writer] \notin LeaverLabels
  BY <1>1 DEF LeaverLabels, Detached, SInv, IInv, TypeOK
<1> QED BY <1>1, <1>2, <1>3, DisconnectorKeeps

LEMMA MainLives ==
  ASSUME SInv, SInv', CancelThreads \/ Sweep \/ Exit
  PROVE  Step
<1> USE DEF CancelThreads, Sweep, Exit, Goto, shared, registry, blocks
<1>1. Main \in Disconnectors /\ Main \in Threads
  BY DEF Disconnectors, Threads
<1>2. UNCHANGED <<heap, clients, username>> /\ Alone(Main)
  BY DEF Alone, SInv, IInv, TypeOK
<1>3. pc[Main] \notin LeaverLabels /\ pc'[Main] \notin LeaverLabels
  BY <1>1 DEF LeaverLabels, Detached, SInv, IInv, TypeOK
<1> QED BY <1>1, <1>2, <1>3, DisconnectorKeeps

\* Nothing that a life depends on changes.
LEMMA StutterLives ==
  ASSUME UNCHANGED <<heap, clients, username, pc, hnd>>
  PROVE  Step
BY NothingStirs DEF Step, Connecting, Leaving, Holders

-----------------------------------------------------------------------------
(* The theorems *)

LEMMA StepLives ==
  ASSUME SInv, SInv', [Next]_vars
  PROVE  Step
<1>0. {Reader, Writer, Main} \subseteq Disconnectors
  BY DEF Disconnectors
<1>1. CASE Malloc \/ AcceptFails \/ Accept \/ ListenerCancelled
  BY <1>1, ListenLives
<1>2. CASE \E t \in LoginThreads : Spawn(t) \/ Login(t) \/ add_user(t)
  BY <1>2, SpawnLives, LoginLives, AddUserLives
<1>3. CASE RecvData \/ RecvOrphan \/ ReaderLocal
  BY <1>3, ReaderLives
<1>4. CASE Notify \/ FindClient \/ End \/ \E name \in Usernames : Kick(name)
  BY <1>4, WriterLives
<1>5. CASE CancelThreads \/ Sweep \/ Exit
  BY <1>5, MainLives
<1>6. CASE ReaderDisconnects \/ WriterDisconnects \/ MainDisconnects
  BY <1>0, <1>6, DisconnectLives DEF ReaderDisconnects, WriterDisconnects, MainDisconnects
<1>7. CASE \/ \E a \in Handles : PeerCloses(a)
           \/ \E t \in Threads : BrokenPipe(t)
           \/ UNCHANGED vars
  BY <1>7, StutterLives DEF PeerCloses, BrokenPipe, vars, shared, registry, blocks
<1> QED BY <1>1, <1>2, <1>3, <1>4, <1>5, <1>6, <1>7
        DEF Next, read_clients, write_clients, main

\* A block has no name until its login is accepted and keeps the one it is given
\* for as long as its thread has not stored it (main.c:330, user_handler.c:92).
THEOREM NamesComeWithLogin == Spec => []NamedInv
<1>1. Init => SInv
  BY InitNamed, InitTypes, InitOwnership DEF SInv, IInv, Ownership, Blocks
<1>2. SInv /\ IInv' /\ [Next]_vars => SInv'
  BY NamedStep DEF SInv
<1>3. SInv => NamedInv
  BY DEF SInv
<1> QED BY Invariance, <1>1, <1>2, <1>3, PTL DEF Spec

\* The server implements Sessions: whatever its threads do at the same time, a
\* block is freed by the one disconnection that took it out of the array or before
\* its login, and a block displaced from its slot is lost for good
\* (user_handler.c:32-48, 81-97; main.c:270-273, 330-339, 432-442).
THEOREM ServerImplementsSessions == Spec => SessionsSpec
<1>1. Init => Abstract!Init
  BY DEF Init, Abstract!Init, Life
<1>2. SInv /\ SInv' /\ [Next]_vars => [Abstract!Next]_<<Life, username>>
  BY StepLives DEF Step, Stays
<1>3. Abstract!vars = <<Life, username>>
  BY DEF Abstract!vars
<1> QED BY Invariance, NamesComeWithLogin, <1>1, <1>2, <1>3, PTL
        DEF Spec, SessionsSpec, Abstract!Spec, SInv, Abstract!vars
=============================================================================
