------------------------------- MODULE NameTable -------------------------------
(***************************************************************************)
(* What the server may rely on when one thread updates clients_table and   *)
(* another looks a name up in it, with no lock: each answer is one that    *)
(* the registry could have given at some instant of the lookup.  This is   *)
(* the promise behind Find, AddBegin, AddEnd, DelBegin and DelEnd of       *)
(* UserHandler; Uthash implements it.                                      *)
(***************************************************************************)
CONSTANTS
  Elements,   \* what can be linked into the table
  Key,        \* the key of each element
  NULL,
  Wild        \* the answer of a lookup that read what is not there any more

VARIABLES
  entries,    \* the elements of the table
  moving,     \* the element an update is adding or deleting, or NULL
  sought,     \* the key that is being looked up, or NULL
  answers,    \* the answers that were possible since the lookup began
  result      \* what the last lookup has returned

vars == <<entries, moving, sought, answers, result>>

\* The answers for k at an instant: exact while no update is in progress.
Answers(k, table, mv) ==
  LET found == {e \in table : Key[e] = k}
  IN IF mv # NULL THEN {NULL, Wild} \cup found \cup {e \in {mv} : Key[e] = k}
     ELSE IF found = {} THEN {NULL} ELSE found

Init ==
  /\ entries = {} /\ moving = NULL
  /\ sought = NULL /\ answers = {} /\ result = NULL

\* An update changes what the lookup in progress may return.
Observe ==
  /\ answers' = IF sought = NULL THEN {} ELSE answers \cup Answers(sought, entries', moving')
  /\ UNCHANGED <<sought, result>>

BeginUpdate ==
  /\ moving = NULL
  /\ moving' \in Elements
  /\ UNCHANGED entries
  /\ Observe

EndUpdate ==
  /\ moving # NULL
  /\ moving' = NULL
  /\ entries' = IF moving \in entries THEN entries \ {moving} ELSE entries \cup {moving}
  /\ Observe

BeginLookup ==
  /\ sought = NULL
  /\ \E e \in DOMAIN Key :
       /\ sought' = Key[e]
       /\ answers' = Answers(Key[e], entries, moving)
  /\ UNCHANGED <<entries, moving, result>>

EndLookup ==
  /\ sought # NULL
  /\ result' \in answers
  /\ sought' = NULL /\ answers' = {}
  /\ UNCHANGED <<entries, moving>>

Next == BeginUpdate \/ EndUpdate \/ BeginLookup \/ EndLookup

Spec == Init /\ [][Next]_vars
=============================================================================
