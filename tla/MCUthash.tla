------------------------------- MODULE MCUthash --------------------------------
EXTENDS Uthash, TLC

CONSTANTS e1, e2, e3, e4

\* Four client_handles with different usernames.  Three of them always share a
\* bucket, so that expanding does not help; the fourth leaves it when the table
\* expands, and has the memory that the third had before.
Colliding == {e1, e2, e3}
MCElements == Colliding \cup {e4}
MCKey == [e \in MCElements |-> e]
MCHash == [k \in MCElements |-> IF k \in Colliding THEN 0 ELSE 1]
MCBlock == [e \in MCElements |-> IF e = e4 THEN e3 ELSE e]

\* Of those that collide the two with memory of their own are interchangeable.
Symmetry == Permutations({e1, e2})
=============================================================================
