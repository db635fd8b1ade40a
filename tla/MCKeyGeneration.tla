---------------------------- MODULE MCKeyGeneration ----------------------------
EXTENDS KeyGeneration, TLC

\* Three bits for p and q, five for key_private: p and q are 3, 7 or 11, key_private is
\* 3, 17 or 29, so that it divides p - 1 or q - 1 in some keys.
MCRandValues == {2, 13, 23}
MCurandomb == [x \in MCRandValues \X {3, 5} |-> x[1] % 2^x[2]]

Symmetric == Permutations(Threads)
=============================================================================
