------------------------------- MODULE MCServer -------------------------------
EXTENDS ServerProperties, TLC

\* The handles, the usernames and the login threads are interchangeable.
Symmetry == Permutations(Handles) \cup Permutations(Usernames) \cup Permutations(LoginThreads)
=============================================================================
