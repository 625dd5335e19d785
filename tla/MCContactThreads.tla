-------------------------- MODULE MCContactThreads --------------------------
(* A few threads, users and requests, of which only the service differs.   *)
EXTENDS ContactThreads, TLC

Symmetry ==
  Permutations(Threads) \cup Permutations(Requests) \cup Permutations(Users \ ServiceUsers)
=============================================================================
