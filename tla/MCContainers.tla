---------------------------- MODULE MCContainers ----------------------------
(***************************************************************************)
(* Containers for TLC: the symmetry of owners, challenges and threads.     *)
(* Container ids are chosen by FreshCid and are not symmetric.             *)
(***************************************************************************)
EXTENDS Containers, TLC

Symm == Permutations(Owners) \cup Permutations(Threads)
=============================================================================
