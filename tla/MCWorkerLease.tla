---------------------------- MODULE MCWorkerLease ----------------------------
(***************************************************************************)
(* WorkerLease for TLC: workers are interchangeable.                       *)
(***************************************************************************)
EXTENDS WorkerLease, TLC

Symm == Permutations(Workers)
=============================================================================
