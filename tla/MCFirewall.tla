----------------------------- MODULE MCFirewall -----------------------------
(***************************************************************************)
(* Firewall for TLC: threads and owners are interchangeable.               *)
(***************************************************************************)
EXTENDS Firewall

Symm == Permutations(Threads) \cup Permutations(Owners)
=============================================================================
