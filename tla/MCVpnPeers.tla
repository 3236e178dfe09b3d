----------------------------- MODULE MCVpnPeers -----------------------------
(***************************************************************************)
(* VpnPeers for TLC: two users and two addresses in their order, the       *)
(* processes interchangeable.                                              *)
(***************************************************************************)
EXTENDS VpnPeers, TLC

MCUsers == 1..2
MCIps == 1..2
Symm == Permutations(Procs)
=============================================================================
