---------------------------- MODULE MCRateLimit ----------------------------
(***************************************************************************)
(* RateLimit for TLC: threads are interchangeable; Second is two ticks, so *)
(* that times between whole seconds occur.                                 *)
(***************************************************************************)
EXTENDS RateLimit, TLC

Symm == Permutations(Threads)
=============================================================================
