--------------------------- MODULE MCInstanceRows ---------------------------
(***************************************************************************)
(* InstanceRows for TLC: worker processes are interchangeable, and so are  *)
(* the challenges.  Container ids are not: they are handed out in order.   *)
(***************************************************************************)
EXTENDS InstanceRows, TLC

Symm == Permutations(Workers) \cup Permutations(Chals)
=============================================================================
