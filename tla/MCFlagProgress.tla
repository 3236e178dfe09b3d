--------------------------- MODULE MCFlagProgress ---------------------------
(***************************************************************************)
(* FlagProgress for TLC: members and flags are interchangeable.  On the    *)
(* side, Scoring over small inputs, where the proofs do not reach.         *)
(***************************************************************************)
EXTENDS FlagProgress, Scoring, TLC

Symm == Permutations(Members) \cup Permutations(Flags)

\* Every challenge has a value, and solves do not move a static one.
ASSUME ScoringTotal ==
    \A c \in [mode : {"static", "dynamic"}, value : 0..2, initial : 0..3, minimum : -1..3, decay : -1..4] :
      \A n \in 0..5 :
        /\ \E v \in -1..3 : CurrentValue(c, n, v)
        /\ c.mode = "static" => \A v \in -1..3 : CurrentValue(c, n, v) <=> v = c.value

\* The admin's warning is about the total the participants' percentages are of;
\* an owner has nothing without a flag, never more after fewer flags, and all with
\* the whole set, unless every flag is worth 0.
ASSUME WeightsAgree ==
    \A set \in SUBSET Flags : \A w \in [set -> {0, 30, 100}] :
      /\ SumTo100(w, Flags) <=> Total(w, Flags) = 100
      /\ \A mine \in SUBSET Flags : \A v \in 0..1000 : PercentEarned(w, Flags, mine, v) =>
           /\ mine = {} => v = 0
           /\ mine = Flags => v = IF Total(w, Flags) = 0 THEN 0 ELSE 1000
           /\ \A f \in Flags \ mine : \E u \in v..1000 : PercentEarned(w, Flags, mine \cup {f}, u)
=============================================================================
