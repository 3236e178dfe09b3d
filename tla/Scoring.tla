------------------------------ MODULE Scoring -------------------------------
(***************************************************************************)
(* What a challenge is worth and how much of it an owner has earned: the   *)
(* decay of challenge_type.py and the weights of the flags, which admins   *)
(* set.  Both are only shown: CTFd's scoreboard pays Challenges.value.     *)
(*                                                                         *)
(* A column that is NULL counts as 0 here, and 0 as not set, as in the     *)
(* code's `or'.  A quotient is rounded from a float, so a half may go to   *)
(* either side: values are relations, not functions.                       *)
(***************************************************************************)
EXTENDS Integers, FiniteSets, FiniteSetsExt

\* v is p / d to the nearest integer.
Nearest(v, p, d) == 2 * (v * d - p) \in -d .. d

-----------------------------------------------------------------------------
\* The value of challenge c after n solves.

Initial(c) == IF c.initial # 0 THEN c.initial ELSE c.value
Decay(c)   == IF c.decay >= 1 THEN c.decay ELSE 1

DynamicValue(c, n, v) ==
    IF n >= Decay(c) THEN v = c.minimum
    ELSE Nearest(v, Initial(c) * Decay(c) - (Initial(c) - c.minimum) * n, Decay(c))

CurrentValue(c, n, v) == IF c.mode = "static" THEN v = c.value ELSE DynamicValue(c, n, v)

-----------------------------------------------------------------------------
\* Table edo_flag_weights: w gives some flags a percentage; the others have 100.

Weight(w, f) == IF f \in DOMAIN w THEN w[f] ELSE 100
Total(w, fs) == MapThenSumSet(LAMBDA f : Weight(w, f), fs)

\* _flag_weights_sum_to_100 adds up the rows and counts the flags without one.
SumTo100(w, fs) ==
    fs = {} \/ MapThenSumSet(LAMBDA f : w[f], fs \cap DOMAIN w)
               + 100 * (Cardinality(fs) - Cardinality(fs \cap DOMAIN w)) = 100

\* percent_earned of owner_progress, in tenths of a per cent.
PercentEarned(w, fs, mine, v) ==
    Nearest(v, 1000 * Total(w, mine), IF Total(w, fs) = 0 THEN 100 ELSE Total(w, fs))
=============================================================================
