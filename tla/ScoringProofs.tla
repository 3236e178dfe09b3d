--------------------------- MODULE ScoringProofs ----------------------------
(***************************************************************************)
(* Theorems about the decay, for any values an admin may enter.            *)
(***************************************************************************)
EXTENDS Scoring, TLAPS

ChallengeType == [mode : {"static", "dynamic"}, value : Int, initial : Int, minimum : Int, decay : Int]

LEMMA Fields ==
  ASSUME NEW c \in ChallengeType
  PROVE  Initial(c) \in Int /\ c.minimum \in Int /\ Decay(c) \in Nat /\ Decay(c) >= 1
  BY DEF ChallengeType, Initial, Decay

\* The nearest integer to a quotient between two integers is between them.
LEMMA NearestBetween ==
  ASSUME NEW v \in Int, NEW p \in Int, NEW d \in Nat, d >= 1,
         NEW lo \in Int, NEW hi \in Int, lo * d <= p, p <= hi * d, Nearest(v, p, d)
  PROVE  lo <= v /\ v <= hi
<1>1. v * d \in Int /\ lo * d \in Int /\ hi * d \in Int
  OBVIOUS
<1>2. 2 * (v * d - p) >= -d /\ 2 * (v * d - p) <= d
  BY <1>1 DEF Nearest
<1>3. ASSUME v < lo PROVE FALSE
  <2>1. (lo - v) * d >= d /\ (lo - v) * d = lo * d - v * d
    BY <1>3
  <2> QED BY <1>1, <1>2, <2>1
<1>4. ASSUME v > hi PROVE FALSE
  <2>1. (v - hi) * d >= d /\ (v - hi) * d = v * d - hi * d
    BY <1>4
  <2> QED BY <1>1, <1>2, <2>1
<1> QED BY <1>3, <1>4

\* _dynamic_value stays between minimum_value and the initial value, zero solves,
\* a decay of zero and an unset initial value included.
THEOREM ValueInRange ==
  ASSUME NEW c \in ChallengeType, NEW n \in Nat, NEW v \in Int,
         c.minimum <= Initial(c), DynamicValue(c, n, v)
  PROVE  c.minimum <= v /\ v <= Initial(c)
<1> DEFINE I == Initial(c)
           M == c.minimum
           D == Decay(c)
           p == I * D - (I - M) * n
<1>1. I \in Int /\ M \in Int /\ D \in Nat /\ D >= 1 /\ M <= I
  BY Fields
<1>2. CASE n >= D
  BY <1>1, <1>2 DEF DynamicValue
<1>3. CASE n < D
  <2>1. Nearest(v, p, D)
    BY <1>1, <1>3 DEF DynamicValue
  <2> HIDE DEF I, M, D
  <2>2. /\ (I - M) * n \in Int /\ (I - M) * n >= 0 /\ I * D \in Int
        /\ (I - M) * (D - n) >= 0 /\ (I - M) * (D - n) = I * D - M * D - (I - M) * n
    BY <1>1, <1>3
  <2>3. M * D <= p /\ p <= I * D /\ p \in Int
    BY <1>1, <2>2
  <2> HIDE DEF p
  <2>4. M <= v /\ v <= I
    BY <1>1, <2>1, <2>3, NearestBetween
  <2> QED BY <2>4 DEF I, M
<1> QED BY <1>1, <1>2, <1>3

\* Before the first solve the value is the initial one, and from `decay' solves
\* on it is the minimum.
THEOREM ValueAtTheEnds ==
  ASSUME NEW c \in ChallengeType, NEW n \in Nat, NEW v \in Int, DynamicValue(c, n, v)
  PROVE  (n = 0 => v = Initial(c)) /\ (n >= Decay(c) => v = c.minimum)
<1>1. ASSUME n = 0 PROVE v = Initial(c)
  <2> DEFINE I == Initial(c)
             D == Decay(c)
  <2>1. I \in Int /\ D \in Nat /\ D >= 1 /\ c.minimum \in Int
    BY Fields
  <2>2. Nearest(v, I * D, D)
    <3>1. (I - c.minimum) * 0 = 0 /\ I * D \in Int
      BY <2>1
    <3>2. I * D - (I - c.minimum) * n = I * D
      BY <1>1, <3>1
    <3> QED BY <1>1, <2>1, <3>2 DEF DynamicValue
  <2> HIDE DEF I, D
  <2>3. I * D \in Int /\ I * D <= I * D
    BY <2>1
  <2>4. I <= v /\ v <= I
    BY <2>1, <2>2, <2>3, NearestBetween
  <2> QED BY <2>1, <2>4 DEF I
<1> QED BY <1>1 DEF DynamicValue

\* A solve never makes a challenge dearer, however the halves are rounded.
THEOREM ValueNeverRises ==
  ASSUME NEW c \in ChallengeType, NEW n \in Nat, NEW k \in Nat, n < k,
         NEW v \in Int, NEW w \in Int, c.minimum <= Initial(c),
         DynamicValue(c, n, v), DynamicValue(c, k, w)
  PROVE  w <= v
<1> DEFINE I == Initial(c)
           M == c.minimum
           D == Decay(c)
           p == I * D - (I - M) * n
           q == I * D - (I - M) * k
<1>1. I \in Int /\ M \in Int /\ D \in Nat /\ D >= 1 /\ M <= I
  BY Fields
<1>2. M <= v /\ v <= I /\ M <= w /\ w <= I
  BY ValueInRange
<1>3. CASE k >= D
  BY <1>2, <1>3 DEF DynamicValue
<1>4. CASE I = M
  BY <1>1, <1>2, <1>4
<1>5. CASE k < D /\ I # M
  <2>1. Nearest(v, p, D) /\ Nearest(w, q, D)
    BY <1>1, <1>5 DEF DynamicValue
  <2> HIDE DEF I, M, D
  <2>2. /\ (I - M) * n \in Int /\ (I - M) * k \in Int /\ I * D \in Int
        /\ (I - M) * (k - n) >= 1 /\ (I - M) * (k - n) = (I - M) * k - (I - M) * n
    BY <1>1, <1>5
  <2>3. p \in Int /\ q \in Int /\ q < p
    BY <2>2
  <2> HIDE DEF p, q
  <2>4. v * D \in Int /\ w * D \in Int
    BY <1>1
  <2>5. 2 * (v * D - p) >= -D /\ 2 * (w * D - q) <= D
    BY <1>1, <2>1, <2>3, <2>4 DEF Nearest
  <2>6. w * D - v * D < D
    BY <1>1, <2>3, <2>4, <2>5
  <2>7. ASSUME w > v PROVE FALSE
    <3>1. (w - v) * D >= D /\ (w - v) * D = w * D - v * D
      BY <1>1, <2>7
    <3> QED BY <1>1, <2>4, <2>6, <3>1
  <2> QED BY <2>7
<1> QED BY <1>1, <1>3, <1>4, <1>5
=============================================================================
