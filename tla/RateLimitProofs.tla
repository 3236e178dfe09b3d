-------------------------- MODULE RateLimitProofs --------------------------
(***************************************************************************)
(* Proofs about RateLimit, for any number of threads and any limit and     *)
(* window: how far the window is exceeded at most, and that the time a     *)
(* refused client is told to wait is enough.                               *)
(***************************************************************************)
EXTENDS RateLimit, FiniteSetTheorems, TLAPS

USE DEF RateAssumption

\* The deque after a request: what is left of it, and one entry more if the
\* request is let through.
LEMMA Appended ==
  ASSUME TypeOK, NEW x \in Nat
  PROVE  /\ Append(log, x) \in Seq(Nat) /\ Len(Append(log, x)) = Len(log) + 1
         /\ DOMAIN log = 1..Len(log) /\ DOMAIN Append(log, x) = 1..Len(log) + 1
         /\ \A i \in 1..Len(log) : log[i] \in Nat /\ Append(log, x)[i] = log[i]
         /\ Append(log, x)[Len(log) + 1] = x
BY DEF TypeOK

\* A time to come back is a time.
LEMMA DueNat ==
  ASSUME NEW a \in Nat, NEW b \in Nat, NEW c \in Nat
  PROVE  a + b * c \in Nat
<1> DEFINE d == b * c
<1>1. d \in Nat
  OBVIOUS
<1> HIDE DEF d
<1>2. a + d \in Nat
  BY <1>1
<1> QED
  BY <1>2 DEF d

\* Every step keeps the types, and the deque within the limit.
LEMMA StepTypeOK == TypeOK /\ [Next]_vars => TypeOK'
<1> SUFFICES ASSUME TypeOK, [Next]_vars PROVE TypeOK'
  OBVIOUS
<1> USE RateAssumption DEF TypeOK
<1>1. CASE UNCHANGED vars
  BY <1>1 DEF vars
<1>2. CASE Tick
  BY <1>2 DEF Tick
<1>3. ASSUME NEW t \in Threads, Call(t) PROVE TypeOK'
  BY <1>3 DEF Call
<1>4. ASSUME NEW t \in Threads, Leave(t)
      PROVE  /\ clock' \in 0..MaxTime /\ limit' \in Limits /\ calls' \in 0..MaxCalls
             /\ pc' \in [Threads -> {"idle", "check"}] /\ now' \in [Threads -> Nat]
             /\ latest' \in Nat
  BY <1>4 DEF Leave
<1>5. ASSUME NEW t \in Threads, Admit(t) PROVE TypeOK'
  <2>1. PICK h \in head..Len(log) : Pops(h, now[t]) /\ Allowed(h) /\ head' = h
    BY <1>5 DEF Admit
  <2>2. /\ log' = Append(log, now[t]) /\ due' = 0 /\ limit' = limit
        /\ now[t] \in Nat /\ limit \in Nat
    BY <1>5 DEF Admit, Leave
  <2>3. /\ log' \in Seq(Nat) /\ Len(log') = Len(log) + 1
    BY <2>2, Appended
  <2>4. /\ head' \in 0..Len(log') /\ Len(log') - head' <= limit'
    BY <2>1, <2>2, <2>3 DEF Allowed
  <2> QED
    BY <1>5, <1>4, <2>2, <2>3, <2>4 DEF Admit
<1>6. ASSUME NEW t \in Threads, Refuse(t) PROVE TypeOK'
  <2>1. PICK h \in head..Len(log) :
          /\ head' = h
          /\ \/ h = Len(log) /\ UNCHANGED due
             \/ \E r \in 0 .. Window + MaxTime + 1 :
                  due' = IF due = 0 THEN now[t] + r * Second ELSE due
    BY ONLY <1>6 DEF Refuse
  <2>2. due' \in Nat
    <3>1. ASSUME NEW r \in 0 .. Window + MaxTime + 1 PROVE now[t] + r * Second \in Nat
      <4>1. r \in Nat /\ Second \in Nat /\ now[t] \in Nat
        OBVIOUS
      <4> QED
        BY ONLY <4>1, DueNat
    <3> QED
      BY <2>1, <3>1
  <2>3. log' = log /\ limit' = limit /\ limit \in Nat
    BY <1>6 DEF Refuse, Leave
  <2>4. head' \in 0..Len(log') /\ Len(log') - head' <= limit'
    BY <2>1, <2>3
  <2> QED
    BY <1>6, <1>4, <2>2, <2>3, <2>4 DEF Refuse
<1> QED
  BY <1>1, <1>2, <1>3, <1>5, <1>6 DEF Next

-----------------------------------------------------------------------------
\* As long as no check is beyond a window, all of its entries are in the deque.
LEMMA InDeque ==
  ASSUME TypeOK, NEW time \in Nat, latest <= time,
         \A i \in 1..head : log[i] < latest - Window
  PROVE  IsFiniteSet(Within(time)) /\ Cardinality(Within(time)) <= limit
<1> USE RateAssumption DEF TypeOK
<1>1. Within(time) \subseteq head + 1 .. Len(log)
  <2> SUFFICES ASSUME NEW i \in Within(time) PROVE i \in head + 1 .. Len(log)
    OBVIOUS
  <2>1. i \in 1..Len(log) /\ log[i] >= time - Window /\ log[i] \in Nat
    BY DEF Within
  <2>2. latest \in Nat /\ Window \in Nat /\ head \in Nat /\ Len(log) \in Nat
    OBVIOUS
  <2>3. i \notin 1..head
    BY <2>1, <2>2
  <2> QED
    BY <2>1, <2>2, <2>3
<1>2. /\ head + 1 \in Int /\ Len(log) \in Int /\ head \in Int /\ limit \in Nat
      /\ head <= Len(log) /\ Len(log) - head <= limit
  OBVIOUS
<1>3. /\ IsFiniteSet(head + 1 .. Len(log))
      /\ Cardinality(head + 1 .. Len(log)) = Len(log) - head
  <2> DEFINE a == head + 1
            b == Len(log)
  <2>1. a \in Int /\ b \in Int /\ head \in Int /\ a = head + 1 /\ head <= b
    BY <1>2
  <2> HIDE DEF a, b
  <2>2. IsFiniteSet(a..b) /\ Cardinality(a..b) = IF a > b THEN 0 ELSE b - a + 1
    BY ONLY <2>1, FS_Interval
  <2>3. IsFiniteSet(a..b) /\ Cardinality(a..b) = b - head
    BY ONLY <2>1, <2>2
  <2> QED
    BY <2>3 DEF a, b
<1>4. /\ IsFiniteSet(Within(time))
      /\ Cardinality(Within(time)) <= Cardinality(head + 1 .. Len(log))
  BY <1>1, <1>3, FS_Subset
<1>5. Cardinality(Within(time)) \in Nat
  BY <1>4, FS_CardinalityType
<1> QED
  BY <1>2, <1>3, <1>4, <1>5

\* What was let through is finite, and so are those on their way to the lock.
LEMMA Finite ==
  ASSUME TypeOK, NEW time
  PROVE  /\ IsFiniteSet(Within(time)) /\ Cardinality(Within(time)) \in Nat
         /\ IsFiniteSet(Overtaken(time)) /\ Cardinality(Overtaken(time)) \in Nat
         /\ Cardinality(Threads) \in Nat
<1>1. IsFiniteSet(Within(time))
  <2>1. DOMAIN log = 1..Len(log) /\ Len(log) \in Int
    BY DEF TypeOK
  <2>2. IsFiniteSet(1..Len(log))
    BY <2>1, FS_Interval
  <2> QED
    BY <2>1, <2>2, FS_Subset DEF Within
<1>2. IsFiniteSet(Overtaken(time))
  BY RateAssumption, FS_Subset DEF Overtaken
<1> QED
  BY <1>1, <1>2, RateAssumption, FS_CardinalityType

\* A request that is let through adds itself to the windows it lies in.
LEMMA WithinGrows ==
  ASSUME TypeOK, NEW x \in Nat, NEW time \in Nat,
         log' = log \/ log' = Append(log, x)
  PROVE  /\ Cardinality(Within(time)') \in Nat
         /\ Cardinality(Within(time)') <= Cardinality(Within(time)) + 1
         /\ x > time => Within(time)' = Within(time)
<1> USE RateAssumption
<1>1. CASE log' = log
  <2>1. Within(time)' = Within(time)
    BY <1>1 DEF Within
  <2> QED
    BY <2>1, Finite
<1>2. CASE log' = Append(log, x)
  <2>1. /\ DOMAIN log = 1..Len(log) /\ DOMAIN log' = 1..Len(log) + 1 /\ Len(log) \in Nat
        /\ \A i \in 1..Len(log) : log'[i] = log[i]
        /\ log'[Len(log) + 1] = x
    BY <1>2, Appended DEF TypeOK
  <2>2. Within(time)' \subseteq Within(time) \cup {Len(log) + 1}
    BY <2>1 DEF Within
  <2>3. Within(time) \subseteq Within(time)'
    BY <2>1 DEF Within
  <2>4. x > time => Len(log) + 1 \notin Within(time)'
    BY <2>1 DEF Within
  <2>5. /\ IsFiniteSet(Within(time) \cup {Len(log) + 1})
        /\ Cardinality(Within(time) \cup {Len(log) + 1}) <= Cardinality(Within(time)) + 1
    <3> DEFINE W == Within(time)
               e == Len(log) + 1
    <3>1. IsFiniteSet(W) /\ Cardinality(W) \in Nat
      BY Finite
    <3> HIDE DEF W, e
    <3>2. /\ IsFiniteSet(W \cup {e})
          /\ Cardinality(W \cup {e}) = IF e \in W THEN Cardinality(W) ELSE Cardinality(W) + 1
      BY ONLY <3>1, FS_AddElement
    <3>3. Cardinality(W \cup {e}) <= Cardinality(W) + 1
      BY ONLY <3>1, <3>2
    <3> QED
      BY <3>2, <3>3 DEF W, e
  <2>6. /\ IsFiniteSet(Within(time)')
        /\ Cardinality(Within(time)') <= Cardinality(Within(time) \cup {Len(log) + 1})
    BY <2>2, <2>5, FS_Subset
  <2>7. /\ Cardinality(Within(time)') \in Nat /\ Cardinality(Within(time)) \in Nat
        /\ Cardinality(Within(time) \cup {Len(log) + 1}) \in Nat
    BY <2>5, <2>6, Finite, FS_CardinalityType
  <2>8. Cardinality(Within(time)') <= Cardinality(Within(time)) + 1
    BY <2>5, <2>6, <2>7
  <2> QED
    BY <2>2, <2>3, <2>4, <2>7, <2>8
<1> QED
  BY <1>1, <1>2

\* The bound of the windows that the checks have gone beyond.
Bounded(time) ==
    Cardinality(Within(time)) + Cardinality(Overtaken(time)) <= limit + Cardinality(Threads) - 1

\* A check, whatever its outcome, keeps that bound.
LEMMA CheckBounded ==
  ASSUME IInv, NEW t \in Threads, pc[t] = "check", Leave(t),
         log' = log \/ log' = Append(log, now[t]),
         NEW time \in 0..MaxTime, time < latest'
  PROVE  Bounded(time)'
<1> USE RateAssumption
<1>1. TypeOK /\ now[t] \in Nat /\ latest \in Nat /\ time \in Nat /\ limit \in Nat /\ limit' = limit
  BY DEF IInv, TypeOK, Leave
<1>2. now' = now /\ pc' = [pc EXCEPT ![t] = "idle"] /\ pc \in [Threads -> {"idle", "check"}]
  BY <1>1 DEF Leave, TypeOK
<1>3. Overtaken(time)' = Overtaken(time) \ {t}
  BY <1>2 DEF Overtaken
<1>4. /\ IsFiniteSet(Overtaken(time)) /\ Cardinality(Within(time)) \in Nat
      /\ Cardinality(Overtaken(time)) \in Nat /\ Cardinality(Threads) \in Nat
  BY <1>1, Finite
<1>5. IsFiniteSet(Overtaken(time)') /\ Cardinality(Overtaken(time)') \in Nat
  BY <1>3, <1>4, FS_Subset, FS_CardinalityType
<1>6. /\ Cardinality(Within(time)') <= Cardinality(Within(time)) + 1
      /\ now[t] > time => Within(time)' = Within(time)
  BY <1>1, WithinGrows
<1>7. Cardinality(Within(time)') \in Nat
  BY <1>1, WithinGrows
<1>8. CASE time < latest
  <2>1. Bounded(time)
    BY <1>8 DEF IInv, Bounded
  <2>2. CASE now[t] <= time
    <3>1. t \in Overtaken(time)
      BY <2>2 DEF Overtaken
    <3>2. Cardinality(Overtaken(time)') = Cardinality(Overtaken(time)) - 1
      <4>1. Cardinality(Overtaken(time) \ {t}) = Cardinality(Overtaken(time)) - 1
        BY <1>4, <3>1, FS_RemoveElement
      <4> QED BY <1>3, <4>1
    <3> QED
      BY <1>1, <1>4, <1>5, <1>6, <1>7, <2>1, <3>2 DEF Bounded
  <2>3. CASE now[t] > time
    <3>1. t \notin Overtaken(time)
      BY <2>3, <1>1 DEF Overtaken
    <3>2. Overtaken(time)' = Overtaken(time)
      BY <1>3, <3>1
    <3> QED
      BY <1>1, <1>4, <1>6, <2>1, <2>3, <3>2 DEF Bounded
  <2> QED
    BY <1>1, <2>2, <2>3
<1>9. CASE latest <= time
  <2>1. now[t] > time
    BY <1>1, <1>9 DEF Leave
  <2>2. Cardinality(Within(time)') <= limit
    BY <1>1, <1>6, <1>9, <2>1, InDeque DEF IInv
  <2>3. /\ Overtaken(time)' \subseteq Threads \ {t}
        /\ IsFiniteSet(Threads \ {t})
        /\ Cardinality(Threads \ {t}) = Cardinality(Threads) - 1
    BY <1>3, FS_RemoveElement DEF Overtaken
  <2>4. Cardinality(Overtaken(time)') <= Cardinality(Threads) - 1
    BY <2>3, FS_Subset
  <2> QED
    BY <1>1, <1>4, <1>5, <1>7, <2>2, <2>4 DEF Bounded
<1> QED
  BY <1>1, <1>8, <1>9

\* What a check pops is older than the window of that check.
LEMMA CheckPops ==
  ASSUME IInv, NEW t \in Threads, Leave(t), NEW h \in head..Len(log), Pops(h, now[t]), head' = h,
         log' = log \/ log' = Append(log, now[t])
  PROVE  \A i \in 1..head' : log'[i] < latest' - Window
<1> SUFFICES ASSUME NEW i \in 1..h PROVE log'[i] < latest' - Window
  OBVIOUS
<1>1. /\ TypeOK /\ now[t] \in Nat /\ latest \in Nat /\ Window \in Nat
      /\ head \in Nat /\ Len(log) \in Nat /\ i \in 1..Len(log)
  BY RateAssumption DEF IInv, TypeOK
<1>2. log'[i] = log[i] /\ log[i] \in Nat
  BY <1>1, Appended
<1>3. latest' \in Nat /\ latest' >= latest /\ latest' >= now[t]
  BY <1>1 DEF Leave
<1>4. log[i] < latest - Window \/ log[i] < now[t] - Window
  BY <1>1 DEF Pops, IInv
<1> QED
  BY <1>1, <1>2, <1>3, <1>4

\* A refused client waits for the oldest entry, or for nothing any more.
Waiting == due > 0 => \/ Len(log) - head < limit
                      \/ head < Len(log) /\ log[head + 1] < due - Window

\* A refusal keeps that: the time it names is beyond the oldest entry's.
LEMMA RefuseWaiting ==
  ASSUME IInv, NEW t \in Threads, Refuse(t)
  PROVE  Waiting'
<1>1. PICK h \in head..Len(log) :
        /\ ~ Allowed(h) /\ head' = h
        /\ \E r \in 0 .. Window + MaxTime + 1 :
             /\ RetryAfter(r, Window - (now[t] - log[h + 1]))
             /\ due' = IF due = 0 THEN now[t] + r * Second ELSE due
  BY DEF Refuse
<1>2. /\ log' = log /\ limit' = limit /\ limit \in Nat \ {0} /\ head \in Nat /\ Len(log) \in Nat
      /\ head <= Len(log) /\ Len(log) - head <= limit /\ due \in Nat
      /\ now[t] \in Nat /\ Window \in Nat /\ Second \in Nat /\ MaxTime \in Nat
      /\ \A i \in 1..Len(log) : log[i] \in Nat
  <2>1. TypeOK /\ log' = log /\ Leave(t)
    BY DEF IInv, Refuse
  <2>2. Window \in Nat /\ Second \in Nat /\ MaxTime \in Nat
    BY RateAssumption
  <2>3. limit' = limit /\ limit \in Nat \ {0}
    BY <2>1, RateAssumption DEF TypeOK, Leave
  <2> QED
    BY <2>1, <2>2, <2>3 DEF TypeOK
<1>3. Waiting
  BY DEF IInv, Waiting
<1>4. CASE due > 0
  <2>1. due' = due
    BY <1>1, <1>2, <1>4
  <2>2. CASE h = head
    BY <1>1, <1>2, <1>3, <2>1, <2>2 DEF Waiting
  <2>3. CASE h > head
    BY <1>1, <1>2, <2>3 DEF Waiting
  <2> QED
    BY <1>1, <1>2, <2>2, <2>3
<1>5. h < Len(log)
  BY <1>1, <1>2 DEF Allowed
<1>6. CASE due = 0
  <2>2. PICK r \in 0 .. Window + MaxTime + 1 :
          /\ RetryAfter(r, Window - (now[t] - log[h + 1]))
          /\ due' = IF due = 0 THEN now[t] + r * Second ELSE due
    BY ONLY <1>1
  <2> DEFINE d == r * Second
  <2>3. r \in Nat /\ log[h + 1] \in Nat
    BY <1>1, <1>2, <1>5
  <2>4. d \in Nat
    BY ONLY <1>2, <2>3
  <2>5. Window - (now[t] - log[h + 1]) < d /\ due' = now[t] + d
    BY ONLY <2>2, <1>6 DEF RetryAfter
  <2> HIDE DEF d
  <2>6. log[h + 1] < due' - Window
    <3>1. now[t] \in Nat /\ Window \in Nat
      BY ONLY <1>2
    <3>2. \A a, b, e, x \in Nat : a - (b - x) < e => x < b + e - a
      OBVIOUS
    <3> QED BY ONLY <2>3, <2>4, <2>5, <3>1, <3>2
  <2> QED
    BY <1>1, <1>2, <1>5, <2>6 DEF Waiting
<1> QED
  BY <1>2, <1>4, <1>6

\* The inductive invariant.
LEMMA StepIInv == IInv /\ [Next]_vars => IInv'
<1> SUFFICES ASSUME IInv, [Next]_vars PROVE IInv'
  OBVIOUS
<1> USE RateAssumption
<1>1. TypeOK /\ TypeOK'
  BY StepTypeOK DEF IInv
<1>2. CASE UNCHANGED vars
  BY <1>1, <1>2 DEF vars, IInv, Within, Overtaken
<1>3. CASE Tick
  <2>1. \A time : Within(time)' = Within(time) /\ Overtaken(time)' = Overtaken(time)
    BY <1>3 DEF Tick, Within, Overtaken
  <2>2. latest' <= clock' /\ \A t \in Threads : now'[t] <= clock'
    BY <1>1, <1>3 DEF Tick, IInv, TypeOK
  <2> QED
    BY <1>1, <1>3, <2>1, <2>2 DEF Tick, IInv
<1>4. ASSUME NEW t \in Threads, Call(t) PROVE IInv'
  <2>1. /\ latest' <= clock' /\ \A q \in Threads : now'[q] <= clock'
        /\ \A i \in 1..head' : log'[i] < latest' - Window
        /\ Waiting'
    BY <1>1, <1>4 DEF Call, IInv, TypeOK, Waiting
  <2>2. ASSUME NEW time \in 0..MaxTime, time < latest PROVE Bounded(time)'
    <3>1. Bounded(time)
      BY <2>2 DEF IInv, Bounded
    <3>2. clock > time /\ now' = [now EXCEPT ![t] = clock] /\ pc' = [pc EXCEPT ![t] = "check"]
      BY <1>1, <1>4, <2>2 DEF Call, IInv, TypeOK
    <3>3. Overtaken(time)' = Overtaken(time)
      BY <1>1, <1>4, <3>2 DEF Call, Overtaken, TypeOK
    <3>4. Within(time)' = Within(time) /\ limit' = limit
      BY <1>4 DEF Call, Within
    <3> QED
      BY <3>1, <3>3, <3>4 DEF Bounded
  <2>3. latest' = latest
    BY <1>4 DEF Call
  <2> QED
    BY <1>1, <2>1, <2>2, <2>3 DEF IInv, Bounded, Waiting
<1>5. ASSUME NEW t \in Threads, pc[t] = "check", Leave(t), Waiting',
             log' = log \/ log' = Append(log, now[t]),
             NEW h \in head..Len(log), Pops(h, now[t]), head' = h
      PROVE  IInv'
  <2>1. latest' <= clock' /\ \A q \in Threads : now'[q] <= clock'
    BY <1>1, <1>5 DEF Leave, IInv, TypeOK
  <2>2. \A i \in 1..head' : log'[i] < latest' - Window
    BY <1>5, CheckPops
  <2>3. \A time \in 0..MaxTime : time < latest' => Bounded(time)'
    BY <1>5, CheckBounded
  <2> QED
    BY <1>1, <1>5, <2>1, <2>2, <2>3 DEF IInv, Bounded, Waiting
<1>6. ASSUME NEW t \in Threads, Admit(t) PROVE IInv'
  <2>1. due' = 0 /\ Leave(t) /\ pc[t] = "check" /\ log' = Append(log, now[t])
    BY <1>6 DEF Admit
  <2>2. PICK h \in head..Len(log) : Pops(h, now[t]) /\ head' = h
    BY <1>6 DEF Admit
  <2>3. Waiting'
    BY <2>1 DEF Waiting
  <2> QED
    BY <1>5, <2>1, <2>2, <2>3
<1>7. ASSUME NEW t \in Threads, Refuse(t) PROVE IInv'
  <2>1. Leave(t) /\ pc[t] = "check" /\ log' = log
    BY <1>7 DEF Refuse
  <2>2. PICK h \in head..Len(log) : Pops(h, now[t]) /\ head' = h
    BY <1>7 DEF Refuse
  <2>3. Waiting'
    BY <1>7, RefuseWaiting
  <2> QED
    BY <1>5, <2>1, <2>2, <2>3
<1> QED
  BY <1>2, <1>3, <1>4, <1>6, <1>7 DEF Next

\* The inductive invariant holds throughout.
THEOREM InductiveInvariant == Spec => []IInv
<1>1. Init => IInv
  <2> SUFFICES ASSUME Init PROVE IInv
    OBVIOUS
  <2> USE RateAssumption
  <2>1. TypeOK
    BY DEF Init, TypeOK
  <2>2. \A time \in 0..MaxTime : ~ (time < latest)
    BY DEF Init
  <2> QED
    BY <2>1, <2>2 DEF Init, IInv
<1> QED
  BY <1>1, StepIInv, PTL DEF Spec

\* Types; the deque never holds more than the limit.
THEOREM TypeCorrect == Spec => []TypeOK
<1>1. IInv => TypeOK
  BY DEF IInv
<1> QED
  BY <1>1, InductiveInvariant, PTL

\* However the threads overtake each other between the clock and the lock, a
\* window holds at most the limit, and one more for each other thread.
THEOREM WindowIsBounded == Spec => []WindowBound
<1>1. IInv => WindowBound
  <2> SUFFICES ASSUME IInv, NEW time \in 0..MaxTime
               PROVE  Cardinality(Within(time)) <= limit + Cardinality(Threads) - 1
    BY DEF WindowBound
  <2> USE RateAssumption
  <2>1. TypeOK /\ time \in Nat /\ latest \in Nat /\ limit \in Nat
    BY DEF IInv, TypeOK
  <2>2. /\ Cardinality(Within(time)) \in Nat /\ Cardinality(Overtaken(time)) \in Nat
        /\ Cardinality(Threads) \in Nat
    BY <2>1, Finite
  <2>3. Cardinality(Threads) # 0
    BY FS_EmptySet
  <2>4. /\ TypeOK /\ time \in Nat /\ latest \in Nat /\ limit \in Nat
        /\ Cardinality(Within(time)) \in Nat /\ Cardinality(Overtaken(time)) \in Nat
        /\ Cardinality(Threads) \in Nat /\ Cardinality(Threads) # 0
    BY <2>1, <2>2, <2>3
  <2>5. CASE time < latest
    BY <2>4, <2>5 DEF IInv
  <2>6. CASE latest <= time
    <3>1. Cardinality(Within(time)) <= limit
      BY <2>4, <2>6, InDeque DEF IInv
    <3> QED
      BY <2>4, <3>1
  <2> QED
    BY <2>4, <2>5, <2>6
<1> QED
  BY <1>1, InductiveInvariant, PTL

\* Who waits as long as it was told is let through, unless somebody else was.
THEOREM RetryIsHonest == Spec => []RetryHonest
<1>1. IInv => RetryHonest
  <2> SUFFICES ASSUME IInv, due > 0, NEW h \in head..Len(log), Pops(h, due)
               PROVE  Allowed(h)
    BY DEF RetryHonest
  <2>1. /\ head \in Nat /\ Len(log) \in Nat /\ limit \in Nat /\ due \in Nat /\ Window \in Nat
        /\ Len(log) - head <= limit /\ \A i \in 1..Len(log) : log[i] \in Nat
    <3>1. TypeOK
      BY DEF IInv
    <3>2. Window \in Nat /\ Limits \subseteq Nat
      BY RateAssumption
    <3> QED BY <3>1, <3>2 DEF TypeOK
  <2>2. CASE Len(log) - head < limit
    BY <2>1, <2>2 DEF Allowed
  <2>3. CASE head < Len(log) /\ log[head + 1] < due - Window
    <3>1. h # head
      BY <2>1, <2>3 DEF Pops
    <3> QED
      BY <2>1, <3>1 DEF Allowed
  <2> QED
    BY <2>2, <2>3 DEF IInv
<1> QED
  BY <1>1, InductiveInvariant, PTL
=============================================================================
