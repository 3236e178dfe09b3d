-------------------------- MODULE WorkerLeaseProofs --------------------------
(***************************************************************************)
(* Proofs about WorkerLease, for any number of workers and any interval,   *)
(* lease, grace and delay: the lease excludes, its expiry only advances,   *)
(* and nobody takes it over before that expiry.                            *)
(***************************************************************************)
EXTENDS WorkerLease, TLAPS

\* A lease has a length.
LEMMA LeaseNat == Lease \in Nat
BY LeaseAssumption DEF LeaseAssumption, Lease

\* Every operation keeps the types.
LEMMA StepTypeOK == TypeOK /\ [Next]_vars => TypeOK'
<1> SUFFICES ASSUME TypeOK, [Next]_vars PROVE TypeOK'
  OBVIOUS
<1> USE LeaseAssumption, LeaseNat DEF LeaseAssumption, TypeOK, Pcs, Time
<1>1. CASE UNCHANGED vars
  BY <1>1 DEF vars
<1>2. CASE Tick
  BY <1>2 DEF Tick
<1>3. ASSUME NEW w \in Workers, WorkerStep(w) PROVE TypeOK'
  <2>1. CASE StartScheduler(w)
    BY <2>1 DEF StartScheduler
  <2>2. CASE TickJob(w)
    <3>1. due' \in [Workers -> Nat]
      BY <2>2 DEF TickJob
    <3>2. pc' \in [Workers -> Pcs] /\ now' \in [Workers -> Time]
      BY <2>2 DEF TickJob
    <3> QED
      BY <2>2, <3>1, <3>2 DEF TickJob
  <2>3. ASSUME Win(w), UNCHANGED <<clock, now, due>> PROVE TypeOK'
    <3>1. now[w] + Lease \in Nat
      OBVIOUS
    <3> QED
      BY <2>3, <3>1 DEF Win
  <2>4. CASE UpdateLease(w)
    BY <2>4, <2>3 DEF UpdateLease
  <2>5. CASE SelectLease(w)
    BY <2>5 DEF SelectLease
  <2>6. CASE InsertLease(w)
    BY <2>6, <2>3 DEF InsertLease
  <2>7. CASE FinishJob(w)
    BY <2>7 DEF FinishJob
  <2>8. CASE Die(w)
    BY <2>8 DEF Die
  <2> QED
    BY <1>3, <2>1, <2>2, <2>4, <2>5, <2>6, <2>7, <2>8 DEF WorkerStep
<1> QED
  BY <1>1, <1>2, <1>3 DEF Next

\* A win keeps the invariant when the lease was free, expired, or the winner's.
LEMMA WinLeaseInv ==
  ASSUME IInv, NEW w \in Workers, Win(w), UNCHANGED <<clock, now, due>>,
         pc[w] # "job", lease.holder = None \/ Renewable(w)
  PROVE  LeaseInv'
<1> USE LeaseAssumption, LeaseNat DEF LeaseAssumption, IInv, TypeOK, Pcs, Time, Win
<1>1. lease'.holder = w /\ lease'.exp = now[w] + Lease /\ grant'[w] = now[w] + Lease
  OBVIOUS
<1>2. ASSUME NEW v \in Workers, pc'[v] = "job", v # w
      PROVE  grant'[v] < clock'
  <2>1. pc[v] = "job" /\ grant'[v] = grant[v]
    BY <1>2
  <2>2. lease.holder # None
    BY <2>1 DEF LeaseInv
  <2>3. \/ lease.holder = v /\ lease.exp = grant[v]
        \/ grant[v] < clock
    BY <2>1 DEF LeaseInv
  <2>4. lease.holder = v => lease.exp < now[w]
    BY <2>2, <1>2 DEF Renewable
  <2>5. now[w] <= clock
    BY DEF LeaseInv
  <2> QED
    BY <2>1, <2>3, <2>4, <2>5
<1>3. \A v \in Workers : now'[v] <= clock'
  BY DEF LeaseInv
<1> QED
  BY <1>1, <1>2, <1>3 DEF LeaseInv

\* Every operation keeps the rest of the inductive invariant.
LEMMA StepLeaseInv == IInv /\ [Next]_vars => LeaseInv'
<1> SUFFICES ASSUME IInv, [Next]_vars PROVE LeaseInv'
  OBVIOUS
<1> USE LeaseAssumption, LeaseNat DEF LeaseAssumption, IInv, TypeOK, Pcs, Time
<1>1. CASE UNCHANGED vars
  BY <1>1 DEF vars, LeaseInv
<1>2. CASE Tick
  BY <1>2 DEF Tick, LeaseInv
<1>3. ASSUME NEW w \in Workers, WorkerStep(w) PROVE LeaseInv'
  <2>1. CASE StartScheduler(w)
    BY <2>1 DEF StartScheduler, LeaseInv
  <2>2. CASE TickJob(w)
    <3>1. UNCHANGED <<clock, lease, grant>> /\ pc' \in [Workers -> Pcs]
      BY <2>2 DEF TickJob
    <3>2. \A v \in Workers : now[v] <= now'[v] /\ now'[v] <= clock
      BY <2>2 DEF TickJob, LeaseInv
    <3>3. \A v \in Workers : pc'[v] = "job" => pc[v] = "job"
      BY <2>2 DEF TickJob
    <3>4. \A v \in Workers : now'[v] \in Nat
      BY <2>2 DEF TickJob
    <3> QED
      BY <3>1, <3>2, <3>3, <3>4 DEF LeaseInv
  <2>3. CASE UpdateLease(w)
    <3>1. CASE Renewable(w)
      BY <2>3, <3>1, WinLeaseInv DEF UpdateLease
    <3>2. CASE ~ Renewable(w)
      BY <2>3, <3>2 DEF UpdateLease, LeaseInv
    <3> QED
      BY <3>1, <3>2
  <2>4. CASE SelectLease(w)
    BY <2>4 DEF SelectLease, LeaseInv
  <2>5. CASE InsertLease(w)
    <3>1. CASE lease.holder = None
      BY <2>5, <3>1, WinLeaseInv DEF InsertLease
    <3>2. CASE lease.holder # None
      BY <2>5, <3>2 DEF InsertLease, LeaseInv
    <3> QED
      BY <3>1, <3>2
  <2>6. CASE FinishJob(w)
    BY <2>6 DEF FinishJob, LeaseInv
  <2>7. CASE Die(w)
    BY <2>7 DEF Die, LeaseInv
  <2> QED
    BY <1>3, <2>1, <2>2, <2>3, <2>4, <2>5, <2>6, <2>7 DEF WorkerStep
<1> QED
  BY <1>1, <1>2, <1>3 DEF Next

\* The lease row is always what its holder wrote, and who runs the job without
\* holding it lost it after its expiry.
THEOREM InductiveInvariant == Spec => []IInv
<1>1. Init => IInv
  BY LeaseAssumption DEF LeaseAssumption, Init, IInv, TypeOK, LeaseInv, Pcs, Time
<1>2. IInv /\ [Next]_vars => IInv'
  BY StepTypeOK, StepLeaseInv DEF IInv
<1> QED
  BY <1>1, <1>2, PTL DEF Spec

\* At most one worker runs the job within a lease it won, whatever the delay
\* between a worker's reading the clock and its UPDATE.
THEOREM AtMostOneLeader == Spec => []LeaseExclusive
<1>1. IInv => LeaseExclusive
  <2> SUFFICES ASSUME IInv, NEW v \in Workers, NEW w \in Workers,
                      InLease(v), InLease(w)
               PROVE  v = w
    BY DEF LeaseExclusive
  <2>1. clock \in Nat /\ grant[v] \in Nat /\ grant[w] \in Nat
    BY LeaseAssumption DEF LeaseAssumption, IInv, TypeOK, Time
  <2>2. lease.holder = v /\ lease.holder = w
    BY <2>1 DEF IInv, LeaseInv, InLease
  <2> QED
    BY <2>2
<1> QED
  BY <1>1, InductiveInvariant, PTL

\* The lease changes hands, and its expiry moves, only in a win.
LEMMA LeaseChanges ==
  ASSUME IInv, [Next]_vars
  PROVE  \/ UNCHANGED lease
         \/ \E w \in Workers : /\ Win(w) /\ UNCHANGED <<clock, now>>
                               /\ lease.holder = None \/ Renewable(w)
BY DEF Next, WorkerStep, Tick, StartScheduler, TickJob, UpdateLease, SelectLease,
       InsertLease, FinishJob, Die, vars

\* _try_acquire_lease never shortens the lease: the conditional UPDATE cannot
\* replace an expiry by an earlier one.
THEOREM ExpiryNeverMovesBack == Spec => ExpiryAdvances
<1>1. IInv /\ [Next]_vars => [lease'.exp >= lease.exp]_vars
  <2> SUFFICES ASSUME IInv, [Next]_vars PROVE lease'.exp >= lease.exp
    OBVIOUS
  <2>0. lease.exp \in Nat /\ \A w \in Workers : now[w] \in Nat
    BY LeaseAssumption DEF LeaseAssumption, IInv, TypeOK, Time
  <2>1. CASE UNCHANGED lease
    BY <2>0, <2>1
  <2>2. ASSUME NEW w \in Workers, Win(w), lease.holder = None \/ Renewable(w)
        PROVE  lease'.exp >= lease.exp
    <3>1. lease'.exp = now[w] + Lease
      BY <2>2 DEF Win
    <3>2. lease.exp = 0 \/ lease.exp < now[w] \/ lease.exp <= now[w] + Lease
      BY <2>2 DEF Renewable, IInv, LeaseInv
    <3> QED
      BY <2>0, <3>1, <3>2, LeaseNat
  <2> QED
    BY <2>1, <2>2, LeaseChanges
<1> QED
  BY <1>1, InductiveInvariant, PTL DEF Spec, ExpiryAdvances

\* A worker takes the lease from another only after the expiry that one was
\* granted.
THEOREM NoEarlyTakeover == Spec => TakeoverAfterExpiry
<1>1. IInv /\ [Next]_vars
        => [lease.holder # None /\ lease'.holder # lease.holder
              => lease.exp < clock]_vars
  <2> SUFFICES ASSUME IInv, [Next]_vars, lease.holder # None,
                      lease'.holder # lease.holder
               PROVE  lease.exp < clock
    OBVIOUS
  <2>1. PICK w \in Workers : Win(w) /\ (lease.holder = None \/ Renewable(w))
    BY LeaseChanges
  <2>2. lease'.holder = w
    BY <2>1 DEF Win
  <2>3. lease.exp < now[w]
    BY <2>1, <2>2 DEF Renewable
  <2>4. now[w] <= clock
    BY DEF IInv, LeaseInv
  <2>5. lease.exp \in Nat /\ now[w] \in Nat /\ clock \in Nat
    BY LeaseAssumption DEF LeaseAssumption, IInv, TypeOK, Time
  <2> QED
    BY <2>3, <2>4, <2>5
<1> QED
  BY <1>1, InductiveInvariant, PTL DEF Spec, TakeoverAfterExpiry

\* PromptSpec's steps are steps of Spec.
LEMMA PromptNextIsNext == [PromptNext]_vars => [Next]_vars
BY DEF PromptNext, Next

\* A tick on time finds the next one exactly one interval later: d is on the grid
\* of due, which is now.
LEMMA NextTick ==
  ASSUME NEW c \in Nat, NEW d \in (c + 1) .. (c + Interval), (d - c) % Interval = 0
  PROVE  d = c + Interval
BY LeaseAssumption DEF LeaseAssumption

\* A win moves `last` up to the clock, so what bounds a waiting worker only grows.
LEMMA WaitsLonger ==
  ASSUME TypeOK, PromptInv, NEW v \in Workers, UNCHANGED clock,
         pc'[v] = pc[v], now'[v] = now[v], due'[v] = due[v],
         \/ UNCHANGED <<lease, last>>
         \/ last' = clock
  PROVE  Waits(v)'
<1>1. last \in Nat /\ clock \in Nat /\ due[v] \in Nat /\ now[v] \in Nat /\ last <= clock
      /\ Lease \in Nat /\ Interval \in Nat
  BY LeaseNat, LeaseAssumption DEF LeaseAssumption, TypeOK, Time, PromptInv
<1>2. Waits(v)
  BY DEF PromptInv
<1>3. CASE UNCHANGED <<lease, last>>
  BY <1>2, <1>3 DEF Waits
<1>4. CASE last' = clock
  BY <1>1, <1>2, <1>4 DEF Waits
<1> QED
  BY <1>3, <1>4

\* The winner of a lease on a prompt machine.
LEMMA WinPrompt ==
  ASSUME TypeOK, PromptInv, NEW w \in Workers, Win(w), UNCHANGED <<clock, now, due>>,
         pc[w] \in {"update", "insert"}
  PROVE  PromptInv'
<1> USE LeaseAssumption, LeaseNat DEF LeaseAssumption
<1>1. clock \in Nat /\ now[w] \in Nat /\ due[w] \in Nat
  BY DEF TypeOK, Time
<1>2. now[w] = clock /\ due[w] <= now[w] + Interval /\ clock < due[w]
  BY DEF PromptInv, Waits
<1>3. last' = clock /\ lease'.exp = clock + Lease
  BY <1>2 DEF Win
<1>4. Waits(w)'
  <2>1. pc'[w] = "job"
    BY DEF Win, TypeOK
  <2> QED
    BY <1>1, <1>2, <1>3, <2>1 DEF Waits
<1>5. ASSUME NEW v \in Workers, v # w PROVE Waits(v)'
  <2>1. pc'[v] = pc[v]
    BY <1>5 DEF Win, TypeOK
  <2> QED
    BY <1>3, <2>1, WaitsLonger
<1> QED
  BY <1>1, <1>3, <1>4, <1>5 DEF PromptInv

\* Every step of the prompt machine keeps the invariant.
LEMMA StepPromptInv ==
  ASSUME JobMax <= Lease, TypeOK, PromptInv, [PromptNext]_vars
  PROVE  PromptInv'
<1> USE LeaseAssumption, LeaseNat DEF LeaseAssumption
<1>0. /\ clock \in Nat /\ last \in Nat
      /\ \A v \in Workers : now[v] \in Nat /\ due[v] \in Nat
  BY DEF TypeOK, Time
<1>1. CASE UNCHANGED vars
  BY <1>1 DEF vars, PromptInv, Waits
<1>2. CASE Tick /\ Prompt
  <2>1. clock' = clock + 1 /\ UNCHANGED <<lease, pc, now, due, last>>
    BY <1>2 DEF Tick
  <2>2. ASSUME NEW v \in Workers PROVE Waits(v)'
    <3>1. /\ pc[v] \notin {"update", "select", "insert"}
          /\ pc[v] \in {"idle", "job"} => clock < due[v]
          /\ pc[v] = "job" => clock < now[v] + JobMax
      BY <1>2 DEF Prompt
    <3>2. Waits(v)
      BY DEF PromptInv
    <3> QED
      BY <1>0, <2>1, <3>1, <3>2 DEF Waits
  <2>3. last' <= clock' /\ (lease'.holder # None => lease'.exp <= last' + Lease)
    BY <1>0, <2>1 DEF PromptInv
  <2> QED
    BY <2>2, <2>3 DEF PromptInv
<1>3. ASSUME NEW w \in Workers, UNCHANGED <<clock, lease, last>>,
             \A v \in Workers \ {w} : pc'[v] = pc[v] /\ now'[v] = now[v] /\ due'[v] = due[v],
             Waits(w)'
      PROVE  PromptInv'
  <2>1. ASSUME NEW v \in Workers PROVE Waits(v)'
    BY <1>3, WaitsLonger
  <2> QED
    BY <1>3, <2>1 DEF PromptInv
<1>4. ASSUME NEW w \in Workers, WorkerStep(w) PROVE PromptInv'
  <2>0. Waits(w)
    BY DEF PromptInv
  <2>1. CASE StartScheduler(w)
    <3>1. pc'[w] = "idle" /\ due'[w] = clock + Interval /\ pc[w] = "off"
      BY <2>1 DEF StartScheduler, TypeOK
    <3>2. Waits(w)'
      BY <1>0, <2>0, <2>1, <3>1 DEF StartScheduler, Waits
    <3> QED
      BY <1>3, <2>1, <3>2 DEF StartScheduler, TypeOK
  <2>2. CASE TickJob(w)
    <3>1. PICK d \in (clock + 1) .. (clock + Interval) :
            /\ (d - due[w]) % Interval = 0
            /\ due' = [due EXCEPT ![w] = d]
            /\ IF pc[w] = "idle" /\ clock + Interval <= d + Grace
               THEN /\ pc' = [pc EXCEPT ![w] = "update"]
                    /\ now' = [now EXCEPT ![w] = clock]
               ELSE UNCHANGED <<pc, now>>
      BY <2>2 DEF TickJob
    <3>2. UNCHANGED <<clock, lease, last>> /\ due'[w] = d
      BY <2>2, <3>1 DEF TickJob, TypeOK
    <3>3. CASE pc[w] \in {"idle", "job"}
      <4>1. due[w] = clock
        BY <1>0, <2>0, <2>2, <3>3 DEF TickJob, Waits
      <4>2. d = clock + Interval
        BY <1>0, <3>1, <4>1, NextTick
      <4>3. ASSUME pc[w] = "idle" PROVE Waits(w)'
        <5>1. clock + Interval <= d + Grace
          BY <1>0, <4>2
        <5>2. pc'[w] = "update" /\ now'[w] = clock
          BY <3>1, <4>3, <5>1 DEF TypeOK
        <5> QED
          BY <1>0, <3>2, <4>2, <5>2 DEF Waits
      <4>4. ASSUME pc[w] = "job" PROVE Waits(w)'
        <5>1. pc'[w] = "job" /\ now'[w] = now[w]
          BY <3>1, <4>4
        <5> QED
          BY <1>0, <2>0, <3>2, <4>2, <4>4, <5>1 DEF Waits
      <4>5. Waits(w)'
        BY <3>3, <4>3, <4>4
      <4> QED
        BY <1>3, <3>1, <3>2, <4>5 DEF TypeOK
    <3>4. CASE pc[w] \notin {"idle", "job"}
      <4>1. pc[w] \notin {"update", "select", "insert"}
        BY <1>0, <2>0, <2>2, <3>4 DEF TickJob, Waits
      <4> QED
        BY <2>2, <3>4, <4>1 DEF TickJob, TypeOK, Pcs
    <3> QED
      BY <3>3, <3>4
  <2>3. CASE UpdateLease(w)
    <3>1. CASE Renewable(w)
      BY <2>3, <3>1, WinPrompt DEF UpdateLease
    <3>2. CASE ~ Renewable(w)
      <4>1. /\ pc[w] = "update" /\ pc'[w] = "select"
            /\ UNCHANGED <<clock, now, due, lease, last>>
        BY <2>3, <3>2 DEF UpdateLease, TypeOK
      <4>2. lease.holder # None => now[w] <= last + Lease
        <5>1. lease.exp \in Nat
          BY DEF TypeOK
        <5> QED
          BY <1>0, <3>2, <5>1 DEF Renewable, PromptInv
      <4>3. Waits(w)'
        BY <1>0, <2>0, <4>1, <4>2 DEF Waits
      <4> QED
        BY <1>3, <2>3, <3>2, <4>3 DEF UpdateLease, TypeOK
    <3> QED
      BY <3>1, <3>2
  <2>4. CASE SelectLease(w)
    <3>1. /\ pc[w] = "select" /\ UNCHANGED <<clock, now, due, lease, last>>
          /\ pc'[w] = IF lease.holder # None THEN "idle" ELSE "insert"
      BY <2>4 DEF SelectLease, TypeOK
    <3>2. Waits(w)'
      BY <1>0, <2>0, <3>1 DEF Waits
    <3> QED
      BY <1>3, <2>4, <3>2 DEF SelectLease, TypeOK
  <2>5. CASE InsertLease(w)
    <3>1. CASE lease.holder = None
      BY <2>5, <3>1, WinPrompt DEF InsertLease
    <3>2. CASE lease.holder # None
      <4>1. /\ pc[w] = "insert" /\ pc'[w] = "idle"
            /\ UNCHANGED <<clock, now, due, lease, last>>
        BY <2>5, <3>2 DEF InsertLease, TypeOK
      <4>2. Waits(w)'
        BY <1>0, <2>0, <3>2, <4>1 DEF Waits
      <4> QED
        BY <1>3, <2>5, <3>2, <4>2 DEF InsertLease, TypeOK
    <3> QED
      BY <3>1, <3>2
  <2>6. CASE FinishJob(w)
    <3>1. /\ pc[w] = "job" /\ pc'[w] = "idle"
          /\ UNCHANGED <<clock, now, due, lease, last>>
      BY <2>6 DEF FinishJob, TypeOK
    <3>2. Waits(w)'
      BY <1>0, <2>0, <3>1 DEF Waits
    <3> QED
      BY <1>3, <2>6, <3>2 DEF FinishJob, TypeOK
  <2>7. CASE Die(w)
    <3>1. pc'[w] = "dead" /\ UNCHANGED <<clock, now, due, lease, last>>
      BY <2>7 DEF Die, TypeOK
    <3>2. Waits(w)'
      BY <3>1 DEF Waits
    <3> QED
      BY <1>3, <2>7, <3>2 DEF Die, TypeOK
  <2> QED
    BY <1>4, <2>1, <2>2, <2>3, <2>4, <2>5, <2>6, <2>7 DEF WorkerStep
<1> QED
  BY <1>1, <1>2, <1>4 DEF PromptNext

\* On a machine that keeps up, with jobs no longer than a lease, a worker that is
\* up never waits for a leader longer than one lease and one interval: the bound
\* on a crashed leader's absence that _try_acquire_lease is built for.
THEOREM LeaderSoon ==
  ASSUME JobMax <= Lease
  PROVE  PromptSpec => []TakeoverBound
<1>1. Init => TypeOK /\ PromptInv
  BY LeaseAssumption, LeaseNat
  DEF LeaseAssumption, Init, TypeOK, PromptInv, Waits, Pcs, Time
<1>2. TypeOK /\ PromptInv /\ [PromptNext]_vars => (TypeOK /\ PromptInv)'
  BY PromptNextIsNext, StepTypeOK, StepPromptInv
<1>3. TypeOK /\ PromptInv => TakeoverBound
  <2> SUFFICES ASSUME TypeOK, PromptInv, NEW w \in Workers, pc[w] = "idle", now[w] > 0
               PROVE  clock <= last + Lease + Interval
    BY DEF TakeoverBound
  <2>1. clock \in Nat /\ last \in Nat /\ due[w] \in Nat
    BY DEF TypeOK, Time
  <2>2. clock <= due[w] /\ due[w] <= last + Lease + Interval
    BY DEF PromptInv, Waits
  <2> QED
    BY <2>1, <2>2, LeaseNat, LeaseAssumption DEF LeaseAssumption
<1> QED
  BY <1>1, <1>2, <1>3, PTL DEF PromptSpec
=============================================================================
