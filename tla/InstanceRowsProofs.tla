------------------------- MODULE InstanceRowsProofs -------------------------
(***************************************************************************)
(* Proofs about InstanceRows, for every value of its constants: the types; *)
(* that no pending row is left without an owner; that the outcomes of RPCs *)
(* the module takes for granted are steps of the table of instances; how   *)
(* far workers that count at the same time go over the cap; and that the   *)
(* two tables agree between requests, as long as no two requests or jobs   *)
(* work on one row.                                                        *)
(***************************************************************************)
EXTENDS InstanceRows, FiniteSetTheorems, TLAPS

DockerType == [Cids -> {"unused", "running", "exited", "gone"}]

\* The variables other than pc and me keep their types and their sense.
TablesOK ==
    /\ rows \in [Keys -> RowType] /\ RowsOK
    /\ tracked \in [Keys -> TrackType] /\ docker \in DockerType
    /\ TrackedOK(tracked, docker)
    /\ late \subseteq ReqType /\ (\A r \in late : ReqOK(r))
    /\ calls \in 0..MaxCalls /\ faults \in 0..MaxFaults
    /\ orphaned \subseteq Ids

\* Only process p moves.
Moves(p) ==
    /\ pc' \in [Procs -> Pcs] /\ me' \in [Procs -> MeType]
    /\ \A q \in Procs \ {p} : pc'[q] = pc[q] /\ me'[q] = me[q]

\* A pending row was pending before and keeps its id.
OldPending(k) ==
    /\ rows[k].status = "pending" /\ rows'[k].id = rows[k].id
    /\ rows[k].id \in orphaned => rows[k].id \in orphaned'

\* Process p answers for every pending row, or leaves it to whoever did before.
Handover(p) ==
    \A k \in Keys : rows'[k].status = "pending" =>
        \/ Attends(p, k)'
        \/ rows'[k].id \in orphaned'
        \/ OldPending(k) /\ ~ Attends(p, k)

LEMMA TablesNow == IInv => TablesOK
BY DEF IInv, TypeOK, TablesOK, DockerType

\* A step of one process preserves the invariant if it keeps the tables in
\* order, knows what it goes on with and hands its pending rows over.
LEMMA StepPreserves ==
    ASSUME IInv, NEW p \in Procs, Moves(p), TablesOK', ProcOK(pc'[p], me'[p]), Handover(p)
    PROVE  IInv'
<1>1. TypeOK'
  BY DEF TypeOK, TablesOK, Moves, DockerType
<1>2. \A q \in Procs : ProcOK(pc'[q], me'[q])
  BY DEF IInv, Moves
<1>3. PendingAccounted'
  <2> SUFFICES ASSUME NEW k \in Keys, rows'[k].status = "pending"
               PROVE  (\E q \in Procs : Attends(q, k)') \/ rows'[k].id \in orphaned'
    BY DEF PendingAccounted
  <2>1. CASE Attends(p, k)' \/ rows'[k].id \in orphaned'
    BY <2>1
  <2>2. CASE OldPending(k) /\ ~ Attends(p, k)
    <3>1. CASE rows[k].id \in orphaned
      BY <2>2, <3>1 DEF OldPending
    <3>2. CASE \E q \in Procs : Attends(q, k)
      <4>1. PICK q \in Procs : Attends(q, k)
        BY <3>2
      <4>2. Attends(q, k)'
        BY <2>2, <4>1 DEF Attends, OldPending, Moves
      <4> QED BY <4>2
    <3> QED BY <2>2, <3>1, <3>2 DEF OldPending, IInv, PendingAccounted
  <2> QED BY <2>1, <2>2 DEF Handover
<1> QED BY <1>1, <1>2, <1>3 DEF IInv, TablesOK

\* A step of no process: the rows that are pending were so before.
LEMMA QuietPreserves ==
    ASSUME IInv, UNCHANGED <<pc, me, orphaned>>, TablesOK',
           \A k \in Keys : rows'[k].status = "pending" => OldPending(k)
    PROVE  IInv'
<1>1. TypeOK'
  BY DEF TypeOK, TablesOK, DockerType, IInv
<1>2. \A q \in Procs : ProcOK(pc'[q], me'[q])
  BY DEF IInv
<1>3. PendingAccounted'
  <2> SUFFICES ASSUME NEW k \in Keys, OldPending(k), rows'[k].status = "pending"
               PROVE  (\E q \in Procs : Attends(q, k)') \/ rows'[k].id \in orphaned'
    BY DEF PendingAccounted
  <2>1. \A q \in Procs : Attends(q, k) => Attends(q, k)'
    BY DEF Attends, OldPending
  <2> QED BY <2>1 DEF IInv, PendingAccounted, OldPending
<1> QED BY <1>1, <1>2, <1>3 DEF IInv, TablesOK

LEMMA GotoMoves ==
    ASSUME IInv, NEW p \in Procs, NEW l \in Pcs, NEW m \in MeType, Goto(p, l, m)
    PROVE  Moves(p) /\ pc'[p] = l /\ me'[p] = m
BY DEF IInv, TypeOK, Goto, Moves

LEMMA MeNow ==
    ASSUME IInv, NEW p \in Procs
    PROVE  me[p] \in MeType /\ me[p].req \in ReqType /\ pc[p] \in Pcs /\ ProcOK(pc[p], me[p])
BY DEF IInv, TypeOK, MeType

LEMMA NoMeOK == NoMe \in MeType /\ NoReq \in ReqType /\ ProcOK("idle", NoMe)
<1>1. Absent \in TrackType
  BY DEF Absent, TrackType
<1>2. NoReq \in ReqType
  BY DEF NoReq, ReqType
<1>3. NoMe \in MeType
  BY <1>1, <1>2 DEF NoMe, MeType
<1> QED BY <1>2, <1>3 DEF ProcOK

LEMMA ReturnMoves ==
    ASSUME IInv, NEW p \in Procs, Return(p)
    PROVE  Moves(p) /\ pc'[p] = "idle" /\ me'[p] = NoMe /\ ProcOK(pc'[p], me'[p])
BY NoMeOK, GotoMoves DEF Return, Pcs

LEMMA FaultTyped ==
    ASSUME IInv, NEW k, Fault(k)
    PROVE  faults' \in 0..MaxFaults
BY RowsAssumption DEF Fault, IInv, TypeOK

\* Steps that leave the rows alone.
LEMMA LocalPreserves ==
    ASSUME IInv, NEW p \in Procs, Moves(p), ProcOK(pc'[p], me'[p]),
           UNCHANGED <<rows, orphaned>>, TablesOK',
           \A k \in Keys : Attends(p, k) => Attends(p, k)'
    PROVE  IInv'
<1>1. Handover(p)
  BY DEF Handover, OldPending
<1> QED BY <1>1, StepPreserves

LEMMA TablesKept ==
    ASSUME IInv, UNCHANGED <<rows, tracked, docker, late, calls, faults, orphaned>>
    PROVE  TablesOK'
BY TablesNow DEF TablesOK, RowsOK, TrackedOK

-----------------------------------------------------------------------------
\* The outcomes of the daemon's RPCs.

\* From the daemon's table and Docker now to t and d is a step of InstanceTable.
TableStep(t, d) ==
    /\ \A k \in Keys : \/ tracked[k].cid = None /\ t[k].cid \in Cids
                       \/ /\ tracked[k].cid \in Cids /\ d[tracked[k].cid] = "gone"
                          /\ t[k].cid = None
                       \/ t[k].cid = tracked[k].cid
    /\ \A c \in Cids : docker[c] = "gone" => d[c] = "gone"

\* What every outcome leaves in order.
Sound(t, d) ==
    /\ t \in [Keys -> TrackType] /\ d \in DockerType
    /\ TrackedOK(t, d) /\ TableStep(t, d)

LEMMA SameSound == IInv => Sound(tracked, docker)
BY DEF IInv, TypeOK, DockerType, Sound, TableStep

LEMMA EntryNow ==
    ASSUME IInv, NEW k \in Keys
    PROVE  /\ tracked[k] \in TrackType
           /\ tracked[k].cid # None =>
                tracked[k].cid \in Cids /\ docker[tracked[k].cid] # "unused"
           /\ tracked[k].st = "running" => tracked[k].cid \in Cids
           /\ tracked[k].cid = None \/ tracked[k].cid \in Cids
<1>1. Absent.cid = None /\ Absent.st = "gone"
  BY DEF Absent
<1> QED BY <1>1, RowsAssumption DEF IInv, TypeOK, TrackedOK, TrackType

\* A container of its own for a key that has none.
LEMMA NewSound ==
    ASSUME IInv, NEW k \in Keys, tracked[k].cid = None, NEW c \in FreshCid
    PROVE  Sound([tracked EXCEPT ![k] = [cid |-> c, st |-> "running"]],
                 [docker EXCEPT ![c] = "running"])
<1> DEFINE n == [cid |-> c, st |-> "running"]
           t == [tracked EXCEPT ![k] = n]
           d == [docker EXCEPT ![c] = "running"]
<1>1. c \in Cids /\ docker[c] = "unused"
  BY DEF FreshCid
<1>2. n \in TrackType /\ n.cid = c
  BY <1>1 DEF TrackType
<1> HIDE DEF n
<1>3. t \in [Keys -> TrackType] /\ d \in DockerType
  BY <1>1, <1>2 DEF IInv, TypeOK, DockerType
<1>4. t[k] = n /\ (\A j \in Keys \ {k} : t[j] = tracked[j])
      /\ d[c] = "running" /\ (\A b \in Cids \ {c} : d[b] = docker[b])
  BY <1>1 DEF IInv, TypeOK
<1>5. \A j \in Keys : tracked[j].cid # c
  BY <1>1, EntryNow, RowsAssumption
<1> HIDE DEF t, d
<1>6. TrackedOK(t, d)
  <2>1. \A j \in Keys : t[j] = Absent \/ (t[j].cid \in Cids /\ d[t[j].cid] # "unused")
    <3> SUFFICES ASSUME NEW j \in Keys, t[j] # Absent
                 PROVE  t[j].cid \in Cids /\ d[t[j].cid] # "unused"
      OBVIOUS
    <3>1. CASE j = k
      BY <1>1, <1>2, <1>4, <3>1
    <3>2. CASE j # k
      BY <1>4, <3>2 DEF IInv, TrackedOK
    <3> QED BY <3>1, <3>2
  <2>2. \A i, j \in Keys : t[i].cid = t[j].cid /\ t[j].cid # None => i = j
    BY <1>2, <1>4, <1>5 DEF IInv, TrackedOK
  <2> QED BY <2>1, <2>2 DEF TrackedOK
<1>7. TableStep(t, d)
  BY <1>1, <1>2, <1>4 DEF TableStep
<1> QED BY <1>3, <1>6, <1>7 DEF Sound, t, d, n

\* Containers that are removed lose their keys.
LEMMA UntrackSound ==
    ASSUME IInv, NEW C \in SUBSET Cids
    PROVE  Sound(Untrack(C), Removed(C))
<1> DEFINE t == Untrack(C)
           d == Removed(C)
<1>1. Absent \in TrackType /\ Absent.cid = None
  BY DEF Absent, TrackType
<1>2. t \in [Keys -> TrackType] /\ d \in DockerType
  BY <1>1 DEF IInv, TypeOK, DockerType, Untrack, Removed
<1>3. \A k \in Keys : \/ t[k] = Absent /\ tracked[k].cid \in C
                      \/ t[k] = tracked[k] /\ tracked[k].cid \notin C
  BY DEF Untrack
<1>4. \A c \in Cids : d[c] = IF c \in C THEN "gone" ELSE docker[c]
  BY DEF Removed
<1> HIDE DEF t, d
<1>5. TrackedOK(t, d)
  <2>1. \A k \in Keys : t[k] = Absent \/ (t[k].cid \in Cids /\ d[t[k].cid] # "unused")
    BY <1>3, <1>4 DEF IInv, TrackedOK
  <2>2. \A j, k \in Keys : t[j].cid = t[k].cid /\ t[k].cid # None => j = k
    BY <1>1, <1>3 DEF IInv, TrackedOK
  <2> QED BY <2>1, <2>2 DEF TrackedOK
<1>6. TableStep(t, d)
  BY <1>1, <1>3, <1>4 DEF TableStep
<1> QED BY <1>2, <1>5, <1>6 DEF Sound, t, d

\* A container that stops changes nothing in the table.
LEMMA ExitSound ==
    ASSUME NEW t, NEW d, Sound(t, d), NEW c \in Cids, d[c] # "gone"
    PROVE  Sound(t, [d EXCEPT ![c] = "exited"])
<1> DEFINE e == [d EXCEPT ![c] = "exited"]
<1>1. e \in DockerType /\ e[c] = "exited" /\ (\A b \in Cids \ {c} : e[b] = d[b])
  BY DEF Sound, DockerType
<1> HIDE DEF e
<1>2. TrackedOK(t, e)
  BY <1>1 DEF Sound, TrackedOK
<1>3. TableStep(t, e)
  BY <1>1 DEF Sound, TableStep
<1> QED BY <1>1, <1>2, <1>3 DEF Sound, e

LEMMA RefusedSound ==
    ASSUME IInv, NEW C \in SUBSET Cids, NEW c \in Cids \ C, docker[c] # "gone",
           NEW d \in Refused(c, C)
    PROVE  Sound(Untrack(C), d)
<1>1. Sound(Untrack(C), Removed(C)) /\ Removed(C)[c] = docker[c]
  BY UntrackSound DEF Removed
<1> QED BY <1>1, ExitSound DEF Refused

\* container.reconcile drops what is gone and copies the other states.
LEMMA ReconciledSound ==
    ASSUME IInv, NEW o \in Reconciled
    PROVE  Sound(o.tracked, o.docker) /\ o.cid = None /\ o.ok \in BOOLEAN
<1>1. PICK skipped : \E f : o = Outcome(Pruned(skipped), docker, None, f, TRUE)
  BY DEF Reconciled
<1> DEFINE t == Pruned(skipped)
<1>2. o.tracked = t /\ o.docker = docker /\ o.cid = None /\ o.ok = TRUE
  BY <1>1 DEF Outcome
<1>3. Absent \in TrackType /\ Absent.cid = None
  BY DEF Absent, TrackType
<1>4. \A k \in Keys :
        \/ t[k] = tracked[k]
        \/ t[k] = Absent /\ docker[tracked[k].cid] = "gone" /\ tracked[k].cid \in Cids
        \/ t[k] \in TrackType /\ t[k].cid = tracked[k].cid /\ tracked[k].cid \in Cids
  <2>2. \A k \in Keys : t[k] = IF tracked[k].st # "running" \/ k \in skipped THEN tracked[k]
                                ELSE IF docker[tracked[k].cid] = "gone" THEN Absent
                                ELSE [tracked[k] EXCEPT !.st = docker[tracked[k].cid]]
    BY DEF Pruned
  <2> HIDE DEF t
  <2> SUFFICES ASSUME NEW k \in Keys, tracked[k].st = "running",
                      docker[tracked[k].cid] # "gone"
               PROVE  LET e == [tracked[k] EXCEPT !.st = docker[tracked[k].cid]] IN
                      e \in TrackType /\ e.cid = tracked[k].cid
    BY <2>2, EntryNow
  <2>1. tracked[k] \in TrackType /\ docker[tracked[k].cid] \in {"running", "exited"}
    BY EntryNow, RowsAssumption DEF IInv, TypeOK
  <2> QED BY <2>1 DEF TrackType
<1> HIDE DEF t
<1>5. t \in [Keys -> TrackType] /\ docker \in DockerType
  <2>1. \A k \in Keys : t[k] \in TrackType
    BY <1>3, <1>4, EntryNow
  <2> QED BY <2>1 DEF t, Pruned, IInv, TypeOK, DockerType
<1>6. \A k \in Keys : t[k].cid = None \/ t[k].cid = tracked[k].cid
  BY <1>3, <1>4
<1>7. TrackedOK(t, docker)
  <2>1. \A k \in Keys : t[k] = Absent \/ (t[k].cid \in Cids /\ docker[t[k].cid] # "unused")
    BY <1>4, EntryNow, RowsAssumption DEF IInv, TrackedOK
  <2>2. \A j, k \in Keys : t[j].cid = t[k].cid /\ t[k].cid # None => j = k
    BY <1>6 DEF IInv, TrackedOK
  <2> QED BY <2>1, <2>2 DEF TrackedOK
<1>8. TableStep(t, docker)
  BY <1>3, <1>4 DEF TableStep
<1> QED BY <1>2, <1>5, <1>7, <1>8 DEF Sound

OutcomeOK(o) ==
    /\ Sound(o.tracked, o.docker)
    /\ o.cid \in Cids \cup {None} /\ o.ok \in BOOLEAN

LEMMA OutcomeIsOK ==
    ASSUME NEW t, NEW d, NEW c \in Cids \cup {None}, NEW f, Sound(t, d)
    PROVE  OutcomeOK(Outcome(t, d, c, f, TRUE)) /\ OutcomeOK(Outcome(t, d, c, f, FALSE))
BY DEF Outcome, OutcomeOK

LEMMA ExecutedOK ==
    ASSUME IInv, NEW r \in ReqType, ReqOK(r), NEW o \in Executed(r)
    PROVE  OutcomeOK(o)
<1>1. CASE r.op = "ensure"
  <2>1. o \in Ensured(r) /\ r.key \in Keys
    BY <1>1 DEF Executed, ReqOK
  <2>2. CASE o = Outcome(tracked, docker, tracked[r.key].cid, "none", TRUE)
    <3>1. tracked[r.key].cid \in Cids \cup {None}
      BY <2>1, EntryNow
    <3> QED BY <2>2, <3>1, OutcomeIsOK, SameSound
  <2>3. CASE o = Outcome(tracked, docker, None, "spawn", FALSE)
    BY <2>3, OutcomeIsOK, SameSound
  <2>4. ASSUME NEW c \in FreshCid, tracked[r.key].cid = None,
               o = Outcome([tracked EXCEPT ![r.key] = [cid |-> c, st |-> "running"]],
                           [docker EXCEPT ![c] = "running"], c, "none", TRUE)
        PROVE  OutcomeOK(o)
    <3>1. c \in Cids
      BY DEF FreshCid
    <3>2. Sound([tracked EXCEPT ![r.key] = [cid |-> c, st |-> "running"]],
                [docker EXCEPT ![c] = "running"])
      BY <2>1, <2>4, NewSound
    <3> QED BY <2>4, <3>1, <3>2, OutcomeIsOK
  <2> QED BY <2>1, <2>2, <2>3, <2>4 DEF Ensured
<1>2. CASE r.op = "release"
  <2>1. o \in Released(r) /\ r.cid \in Cids
    BY <1>2 DEF Executed, ReqOK
  <2>2. CASE docker[r.cid] # "gone" /\ \E d \in Refused(r.cid, {}) :
                                        o = Outcome(tracked, d, r.cid, "docker", TRUE)
    <3>1. PICK d \in Refused(r.cid, {}) : o = Outcome(tracked, d, r.cid, "docker", TRUE)
      BY <2>2
    <3>2. Sound(Untrack({}), d) /\ Untrack({}) = tracked
      BY <2>1, <2>2, RefusedSound DEF Untrack, IInv, TypeOK
    <3> QED BY <2>1, <3>1, <3>2, OutcomeIsOK
  <2>3. CASE o = Outcome(Untrack({r.cid}), Removed({r.cid}), r.cid, "none", TRUE)
    <3>1. Sound(Untrack({r.cid}), Removed({r.cid}))
      BY <2>1, UntrackSound
    <3> QED BY <2>1, <2>3, <3>1, OutcomeIsOK
  <2> QED BY <2>1, <2>2, <2>3 DEF Released
<1>3. CASE r.op = "kill"
  <2> DEFINE C == {tracked[k].cid : k \in {k \in Keys : tracked[k].st = "running"}}
  <2>1. o \in Killed /\ C \subseteq Cids
    BY <1>3, EntryNow DEF Executed
  <2>2. CASE o = Outcome(Untrack(C), Removed(C), None, "none", TRUE)
    BY <2>1, <2>2, UntrackSound, OutcomeIsOK
  <2>3. ASSUME NEW c \in C, docker[c] # "gone", NEW d \in Refused(c, C \ {c}),
               o = Outcome(Untrack(C \ {c}), d, None, "docker", TRUE)
        PROVE  OutcomeOK(o)
    <3>1. Sound(Untrack(C \ {c}), d)
      BY <2>1, <2>3, RefusedSound
    <3> QED BY <2>3, <3>1, OutcomeIsOK
  <2> QED BY <2>1, <2>2, <2>3 DEF Killed
<1>4. CASE r.op = "reconcile"
  BY <1>4, ReconciledSound DEF Executed, OutcomeOK
<1> QED BY <1>1, <1>2, <1>3, <1>4 DEF ReqOK, ReqType

Shaped(o) ==
    /\ o = Outcome(o.tracked, o.docker, o.cid, o.fault, o.ok)
    /\ o.fault \in {"none", "spawn", "docker"}

LEMMA OutcomeShaped ==
    ASSUME NEW t, NEW d, NEW c, NEW b, NEW f \in {"none", "spawn", "docker"}
    PROVE  Shaped(Outcome(t, d, c, f, b))
BY DEF Shaped, Outcome

LEMMA OutcomeShape ==
    ASSUME NEW r \in ReqType, ReqOK(r), NEW o \in Executed(r)
    PROVE  Shaped(o)
<1>1. CASE r.op = "ensure"
  <2>1. o \in Ensured(r)
    BY <1>1 DEF Executed
  <2>2. CASE \E t, d, c : o = Outcome(t, d, c, "none", TRUE)
    BY <2>2, OutcomeShaped
  <2>3. CASE o = Outcome(tracked, docker, None, "spawn", FALSE)
    BY <2>3, OutcomeShaped
  <2> QED BY <2>1, <2>2, <2>3 DEF Ensured
<1>2. CASE r.op = "release"
  <2>1. o \in Released(r)
    BY <1>2 DEF Executed
  <2>2. CASE \E d : o = Outcome(tracked, d, r.cid, "docker", TRUE)
    BY <2>2, OutcomeShaped
  <2>3. CASE o = Outcome(Untrack({r.cid}), Removed({r.cid}), r.cid, "none", TRUE)
    BY <2>3, OutcomeShaped
  <2> QED BY <2>1, <2>2, <2>3 DEF Released
<1>3. CASE r.op = "kill"
  <2>1. o \in Killed
    BY <1>3 DEF Executed
  <2>2. CASE \E t, d : o = Outcome(t, d, None, "docker", TRUE)
    BY <2>2, OutcomeShaped
  <2>3. CASE \E t, d : o = Outcome(t, d, None, "none", TRUE)
    BY <2>3, OutcomeShaped
  <2> QED BY <2>1, <2>2, <2>3 DEF Killed
<1>4. CASE r.op = "reconcile"
  BY <1>4, OutcomeShaped DEF Executed, Reconciled
<1> QED BY <1>1, <1>2, <1>3, <1>4 DEF ReqOK, ReqType

\* Every outcome of an RPC, a failed rebuild of the firewall included.
LEMMA OutcomesOK ==
    ASSUME IInv, NEW r \in ReqType, ReqOK(r), NEW o \in Outcomes(r)
    PROVE  OutcomeOK(o)
<1>1. CASE o \in Executed(r)
  BY <1>1, ExecutedOK
<1>2. ASSUME NEW e \in Executed(r), o = [e EXCEPT !.ok = FALSE, !.fault = "firewall"]
      PROVE  OutcomeOK(o)
  <2>1. OutcomeOK(e)
    BY <1>2, ExecutedOK
  <2>2. \E t, d, c, f, b : e = Outcome(t, d, c, f, b)
    BY <1>2, OutcomeShape DEF Shaped
  <2>3. o.tracked = e.tracked /\ o.docker = e.docker /\ o.cid = e.cid /\ o.ok = FALSE
    BY <1>2, <2>2 DEF Outcome
  <2> QED BY <2>1, <2>3 DEF OutcomeOK
<1> QED BY <1>1, <1>2 DEF Outcomes

-----------------------------------------------------------------------------
\* The routes.

LEMMA RowNow ==
    ASSUME IInv, NEW k \in Keys
    PROVE  /\ rows[k] \in RowType
           /\ rows[k] # NoRow => rows[k].id \in Ids
           /\ NoRow \in RowType /\ NoRow.status = "none" /\ ~ NoRow.past
           /\ rows[k] # NoRow => Held(k) \in HeldType
<1>1. NoRow \in RowType /\ NoRow.status = "none" /\ NoRow.past = FALSE
  BY DEF NoRow, RowType
<1>2. rows[k] \in RowType /\ (rows[k] # NoRow => rows[k].id \in Ids)
  BY DEF IInv, TypeOK, RowsOK
<1>3. rows[k] # NoRow => Held(k) \in HeldType
  BY <1>2 DEF Held, HeldType, RowType
<1> QED BY <1>1, <1>2, <1>3

\* Steps that leave the daemon alone.
LEMMA RowsChange ==
    ASSUME IInv, UNCHANGED <<tracked, docker, late, orphaned>>, calls' \in 0..MaxCalls,
           faults' \in 0..MaxFaults, rows' \in [Keys -> RowType], RowsOK'
    PROVE  TablesOK'
BY TablesNow DEF TablesOK, TrackedOK

LEMMA CountersChange ==
    ASSUME IInv, UNCHANGED <<rows, tracked, docker, late, orphaned>>,
           calls' \in 0..MaxCalls, faults' \in 0..MaxFaults
    PROVE  TablesOK'
BY TablesNow DEF TablesOK, TrackedOK, RowsOK

LEMMA EnterOK ==
    ASSUME IInv, NEW w, NEW route, Enter(w, route)
    PROVE  /\ w \in Procs /\ pc[w] = "idle"
           /\ calls' \in Ids /\ calls' \in 0..MaxCalls /\ faults' \in 0..MaxFaults
           /\ UNCHANGED <<tracked, docker, late, faults, orphaned>>
BY RowsAssumption DEF Enter, Procs, Ids, IInv, TypeOK

\* A request begins: it touches no row yet.
LEMMA BeginPreserves ==
    ASSUME IInv, NEW w, NEW route, Enter(w, route), UNCHANGED rows,
           NEW l \in Pcs, NEW m \in MeType, Goto(w, l, m), ProcOK(l, m)
    PROVE  IInv'
<1>1. w \in Procs /\ pc[w] = "idle" /\ TablesOK' /\ UNCHANGED orphaned
  BY EnterOK, CountersChange
<1>2. Moves(w) /\ pc'[w] = l /\ me'[w] = m
  BY <1>1, GotoMoves
<1>3. \A k \in Keys : ~ Attends(w, k)
  BY <1>1 DEF Attends
<1> QED BY <1>1, <1>2, <1>3, LocalPreserves

LEMMA SpawnPreserves == ASSUME IInv, NEW w, Spawn(w) PROVE IInv'
<1>1. PICK k \in Keys :
        Goto(w, "insert", [NoMe EXCEPT !.op = "spawn", !.req.key = k, !.req.id = calls'])
  BY DEF Spawn
<1> DEFINE m == [NoMe EXCEPT !.op = "spawn", !.req.key = k, !.req.id = calls']
<1>2. calls' \in Ids
  BY EnterOK DEF Spawn
<1>3. m \in MeType /\ m.op = "spawn" /\ m.req.key = k /\ m.req.id = calls'
  <2>1. m.op = "spawn" /\ m.req.key = k /\ m.req.id = calls'
    BY DEF NoMe, NoReq
  <2>2. m \in MeType
    BY <1>2, NoMeOK DEF NoMe, NoReq, MeType, ReqType, AllRoutes
  <2> QED BY <2>1, <2>2
<1> HIDE DEF m
<1>4. ProcOK("insert", m) /\ "insert" \in Pcs
  BY <1>2, <1>3 DEF ProcOK, Pcs
<1> QED BY <1>1, <1>3, <1>4, BeginPreserves DEF Spawn, m

\* _call: the process waits for the answer to a request it may make.
LEMMA CallOK ==
    ASSUME IInv, NEW p \in Procs, NEW m \in MeType, NEW op, NEW i, Call(p, m, op, i),
           LET r == [op |-> op, key |-> i.key, cid |-> i.cid, id |-> i.id] IN
           r \in ReqType /\ ReqOK(r),
           m.op \in {"spawn", "teardown", "force", "sweep"} => i.key \in Keys /\ i.id \in Ids
    PROVE  /\ Moves(p) /\ pc'[p] = "wait" /\ me'[p].op = m.op
           /\ me'[p].req.key = i.key /\ me'[p].req.id = i.id
           /\ ProcOK(pc'[p], me'[p])
<1> DEFINE r == [op |-> op, key |-> i.key, cid |-> i.cid, id |-> i.id]
           n == [m EXCEPT !.req = r]
<1>1. r \in ReqType /\ ReqOK(r) /\ r.key = i.key /\ r.id = i.id
  OBVIOUS
<1> HIDE DEF r
<1>2. n \in MeType /\ n.op = m.op /\ n.req = r
  BY <1>1 DEF MeType
<1> HIDE DEF n
<1>3. Goto(p, "wait", n) /\ "wait" \in Pcs
  BY DEF Call, n, r, Pcs
<1>4. Moves(p) /\ pc'[p] = "wait" /\ me'[p] = n
  BY <1>2, <1>3, GotoMoves
<1> QED BY <1>1, <1>2, <1>4 DEF ProcOK

LEMMA InsertRowPreserves == ASSUME IInv, NEW w \in Procs, InsertRow(w) PROVE IInv'
<1> DEFINE k == me[w].req.key
           i == [key |-> k, id |-> me[w].req.id, cid |-> None]
           new == [id |-> me[w].req.id, cid |-> None, status |-> "pending", past |-> FALSE]
<1>1. /\ k \in Keys /\ me[w].req.id \in Ids /\ me[w].op = "spawn" /\ me[w] \in MeType
      /\ pc[w] = "insert"
  BY MeNow DEF InsertRow, ProcOK
<1>2. \A j \in Keys : ~ Attends(w, j)
  BY <1>1 DEF Attends
<1>3. CASE Return(w) /\ UNCHANGED rows
  BY <1>2, <1>3, ReturnMoves, TablesKept, LocalPreserves DEF InsertRow
<1>4. CASE rows' = [rows EXCEPT ![k] = new] /\ Call(w, me[w], "ensure", i)
  <2>1. new \in RowType /\ new.id = me[w].req.id /\ new.status = "pending"
    BY <1>1 DEF RowType
  <2>2. /\ rows' \in [Keys -> RowType] /\ rows'[k] = new
        /\ \A j \in Keys \ {k} : rows'[j] = rows[j]
    BY <1>1, <1>4, <2>1 DEF IInv, TypeOK
  <2>3. LET r == [op |-> "ensure", key |-> i.key, cid |-> i.cid, id |-> i.id] IN
        r \in ReqType /\ ReqOK(r)
    BY <1>1 DEF ReqType, ReqOK
  <2>4. /\ Moves(w) /\ pc'[w] = "wait" /\ me'[w].op = "spawn"
        /\ me'[w].req.key = k /\ me'[w].req.id = me[w].req.id
        /\ ProcOK(pc'[w], me'[w])
    BY <1>1, <1>4, <2>3, CallOK
  <2>5. RowsOK'
    BY <1>1, <2>1, <2>2 DEF IInv, RowsOK
  <2>6. TablesOK'
    BY <2>2, <2>5, RowsChange DEF InsertRow, IInv, TypeOK
  <2>7. Handover(w)
    BY <1>2, <2>1, <2>2, <2>4, <1>4 DEF Handover, OldPending, Attends, InsertRow
  <2> QED BY <2>4, <2>6, <2>7, StepPreserves
<1> QED BY <1>3, <1>4 DEF InsertRow

\* A step that ends a request and takes rows away or leaves them pending no more.
LEMMA EndPreserves ==
    ASSUME IInv, NEW p \in Procs, Return(p), rows' \in [Keys -> RowType],
           UNCHANGED <<tracked, docker, late, calls, faults, orphaned>>,
           \A k \in Keys : \/ rows'[k] = NoRow
                           \/ rows'[k].id \in Ids /\ rows'[k].status # "pending"
                           \/ rows'[k] = rows[k] /\ ~ Attends(p, k)
    PROVE  IInv'
<1>1. RowsOK'
  BY DEF IInv, RowsOK
<1>2. TablesOK'
  BY <1>1, RowsChange DEF IInv, TypeOK
<1>3. Handover(p)
  BY DEF Handover, OldPending, NoRow
<1> QED BY <1>2, <1>3, ReturnMoves, StepPreserves

LEMMA EndSpawnPreserves == ASSUME IInv, NEW w \in Procs, EndSpawn(w) PROVE IInv'
<1> DEFINE i == me[w].req
           k == i.key
<1>1. k \in Keys /\ i.id \in Ids /\ i.cid \in Cids \cup {None}
  BY MeNow DEF EndSpawn, ProcOK, ReqType
<1>2. \A j \in Keys : Attends(w, j) => j = k /\ Present(i)
  BY DEF Attends, Present
<1>3. rows' \in [Keys -> RowType]
      /\ \A j \in Keys : \/ rows'[j] = NoRow
                         \/ rows'[j].id \in Ids /\ rows'[j].status # "pending"
                         \/ rows'[j] = rows[j] /\ ~ Attends(w, j)
  <2>1. CASE Present(i) /\ rows' = [rows EXCEPT ![k].cid = i.cid, ![k].status = "running"]
    <3> DEFINE new == [rows[k] EXCEPT !.cid = i.cid, !.status = "running"]
    <3>1. new \in RowType /\ new.id = rows[k].id /\ new.status = "running"
      <4>1. rows[k] \in RowType
        BY <1>1, RowNow
      <4> QED BY <1>1, <4>1 DEF RowType
    <3>2. rows' \in [Keys -> RowType] /\ rows'[k] = new
          /\ \A j \in Keys \ {k} : rows'[j] = rows[j]
      BY <1>1, <2>1, <3>1 DEF IInv, TypeOK
    <3>3. rows[k].id \in Ids
      BY <1>1, <2>1 DEF Present
    <3> QED BY <1>2, <3>1, <3>2, <3>3
  <2>2. CASE Present(i) /\ rows' = [rows EXCEPT ![k] = NoRow]
    <3>1. NoRow \in RowType
      BY <1>1, RowNow
    <3> QED BY <1>1, <1>2, <2>2, <3>1 DEF IInv, TypeOK
  <2>3. CASE ~ Present(i) /\ UNCHANGED rows
    BY <1>2, <2>3 DEF IInv, TypeOK
  <2> QED BY <2>1, <2>2, <2>3 DEF EndSpawn
<1> QED BY <1>3, EndPreserves DEF EndSpawn

LEMMA TeardownPreserves ==
    ASSUME IInv, NEW w, NEW route \in {"teardown", "force"}, TeardownAs(w, route)
    PROVE  IInv'
<1> DEFINE m == [NoMe EXCEPT !.op = route]
<1>1. m \in MeType /\ m.op = route /\ m.ok = FALSE /\ m.req = NoReq
  BY NoMeOK DEF NoMe, MeType, AllRoutes
<1>2. /\ w \in Procs /\ pc[w] = "idle" /\ TablesOK'
      /\ UNCHANGED <<rows, orphaned>>
  BY EnterOK, CountersChange DEF TeardownAs
<1>3. PICK k \in Keys :
        /\ rows[k] # NoRow
        /\ IF Held(k).cid # None
           THEN Call(w, m, "release", Held(k))
           ELSE Goto(w, "answer", [m EXCEPT !.req.key = k, !.req.id = Held(k).id, !.ok = TRUE])
  BY DEF TeardownAs
<1> DEFINE i == Held(k)
<1>4. i \in HeldType /\ i.key = k
  BY <1>3, RowNow DEF Held
<1>5. \A j \in Keys : ~ Attends(w, j)
  BY <1>2 DEF Attends
<1> HIDE DEF m
<1>6. CASE i.cid # None /\ Call(w, m, "release", i)
  <2>1. LET r == [op |-> "release", key |-> i.key, cid |-> i.cid, id |-> i.id] IN
        r \in ReqType /\ ReqOK(r)
    BY <1>4, <1>6 DEF ReqType, ReqOK, HeldType
  <2>2. i.key \in Keys /\ i.id \in Ids
    BY <1>4 DEF HeldType
  <2> HIDE DEF i
  <2>3. Moves(w) /\ ProcOK(pc'[w], me'[w])
    BY <1>1, <1>2, <1>6, <2>1, <2>2, CallOK
  <2> QED BY <1>2, <1>5, <2>3, LocalPreserves
<1>7. CASE Goto(w, "answer", [m EXCEPT !.req.key = k, !.req.id = i.id, !.ok = TRUE])
  <2> DEFINE n == [m EXCEPT !.req.key = k, !.req.id = i.id, !.ok = TRUE]
  <2>1. i.id \in Ids
    BY <1>4 DEF HeldType
  <2>2. n \in MeType /\ n.op = route /\ n.req.key = k /\ n.req.id = i.id
    BY <1>1, <2>1, NoMeOK DEF NoReq, MeType, ReqType
  <2> HIDE DEF n
  <2>3. ProcOK("answer", n) /\ "answer" \in Pcs
    BY <2>1, <2>2 DEF ProcOK, Pcs
  <2>4. Moves(w) /\ pc'[w] = "answer" /\ me'[w] = n
    BY <1>2, <1>7, <2>2, <2>3, GotoMoves DEF n
  <2> QED BY <1>2, <1>5, <2>3, <2>4, LocalPreserves
<1> QED BY <1>3, <1>6, <1>7

LEMMA EndTeardownPreserves == ASSUME IInv, NEW w \in Procs, EndTeardown(w) PROVE IInv'
<1> DEFINE k == me[w].req.key
<1>1. k \in Keys /\ pc[w] = "answer" /\ me[w].op # "spawn"
  BY MeNow DEF EndTeardown, ProcOK
<1>2. \A j \in Keys : ~ Attends(w, j)
  BY <1>1 DEF Attends
<1>3. UNCHANGED rows \/ rows' = [rows EXCEPT ![k] = NoRow]
  BY DEF EndTeardown
<1>4. rows' \in [Keys -> RowType] /\ (\A j \in Keys : rows'[j] = NoRow \/ rows'[j] = rows[j])
  <2>1. NoRow \in RowType
    BY <1>1, RowNow
  <2> QED BY <1>1, <1>3, <2>1 DEF IInv, TypeOK
<1> QED BY <1>2, <1>4, EndPreserves DEF EndTeardown

LEMMA KillPreserves == ASSUME IInv, NEW w, KillSwitch(w) PROVE IInv'
<1> DEFINE m == [NoMe EXCEPT !.op = "kill"]
           n == [m EXCEPT !.req = [op |-> "kill", key |-> NoReq.key, cid |-> NoReq.cid,
                                   id |-> NoReq.id]]
<1>1. n.req \in ReqType /\ n.req.op = "kill" /\ n \in MeType /\ n.op = "kill"
  BY NoMeOK DEF NoMe, NoReq, MeType, ReqType, AllRoutes
<1>2. Goto(w, "wait", n)
  BY DEF KillSwitch, Call
<1> HIDE DEF n
<1>3. ProcOK("wait", n) /\ "wait" \in Pcs
  BY <1>1 DEF ProcOK, ReqOK, Pcs
<1> QED BY <1>1, <1>2, <1>3, BeginPreserves DEF KillSwitch

LEMMA EndKillPreserves == ASSUME IInv, NEW w \in Procs, EndKill(w) PROVE IInv'
<1>1. \A j \in Keys : ~ Attends(w, j)
  BY DEF EndKill, Attends
<1>2. rows' \in [Keys -> RowType] /\ (\A j \in Keys : rows'[j] = NoRow \/ rows'[j] = rows[j])
  <2>1. CASE UNCHANGED rows
    BY <2>1 DEF IInv, TypeOK
  <2>2. CASE rows' = [k \in Keys |-> IF Active(k) THEN NoRow ELSE rows[k]]
    <3>1. \A k \in Keys : rows[k] \in RowType /\ NoRow \in RowType
      BY RowNow
    <3> QED BY <2>2, <3>1
  <2> QED BY <2>1, <2>2 DEF EndKill
<1> QED BY <1>1, <1>2, EndPreserves DEF EndKill

\* A row's TTL, extended or over, says nothing about who answers for it.
LEMMA PastPreserves ==
    ASSUME IInv, NEW k \in Keys, rows[k] # NoRow, NEW b \in BOOLEAN,
           rows' = [rows EXCEPT ![k].past = b], calls' \in 0..MaxCalls,
           UNCHANGED <<tracked, docker, late, pc, me, faults, orphaned>>
    PROVE  IInv'
<1>1. rows[k] \in RowType /\ rows[k].id \in Ids
  BY RowNow
<1> DEFINE new == [rows[k] EXCEPT !.past = b]
<1>2. new \in RowType /\ new.id = rows[k].id /\ new.status = rows[k].status
  BY <1>1 DEF RowType
<1>3. rows' \in [Keys -> RowType] /\ rows'[k] = new /\ (\A j \in Keys \ {k} : rows'[j] = rows[j])
  BY <1>2 DEF IInv, TypeOK
<1> HIDE DEF new
<1>4. \A j \in Keys : rows'[j].id = rows[j].id /\ rows'[j].status = rows[j].status
  BY <1>2, <1>3
<1>5. RowsOK'
  BY <1>1, <1>2, <1>3 DEF IInv, RowsOK
<1>6. TablesOK'
  BY <1>3, <1>5, RowsChange DEF IInv, TypeOK
<1>7. \A j \in Keys : rows'[j].status = "pending" => OldPending(j)
  BY <1>4 DEF OldPending
<1> QED BY <1>6, <1>7, QuietPreserves

LEMMA ExtendPreserves == ASSUME IInv, NEW w, Extend(w) PROVE IInv'
<1>1. PICK k \in Keys : rows[k].past /\ rows' = [rows EXCEPT ![k].past = FALSE]
  BY DEF Extend
<1>2. rows[k] # NoRow
  BY <1>1 DEF NoRow
<1>3. calls' \in 0..MaxCalls /\ UNCHANGED <<tracked, docker, late, pc, me, faults, orphaned>>
  BY EnterOK DEF Extend
<1> QED BY <1>1, <1>2, <1>3, PastPreserves

LEMMA ExpirePreserves == ASSUME IInv, NEW k \in Keys, Expire(k) PROVE IInv'
<1>1. rows' = [rows EXCEPT ![k].past = TRUE] /\ rows[k] # NoRow
  BY DEF Expire
<1> QED BY <1>1, PastPreserves DEF Expire, IInv, TypeOK

-----------------------------------------------------------------------------
\* The jobs.

\* A job's step that leaves every table alone.
LEMMA JobPreserves ==
    ASSUME IInv, NEW p \in Procs, NEW l \in Pcs, NEW m \in MeType, Goto(p, l, m), ProcOK(l, m),
           UNCHANGED <<rows, tracked, docker, late, calls, faults, orphaned>>,
           \A k \in Keys : ~ Attends(p, k)
    PROVE  IInv'
<1>1. TablesOK'
  BY TablesKept
<1>2. Moves(p) /\ pc'[p] = l /\ me'[p] = m
  BY GotoMoves
<1> QED BY <1>1, <1>2, LocalPreserves

LEMMA SweepExpiredPreserves == ASSUME IInv, NEW s \in Procs, SweepExpired(s) PROVE IInv'
<1> DEFINE T == {Held(k) : k \in {k \in Keys : rows[k].past /\ Active(k)}}
           m == [NoMe EXCEPT !.op = "sweep", !.todo = T]
<1>1. T \subseteq HeldType
  BY RowNow DEF NoRow
<1> HIDE DEF T
<1>2. m \in MeType
  BY <1>1, NoMeOK DEF NoMe, MeType
<1>3. Goto(s, "sweep", m) /\ pc[s] = "idle"
  BY DEF SweepExpired, T
<1> HIDE DEF m
<1>4. ProcOK("sweep", m) /\ "sweep" \in Pcs /\ (\A k \in Keys : ~ Attends(s, k))
  BY <1>3 DEF ProcOK, Pcs, Attends
<1> QED BY <1>2, <1>3, <1>4, JobPreserves DEF SweepExpired

LEMMA SweepNextPreserves == ASSUME IInv, NEW s \in Procs, SweepNext(s) PROVE IInv'
<1>1. PICK i \in me[s].todo :
         LET m == [me[s] EXCEPT !.todo = @ \ {i}] IN
         IF i.cid # None THEN Call(s, m, "release", i)
                         ELSE Goto(s, "sweep", [m EXCEPT !.dels = @ \cup {i}])
  BY DEF SweepNext
<1>2. i \in HeldType /\ me[s] \in MeType /\ (\A k \in Keys : ~ Attends(s, k))
  BY MeNow DEF SweepNext, MeType, Attends
<1> DEFINE m == [me[s] EXCEPT !.todo = @ \ {i}]
           n == [m EXCEPT !.dels = @ \cup {i}]
<1>3. m \in MeType /\ n \in MeType
  BY <1>2 DEF MeType
<1>4. CASE i.cid # None /\ Call(s, m, "release", i)
  <2>1. LET r == [op |-> "release", key |-> i.key, cid |-> i.cid, id |-> i.id] IN
        r \in ReqType /\ ReqOK(r)
    BY <1>2, <1>4 DEF ReqType, ReqOK, HeldType
  <2>2. i.key \in Keys /\ i.id \in Ids
    BY <1>2 DEF HeldType
  <2> HIDE DEF m
  <2>3. Moves(s) /\ ProcOK(pc'[s], me'[s])
    BY <1>3, <1>4, <2>1, <2>2, CallOK
  <2>4. TablesOK'
    BY TablesKept DEF SweepNext
  <2> QED BY <1>2, <2>3, <2>4, LocalPreserves DEF SweepNext
<1>5. CASE Goto(s, "sweep", n)
  <2> HIDE DEF n
  <2>1. ProcOK("sweep", n) /\ "sweep" \in Pcs
    BY DEF ProcOK, Pcs
  <2> QED BY <1>2, <1>3, <1>5, <2>1, JobPreserves DEF SweepNext
<1> QED BY <1>1, <1>4, <1>5

LEMMA SweepAnswerPreserves == ASSUME IInv, NEW s \in Procs, SweepAnswer(s) PROVE IInv'
<1> DEFINE i == [key |-> me[s].req.key, id |-> me[s].req.id, cid |-> me[s].req.cid]
<1>1. /\ me[s] \in MeType /\ me[s].req.key \in Keys /\ me[s].req.id \in Ids
      /\ me[s].req.cid \in Cids \cup {None}
  BY MeNow DEF SweepAnswer, ProcOK, ReqType
<1>2. i \in HeldType
  BY <1>1 DEF HeldType
<1> HIDE DEF i
<1> DEFINE n1 == [me[s] EXCEPT !.dels = @ \cup {i}]
           n2 == [me[s] EXCEPT !.errs = @ \cup {i}]
<1>3. n1 \in MeType /\ n2 \in MeType
  BY <1>1, <1>2 DEF MeType
<1>4. Goto(s, "sweep", n1) \/ Goto(s, "sweep", n2)
  BY DEF SweepAnswer, i
<1> HIDE DEF n1, n2
<1>5. "sweep" \in Pcs /\ (\A m : ProcOK("sweep", m)) /\ (\A k \in Keys : ~ Attends(s, k))
  BY DEF Pcs, ProcOK, SweepAnswer, Attends
<1> QED BY <1>3, <1>4, <1>5, JobPreserves DEF SweepAnswer

\* The one transaction of a job: rows go, or get a status that is not pending.
LEMMA CommitRows ==
    ASSUME IInv, NEW D \in SUBSET HeldType, NEW U \in SUBSET HeldType,
           NEW st, \A k \in Keys : st[k] \in {"same", "stopped", "error"},
           Commit(D, U, st)
    PROVE  /\ rows' \in [Keys -> RowType]
           /\ \A k \in Keys : \/ rows'[k] = NoRow
                              \/ rows'[k].id \in Ids /\ rows'[k].status # "pending"
                              \/ rows'[k] = rows[k]
<1>1. CASE UNCHANGED rows
  BY <1>1 DEF IInv, TypeOK
<1> DEFINE Gone(k) == \E i \in D : i.key = k /\ i.id = rows[k].id
           Marked(k) == \E i \in U : i.key = k /\ st[i.key] # "same"
<1>2. CASE /\ \A i \in U : Present(i)
           /\ rows' = [k \in Keys |->
                 IF Gone(k) THEN NoRow
                 ELSE IF Marked(k) THEN [rows[k] EXCEPT !.status = st[k]] ELSE rows[k]]
  <2>1. ASSUME NEW k \in Keys
        PROVE  /\ rows'[k] \in RowType
               /\ \/ rows'[k] = NoRow
                  \/ rows'[k].id \in Ids /\ rows'[k].status # "pending"
                  \/ rows'[k] = rows[k]
    <3>1. rows[k] \in RowType /\ NoRow \in RowType
      BY RowNow
    <3>2. CASE Gone(k)
      BY <1>2, <3>1, <3>2
    <3>3. CASE ~ Gone(k) /\ Marked(k)
      <4>1. rows[k].id \in Ids /\ st[k] \in {"stopped", "error"}
        BY <1>2, <3>3 DEF Present, HeldType
      <4>2. rows'[k] = [rows[k] EXCEPT !.status = st[k]]
        BY <1>2, <3>3
      <4> QED BY <3>1, <4>1, <4>2 DEF RowType
    <3>4. CASE ~ Gone(k) /\ ~ Marked(k)
      BY <1>2, <3>1, <3>4
    <3> QED BY <3>2, <3>3, <3>4
  <2> QED BY <1>2, <2>1
<1> QED BY <1>1, <1>2 DEF Commit

LEMMA SweepCommitPreserves == ASSUME IInv, NEW s \in Procs, SweepCommit(s) PROVE IInv'
<1>1. me[s].dels \in SUBSET HeldType /\ me[s].errs \in SUBSET HeldType
  BY MeNow DEF MeType
<1> DEFINE st == [k \in Keys |-> "error"]
<1>2. Commit(me[s].dels, me[s].errs, st) /\ \A k \in Keys : st[k] \in {"same", "stopped", "error"}
  BY DEF SweepCommit
<1> HIDE DEF st
<1>3. /\ rows' \in [Keys -> RowType]
      /\ \A k \in Keys : \/ rows'[k] = NoRow
                         \/ rows'[k].id \in Ids /\ rows'[k].status # "pending"
                         \/ rows'[k] = rows[k]
  BY <1>1, <1>2, CommitRows
<1>4. \A k \in Keys : ~ Attends(s, k)
  BY DEF SweepCommit, Attends
<1> QED BY <1>3, <1>4, EndPreserves DEF SweepCommit

LEMMA ReconcilePreserves == ASSUME IInv, NEW r \in Procs, Reconcile(r) PROVE IInv'
<1> DEFINE m == [NoMe EXCEPT !.op = "reconcile"]
           n == [m EXCEPT !.req = [op |-> "reconcile", key |-> NoReq.key, cid |-> NoReq.cid,
                                   id |-> NoReq.id]]
<1>1. n.req.op = "reconcile" /\ n \in MeType /\ n.op = "reconcile"
  <2>1. n.req.op = "reconcile" /\ n.op = "reconcile"
    BY DEF NoMe
  <2>2. n.req \in ReqType
    BY NoMeOK DEF NoMe, NoReq, MeType, ReqType
  <2>3. n \in MeType
    BY NoMeOK, <2>2 DEF NoMe, MeType
  <2> QED BY <2>1, <2>3
<1>2. Goto(r, "wait", n)
  BY DEF Reconcile, Call
<1> HIDE DEF n
<1>3. ProcOK("wait", n) /\ "wait" \in Pcs /\ (\A k \in Keys : ~ Attends(r, k))
  BY <1>1 DEF ProcOK, ReqOK, Pcs, Reconcile, Attends
<1> QED BY <1>1, <1>2, <1>3, JobPreserves DEF Reconcile

LEMMA ReconcileQueryPreserves ==
    ASSUME IInv, NEW r \in Procs, ReconcileQuery(r) PROVE IInv'
<1> DEFINE T == {Held(k) : k \in {k \in Keys : Active(k) /\ rows[k].cid # None}}
           n == [me[r] EXCEPT !.todo = T]
<1>1. T \subseteq HeldType
  BY RowNow DEF NoRow
<1>2. (\A m : ProcOK("apply", m)) /\ ProcOK("idle", NoMe) /\ {"apply", "idle"} \subseteq Pcs
      /\ (\A k \in Keys : ~ Attends(r, k))
  BY DEF ProcOK, Pcs, ReconcileQuery, Attends
<1>3. Goto(r, "apply", n) \/ Goto(r, "idle", NoMe)
  BY DEF ReconcileQuery, Return
<1> HIDE DEF T
<1>4. n \in MeType
  BY <1>1, MeNow DEF MeType
<1> HIDE DEF n
<1> QED BY <1>2, <1>3, <1>4, NoMeOK, JobPreserves DEF ReconcileQuery

LEMMA ReconcileCommitPreserves ==
    ASSUME IInv, NEW r \in Procs, ReconcileCommit(r) PROVE IInv'
<1> DEFINE live == {me[r].live[k].cid : k \in Keys}
           here == {i \in me[r].todo : i.cid \in live}
           st == [k \in Keys |-> IF me[r].live[k].st = "running" THEN "same" ELSE "stopped"]
<1>1. me[r].todo \ here \in SUBSET HeldType /\ here \in SUBSET HeldType
  BY MeNow DEF MeType
<1>2. Commit(me[r].todo \ here, here, st)
      /\ \A k \in Keys : st[k] \in {"same", "stopped", "error"}
  BY DEF ReconcileCommit
<1> HIDE DEF st, here
<1>3. /\ rows' \in [Keys -> RowType]
      /\ \A k \in Keys : \/ rows'[k] = NoRow
                         \/ rows'[k].id \in Ids /\ rows'[k].status # "pending"
                         \/ rows'[k] = rows[k]
  BY <1>1, <1>2, CommitRows
<1>4. \A k \in Keys : ~ Attends(r, k)
  BY DEF ReconcileCommit, Attends
<1> QED BY <1>3, <1>4, EndPreserves DEF ReconcileCommit

-----------------------------------------------------------------------------
\* The daemon's answers and what else can happen.

LEMMA ExecuteOK ==
    ASSUME IInv, NEW r \in ReqType, ReqOK(r), NEW o \in Outcomes(r), Execute(o),
           UNCHANGED <<rows, calls, orphaned>>, late' \subseteq ReqType, \A q \in late' : ReqOK(q)
    PROVE  TablesOK' /\ TableStep(tracked', docker')
<1>1. tracked' = o.tracked /\ docker' = o.docker /\ Sound(o.tracked, o.docker)
  BY OutcomesOK DEF Execute, OutcomeOK
<1>2. faults' \in 0..MaxFaults
  BY FaultTyped DEF Execute, IInv, TypeOK
<1>3. TablesOK'
  BY <1>1, <1>2 DEF Sound, TablesOK, RowsOK, IInv, TypeOK
<1> QED BY <1>1, <1>3 DEF Sound

\* The answer to p's request arrives: what the request was for does not change.
LEMMA AnswerPreserves ==
    ASSUME IInv, NEW p \in Procs, pc[p] = "wait", TablesOK', UNCHANGED <<rows, orphaned>>,
           NEW n \in MeType, Goto(p, "answer", n), n.op = me[p].op,
           n.req.key = me[p].req.key, n.req.id = me[p].req.id
    PROVE  IInv'
<1>1. Moves(p) /\ pc'[p] = "answer" /\ me'[p] = n
  BY GotoMoves DEF Pcs
<1>2. ProcOK("answer", n)
  BY MeNow DEF ProcOK
<1>3. \A k \in Keys : Attends(p, k) => Attends(p, k)'
  BY <1>1 DEF Attends
<1> QED BY <1>1, <1>2, <1>3, LocalPreserves

LEMMA ServePreserves ==
    ASSUME IInv, NEW p \in Procs, Serve(p)
    PROVE  IInv' /\ TableStep(tracked', docker')
<1>1. /\ pc[p] = "wait" /\ me[p].req \in ReqType /\ ReqOK(me[p].req) /\ me[p] \in MeType
      /\ me[p].op = "spawn" => me[p].req.key \in Keys
  BY MeNow DEF Serve, ProcOK
<1> DEFINE c(o) == IF me[p].op = "spawn" THEN o.cid ELSE me[p].req.cid
           n(o) == [me[p] EXCEPT !.ok = o.ok, !.req.cid = c(o),
                      !.st = IF me[p].op = "spawn" THEN o.tracked[me[p].req.key].st ELSE @,
                      !.live = IF me[p].op = "reconcile" THEN o.tracked ELSE @]
<1>2. PICK o \in Outcomes(me[p].req) : Execute(o) /\ Goto(p, "answer", n(o))
  BY DEF Serve
<1>3. OutcomeOK(o)
  BY <1>1, <1>2, OutcomesOK
<1>4. TablesOK' /\ TableStep(tracked', docker')
  BY <1>1, <1>2, ExecuteOK DEF Serve, IInv, TypeOK
<1>5. /\ o.ok \in BOOLEAN /\ c(o) \in Cids \cup {None}
      /\ o.tracked \in [Keys -> TrackType]
      /\ me[p].op = "spawn" => o.tracked[me[p].req.key].st \in {"running", "exited", "gone"}
  <2>1. o.ok \in BOOLEAN /\ o.cid \in Cids \cup {None} /\ o.tracked \in [Keys -> TrackType]
    BY <1>3 DEF OutcomeOK, Sound
  <2>2. me[p].req.cid \in Cids \cup {None}
    BY <1>1 DEF ReqType
  <2>3. me[p].op = "spawn" => o.tracked[me[p].req.key].st \in {"running", "exited", "gone"}
    BY <1>1, <2>1 DEF TrackType
  <2> QED BY <2>1, <2>2, <2>3
<1> HIDE DEF c
<1> DEFINE q == [me[p].req EXCEPT !.cid = c(o)]
<1>6. q \in ReqType /\ q.key = me[p].req.key /\ q.id = me[p].req.id
  BY <1>1, <1>5 DEF ReqType
<1>7. n(o) = [me[p] EXCEPT !.ok = o.ok, !.req = q,
                !.st = IF me[p].op = "spawn" THEN o.tracked[me[p].req.key].st ELSE @,
                !.live = IF me[p].op = "reconcile" THEN o.tracked ELSE @]
  BY <1>1 DEF MeType
<1> HIDE DEF q
<1>8. n(o) \in MeType /\ n(o).op = me[p].op /\ n(o).req = q
  BY <1>1, <1>5, <1>6, <1>7 DEF MeType
<1>9. IInv'
  BY <1>1, <1>2, <1>4, <1>6, <1>8, AnswerPreserves DEF Serve
<1> QED BY <1>4, <1>9

LEMMA ServeLatePreserves ==
    ASSUME IInv, NEW r \in late, ServeLate(r)
    PROVE  IInv' /\ TableStep(tracked', docker')
<1>1. r \in ReqType /\ ReqOK(r) /\ late' \subseteq ReqType /\ (\A q \in late' : ReqOK(q))
  BY DEF IInv, TypeOK, ServeLate
<1>2. TablesOK' /\ TableStep(tracked', docker')
  BY <1>1, ExecuteOK DEF ServeLate
<1>3. \A k \in Keys : rows'[k].status = "pending" => OldPending(k)
  BY DEF ServeLate, OldPending
<1> QED BY <1>2, <1>3, QuietPreserves DEF ServeLate

\* A timeout leaves the request to the daemon, a missing daemon does not.
LEMMA UnansweredPreserves ==
    ASSUME IInv, NEW p \in Procs, Timeout(p) \/ Unavailable(p) PROVE IInv'
<1> DEFINE n == [me[p] EXCEPT !.ok = FALSE]
<1>1. /\ pc[p] = "wait" /\ me[p] \in MeType /\ me[p].req \in ReqType /\ ReqOK(me[p].req)
  BY MeNow DEF Timeout, Unavailable, ProcOK
<1>2. n \in MeType /\ n.op = me[p].op /\ n.req = me[p].req
  BY <1>1 DEF MeType
<1>3. faults' \in 0..MaxFaults
  BY FaultTyped DEF Timeout, Unavailable
<1>4. late' \subseteq ReqType /\ (\A q \in late' : ReqOK(q))
  BY <1>1 DEF Timeout, Unavailable, IInv, TypeOK
<1>5. TablesOK'
  BY <1>3, <1>4, TablesNow DEF TablesOK, RowsOK, TrackedOK, Timeout, Unavailable
<1>6. Goto(p, "answer", n)
  BY DEF Timeout, Unavailable
<1> HIDE DEF n
<1> QED BY <1>1, <1>2, <1>5, <1>6, AnswerPreserves DEF Timeout, Unavailable

LEMMA DiePreserves == ASSUME IInv, NEW p \in Procs, Die(p) PROVE IInv'
<1>1. me[p].req \in ReqType /\ ProcOK(pc[p], me[p])
  BY MeNow
<1>2. faults' \in 0..MaxFaults
  BY FaultTyped DEF Die
<1>3. late' \subseteq ReqType /\ (\A q \in late' : ReqOK(q))
  BY <1>1 DEF Die, ProcOK, IInv, TypeOK
<1>4. orphaned' \subseteq Ids /\ orphaned \subseteq orphaned'
  BY <1>1 DEF Die, ProcOK, IInv, TypeOK
<1>5. TablesOK'
  BY <1>2, <1>3, <1>4, TablesNow DEF TablesOK, RowsOK, TrackedOK, Die
<1>6. \A k \in Keys : Attends(p, k) => rows[k].id \in orphaned'
  BY DEF Die, Attends
<1>7. Handover(p)
  BY <1>4, <1>6 DEF Handover, OldPending, Die
<1> QED BY <1>5, <1>7, ReturnMoves, StepPreserves DEF Die

LEMMA DockerEventPreserves ==
    ASSUME IInv, DockerEvent PROVE IInv' /\ TableStep(tracked', docker')
<1>1. PICK c \in Cids, s \in {"exited", "gone"} :
        docker' = [docker EXCEPT ![c] = s] /\ docker[c] \in {"running", "exited"}
  BY DEF DockerEvent
<1>2. faults' \in 0..MaxFaults
  BY FaultTyped DEF DockerEvent
<1>3. docker' \in DockerType
      /\ \A d \in Cids : docker'[d] = docker[d] \/ (docker[d] # "gone" /\ docker'[d] # "unused")
  BY <1>1 DEF IInv, TypeOK, DockerType
<1>4. TrackedOK(tracked', docker') /\ TableStep(tracked', docker')
  BY <1>3 DEF DockerEvent, IInv, TrackedOK, TableStep
<1>5. TablesOK'
  BY <1>2, <1>3, <1>4, TablesNow DEF TablesOK, RowsOK, DockerEvent
<1>6. \A k \in Keys : rows'[k].status = "pending" => OldPending(k)
  BY DEF DockerEvent, OldPending
<1> QED BY <1>4, <1>5, <1>6, QuietPreserves DEF DockerEvent

-----------------------------------------------------------------------------
\* The theorems.

LEMMA InitIInv == Init => IInv
<1> SUFFICES ASSUME Init PROVE IInv
  OBVIOUS
<1>1. Absent \in TrackType /\ Absent.cid = None /\ NoRow \in RowType /\ NoRow.status = "none"
  BY DEF Absent, TrackType, NoRow, RowType
<1>2. TypeOK
  BY <1>1, NoMeOK, RowsAssumption DEF Init, TypeOK, Pcs
<1>3. PendingAccounted /\ RowsOK /\ TrackedOK(tracked, docker)
  BY <1>1 DEF Init, PendingAccounted, RowsOK, TrackedOK
<1>4. \A p \in Procs : ProcOK(pc[p], me[p])
  BY NoMeOK DEF Init
<1> QED BY <1>2, <1>3, <1>4 DEF IInv, Init

\* Every step but the daemon's and Docker's leaves the daemon's table alone.
LEMMA NextTable ==
    ASSUME IInv, [Next]_vars
    PROVE  IInv' /\ (TableStep(tracked', docker') \/ UNCHANGED <<tracked, docker>>)
<1>1. CASE UNCHANGED vars
  <2>1. TablesOK' /\ UNCHANGED <<pc, me, orphaned>>
    BY <1>1, TablesKept DEF vars
  <2>2. \A k \in Keys : rows'[k].status = "pending" => OldPending(k)
    BY <1>1 DEF vars, OldPending
  <2> QED BY <1>1, <2>1, <2>2, QuietPreserves DEF vars
<1>2. ASSUME NEW w \in Workers, Request(w) PROVE IInv' /\ UNCHANGED <<tracked, docker>>
  <2>1. CASE Spawn(w)
    BY <2>1, SpawnPreserves DEF Spawn, Enter
  <2>2. CASE Teardown(w) \/ ForceTeardown(w)
    BY <2>2, TeardownPreserves DEF Teardown, ForceTeardown, TeardownAs, Enter
  <2>3. CASE KillSwitch(w)
    BY <2>3, KillPreserves DEF KillSwitch, Enter
  <2>4. CASE Extend(w)
    BY <2>4, ExtendPreserves DEF Extend, Enter
  <2> QED BY <1>2, <2>1, <2>2, <2>3, <2>4 DEF Request
<1>3. ASSUME NEW p \in Procs, Continue(p) PROVE IInv' /\ UNCHANGED <<tracked, docker>>
  <2>1. IInv'
    BY <1>3, InsertRowPreserves, EndSpawnPreserves, EndTeardownPreserves, EndKillPreserves,
       SweepNextPreserves, SweepAnswerPreserves, SweepCommitPreserves,
       ReconcileQueryPreserves, ReconcileCommitPreserves DEF Continue
  <2>2. UNCHANGED <<tracked, docker>>
    BY <1>3 DEF Continue, InsertRow, EndSpawn, EndTeardown, EndKill, SweepNext,
       SweepAnswer, SweepCommit, ReconcileQuery, ReconcileCommit
  <2> QED BY <2>1, <2>2
<1>4. ASSUME NEW p \in Procs, Job(p) PROVE IInv' /\ UNCHANGED <<tracked, docker>>
  BY <1>4, SweepExpiredPreserves, ReconcilePreserves DEF Job, SweepExpired, Reconcile
<1>5. ASSUME NEW p \in Procs, Timeout(p) \/ Unavailable(p) \/ Die(p)
      PROVE  IInv' /\ UNCHANGED <<tracked, docker>>
  BY <1>5, UnansweredPreserves, DiePreserves DEF Timeout, Unavailable, Die
<1>6. ASSUME NEW k \in Keys, Expire(k) PROVE IInv' /\ UNCHANGED <<tracked, docker>>
  BY <1>6, ExpirePreserves DEF Expire
<1> QED BY <1>1, <1>2, <1>3, <1>4, <1>5, <1>6, ServePreserves, ServeLatePreserves,
           DockerEventPreserves DEF Next

\* The invariant of the specification from which the theorems follow.
THEOREM InductiveInvariant == Spec => []IInv
<1>1. IInv /\ [Next]_vars => IInv'
  BY NextTable
<1> QED BY <1>1, InitIInv, PTL DEF Spec

\* The rows, the daemon's table, the RPCs and the processes' locals keep their
\* types, for any number of workers, jobs, requests and faults.
THEOREM TypeCorrect == Spec => []TypeOK
<1>1. IInv => TypeOK
  BY DEF IInv
<1> QED BY <1>1, InductiveInvariant, PTL

\* spawn_instance leaves no pending row that nobody answers for, however its
\* request, the teardowns, the sweep and the reconciler interleave.
THEOREM NoPendingForgotten == Spec => []PendingAccounted
<1>1. IInv => PendingAccounted
  BY DEF IInv
<1> QED BY <1>1, InductiveInvariant, PTL

\* The outcomes this module takes the daemon's RPCs to have are steps of the same
\* table of instances that the container service implements.
THEOREM Refinement == Spec => ImplementsTable
<1>1. Init => Table!Init
  BY DEF Init, Absent, Table!Init
<1>2. IInv /\ [Next]_vars => [Table!Next]_Table!vars
  <2> SUFFICES ASSUME IInv, [Next]_vars PROVE [Table!Next]_Table!vars
    OBVIOUS
  <2>1. CASE UNCHANGED <<tracked, docker>>
    BY <2>1 DEF Table!vars
  <2>2. CASE TableStep(tracked', docker')
    <3>1. TrackedOK(tracked, docker)'
      BY NextTable DEF IInv
    <3>2. \A k \in Keys : Table!Takes(k) \/ Table!Drops(k) \/ Table!Keeps(k)
      BY <2>2 DEF TableStep, Table!Takes, Table!Drops, Table!Keeps
    <3>3. \A j, k \in Keys : tracked'[j].cid = tracked'[k].cid /\ tracked'[k].cid # None
                               => j = k
      BY <3>1 DEF TrackedOK
    <3>4. {c \in Cids : docker[c] = "gone"} \subseteq {c \in Cids : docker'[c] = "gone"}
      BY <2>2 DEF TableStep
    <3> QED BY <3>2, <3>3, <3>4 DEF Table!Next
  <2> QED BY <2>1, <2>2, NextTable
<1> QED BY <1>1, <1>2, InductiveInvariant, PTL DEF Spec, ImplementsTable, Table!Spec

-----------------------------------------------------------------------------
\* The cap per owner, whatever the number of workers.

\* An id that no request still holds for the row it is about to insert.
Old(n) == n <= calls /\ \A p \in Procs : pc[p] = "insert" => n # me[p].req.id

\* What a job remembers of a row is no row to come, and none that is pending.
Settled(i) == Old(i.id) /\ (Present(i) => rows[i.key].status # "pending")

JobKnows(p) ==
    /\ pc[p] = "sweep" => me[p].op = "sweep"
    /\ \A i \in me[p].todo \cup me[p].errs : i.cid # None => Settled(i)
    /\ \A i \in me[p].errs : i.cid # None
    /\ pc[p] = "apply" => \A i \in me[p].todo : i.cid # None
    /\ pc[p] \in {"wait", "answer"} /\ me[p].op = "sweep" =>
         Settled(me[p].req) /\ me[p].req.cid # None

\* The row that a spawn inserted is pending for as long as it is there.
SpawnKnows(p) ==
    /\ me[p].op = "spawn" => p \in Workers /\ me[p].req.id <= calls
    /\ pc[p] \in {"wait", "answer"} /\ me[p].op = "spawn" =>
         (Present(me[p].req) => rows[me[p].req.key].status = "pending")

\* Every spawn numbers its row for itself.
SpawnsApart ==
    \A p, q \in Procs : p # q /\ me[p].op = "spawn" /\ me[q].op = "spawn" =>
        me[p].req.id # me[q].req.id

\* The spawns of an owner that have counted and not inserted yet.  Each found room
\* when it counted, so together with the rows they are at most one short of the
\* cap and all the workers.
Inserting(o) == {w \in Workers : pc[w] = "insert" /\ me[w].req.key[1] = o}
Room(o) ==
    /\ IsFiniteSet(ActiveOf(o))
    /\ Cardinality(ActiveOf(o)) + Cardinality(Inserting(o)) < Cap + Cardinality(Workers)

\* The inductive invariant of CapBounded.
CapInv ==
    /\ \A o \in Owners : Room(o)
    /\ \A k \in Keys : Old(rows[k].id) /\ (rows[k].status = "pending" => rows[k].cid = None)
    /\ \A p \in Procs : JobKnows(p) /\ SpawnKnows(p)
    /\ SpawnsApart

\* What a step but the insertion does to the row of k: it may go, or stop being
\* pending or active, and keeps its id.
Fades(k) ==
    \/ rows'[k] = NoRow
    \/ /\ rows'[k].id = rows[k].id
       /\ rows'[k].status = "pending" =>
            rows[k].status = "pending" /\ rows'[k].cid = rows[k].cid
       /\ Active(k)' => Active(k)
\* Nobody but process p, if it inserted the row, makes a pending row anything else.
Stays(p, k) ==
    rows[k].status = "pending" =>
        \/ rows'[k] = NoRow \/ rows'[k].status = "pending"
        \/ p \in Procs /\ me[p].op = "spawn" /\ rows[k].id = me[p].req.id
Same(q) == pc'[q] = pc[q] /\ me'[q] = me[q]
\* Process q inserts nothing next, and spawns only what it did already.
Carries(q) ==
    /\ pc'[q] # "insert"
    /\ me'[q].op = "spawn" => me[q].op = "spawn" /\ me'[q].req.id = me[q].req.id

LEMMA Blank ==
    /\ NoRow.id = 0 /\ NoRow.status = "none" /\ NoRow.cid = None /\ NoRow.past = FALSE
    /\ Absent.cid = None /\ Absent.st = "gone"
BY DEF NoRow, Absent

Newer == {n \in Nat : n > calls}

LEMMA OldStays ==
    ASSUME IInv, calls' \in Nat, calls <= calls', NEW n \in Nat, Old(n),
           \A q \in Procs : Same(q) \/ pc'[q] # "insert" \/ me'[q].req.id \in Newer
    PROVE  Old(n)'
<1>1. n <= calls' /\ calls \in Nat
  BY RowsAssumption DEF Old, IInv, TypeOK
<1>2. ASSUME NEW q \in Procs, pc'[q] = "insert"
      PROVE  n # me'[q].req.id
  <2>1. CASE Same(q)
    BY <1>2, <2>1 DEF Same, Old
  <2>2. CASE me'[q].req.id \in Newer
    BY <1>1, <2>2 DEF Old, Newer
  <2> QED BY <1>2, <2>1, <2>2
<1> QED BY <1>1, <1>2 DEF Old

\* What was settled stays so: a new row has a new id.
LEMMA SettledStays ==
    ASSUME IInv, NEW i, i.key \in Keys, i.id \in Ids, Settled(i), Old(i.id)',
           Fades(i.key) \/ ~ Old(rows'[i.key].id)
    PROVE  Settled(i)'
<1> SUFFICES ASSUME Present(i)' PROVE rows'[i.key].status # "pending"
  BY DEF Settled
<1>1. rows'[i.key].id = i.id /\ Old(i.id) /\ i.id # 0
  BY DEF Present, Settled, Ids
<1>2. Fades(i.key) /\ rows'[i.key] # NoRow
  BY <1>1, Blank
<1> QED BY <1>1, <1>2 DEF Fades, Settled, Present

LEMMA ItemsNow ==
    ASSUME IInv, NEW p \in Procs
    PROVE  /\ \A i \in me[p].todo \cup me[p].errs :
                i.key \in Keys /\ i.id \in Ids /\ i.cid \in Cids \cup {None}
           /\ pc[p] \in {"wait", "answer"} /\ me[p].op \in {"spawn", "sweep"} =>
                me[p].req.key \in Keys /\ me[p].req.id \in Ids
           /\ pc[p] = "insert" =>
                me[p].op = "spawn" /\ me[p].req.key \in Keys /\ me[p].req.id \in Ids
<1>1. me[p] \in MeType /\ ProcOK(pc[p], me[p])
  BY MeNow
<1>2. me[p].todo \subseteq HeldType /\ me[p].errs \subseteq HeldType
  BY <1>1 DEF MeType
<1>3. \A i \in HeldType : i.key \in Keys /\ i.id \in Ids /\ i.cid \in Cids \cup {None}
  BY DEF HeldType
<1> QED BY <1>1, <1>2, <1>3 DEF ProcOK

LEMMA JobKnowsKept ==
    ASSUME IInv, NEW q \in Procs, Same(q), JobKnows(q),
           \A n \in Nat : Old(n) => Old(n)',
           \A k \in Keys : Fades(k) \/ ~ Old(rows'[k].id)
    PROVE  JobKnows(q)'
<1>1. ASSUME NEW i, i.key \in Keys, i.id \in Ids, Settled(i)
      PROVE  Settled(i)'
  <2>1. Old(i.id)'
    BY <1>1 DEF Settled, Ids
  <2> QED BY <1>1, <2>1, SettledStays
<1>2. \A i \in me[q].todo \cup me[q].errs : i.cid # None => Settled(i)'
  BY <1>1, ItemsNow DEF JobKnows
<1>3. pc[q] \in {"wait", "answer"} /\ me[q].op = "sweep" => Settled(me[q].req)'
  <2> SUFFICES ASSUME pc[q] \in {"wait", "answer"}, me[q].op = "sweep"
               PROVE  Settled(me[q].req)'
    OBVIOUS
  <2>1. PICK r : r = me[q].req
    OBVIOUS
  <2>2. Settled(r)'
    BY <1>1, <2>1, ItemsNow DEF JobKnows
  <2>3. me'[q].req = r
    BY <2>1 DEF Same
  <2> QED BY <2>2, <2>3 DEF Settled, Present
<1> QED BY <1>2, <1>3 DEF JobKnows, Same
\* Only p moves, if anybody does, and knows what it has to know.
OnlyMove(p) ==
    \A q \in Procs :
        \/ q # p /\ Same(q)
        \/ q = p /\ Carries(q) /\ JobKnows(q)' /\ SpawnKnows(q)'

LEMMA RoomStays ==
    ASSUME IsFiniteSet(Workers), NEW o, Room(o), ActiveOf(o)' \subseteq ActiveOf(o),
           Inserting(o)' \subseteq Inserting(o)
    PROVE  Room(o)'
<1>1. IsFiniteSet(ActiveOf(o)') /\ Cardinality(ActiveOf(o)') <= Cardinality(ActiveOf(o))
      /\ Cardinality(ActiveOf(o)') \in Nat /\ Cardinality(ActiveOf(o)) \in Nat
  BY FS_Subset, FS_CardinalityType DEF Room
<1>2. IsFiniteSet(Inserting(o))
  BY FS_Subset DEF Inserting
<1>3. Cardinality(Inserting(o)') <= Cardinality(Inserting(o))
      /\ Cardinality(Inserting(o)') \in Nat /\ Cardinality(Inserting(o)) \in Nat
  BY <1>2, FS_Subset, FS_CardinalityType
<1>4. Cardinality(Workers) \in Nat /\ Cap \in Nat
  BY FS_CardinalityType, RowsAssumption
<1> QED BY <1>1, <1>3, <1>4 DEF Room

\* A step that inserts no row: whoever moves knows what it has to know.
LEMMA CapPreserved ==
    ASSUME IInv, CapInv, IsFiniteSet(Workers), calls' \in Nat, calls <= calls',
           NEW p, \A k \in Keys : Fades(k) /\ Stays(p, k),
           OnlyMove(p)
    PROVE  CapInv'
<1>  USE DEF OnlyMove
<1>0. \A q \in Procs : Same(q) \/ pc'[q] # "insert"
  BY DEF Carries
<1>1. ASSUME NEW n \in Nat, Old(n) PROVE Old(n)'
  <2>1. \A q \in Procs : Same(q) \/ pc'[q] # "insert" \/ me'[q].req.id \in Newer
    BY <1>0
  <2> QED BY ONLY IInv, calls' \in Nat, calls <= calls', n \in Nat, <1>1, <2>1, OldStays
<1>2. ASSUME NEW o \in Owners PROVE Room(o)'
  <2>1. \A k \in Keys : Active(k)' => Active(k)
    BY Blank DEF Fades, Active
  <2>2. ActiveOf(o)' \subseteq ActiveOf(o)
    BY <2>1 DEF ActiveOf
  <2>3. Inserting(o)' \subseteq Inserting(o)
    BY <1>0 DEF Inserting, Same, Procs
  <2> QED BY <2>2, <2>3, RoomStays DEF CapInv
<1>4. ASSUME NEW k \in Keys
      PROVE  Old(rows[k].id)' /\ (rows'[k].status = "pending" => rows'[k].cid = None)
  <2>1. rows'[k].id \in {0, rows[k].id} /\ rows[k].id \in Nat /\ Old(rows[k].id)
    BY Blank, RowNow DEF Fades, RowType, Ids, CapInv
  <2>2. Old(0)
    BY ItemsNow, RowsAssumption DEF Old, IInv, TypeOK, Ids
  <2>3. PICK n \in Nat : n = rows'[k].id /\ Old(n)
    BY <2>1, <2>2
  <2>4. Old(n)'
    BY <1>1, <2>3
  <2>5. rows'[k].status = "pending" => rows'[k].cid = None
    BY Blank DEF Fades, CapInv
  <2> QED BY <2>3, <2>4, <2>5 DEF Old
<1>5. ASSUME NEW q \in Procs, Same(q)
      PROVE  JobKnows(q)'
  BY <1>1, <1>5, JobKnowsKept DEF CapInv
<1>6. ASSUME NEW q \in Procs, Same(q), q # p
      PROVE  SpawnKnows(q)'
  <2>1. SpawnKnows(q)
    BY DEF CapInv
  <2>3. me[q].op = "spawn" => me[q].req.id <= calls'
    BY <2>1, RowsAssumption, MeNow DEF SpawnKnows, IInv, TypeOK, ReqType, Ids
  <2>4. pc[q] \in {"wait", "answer"} /\ me[q].op = "spawn" =>
          (Present(me[q].req)' => rows'[me[q].req.key].status = "pending")
    <3> SUFFICES ASSUME pc[q] \in {"wait", "answer"}, me[q].op = "spawn", Present(me[q].req)'
                 PROVE  rows'[me[q].req.key].status = "pending"
      OBVIOUS
    <3>1. PICK k \in Keys : k = me[q].req.key
      BY ItemsNow
    <3>2. me[q].req.id # 0
      BY ItemsNow DEF Ids
    <3>0. rows'[k].id = me[q].req.id
      BY <1>6, <3>1 DEF Same, Present
    <3>3. rows'[k] # NoRow /\ rows[k].id = me[q].req.id
      BY <3>0, <3>2, Blank DEF Fades
    <3>4. rows[k].status = "pending"
      BY <2>1, <3>1, <3>3 DEF SpawnKnows, Present
    <3>5. Stays(p, k)
      OBVIOUS
    <3>6. ~ (p \in Procs /\ me[p].op = "spawn" /\ rows[k].id = me[p].req.id)
      BY <1>6, <3>3 DEF CapInv, SpawnsApart
    <3> QED BY <3>1, <3>3, <3>4, <3>5, <3>6 DEF Stays
  <2> QED BY <1>6, <2>1, <2>3, <2>4 DEF SpawnKnows, Same
<1>7. SpawnsApart'
  <2>1. \A q \in Procs : me'[q].op = "spawn" => me[q].op = "spawn" /\ me'[q].req.id = me[q].req.id
    BY DEF Same, Carries
  <2> QED BY <2>1 DEF CapInv, SpawnsApart
<1> QED BY <1>2, <1>4, <1>5, <1>6, <1>7 DEF CapInv

LEMMA RowsStill ==
    ASSUME UNCHANGED rows
    PROVE  \A k \in Keys : Fades(k) /\ \A p : Stays(p, k)
BY DEF Fades, Stays, Active

\* A process that holds no rows and has none to insert.
LEMMA FreshKnows ==
    ASSUME NEW p, me'[p].todo = {}, me'[p].errs = {}, pc'[p] \notin {"insert", "sweep"},
           me'[p].op \notin {"spawn", "sweep"}
    PROVE  JobKnows(p)' /\ SpawnKnows(p)' /\ Carries(p)
BY DEF JobKnows, SpawnKnows, Carries

LEMMA CallsNow == ASSUME IInv PROVE calls \in Nat /\ calls <= calls
BY RowsAssumption DEF IInv, TypeOK

LEMMA OneMoves ==
    ASSUME IInv, CapInv, IsFiniteSet(Workers), NEW p \in Procs, Moves(p),
           calls' \in Nat, calls <= calls', \A k \in Keys : Fades(k) /\ Stays(p, k),
           Carries(p), JobKnows(p)', SpawnKnows(p)'
    PROVE  CapInv'
<1>1. \A q \in Procs : q # p => Same(q)
  BY DEF Moves, Same
<1>2. OnlyMove(p)
  BY <1>1, Zenon DEF OnlyMove
<1> QED BY <1>2, CapPreserved

LEMMA NoneMoves ==
    ASSUME IInv, CapInv, IsFiniteSet(Workers), UNCHANGED <<pc, me>>,
           calls' \in Nat, calls <= calls', \A k \in Keys : Fades(k) /\ \A p : Stays(p, k)
    PROVE  CapInv'
<1>1. PICK p : p \notin Procs
  BY NoSetContainsEverything
<1>2. \A q \in Procs : q # p /\ Same(q)
  BY <1>1 DEF Same
<1>3. OnlyMove(p)
  BY <1>2, Zenon DEF OnlyMove
<1> QED BY <1>3, CapPreserved

LEMMA NoMeIs == NoMe.op = "none" /\ NoMe.todo = {} /\ NoMe.errs = {} /\ NoMe.dels = {}
BY DEF NoMe

\* A request or a job that is over.
LEMMA ReturnKeepsCap ==
    ASSUME IInv, CapInv, IsFiniteSet(Workers), NEW p \in Procs, Return(p), UNCHANGED calls,
           \A k \in Keys : Fades(k) /\ Stays(p, k)
    PROVE  CapInv'
<1>1. Moves(p) /\ pc'[p] = "idle" /\ me'[p] = NoMe
  BY ReturnMoves
<1>2. JobKnows(p)' /\ SpawnKnows(p)' /\ Carries(p)
  BY <1>1, NoMeIs, FreshKnows
<1> QED BY <1>1, <1>2, OneMoves, CallsNow

\* A request that begins, but not a spawn.
LEMMA BeginKeepsCap ==
    ASSUME IInv, CapInv, IsFiniteSet(Workers), NEW w, UNCHANGED rows,
           NEW route, Enter(w, route), Moves(w), pc'[w] \notin {"insert", "sweep"},
           me'[w].todo = {}, me'[w].errs = {}, me'[w].op \notin {"spawn", "sweep"}
    PROVE  CapInv'
<1>1. w \in Procs /\ calls' \in Nat /\ calls <= calls'
  BY EnterOK, CallsNow DEF Enter, Ids
<1>2. JobKnows(w)' /\ SpawnKnows(w)' /\ Carries(w)
  BY FreshKnows
<1> QED BY <1>1, <1>2, RowsStill, OneMoves

LEMMA TeardownKeepsCap ==
    ASSUME IInv, CapInv, IsFiniteSet(Workers), NEW w,
           NEW route \in {"teardown", "force"}, TeardownAs(w, route)
    PROVE  CapInv'
<1> DEFINE m == [NoMe EXCEPT !.op = route]
<1>1. m.todo = {} /\ m.errs = {} /\ m.op = route /\ m \in MeType
  BY NoMeOK DEF NoMe, MeType, AllRoutes
<1>2. PICK k \in Keys :
        /\ rows[k] # NoRow
        /\ IF Held(k).cid # None
           THEN Call(w, m, "release", Held(k))
           ELSE Goto(w, "answer", [m EXCEPT !.req.key = k, !.req.id = Held(k).id, !.ok = TRUE])
  BY DEF TeardownAs
<1>3. w \in Procs /\ UNCHANGED rows
  BY EnterOK DEF TeardownAs
<1> HIDE DEF m
<1> DEFINE Held0(n) == n.todo = {} /\ n.errs = {} /\ n.op = route
           called == [m EXCEPT !.req = [op |-> "release", key |-> Held(k).key,
                                        cid |-> Held(k).cid, id |-> Held(k).id]]
           spared == [m EXCEPT !.req.key = k, !.req.id = Held(k).id, !.ok = TRUE]
<1>7. Held0(called) /\ Held0(spared)
  BY <1>1 DEF MeType
<1>8. Goto(w, "wait", called) \/ Goto(w, "answer", spared)
  BY <1>2 DEF Call
<1> HIDE DEF called, spared
<1>4. PICK l \in {"wait", "answer"} : \E n : Goto(w, l, n) /\ Held0(n)
  BY <1>7, <1>8
<1>9. PICK n : Goto(w, l, n) /\ Held0(n)
  BY <1>4
<1>5. IInv'
  BY TeardownPreserves
<1>6. Moves(w) /\ pc'[w] = l /\ me'[w] = n
  BY <1>3, <1>9, <1>5 DEF Goto, Moves, IInv, TypeOK
<1> QED BY <1>3, <1>4, <1>9, <1>6, BeginKeepsCap DEF TeardownAs

LEMMA KillKeepsCap ==
    ASSUME IInv, CapInv, IsFiniteSet(Workers), NEW w, KillSwitch(w) PROVE CapInv'
<1> DEFINE n == [[NoMe EXCEPT !.op = "kill"] EXCEPT
                   !.req = [op |-> "kill", key |-> NoReq.key, cid |-> NoReq.cid, id |-> NoReq.id]]
<1>1. Goto(w, "wait", n) /\ n.todo = {} /\ n.errs = {} /\ n.op = "kill"
  BY DEF KillSwitch, Call, NoMe
<1> HIDE DEF n
<1>2. IInv' /\ w \in Procs
  BY KillPreserves, EnterOK DEF KillSwitch
<1>3. Moves(w) /\ pc'[w] = "wait" /\ me'[w] = n
  BY <1>1, <1>2 DEF Goto, Moves, IInv, TypeOK
<1> QED BY <1>1, <1>3, BeginKeepsCap DEF KillSwitch

\* Steps that only touch the TTL of a row.
LEMMA PastKeepsCap ==
    ASSUME IInv, CapInv, IsFiniteSet(Workers), UNCHANGED <<pc, me>>,
           calls' \in Nat, calls <= calls', NEW k \in Keys, NEW b,
           rows' = [rows EXCEPT ![k].past = b]
    PROVE  CapInv'
<1>1. rows[k] \in RowType
  BY RowNow
<1>2. /\ rows'[k].id = rows[k].id /\ rows'[k].cid = rows[k].cid
      /\ rows'[k].status = rows[k].status
  BY <1>1 DEF IInv, TypeOK, RowType
<1>3. \A j \in Keys \ {k} : rows'[j] = rows[j]
  BY DEF IInv, TypeOK
<1>4. \A j \in Keys : Fades(j) /\ \A p : Stays(p, j)
  BY <1>2, <1>3 DEF Fades, Stays, Active
<1> QED BY <1>4, NoneMoves

\* The route counts before it reserves a row: it goes on though others count meanwhile.
LEMMA SpawnKeepsCap ==
    ASSUME IInv, CapInv, IsFiniteSet(Workers), NEW w, Spawn(w) PROVE CapInv'
<1>1. PICK k \in Keys :
        /\ Cardinality(ActiveOf(k[1])) < Cap
        /\ Goto(w, "insert", [NoMe EXCEPT !.op = "spawn", !.req.key = k, !.req.id = calls'])
  BY DEF Spawn
<1>2. /\ w \in Procs /\ calls' = calls + 1 /\ calls \in Nat /\ UNCHANGED rows
      /\ IInv' /\ pc[w] = "idle"
  BY EnterOK, CallsNow, SpawnPreserves DEF Spawn, Enter
<1> DEFINE n == [NoMe EXCEPT !.op = "spawn", !.req.key = k, !.req.id = calls']
<1>3. /\ n.op = "spawn" /\ n.req.key = k /\ n.req.id = calls'
      /\ n.todo = {} /\ n.errs = {}
  BY DEF NoMe, NoReq
<1>4. Goto(w, "insert", n)
  BY <1>1
<1> HIDE DEF n
<1>5. Moves(w) /\ pc'[w] = "insert" /\ me'[w] = n
  BY <1>2, <1>4 DEF Goto, Moves, IInv, TypeOK
<1>6. ASSUME NEW q \in Procs \ {w} PROVE Same(q)
  BY <1>5 DEF Moves, Same
<1>a. calls' > calls /\ calls' \in Nat
  BY <1>2
<1>7. ASSUME NEW i \in Nat, Old(i) PROVE Old(i)'
  <2>1. \A q \in Procs : Same(q) \/ pc'[q] # "insert" \/ me'[q].req.id \in Newer
    BY <1>3, <1>5, <1>6, <1>a DEF Newer
  <2> QED BY ONLY IInv, <1>2, <1>a, i \in Nat, <1>7, <2>1, OldStays
<1>8. \A j \in Keys : Fades(j) /\ Active(j)' = Active(j)
  BY <1>2, RowsStill DEF Active
<1>9. ASSUME NEW o \in Owners PROVE Room(o)'
  <2>1. ActiveOf(o)' = ActiveOf(o)
    BY <1>8 DEF ActiveOf
  <2>2. CASE o = k[1]
    <3>1. Inserting(o)' \subseteq Workers
      BY DEF Inserting
    <3>2. IsFiniteSet(Inserting(o)') /\ Cardinality(Inserting(o)') <= Cardinality(Workers)
      BY <3>1, FS_Subset
    <3>3. Cardinality(Workers) \in Nat /\ Cardinality(Inserting(o)') \in Nat /\ Cap \in Nat
      BY <3>2, FS_CardinalityType, RowsAssumption
    <3>4. IsFiniteSet(ActiveOf(o)) /\ Cardinality(ActiveOf(o)) \in Nat
          /\ Cardinality(ActiveOf(o)) < Cap
      BY <1>1, <2>2, FS_CardinalityType DEF CapInv, Room
    <3> QED BY <2>1, <3>2, <3>3, <3>4 DEF Room
  <2>3. CASE o # k[1]
    <3>1. Inserting(o)' \subseteq Inserting(o)
      BY <1>3, <1>5, <1>6, <2>3 DEF Inserting, Same, Procs
    <3> QED BY <2>1, <3>1, RoomStays DEF CapInv
  <2> QED BY <2>2, <2>3
<1>10. \A j \in Keys : /\ Old(rows[j].id)'
                       /\ rows'[j].status = "pending" => rows'[j].cid = None
  <2> SUFFICES ASSUME NEW j \in Keys
               PROVE  Old(rows[j].id)' /\ (rows'[j].status = "pending" => rows'[j].cid = None)
    OBVIOUS
  <2>1. PICK i \in Nat : i = rows[j].id /\ Old(i)
    BY RowNow DEF CapInv, RowType, Ids
  <2>2. Old(i)'
    BY <1>7, <2>1
  <2> QED BY <1>2, <2>1, <2>2 DEF Old, CapInv
<1>11. ASSUME NEW q \in Procs \ {w} PROVE JobKnows(q)' /\ SpawnKnows(q)'
  <2>1. JobKnows(q)'
    BY <1>6, <1>7, <1>8, JobKnowsKept DEF CapInv
  <2>2. me[q].req.id \in Nat
    BY MeNow DEF ReqType, Ids
  <2>3. SpawnKnows(q)'
    BY <1>2, <1>6, <1>a, <2>2 DEF SpawnKnows, Same, CapInv, Present
  <2> QED BY <2>1, <2>3
<1>12. JobKnows(w)'
  BY <1>3, <1>5 DEF JobKnows
<1>13. SpawnKnows(w)'
  BY <1>3, <1>5, <1>a DEF SpawnKnows, Spawn, Enter
<1>14. SpawnsApart'
  <2>1. ASSUME NEW q \in Procs \ {w}, me[q].op = "spawn" PROVE me'[q].req.id # me'[w].req.id
    <3>1. me[q].req.id <= calls /\ me[q].req.id \in Nat
      BY <2>1, MeNow DEF CapInv, SpawnKnows, ReqType, Ids
    <3> QED BY <1>2, <1>3, <1>5, <1>6, <3>1 DEF Same
  <2> QED BY <1>6, <2>1 DEF CapInv, SpawnsApart, Same
<1> QED BY <1>9, <1>10, <1>11, <1>12, <1>13, <1>14 DEF CapInv

LEMMA InsertKeepsCap ==
    ASSUME IInv, CapInv, IsFiniteSet(Workers), NEW p \in Procs, InsertRow(p) PROVE CapInv'
<1>0. pc[p] = "insert" /\ me[p].op = "spawn" /\ me[p].req.key \in Keys /\ me[p].req.id \in Ids
  BY ItemsNow DEF InsertRow
<1>a. PICK k \in Keys : k = me[p].req.key
  BY <1>0
<1>b. PICK r \in Ids : r = me[p].req.id
  BY <1>0
<1> DEFINE new == [id |-> r, cid |-> None, status |-> "pending", past |-> FALSE]
           call == [op |-> "ensure", key |-> k, cid |-> None, id |-> r]
           n == [me[p] EXCEPT !.req = call]
<1>1. /\ pc[p] = "insert" /\ me[p].op = "spawn" /\ k = me[p].req.key /\ r = me[p].req.id
      /\ me[p] \in MeType /\ IInv' /\ calls' = calls
  BY <1>0, <1>a, <1>b, MeNow, InsertRowPreserves DEF InsertRow
<1>2. p \in Workers /\ r <= calls
  BY <1>1 DEF CapInv, SpawnKnows
<1>3. CASE Return(p) /\ UNCHANGED rows
  BY <1>1, <1>3, RowsStill, ReturnKeepsCap
<1>4. CASE rows[k] = NoRow /\ rows' = [rows EXCEPT ![k] = new] /\ Goto(p, "wait", n)
  <2>1. rows'[k] = new /\ (\A j \in Keys \ {k} : rows'[j] = rows[j])
    BY <1>1, <1>4 DEF IInv, TypeOK
  <2>2. new.id = r /\ new.status = "pending" /\ new.cid = None
    OBVIOUS
  <2>3. /\ n.op = "spawn" /\ n.todo = me[p].todo /\ n.errs = me[p].errs
        /\ n.req.key = k /\ n.req.id = r
    BY <1>1 DEF MeType
  <2> HIDE DEF new, n
  <2>4. Moves(p) /\ pc'[p] = "wait" /\ me'[p] = n
    BY <1>1, <1>4 DEF Goto, Moves, IInv, TypeOK
  <2>5. ASSUME NEW q \in Procs \ {p} PROVE Same(q)
    BY <2>4 DEF Moves, Same
  <2>a. ASSUME NEW q \in Procs \ {p}, me[q].op = "spawn" PROVE me[q].req.id # r
    BY <1>1, <2>a DEF CapInv, SpawnsApart
  <2>6. ASSUME NEW i \in Nat, Old(i) PROVE Old(i)' /\ i # r
    <3>1. Old(i)'
      BY <1>1, <2>4, <2>5, <2>6 DEF Old, Same
    <3>2. i # r
      BY <1>1, <2>6 DEF Old
    <3> QED BY <3>1, <3>2
  <2>7. \A j \in Keys : Fades(j) \/ ~ Old(rows'[j].id)
    <3>1. ~ Old(r)
      BY <1>1, <2>6 DEF Ids
    <3> QED BY <2>1, <2>2, <3>1 DEF Fades, Active
  <2>8. Old(r)'
    <3>1. \A q \in Procs \ {p} : pc[q] = "insert" => me[q].req.id # r
      BY <2>a, ItemsNow
    <3> QED BY <1>1, <1>2, <2>4, <2>5, <3>1 DEF Old, Same
  <2>9. \A j \in Keys : /\ Old(rows[j].id)'
                        /\ rows'[j].status = "pending" => rows'[j].cid = None
    <3> SUFFICES ASSUME NEW j \in Keys
                 PROVE  Old(rows[j].id)' /\ (rows'[j].status = "pending" => rows'[j].cid = None)
      OBVIOUS
    <3>1. CASE j = k
      BY <2>1, <2>2, <2>8, <3>1 DEF Old
    <3>2. CASE j # k
      <4>1. PICK i \in Nat : i = rows[j].id /\ Old(i)
        BY RowNow DEF CapInv, RowType, Ids
      <4>2. Old(i)'
        BY <2>6, <4>1
      <4> QED BY <2>1, <3>2, <4>1, <4>2 DEF Old, CapInv
    <3> QED BY <3>1, <3>2
  <2>10. ASSUME NEW o \in Owners PROVE Room(o)'
    <3>1. Active(k)' /\ (\A j \in Keys \ {k} : Active(j)' = Active(j))
      BY <2>1, <2>2 DEF Active
    <3>4. Inserting(o)' = Inserting(o) \ {p}
      BY <2>4, <2>5 DEF Inserting, Same, Procs
    <3>2. CASE o = k[1]
      <4>1. ActiveOf(o)' = ActiveOf(o) \cup {k} /\ k \notin ActiveOf(o)
        BY <1>1, <1>4, <3>1, <3>2, Blank DEF ActiveOf, Active
      <4>2. p \in Inserting(o) /\ IsFiniteSet(Inserting(o))
        BY <1>1, <1>2, <3>2, FS_Subset DEF Inserting
      <4>3. Room(o) /\ IsFiniteSet(ActiveOf(o)) /\ Cardinality(ActiveOf(o)) \in Nat
        BY FS_CardinalityType DEF CapInv, Room
      <4>4. IsFiniteSet(ActiveOf(o)') /\ Cardinality(ActiveOf(o)') = Cardinality(ActiveOf(o)) + 1
        BY <4>1, <4>3, FS_AddElement
      <4>5. /\ Cardinality(Inserting(o)') = Cardinality(Inserting(o)) - 1
            /\ Cardinality(Inserting(o)) \in Nat
        BY <3>4, <4>2, FS_RemoveElement, FS_CardinalityType
      <4>6. Cardinality(ActiveOf(o)') + Cardinality(Inserting(o)')
              = Cardinality(ActiveOf(o)) + Cardinality(Inserting(o))
        BY <4>3, <4>4, <4>5
      <4> QED BY <4>3, <4>4, <4>6 DEF Room
    <3>3. CASE o # k[1]
      <4>1. ActiveOf(o)' = ActiveOf(o)
        BY <3>1, <3>3 DEF ActiveOf
      <4> QED BY <3>4, <4>1, RoomStays DEF CapInv
    <3> QED BY <3>2, <3>3
  <2>11. ASSUME NEW q \in Procs \ {p} PROVE JobKnows(q)' /\ SpawnKnows(q)'
    <3>1. JobKnows(q)'
      BY <2>5, <2>6, <2>7, JobKnowsKept DEF CapInv
    <3>3. pc[q] \in {"wait", "answer"} /\ me[q].op = "spawn" =>
            (Present(me[q].req)' => rows'[me[q].req.key].status = "pending")
      <4> SUFFICES ASSUME pc[q] \in {"wait", "answer"}, me[q].op = "spawn", Present(me[q].req)'
                   PROVE  rows'[me[q].req.key].status = "pending"
        OBVIOUS
      <4>1. PICK j \in Keys : j = me[q].req.key
        BY ItemsNow
      <4>2. rows'[j].id = me[q].req.id
        BY <2>5, <4>1 DEF Same, Present
      <4>3. j # k
        BY <2>1, <2>2, <2>a, <4>2
      <4> QED BY <2>1, <4>1, <4>2, <4>3 DEF CapInv, SpawnKnows, Present
    <3>4. SpawnKnows(q)'
      BY <1>1, <2>5, <3>3 DEF SpawnKnows, Same, CapInv
    <3> QED BY <3>1, <3>4
  <2>12. JobKnows(p)'
    <3>1. \A i \in me[p].todo \cup me[p].errs : i.cid # None => Settled(i)'
      <4> SUFFICES ASSUME NEW i \in me[p].todo \cup me[p].errs, i.cid # None
                   PROVE  Settled(i)'
        OBVIOUS
      <4>1. i.key \in Keys /\ i.id \in Ids /\ Settled(i)
        BY ItemsNow DEF CapInv, JobKnows
      <4>2. Old(i.id)'
        BY <2>6, <4>1 DEF Settled, Ids
      <4> QED BY <2>7, <4>1, <4>2, SettledStays
    <3> QED BY <2>3, <2>4, <3>1 DEF JobKnows, CapInv
  <2>13. SpawnKnows(p)'
    BY <1>1, <1>2, <2>1, <2>2, <2>3, <2>4 DEF SpawnKnows
  <2>14. SpawnsApart'
    BY <1>1, <2>3, <2>4, <2>5, <2>a DEF CapInv, SpawnsApart, Same
  <2> QED BY <2>9, <2>10, <2>11, <2>12, <2>13, <2>14 DEF CapInv
<1> QED BY <1>1, <1>3, <1>4 DEF InsertRow, Call

LEMMA EndSpawnKeepsCap ==
    ASSUME IInv, CapInv, IsFiniteSet(Workers), NEW p \in Procs, EndSpawn(p) PROVE CapInv'
<1>1. me[p].op = "spawn" /\ pc[p] = "answer" /\ me[p].req.key \in Keys
  BY ItemsNow DEF EndSpawn
<1>3. PICK k \in Keys : k = me[p].req.key
  BY <1>1
<1>4. Present(me[p].req) => rows[k].status = "pending"
  BY <1>1, <1>3 DEF CapInv, SpawnKnows
<1>5. \A j \in Keys : Fades(j) /\ Stays(p, j)
  <2>1. CASE UNCHANGED rows
    BY <2>1, RowsStill
  <2>2. CASE rows' = [rows EXCEPT ![k] = NoRow]
    BY <2>2 DEF Fades, Stays, Active, IInv, TypeOK
  <2>3. CASE /\ Present(me[p].req)
             /\ rows' = [rows EXCEPT ![k].cid = me[p].req.cid, ![k].status = "running"]
    <3> DEFINE new == [rows[k] EXCEPT !.cid = me[p].req.cid, !.status = "running"]
    <3>1. rows[k] \in RowType
      BY RowNow
    <3>2. new.id = rows[k].id /\ new.status = "running"
      BY <3>1 DEF RowType
    <3>3. rows'[k] = new /\ (\A j \in Keys \ {k} : rows'[j] = rows[j])
      BY <2>3 DEF IInv, TypeOK
    <3> HIDE DEF new
    <3>4. Fades(k) /\ Stays(p, k)
      BY <1>1, <1>3, <1>4, <2>3, <3>2, <3>3 DEF Fades, Stays, Active, Present
    <3> QED BY <3>3, <3>4 DEF Fades, Stays, Active
  <2> QED BY <1>3, <2>1, <2>2, <2>3 DEF EndSpawn
<1> QED BY <1>5, ReturnKeepsCap DEF EndSpawn

\* Steps that end something and only take rows away.
LEMMA RowsGo ==
    ASSUME IInv, CapInv, IsFiniteSet(Workers), NEW p \in Procs, Return(p), UNCHANGED calls,
           \A k \in Keys : rows'[k] = NoRow \/ rows'[k] = rows[k]
    PROVE  CapInv'
<1>1. \A k \in Keys : Fades(k) /\ Stays(p, k)
  BY DEF Fades, Stays, Active
<1> QED BY <1>1, ReturnKeepsCap

LEMMA EndsKeepCap ==
    ASSUME IInv, CapInv, IsFiniteSet(Workers), NEW p \in Procs, EndTeardown(p) \/ EndKill(p)
    PROVE  CapInv'
<1>1. \A k \in Keys : rows'[k] = NoRow \/ rows'[k] = rows[k]
  BY DEF EndTeardown, EndKill, IInv, TypeOK
<1> QED BY <1>1, RowsGo DEF EndTeardown, EndKill

\* A job goes on to another row, or to another step.
LEMMA JobKeepsCap ==
    ASSUME IInv, IInv', CapInv, IsFiniteSet(Workers), NEW p \in Procs,
           UNCHANGED <<rows, calls>>, NEW l \in {"wait", "answer", "sweep", "apply"}, NEW m,
           Goto(p, l, m), m.op # "spawn", JobKnows(p)'
    PROVE  CapInv'
<1>1. Moves(p) /\ pc'[p] = l /\ me'[p] = m
  BY DEF Goto, Moves, IInv, TypeOK
<1>2. SpawnKnows(p)' /\ Carries(p)
  BY <1>1 DEF SpawnKnows, Carries
<1> QED BY <1>1, <1>2, RowsStill, CallsNow, OneMoves

\* The rows a job finds.
LEMMA HeldSettled ==
    ASSUME IInv, CapInv, NEW k \in Keys
    PROVE  Held(k).cid # None => Settled(Held(k))
BY DEF CapInv, Held, Settled, Present

\* As long as no request of a spawn gives way to an insertion, what is settled stays so.
LEMMA JobSettled ==
    ASSUME IInv, IInv', NEW p \in Procs, UNCHANGED <<rows, calls>>,
           NEW l, NEW m, Goto(p, l, m), l # "insert", NEW i, i.id \in Ids, Settled(i)
    PROVE  Settled(i)'
<1>1. \A q \in Procs : Same(q) \/ pc'[q] # "insert" \/ me'[q].req.id \in Newer
  BY DEF Goto, Same, IInv, TypeOK
<1>2. i.id \in Nat /\ Old(i.id)
  BY DEF Ids, Settled
<1>3. Old(i.id)'
  BY <1>1, <1>2, OldStays, CallsNow
<1> QED BY <1>3 DEF Settled, Present

LEMMA SweepExpiredKeepsCap ==
    ASSUME IInv, CapInv, IsFiniteSet(Workers), NEW p \in Procs, SweepExpired(p) PROVE CapInv'
<1> DEFINE T == {Held(k) : k \in {k \in Keys : rows[k].past /\ Active(k)}}
           m == [NoMe EXCEPT !.op = "sweep", !.todo = T]
<1>1. m.op = "sweep" /\ m.todo = T /\ m.errs = {}
  BY DEF NoMe
<1>2. Goto(p, "sweep", m) /\ IInv' /\ UNCHANGED <<rows, calls>>
  BY SweepExpiredPreserves DEF SweepExpired
<1>3. ASSUME NEW i \in T, i.cid # None PROVE Settled(i)'
  <2>1. PICK k \in Keys : i = Held(k) /\ Active(k)
    BY <1>3
  <2>2. i.id \in Ids
    BY <2>1, RowNow, Blank DEF Held, Active
  <2>3. Settled(i)
    BY <1>3, <2>1, HeldSettled
  <2> QED BY <1>2, <2>2, <2>3, JobSettled
<1> HIDE DEF m, T
<1>4. me'[p] = m /\ pc'[p] = "sweep"
  BY <1>2 DEF Goto, IInv, TypeOK
<1>5. JobKnows(p)'
  BY <1>1, <1>3, <1>4 DEF JobKnows
<1> QED BY <1>1, <1>2, <1>5, JobKeepsCap

LEMMA SweepNextKeepsCap ==
    ASSUME IInv, CapInv, IsFiniteSet(Workers), NEW p \in Procs, SweepNext(p) PROVE CapInv'
<1>1. PICK i \in me[p].todo :
         LET m == [me[p] EXCEPT !.todo = @ \ {i}] IN
         IF i.cid # None THEN Call(p, m, "release", i)
                         ELSE Goto(p, "sweep", [m EXCEPT !.dels = @ \cup {i}])
  BY DEF SweepNext
<1> DEFINE m == [me[p] EXCEPT !.todo = @ \ {i}]
           r == [op |-> "release", key |-> i.key, cid |-> i.cid, id |-> i.id]
           n1 == [m EXCEPT !.req = r]
           n2 == [m EXCEPT !.dels = @ \cup {i}]
<1>2. /\ IInv' /\ UNCHANGED <<rows, calls>> /\ me[p] \in MeType
      /\ pc[p] = "sweep"
  BY SweepNextPreserves, MeNow DEF SweepNext
<1>3. /\ n1.op = me[p].op /\ n1.todo = me[p].todo \ {i} /\ n1.errs = me[p].errs
      /\ n1.req = r
      /\ n2.op = me[p].op /\ n2.todo = me[p].todo \ {i} /\ n2.errs = me[p].errs
  BY <1>2 DEF MeType
<1>4. r.id = i.id /\ r.key = i.key /\ r.cid = i.cid
  OBVIOUS
<1>5. \/ i.cid # None /\ Goto(p, "wait", n1)
      \/ Goto(p, "sweep", n2)
  BY <1>1 DEF Call
<1> HIDE DEF n1, n2, m, r
<1>6. ASSUME NEW l \in {"wait", "sweep"}, NEW n, Goto(p, l, n), n.op = me[p].op,
             n.todo = me[p].todo \ {i}, n.errs = me[p].errs,
             l = "wait" => n.req = r /\ i.cid # None
      PROVE  CapInv'
  <2>1. ASSUME NEW j \in me[p].todo \cup me[p].errs, j.cid # None PROVE Settled(j)'
    <3>1. j.id \in Ids /\ Settled(j)
      BY <2>1, ItemsNow DEF CapInv, JobKnows
    <3> QED BY <1>2, <1>6, <3>1, JobSettled
  <2>2. me'[p] = n /\ pc'[p] = l
    BY <1>6 DEF Goto, IInv, TypeOK
  <2>3. me[p].op = "sweep"
    BY <1>2 DEF CapInv, JobKnows
  <2>4. l = "wait" => Settled(me[p].req)' /\ me'[p].req.cid # None
    BY <1>4, <1>6, <2>1, <2>2 DEF Settled, Present
  <2>5. JobKnows(p)'
    BY <1>2, <1>6, <2>1, <2>2, <2>3, <2>4 DEF JobKnows, CapInv
  <2> QED BY <1>2, <1>6, <2>3, <2>5, JobKeepsCap
<1> QED BY <1>3, <1>5, <1>6

LEMMA SweepAnswerKeepsCap ==
    ASSUME IInv, CapInv, IsFiniteSet(Workers), NEW p \in Procs, SweepAnswer(p) PROVE CapInv'
<1> DEFINE i == [key |-> me[p].req.key, id |-> me[p].req.id, cid |-> me[p].req.cid]
           n1 == [me[p] EXCEPT !.dels = @ \cup {i}]
           n2 == [me[p] EXCEPT !.errs = @ \cup {i}]
<1>1. /\ IInv' /\ UNCHANGED <<rows, calls>> /\ me[p] \in MeType
      /\ pc[p] = "answer" /\ me[p].op = "sweep"
  BY SweepAnswerPreserves, MeNow DEF SweepAnswer
<1>2. PICK j : j = i
  OBVIOUS
<1>3. j.id = me[p].req.id /\ j.key = me[p].req.key /\ j.cid = me[p].req.cid
  BY <1>2
<1>4. j.id \in Ids /\ Settled(j) /\ j.cid # None
  BY <1>1, <1>3, ItemsNow DEF CapInv, JobKnows, Settled, Present
<1>5. /\ n1.op = "sweep" /\ n1.todo = me[p].todo /\ n1.errs = me[p].errs
      /\ n2.op = "sweep" /\ n2.todo = me[p].todo /\ n2.errs = me[p].errs \cup {j}
  BY <1>1, <1>2 DEF MeType
<1>6. Goto(p, "sweep", n1) \/ Goto(p, "sweep", n2)
  BY DEF SweepAnswer
<1> HIDE DEF n1, n2, i
<1>7. ASSUME NEW n, Goto(p, "sweep", n), n.op = "sweep", n.todo = me[p].todo,
             n.errs \subseteq me[p].errs \cup {j}
      PROVE  CapInv'
  <2>1. ASSUME NEW h \in me[p].todo \cup me[p].errs \cup {j}, h.cid # None PROVE Settled(h)'
    <3>1. h.id \in Ids /\ Settled(h)
      BY <1>4, <2>1, ItemsNow DEF CapInv, JobKnows
    <3> QED BY <1>1, <1>7, <3>1, JobSettled
  <2>2. me'[p] = n /\ pc'[p] = "sweep"
    BY <1>7 DEF Goto, IInv, TypeOK
  <2>3. JobKnows(p)'
    BY <1>4, <1>7, <2>1, <2>2 DEF JobKnows, CapInv
  <2> QED BY <1>1, <1>7, <2>3, JobKeepsCap
<1> QED BY <1>5, <1>6, <1>7

\* A transaction of a job leaves every pending row alone, or deletes it.
LEMMA CommitFades ==
    ASSUME IInv, NEW D \in SUBSET HeldType, NEW U \in SUBSET HeldType,
           NEW st, \A k \in Keys : st[k] \in {"same", "stopped", "error"},
           \A i \in U : Settled(i), Commit(D, U, st)
    PROVE  \A k \in Keys : Fades(k) /\ \A p : Stays(p, k)
<1> SUFFICES ASSUME NEW k \in Keys PROVE Fades(k) /\ \A p : Stays(p, k)
  OBVIOUS
<1>1. CASE rows'[k] = rows[k] \/ rows'[k] = NoRow
  BY <1>1 DEF Fades, Stays, Active
<1>2. CASE /\ \A i \in U : Present(i)
           /\ \E i \in U : i.key = k /\ st[i.key] # "same"
           /\ rows'[k] = [rows[k] EXCEPT !.status = st[k]]
  <2>1. PICK i \in U : i.key = k /\ st[k] \in {"stopped", "error"}
    BY <1>2
  <2>2. rows[k].status # "pending"
    BY <1>2, <2>1 DEF Settled
  <2>3. rows'[k].id = rows[k].id /\ rows'[k].status \in {"stopped", "error"}
    BY <1>2, <2>1, RowNow DEF RowType
  <2> QED BY <2>2, <2>3 DEF Fades, Stays, Active
<1> QED BY <1>1, <1>2 DEF Commit

LEMMA CommitsKeepCap ==
    ASSUME IInv, CapInv, IsFiniteSet(Workers), NEW p \in Procs,
           SweepCommit(p) \/ ReconcileCommit(p)
    PROVE  CapInv'
<1>1. me[p].dels \in SUBSET HeldType /\ me[p].errs \in SUBSET HeldType
      /\ me[p].todo \in SUBSET HeldType
  BY MeNow DEF MeType
<1>2. CASE SweepCommit(p)
  <2> DEFINE st == [k \in Keys |-> "error"]
  <2>1. Commit(me[p].dels, me[p].errs, st) /\ \A k \in Keys : st[k] \in {"same", "stopped", "error"}
    BY <1>2 DEF SweepCommit
  <2>2. \A i \in me[p].errs : Settled(i)
    BY DEF CapInv, JobKnows
  <2> HIDE DEF st
  <2>3. \A k \in Keys : Fades(k) /\ Stays(p, k)
    BY <1>1, <2>1, <2>2, CommitFades
  <2> QED BY <1>2, <2>3, ReturnKeepsCap DEF SweepCommit
<1>3. CASE ReconcileCommit(p)
  <2> DEFINE live == {me[p].live[k].cid : k \in Keys}
             here == {i \in me[p].todo : i.cid \in live}
             st == [k \in Keys |-> IF me[p].live[k].st = "running" THEN "same" ELSE "stopped"]
  <2>1. me[p].todo \ here \in SUBSET HeldType /\ here \in SUBSET HeldType
    BY <1>1
  <2>2. Commit(me[p].todo \ here, here, st)
        /\ \A k \in Keys : st[k] \in {"same", "stopped", "error"}
    BY <1>3 DEF ReconcileCommit
  <2>3. \A i \in here : Settled(i)
    BY <1>3 DEF ReconcileCommit, CapInv, JobKnows
  <2> HIDE DEF st, here
  <2>4. \A k \in Keys : Fades(k) /\ Stays(p, k)
    BY <2>1, <2>2, <2>3, CommitFades
  <2> QED BY <1>3, <2>4, ReturnKeepsCap DEF ReconcileCommit
<1> QED BY <1>2, <1>3

LEMMA ReconcileKeepsCap ==
    ASSUME IInv, CapInv, IsFiniteSet(Workers), NEW p \in Procs, Reconcile(p) PROVE CapInv'
<1> DEFINE n == [[NoMe EXCEPT !.op = "reconcile"] EXCEPT
                   !.req = [op |-> "reconcile", key |-> NoReq.key, cid |-> NoReq.cid,
                            id |-> NoReq.id]]
<1>1. Goto(p, "wait", n) /\ n.todo = {} /\ n.errs = {} /\ n.op = "reconcile"
  BY DEF Reconcile, Call, NoMe
<1> HIDE DEF n
<1>2. IInv' /\ UNCHANGED <<rows, calls>>
  BY ReconcilePreserves DEF Reconcile
<1>3. pc'[p] = "wait" /\ me'[p] = n
  BY <1>1 DEF Goto, IInv, TypeOK
<1>4. JobKnows(p)'
  BY <1>1, <1>3, FreshKnows
<1> QED BY <1>1, <1>2, <1>4, JobKeepsCap

LEMMA ReconcileQueryKeepsCap ==
    ASSUME IInv, CapInv, IsFiniteSet(Workers), NEW p \in Procs, ReconcileQuery(p) PROVE CapInv'
<1> DEFINE T == {Held(k) : k \in {k \in Keys : Active(k) /\ rows[k].cid # None}}
           n == [me[p] EXCEPT !.todo = T]
<1>1. CASE Return(p)
  BY <1>1, RowsStill, ReturnKeepsCap DEF ReconcileQuery
<1>2. CASE Goto(p, "apply", n)
  <2>1. /\ IInv' /\ UNCHANGED <<rows, calls>> /\ me[p] \in MeType /\ me[p].op = "reconcile"
    BY ReconcileQueryPreserves, MeNow DEF ReconcileQuery
  <2>2. n.op = "reconcile" /\ n.todo = T /\ n.errs = me[p].errs
    BY <2>1 DEF MeType
  <2>3. ASSUME NEW i \in T PROVE Settled(i)' /\ i.cid # None
    <3>1. PICK k \in Keys : i = Held(k) /\ Active(k) /\ rows[k].cid # None
      BY <2>3
    <3>2. i.cid # None
      BY <3>1 DEF Held
    <3>3. i.id \in Ids
      BY <3>1, RowNow, Blank DEF Held, Active
    <3>4. Settled(i)
      BY <3>1, <3>2, HeldSettled
    <3> QED BY <1>2, <2>1, <3>2, <3>3, <3>4, JobSettled
  <2>4. ASSUME NEW i \in me[p].errs PROVE Settled(i)' /\ i.cid # None
    <3>1. i.id \in Ids /\ Settled(i) /\ i.cid # None
      BY ItemsNow DEF CapInv, JobKnows
    <3> QED BY <1>2, <2>1, <3>1, JobSettled
  <2> HIDE DEF n, T
  <2>5. me'[p] = n /\ pc'[p] = "apply"
    BY <1>2 DEF Goto, IInv, TypeOK
  <2>6. JobKnows(p)'
    BY <2>2, <2>3, <2>4, <2>5 DEF JobKnows
  <2> QED BY <1>2, <2>1, <2>2, <2>6, JobKeepsCap
<1> QED BY <1>1, <1>2 DEF ReconcileQuery

\* An answer changes neither the rows nor what the process asked about.
LEMMA AnswerKeepsCap ==
    ASSUME IInv, IInv', CapInv, IsFiniteSet(Workers), NEW p \in Procs, pc[p] = "wait",
           UNCHANGED <<rows, calls>>, NEW n, Goto(p, "answer", n),
           n.op = me[p].op, n.todo = me[p].todo, n.errs = me[p].errs,
           n.req.key = me[p].req.key, n.req.id = me[p].req.id,
           me[p].op # "spawn" => n.req.cid = me[p].req.cid
    PROVE  CapInv'
<1>1. Moves(p) /\ pc'[p] = "answer" /\ me'[p] = n
  BY DEF Goto, Moves, IInv, TypeOK
<1>2. ASSUME NEW i \in me[p].todo \cup me[p].errs, i.cid # None PROVE Settled(i)'
  <2>1. i.id \in Ids /\ Settled(i)
    BY <1>2, ItemsNow DEF CapInv, JobKnows
  <2> QED BY <2>1, JobSettled
<1>3. me[p].op = "sweep" => Settled(me[p].req)' /\ n.req.cid # None
  <2> SUFFICES ASSUME me[p].op = "sweep" PROVE Settled(me[p].req)' /\ n.req.cid # None
    OBVIOUS
  <2>1. PICK i : i = me[p].req
    OBVIOUS
  <2>2. i.id \in Ids /\ Settled(i) /\ i.cid # None
    BY <2>1, ItemsNow DEF CapInv, JobKnows
  <2>3. Settled(i)'
    BY <2>2, JobSettled
  <2> QED BY <1>1, <2>1, <2>2, <2>3 DEF Settled, Present
<1>4. JobKnows(p)'
  BY <1>1, <1>2, <1>3 DEF JobKnows, CapInv
<1>5. SpawnKnows(p)' /\ Carries(p)
  BY <1>1 DEF SpawnKnows, CapInv, Present, Carries
<1> QED BY <1>1, <1>4, <1>5, RowsStill, CallsNow, OneMoves

LEMMA ServeKeepsCap ==
    ASSUME IInv, CapInv, IsFiniteSet(Workers), NEW p \in Procs, Serve(p) PROVE CapInv'
<1>1. PICK o \in Outcomes(me[p].req) :
         LET c == IF me[p].op = "spawn" THEN o.cid ELSE me[p].req.cid IN
         Goto(p, "answer",
                 [me[p] EXCEPT !.ok = o.ok, !.req.cid = c,
                    !.st = IF me[p].op = "spawn" THEN o.tracked[me[p].req.key].st ELSE @,
                    !.live = IF me[p].op = "reconcile" THEN o.tracked ELSE @])
  BY DEF Serve
<1>2. /\ IInv' /\ UNCHANGED <<rows, calls>> /\ pc[p] = "wait"
      /\ me[p] \in MeType /\ me[p].req \in ReqType
  BY ServePreserves, MeNow DEF Serve
<1>3. PICK c : c = IF me[p].op = "spawn" THEN o.cid ELSE me[p].req.cid
  OBVIOUS
<1>4. PICK s : s = IF me[p].op = "spawn" THEN o.tracked[me[p].req.key].st ELSE me[p].st
  OBVIOUS
<1>5. PICK v : v = IF me[p].op = "reconcile" THEN o.tracked ELSE me[p].live
  OBVIOUS
<1> DEFINE n == [me[p] EXCEPT !.ok = o.ok, !.req.cid = c, !.st = s, !.live = v]
<1>6. Goto(p, "answer", n)
  BY <1>1, <1>2, <1>3, <1>4, <1>5 DEF MeType
<1>7. /\ n.op = me[p].op /\ n.todo = me[p].todo /\ n.errs = me[p].errs
      /\ n.req = [me[p].req EXCEPT !.cid = c]
  BY <1>2 DEF MeType
<1>8. n.req.key = me[p].req.key /\ n.req.id = me[p].req.id /\ n.req.cid = c
  BY <1>2, <1>7 DEF ReqType
<1> HIDE DEF n
<1> QED BY <1>2, <1>3, <1>6, <1>7, <1>8, AnswerKeepsCap

LEMMA UnansweredKeepsCap ==
    ASSUME IInv, CapInv, IsFiniteSet(Workers), NEW p \in Procs, Timeout(p) \/ Unavailable(p)
    PROVE  CapInv'
<1> DEFINE n == [me[p] EXCEPT !.ok = FALSE]
<1>1. /\ IInv' /\ UNCHANGED <<rows, calls>> /\ pc[p] = "wait" /\ Goto(p, "answer", n)
      /\ me[p] \in MeType
  BY UnansweredPreserves, MeNow DEF Timeout, Unavailable
<1>2. /\ n.op = me[p].op /\ n.todo = me[p].todo /\ n.errs = me[p].errs /\ n.req = me[p].req
  BY <1>1 DEF MeType
<1> HIDE DEF n
<1> QED BY <1>1, <1>2, AnswerKeepsCap

LEMMA CapInit == ASSUME IsFiniteSet(Workers), Workers # {} PROVE Init => CapInv
<1> SUFFICES ASSUME Init PROVE CapInv
  OBVIOUS
<1>1. Cardinality(Workers) > 0 /\ Cap \in Nat /\ Cardinality(Workers) \in Nat
  BY FS_EmptySet, FS_CardinalityType, RowsAssumption
<1>2. ASSUME NEW o \in Owners PROVE Room(o)
  <2>1. ActiveOf(o) = {} /\ Inserting(o) = {}
    BY Blank DEF Init, ActiveOf, Active, Inserting, Procs
  <2> QED BY <1>1, <2>1, FS_EmptySet DEF Room
<1>3. \A k \in Keys : Old(rows[k].id) /\ (rows[k].status = "pending" => rows[k].cid = None)
  BY Blank DEF Init, Old
<1>4. \A p \in Procs : JobKnows(p) /\ SpawnKnows(p)
  BY NoMeIs DEF Init, JobKnows, SpawnKnows
<1>5. SpawnsApart
  BY NoMeIs DEF Init, SpawnsApart
<1> QED BY <1>2, <1>3, <1>4, <1>5 DEF CapInv

LEMMA CapStep ==
    ASSUME IInv, CapInv, IsFiniteSet(Workers), [Next]_vars PROVE CapInv'
<1>1. ASSUME UNCHANGED <<rows, pc, me, calls>> PROVE CapInv'
  BY <1>1, RowsStill, CallsNow, NoneMoves
<1>2. ASSUME NEW w \in Workers, Request(w) PROVE CapInv'
  <2>1. CASE Spawn(w)
    BY <2>1, SpawnKeepsCap
  <2>2. CASE Teardown(w) \/ ForceTeardown(w)
    BY <2>2, TeardownKeepsCap DEF Teardown, ForceTeardown
  <2>3. CASE KillSwitch(w)
    BY <2>3, KillKeepsCap
  <2>4. CASE Extend(w)
    <3>1. PICK k \in Keys : rows' = [rows EXCEPT ![k].past = FALSE]
      BY <2>4 DEF Extend
    <3>2. calls' \in Nat /\ calls <= calls' /\ UNCHANGED <<pc, me>>
      BY <2>4, CallsNow DEF Extend, Enter
    <3> QED BY <3>1, <3>2, PastKeepsCap
  <2> QED BY <1>2, <2>1, <2>2, <2>3, <2>4 DEF Request
<1>3. ASSUME NEW p \in Procs, Continue(p) \/ Job(p) PROVE CapInv'
  BY <1>3, InsertKeepsCap, EndSpawnKeepsCap, EndsKeepCap, SweepNextKeepsCap,
     SweepAnswerKeepsCap, CommitsKeepCap, ReconcileQueryKeepsCap,
     SweepExpiredKeepsCap, ReconcileKeepsCap DEF Continue, Job
<1>4. ASSUME NEW p \in Procs, Die(p) PROVE CapInv'
  BY <1>4, RowsStill, ReturnKeepsCap DEF Die
<1>5. ASSUME NEW k \in Keys, Expire(k) PROVE CapInv'
  BY <1>5, CallsNow, PastKeepsCap DEF Expire
<1>6. CASE UNCHANGED vars
  BY <1>1, <1>6 DEF vars
<1>7. CASE DockerEvent \/ \E r \in late : ServeLate(r)
  BY <1>1, <1>7 DEF DockerEvent, ServeLate
<1> QED BY <1>2, <1>3, <1>4, <1>5, <1>6, <1>7, ServeKeepsCap, UnansweredKeepsCap DEF Next

\* The count against "max_containers_per_owner" and the insertion are two statements,
\* and workers count at the same time; yet whatever they do, whatever the sweep, the
\* reconciler, the daemon and Docker do meanwhile, and whichever faults come, an
\* owner's active rows are fewer than the cap and all the workers together.
THEOREM CapWithinWorkers ==
    ASSUME IsFiniteSet(Workers), Workers # {} PROVE Spec => []CapBounded
<1>1. CapInv => CapBounded
  <2> SUFFICES ASSUME CapInv, NEW o \in Owners
               PROVE  Cardinality(ActiveOf(o)) < Cap + Cardinality(Workers)
    BY DEF CapBounded
  <2>1. Room(o)
    BY DEF CapInv
  <2>2. IsFiniteSet(Inserting(o))
    BY FS_Subset DEF Inserting
  <2>3. /\ Cardinality(ActiveOf(o)) \in Nat /\ Cardinality(Inserting(o)) \in Nat
        /\ Cardinality(Workers) \in Nat /\ Cap \in Nat
    BY <2>1, <2>2, FS_CardinalityType, RowsAssumption DEF Room
  <2> QED BY <2>1, <2>3 DEF Room
<1>2. IInv /\ CapInv /\ [Next]_vars => CapInv'
  BY CapStep
<1> QED BY <1>1, <1>2, CapInit, InductiveInvariant, PTL DEF Spec

-----------------------------------------------------------------------------
\* Requests and jobs that keep to their own rows: the two tables.

\* Between requests: the row of k and the daemon's entry name the same container,
\* and have the same idea of whether it runs.
Agrees(k) ==
    /\ rows[k].cid = tracked[k].cid
    /\ rows[k] # NoRow =>
         /\ rows[k].cid # None
         /\ rows[k].status \in {"running", "stopped"}
         /\ rows[k].status = "running" <=> tracked[k].st = "running"

\* The row of k is still there, its container no longer tracked.
Emptied(k) ==
    /\ rows[k] # NoRow /\ rows[k].status \in {"running", "stopped"}
    /\ tracked[k] = Absent

\* A row and its entry after a reconciliation, before its commit.
Checked(k) ==
    \/ Agrees(k)
    \/ /\ rows[k].status = "running" /\ rows[k].cid # None
       /\ \/ tracked[k].cid = rows[k].cid /\ tracked[k].st = "exited"
          \/ tracked[k] = Absent /\ \A j \in Keys : tracked[j].cid # rows[k].cid

\* The row a request is about: inserted for it, still whole, or emptied by it.
Reserved(r) ==
    rows[r.key].status = "pending" /\ rows[r.key].cid = None /\ rows[r.key].id = r.id
Whole(r) == Agrees(r.key) /\ rows[r.key].cid = r.cid /\ Present(r)
Lost(r)  == Emptied(r.key) /\ Present(r)

\* A sweep: what is still to do is as it was found, what is done is gone.
Sweeping(m, K) ==
    /\ m.errs = {}
    /\ \A i \in m.todo : i.key \in Keys \ K /\ Agrees(i.key) /\ i = Held(i.key)
    /\ \A i \in m.dels : i.key \in Keys /\ Lost(i)
NoJob(m) == m.todo = {} /\ m.dels = {} /\ m.errs = {}

WaitKnows(p) ==
    LET r == me[p].req IN
    /\ me[p].op \in {"spawn", "teardown", "force", "sweep", "kill", "reconcile"}
    /\ me[p].op = "spawn" => r.op = "ensure" /\ Reserved(r) /\ tracked[r.key] = Absent
    /\ me[p].op \in {"teardown", "force"} => r.op = "release" /\ Whole(r)
    /\ me[p].op = "sweep" => r.op = "release" /\ Whole(r) /\ Sweeping(me[p], {r.key})
    /\ me[p].op \in {"kill", "reconcile"} => r.op = me[p].op /\ \A j \in Keys : Agrees(j)

AnswerKnows(p) ==
    LET r == me[p].req IN
    /\ me[p].op = "spawn" =>
         /\ Reserved(r)
         /\ IF me[p].ok
            THEN tracked[r.key].cid = r.cid /\ r.cid # None /\ tracked[r.key].st = "running"
            ELSE tracked[r.key] = Absent
    /\ me[p].op \in {"teardown", "force"} => me[p].ok /\ Lost(r)
    /\ me[p].op = "sweep" => me[p].ok /\ Lost(r) /\ Sweeping(me[p], {r.key})
    /\ me[p].op = "kill" =>
         /\ me[p].ok
         /\ \A j \in Keys : \/ Agrees(j) /\ tracked[j].st # "running"
                            \/ Emptied(j) /\ rows[j].status = "running"
    /\ me[p].op = "reconcile" =>
         me[p].ok /\ me[p].live = tracked /\ (\A j \in Keys : Checked(j))

ApplyKnows(p) ==
    /\ me[p].live = tracked /\ (\A j \in Keys : Checked(j))
    /\ me[p].todo = {Held(j) : j \in {j \in Keys : rows[j].status = "running"}}

\* What a process knows, at each of its steps, of the rows it works on.
Knows(p) ==
    /\ pc[p] # "idle" /\ me[p].op \in {"spawn", "teardown", "force"} => NoJob(me[p])
    /\ pc[p] = "insert" => Agrees(me[p].req.key)
    /\ pc[p] = "wait" => WaitKnows(p)
    /\ pc[p] = "answer" => AnswerKnows(p)
    /\ pc[p] = "sweep" => me[p].op = "sweep" /\ Sweeping(me[p], {})
    /\ pc[p] = "apply" => me[p].op = "reconcile" /\ ApplyKnows(p)

\* The inductive invariant of QuietAgree: a row nobody works on agrees with its
\* entry, and whoever works on one knows how it differs.
OrderlyInv ==
    /\ late = {}
    /\ \A k \in Keys : (\A p \in Procs : k \notin Works(p)) => Agrees(k)
    /\ \A p \in Procs : Knows(p)

\* A step leaves the key alone, but for the row's TTL.
Alike(k) ==
    /\ rows'[k].id = rows[k].id /\ rows'[k].cid = rows[k].cid
    /\ rows'[k].status = rows[k].status /\ (rows'[k] = NoRow <=> rows[k] = NoRow)
    /\ tracked'[k] = tracked[k]

\* A step of p alone, which changes its own rows only and leaves those that agree
\* on which it does not work any more.
Tidy(p) ==
    /\ Moves(p) /\ late' = late /\ Knows(p)'
    /\ \A k \in Keys : k \notin Works(p) /\ k \notin Works(p)' => Alike(k)
    /\ \A k \in Keys : k \in Works(p) /\ k \notin Works(p)' => Agrees(k)'

LEMMA AlikeKeeps ==
    ASSUME NEW k, Alike(k)
    PROVE  (Agrees(k) => Agrees(k)') /\ (Emptied(k) => Emptied(k)') /\ Held(k)' = Held(k)
BY DEF Alike, Agrees, Emptied, Held

LEMMA BlankAgrees ==
    ASSUME NEW k, rows[k] = NoRow, tracked[k] = Absent PROVE Agrees(k)
BY Blank DEF Agrees

LEMMA AgreesNow ==
    ASSUME IInv, NEW k \in Keys, Agrees(k)
    PROVE  /\ rows[k] = NoRow => tracked[k] = Absent
           /\ tracked[k].st = "running" => rows[k].status = "running"
           /\ rows[k] # NoRow => rows[k].id \in Ids /\ tracked[k].cid \in Cids
<1>1. tracked[k] = Absent \/ tracked[k].cid \in Cids
  BY DEF IInv, TrackedOK
<1>2. None \notin Cids
  BY RowsAssumption
<1> QED BY <1>1, <1>2, Blank, RowNow DEF Agrees

LEMMA StillAlike ==
    ASSUME UNCHANGED <<rows, tracked>> PROVE \A k : Alike(k)
BY DEF Alike

LEMMA WorksAre ==
    ASSUME NEW l, NEW m
    PROVE  /\ l = "idle" => WorksAt(l, m) = {}
           /\ l # "idle" /\ m.op \in {"kill", "reconcile"} => WorksAt(l, m) = Keys
           /\ l \in {"insert", "wait", "answer"} /\ m.op \in {"spawn", "teardown", "force"}
                /\ NoJob(m) => WorksAt(l, m) = {m.req.key}
           /\ l \in {"wait", "answer"} /\ m.op = "sweep" =>
                WorksAt(l, m) = {m.req.key} \cup {i.key : i \in m.todo \cup m.dels \cup m.errs}
           /\ l = "sweep" /\ m.op = "sweep" =>
                WorksAt(l, m) = {i.key : i \in m.todo \cup m.dels \cup m.errs}
BY DEF WorksAt, NoJob

LEMMA WorksSame ==
    ASSUME NEW p \in Procs, Moves(p), NEW q \in Procs, q # p
    PROVE  Works(q)' = Works(q) /\ Same(q)
BY DEF Works, Moves, Same

\* What a process knows it still knows when its rows are left alone.
LEMMA KnowsKept ==
    ASSUME IInv, IInv', NEW q \in Procs, Same(q), Knows(q),
           \A k \in Keys : k \in Works(q) => Alike(k)
    PROVE  Knows(q)'
<1>1. PICK m : m = me[q] /\ m = me'[q]
  BY DEF Same
<1>2. PICK r : r = m.req
  OBVIOUS
<1>3. PICK l : l = pc[q] /\ l = pc'[q]
  BY DEF Same
<1>4. CASE l = "idle"
  BY <1>3, <1>4 DEF Knows
<1>5. CASE l # "idle" /\ m.op \in {"kill", "reconcile"}
  <2>1. \A k \in Keys : Alike(k)
    BY <1>1, <1>3, <1>5, WorksAre DEF Works
  <2>2. \A k \in Keys : /\ Agrees(k) => Agrees(k)'
                        /\ Emptied(k) => Emptied(k)'
                        /\ Held(k)' = Held(k) /\ rows'[k].status = rows[k].status
                        /\ rows'[k].cid = rows[k].cid
    BY <2>1, AlikeKeeps DEF Alike
  <2>3. tracked' = tracked
    BY <2>1 DEF Alike, IInv, TypeOK
  <2>4. ASSUME NEW k \in Keys, Checked(k) PROVE Checked(k)'
    <3>1. /\ Agrees(k) => Agrees(k)'
          /\ rows'[k].status = rows[k].status /\ rows'[k].cid = rows[k].cid
      BY <2>2
    <3> QED BY ONLY <2>3, <2>4, <3>1 DEF Checked
  <2>5. l = "wait" => WaitKnows(q)'
    BY <1>1, <1>3, <1>5, <2>2 DEF Knows, WaitKnows
  <2>6. l = "answer" => AnswerKnows(q)'
    <3> SUFFICES ASSUME l = "answer" PROVE AnswerKnows(q)'
      OBVIOUS
    <3>1. m.op = "kill" => /\ m.ok
                           /\ \A j \in Keys : \/ Agrees(j)' /\ tracked'[j].st # "running"
                                              \/ Emptied(j)' /\ rows'[j].status = "running"
      BY <1>1, <1>3, <2>2, <2>3 DEF Knows, AnswerKnows
    <3>2. m.op = "reconcile" => m.ok /\ m.live = tracked' /\ (\A j \in Keys : Checked(j)')
      BY <1>1, <1>3, <2>3, <2>4 DEF Knows, AnswerKnows
    <3> QED BY <1>1, <1>5, <3>1, <3>2 DEF AnswerKnows
  <2>7. l = "apply" => ApplyKnows(q)'
    <3> SUFFICES ASSUME l = "apply" PROVE ApplyKnows(q)'
      OBVIOUS
    <3>1. m.live = tracked' /\ (\A j \in Keys : Checked(j)')
      BY <1>1, <1>3, <2>3, <2>4 DEF Knows, ApplyKnows
    <3>2. m.todo = {Held(j)' : j \in {j \in Keys : rows'[j].status = "running"}}
      BY <1>1, <1>3, <2>2 DEF Knows, ApplyKnows
    <3> QED BY <1>1, <3>1, <3>2 DEF ApplyKnows
  <2>8. l \notin {"insert", "sweep"} /\ (l = "apply" => m.op = "reconcile")
    BY <1>1, <1>3, <1>5, MeNow DEF Knows, ProcOK
  <2> QED BY <1>1, <1>3, <1>5, <2>5, <2>6, <2>7, <2>8 DEF Knows
<1>6. CASE l # "idle" /\ m.op \notin {"kill", "reconcile"}
  <2>1. l # "sweep" => r.key \in Works(q)
    BY <1>1, <1>2, <1>3, <1>6 DEF Works, WorksAt
  <2>2. \A i \in m.todo \cup m.dels : i.key \in Works(q)
    BY <1>1, <1>3, <1>6 DEF Works, WorksAt
  <2>3. l \in {"insert", "wait", "answer"} /\ m.op \in {"spawn", "teardown", "force", "sweep"}
          => r.key \in Keys /\ Alike(r.key)
    BY <1>1, <1>2, <1>3, <2>1, MeNow DEF ProcOK
  <2>4. ASSUME NEW k \in Keys, Alike(k), NEW i, i.key = k
        PROVE  /\ Present(i) => Present(i)'
               /\ Reserved(i) => Reserved(i)'
               /\ Whole(i) => Whole(i)'
               /\ Lost(i) => Lost(i)'
    BY <2>4, AlikeKeeps DEF Alike, Present, Reserved, Whole, Lost
  <2>5. ASSUME NEW K, Sweeping(m, K) PROVE Sweeping(m, K)'
    <3>1. ASSUME NEW i \in m.todo
          PROVE  i.key \in Keys \ K /\ Agrees(i.key)' /\ i = Held(i.key)'
      <4>1. PICK k \in Keys : k = i.key /\ Alike(k)
        BY <2>2, <2>5 DEF Sweeping
      <4>2. Agrees(k)' /\ Held(k)' = Held(k)
        BY <2>5, <4>1, AlikeKeeps DEF Sweeping
      <4>3. i.key \in Keys \ K /\ i = Held(k)
        BY <2>5, <4>1 DEF Sweeping
      <4> QED BY <4>1, <4>2, <4>3
    <3>2. ASSUME NEW i \in m.dels PROVE i.key \in Keys /\ Lost(i)'
      BY <2>2, <2>4, <2>5 DEF Sweeping
    <3> QED BY <2>5, <3>1, <3>2 DEF Sweeping
  <2>6. l = "insert" => Agrees(m.req.key)'
    <3> SUFFICES ASSUME l = "insert" PROVE Agrees(m.req.key)'
      OBVIOUS
    <3>1. PICK k \in Keys : k = r.key /\ Alike(k)
      BY <1>1, <1>3, <2>3, MeNow DEF ProcOK
    <3>2. Agrees(k)'
      BY <1>1, <1>2, <1>3, <3>1, AlikeKeeps DEF Knows
    <3> QED BY <1>2, <3>1, <3>2
  <2>7. l = "wait" => WaitKnows(q)'
    <3> SUFFICES ASSUME l = "wait" PROVE WaitKnows(q)'
      OBVIOUS
    <3>1. m.op \in {"spawn", "teardown", "force", "sweep"} /\ WaitKnows(q)
      BY <1>1, <1>3, <1>6 DEF Knows, WaitKnows
    <3>2. PICK k \in Keys : k = r.key /\ Alike(k)
      BY <2>3, <3>1
    <3>3. tracked'[r.key] = tracked[r.key]
      BY <3>2 DEF Alike
    <3>4. Sweeping(m, {r.key}) => Sweeping(m, {r.key})'
      BY <2>5
    <3>5. /\ Reserved(r) => Reserved(r)'
          /\ Whole(r) => Whole(r)'
      BY <2>4, <3>2
    <3> QED BY ONLY <1>1, <1>2, <1>6, <3>1, <3>3, <3>4, <3>5 DEF WaitKnows, Reserved, Whole, Present
  <2>8. l = "answer" => AnswerKnows(q)'
    <3> SUFFICES ASSUME l = "answer", m.op \in {"spawn", "teardown", "force", "sweep"}
                 PROVE AnswerKnows(q)'
      BY <1>1, <1>6 DEF AnswerKnows
    <3>1. AnswerKnows(q)
      BY <1>1, <1>3, <1>6 DEF Knows
    <3>2. PICK k \in Keys : k = r.key /\ Alike(k)
      BY <2>3, <3>1
    <3>3. tracked'[r.key] = tracked[r.key]
      BY <3>2 DEF Alike
    <3>4. Sweeping(m, {r.key}) => Sweeping(m, {r.key})'
      BY <2>5
    <3>5. /\ Reserved(r) => Reserved(r)'
          /\ Lost(r) => Lost(r)'
      BY <2>4, <3>2
    <3> QED BY ONLY <1>1, <1>2, <1>6, <3>1, <3>3, <3>4, <3>5
            DEF AnswerKnows, Reserved, Lost, Present
  <2>9. l = "sweep" => Sweeping(m, {})'
    BY <1>1, <1>3, <2>5 DEF Knows
  <2>10. l # "apply"
    BY <1>1, <1>3, <1>6 DEF Knows
  <2>11. l = "sweep" => m.op = "sweep" /\ Sweeping(me[q], {})'
    BY <1>1, <1>3, <2>9 DEF Knows, Sweeping
  <2>12. l = "insert" => Agrees(me[q].req.key)'
    BY <1>1, <2>6 DEF Agrees
  <2> QED BY <1>1, <1>3, <2>7, <2>8, <2>10, <2>11, <2>12 DEF Knows
<1> QED BY <1>4, <1>5, <1>6

\* A step of one process preserves the invariant if it is tidy.
LEMMA TidyPreserves ==
    ASSUME IInv, IInv', OrderlyInv, KeysApart, KeysApart', NEW p \in Procs, Tidy(p)
    PROVE  OrderlyInv'
<1>1. ASSUME NEW q \in Procs, q # p PROVE Knows(q)' /\ Works(q)' = Works(q)
  <2>1. Works(q)' = Works(q) /\ Same(q)
    BY <1>1, WorksSame DEF Tidy
  <2>2. ASSUME NEW k \in Keys, k \in Works(q) PROVE Alike(k)
    <3>1. k \notin Works(p)
      BY <1>1, <2>2 DEF KeysApart
    <3>2. k \notin Works(p)'
      BY <1>1, <2>1, <2>2 DEF KeysApart
    <3> QED BY <3>1, <3>2 DEF Tidy
  <2>3. Knows(q)
    BY DEF OrderlyInv
  <2> QED BY <2>1, <2>2, <2>3, KnowsKept
<1>2. ASSUME NEW k \in Keys, \A q \in Procs : k \notin Works(q)' PROVE Agrees(k)'
  <2>1. CASE k \in Works(p)
    BY <1>2, <2>1 DEF Tidy
  <2>2. CASE k \notin Works(p)
    <3>1. \A q \in Procs : k \notin Works(q)
      BY <1>1, <1>2, <2>2
    <3>2. Agrees(k) /\ Alike(k)
      BY <1>2, <2>2, <3>1 DEF OrderlyInv, Tidy
    <3> QED BY <3>2, AlikeKeeps
  <2> QED BY <2>1, <2>2
<1>3. \A q \in Procs : Knows(q)'
  BY <1>1 DEF Tidy
<1> QED BY <1>2, <1>3 DEF OrderlyInv, Tidy

\* A step of no process that leaves all keys alone, but for a TTL.
LEMMA StillPreserves ==
    ASSUME IInv, IInv', OrderlyInv, UNCHANGED <<pc, me, late>>, \A k \in Keys : Alike(k)
    PROVE  OrderlyInv'
<1>1. \A q \in Procs : Same(q) /\ Works(q)' = Works(q)
  BY DEF Same, Works
<1>2. \A q \in Procs : Knows(q)'
  BY <1>1, KnowsKept DEF OrderlyInv
<1>3. \A k \in Keys : (\A q \in Procs : k \notin Works(q)') => Agrees(k)'
  BY <1>1, AlikeKeeps DEF OrderlyInv
<1> QED BY <1>2, <1>3 DEF OrderlyInv

\* A process that begins works on rows nobody else works on.
LEMMA FreshAgrees ==
    ASSUME IInv, OrderlyInv, KeysApart', NEW p \in Procs, Moves(p), pc[p] = "idle",
           NEW k \in Keys, k \in Works(p)'
    PROVE  Agrees(k)
<1>1. \A q \in Procs : k \notin Works(q)
  BY WorksSame, WorksAre DEF KeysApart, Works
<1> QED BY <1>1 DEF OrderlyInv


\* A process that is done leaves all its rows in agreement.
LEMMA TidyReturn ==
    ASSUME IInv, NEW p \in Procs, Return(p), late' = late,
           \A k \in Keys : k \notin Works(p) => Alike(k),
           \A k \in Keys : k \in Works(p) => Agrees(k)'
    PROVE  Tidy(p)
<1>1. Moves(p) /\ pc'[p] = "idle"
  BY ReturnMoves
<1> QED BY <1>1 DEF Tidy, Knows

\* A step that changes neither table, and takes up or keeps its rows.
LEMMA TidyLocal ==
    ASSUME NEW p \in Procs, Moves(p), late' = late, Knows(p)', UNCHANGED <<rows, tracked>>,
           \A k \in Keys : k \in Works(p) => k \in Works(p)'
    PROVE  Tidy(p)
BY StillAlike DEF Tidy

LEMMA TidySpawn ==
    ASSUME IInv, OrderlyInv, KeysApart', NEW w, Spawn(w) PROVE w \in Procs /\ Tidy(w)
<1>1. PICK k \in Keys :
        Goto(w, "insert", [NoMe EXCEPT !.op = "spawn", !.req.key = k, !.req.id = calls'])
  BY DEF Spawn
<1>2. w \in Procs /\ UNCHANGED <<rows, tracked, late>> /\ IInv' /\ pc[w] = "idle"
  BY EnterOK, SpawnPreserves DEF Spawn
<1> DEFINE n == [NoMe EXCEPT !.op = "spawn", !.req.key = k, !.req.id = calls']
<1>3. n.op = "spawn" /\ n.req.key = k /\ n.todo = {} /\ n.dels = {} /\ n.errs = {}
  BY DEF NoMe, NoReq
<1>4. Goto(w, "insert", n)
  BY <1>1
<1> HIDE DEF n
<1>5. Moves(w) /\ pc'[w] = "insert" /\ me'[w] = n
  BY <1>2, <1>4 DEF Goto, Moves, IInv, TypeOK
<1>6. Works(w)' = {k} /\ Works(w) = {}
  BY <1>2, <1>3, <1>5, WorksAre DEF Works, NoJob
<1>7. Agrees(k)'
  BY <1>2, <1>5, <1>6, FreshAgrees, StillAlike, AlikeKeeps
<1>8. Knows(w)'
  BY <1>3, <1>5, <1>7 DEF Knows, NoJob, Agrees
<1> QED BY <1>2, <1>5, <1>6, <1>8, TidyLocal

LEMMA TidyInsert ==
    ASSUME IInv, OrderlyInv, NEW w \in Procs, InsertRow(w) PROVE Tidy(w)
<1>0. pc[w] = "insert" /\ me[w].op = "spawn" /\ me[w].req.key \in Keys /\ me[w].req.id \in Ids
      /\ me[w] \in MeType /\ IInv' /\ UNCHANGED <<tracked, late>>
  BY MeNow, InsertRowPreserves DEF InsertRow, ProcOK
<1>1. Agrees(me[w].req.key) /\ NoJob(me[w])
  BY <1>0 DEF OrderlyInv, Knows
<1>2. PICK k \in Keys, r \in Ids : k = me[w].req.key /\ r = me[w].req.id
  BY <1>0
<1>a. Works(w) = {k}
  BY <1>0, <1>1, <1>2, WorksAre DEF Works
<1>3. CASE Return(w) /\ UNCHANGED rows
  BY <1>0, <1>1, <1>2, <1>3, <1>a, TidyReturn, StillAlike, AlikeKeeps
<1> DEFINE new  == [id |-> r, cid |-> None, status |-> "pending", past |-> FALSE]
           call == [op |-> "ensure", key |-> k, cid |-> None, id |-> r]
           n    == [me[w] EXCEPT !.req = call]
<1>4. CASE rows[k] = NoRow /\ rows' = [rows EXCEPT ![k] = new] /\ Goto(w, "wait", n)
  <2>1. rows'[k] = new /\ (\A j \in Keys \ {k} : rows'[j] = rows[j])
    BY <1>4 DEF IInv, TypeOK
  <2>2. new.id = r /\ new.status = "pending" /\ new.cid = None
    OBVIOUS
  <2>3. n.op = "spawn" /\ n.req = call /\ NoJob(n)
    BY <1>0, <1>1 DEF MeType, NoJob
  <2>4. call.op = "ensure" /\ call.key = k /\ call.id = r
    OBVIOUS
  <2> HIDE DEF new, n, call
  <2>5. Moves(w) /\ pc'[w] = "wait" /\ me'[w] = n
    BY <1>0, <1>4 DEF Goto, Moves, IInv, TypeOK
  <2>6. tracked'[k] = Absent
    <3>1. Agrees(k) /\ rows[k] = NoRow
      BY <1>1, <1>2, <1>4
    <3>2. tracked[k] = Absent
      BY <3>1, AgreesNow
    <3> QED BY <1>0, <3>2
  <2>7. \A j \in Keys \ {k} : Alike(j)
    BY <1>0, <2>1 DEF Alike
  <2>8. WaitKnows(w)'
    BY <2>1, <2>2, <2>3, <2>4, <2>5, <2>6 DEF WaitKnows, Reserved
  <2>9. Knows(w)'
    BY <2>3, <2>5, <2>8 DEF Knows
  <2>10. Works(w)' = {k}
    BY <2>3, <2>4, <2>5, WorksAre DEF Works
  <2> QED BY <1>0, <1>a, <2>5, <2>7, <2>9, <2>10 DEF Tidy
<1> QED BY <1>2, <1>3, <1>4 DEF InsertRow, Call

LEMMA TidyEndSpawn ==
    ASSUME IInv, OrderlyInv, NEW w \in Procs, EndSpawn(w) PROVE Tidy(w)
<1>1. /\ pc[w] = "answer" /\ me[w].op = "spawn" /\ me[w].req.key \in Keys
      /\ AnswerKnows(w) /\ NoJob(me[w]) /\ UNCHANGED <<tracked, late>> /\ Return(w)
  BY MeNow DEF EndSpawn, ProcOK, OrderlyInv, Knows
<1>2. PICK k \in Keys : k = me[w].req.key
  BY <1>1
<1>3. Present(me[w].req)
  BY <1>1 DEF AnswerKnows, Reserved, Present
<1>a. Works(w) = {k}
  BY <1>1, <1>2, WorksAre DEF Works
<1>4. CASE me[w].ok
  <2> DEFINE new == [rows[k] EXCEPT !.cid = me[w].req.cid, !.status = "running"]
  <2>1. rows' = [rows EXCEPT ![k].cid = me[w].req.cid, ![k].status = "running"]
    BY <1>2, <1>3, <1>4 DEF EndSpawn
  <2>2. rows'[k] = new /\ (\A j \in Keys \ {k} : rows'[j] = rows[j])
    BY <2>1 DEF IInv, TypeOK
  <2>3. new.cid = me[w].req.cid /\ new.status = "running"
    BY RowNow DEF RowType
  <2> HIDE DEF new
  <2>4. Agrees(k)'
    BY <1>1, <1>2, <1>4, <2>2, <2>3 DEF AnswerKnows, Agrees
  <2>5. \A j \in Keys \ {k} : Alike(j)
    BY <1>1, <2>2 DEF Alike
  <2> QED BY <1>1, <1>a, <2>4, <2>5, TidyReturn
<1>5. CASE ~ me[w].ok
  <2>1. rows' = [rows EXCEPT ![k] = NoRow]
    BY <1>2, <1>3, <1>5 DEF EndSpawn
  <2>2. rows'[k] = NoRow /\ (\A j \in Keys \ {k} : rows'[j] = rows[j])
    BY <2>1 DEF IInv, TypeOK
  <2>3. Agrees(k)'
    BY <1>1, <1>2, <1>5, <2>2, Blank DEF AnswerKnows, Agrees
  <2>4. \A j \in Keys \ {k} : Alike(j)
    BY <1>1, <2>2 DEF Alike
  <2> QED BY <1>1, <1>a, <2>3, <2>4, TidyReturn
<1> QED BY <1>4, <1>5

LEMMA TidyTeardown ==
    ASSUME IInv, OrderlyInv, KeysApart', NEW w,
           NEW route \in {"teardown", "force"}, TeardownAs(w, route)
    PROVE  w \in Procs /\ Tidy(w)
<1> DEFINE m == [NoMe EXCEPT !.op = route]
<1>1. m \in MeType /\ m.op = route /\ NoJob(m)
  BY NoMeOK DEF NoMe, MeType, AllRoutes, NoJob
<1>2. PICK k \in Keys :
        /\ rows[k] # NoRow
        /\ IF Held(k).cid # None
           THEN Call(w, m, "release", Held(k))
           ELSE Goto(w, "answer", [m EXCEPT !.req.key = k, !.req.id = Held(k).id, !.ok = TRUE])
  BY DEF TeardownAs
<1>3. w \in Procs /\ pc[w] = "idle" /\ UNCHANGED <<rows, tracked, late>> /\ IInv'
  BY EnterOK, TeardownPreserves DEF TeardownAs
<1>5. Held(k).cid = rows[k].cid /\ Held(k).key = k /\ Held(k).id = rows[k].id
  BY DEF Held
<1> DEFINE call == [op |-> "release", key |-> k, cid |-> rows[k].cid, id |-> rows[k].id]
           n == [m EXCEPT !.req = call]
           free == [m EXCEPT !.req.key = k, !.req.id = Held(k).id, !.ok = TRUE]
<1>7. n.op = route /\ n.req = call /\ NoJob(n)
  BY <1>1 DEF MeType, NoJob
<1>a. free.op = route /\ free.req.key = k /\ NoJob(free)
  BY <1>1 DEF MeType, ReqType, NoJob
<1>8. call.op = "release" /\ call.key = k /\ call.cid = rows[k].cid /\ call.id = rows[k].id
  OBVIOUS
<1>9. \/ rows[k].cid # None /\ Goto(w, "wait", n)
      \/ rows[k].cid = None /\ Goto(w, "answer", free)
  BY <1>2, <1>5 DEF Call
<1> HIDE DEF m, n, call, free
<1>10. Moves(w) /\ \/ pc'[w] = "wait" /\ me'[w] = n
                   \/ pc'[w] = "answer" /\ me'[w] = free /\ rows[k].cid = None
  BY <1>3, <1>9 DEF Goto, Moves, IInv, TypeOK
<1>11. Works(w)' = {k} /\ Works(w) = {}
  BY <1>3, <1>7, <1>8, <1>10, <1>a, WorksAre DEF Works
<1>12. Agrees(k) /\ Agrees(k)'
  BY <1>3, <1>10, <1>11, FreshAgrees, StillAlike, AlikeKeeps
<1>13. pc'[w] = "wait" /\ me'[w] = n
  BY <1>2, <1>10, <1>12 DEF Agrees
<1>14. WaitKnows(w)'
  BY <1>3, <1>7, <1>8, <1>12, <1>13 DEF WaitKnows, Whole, Present
<1>15. Knows(w)'
  BY <1>7, <1>13, <1>14 DEF Knows
<1> QED BY <1>3, <1>10, <1>11, <1>15, TidyLocal

LEMMA TidyEndTeardown ==
    ASSUME IInv, OrderlyInv, NEW w \in Procs, EndTeardown(w) PROVE Tidy(w)
<1>1. /\ pc[w] = "answer" /\ me[w].op \in {"teardown", "force"} /\ me[w].req.key \in Keys
      /\ AnswerKnows(w) /\ NoJob(me[w]) /\ UNCHANGED <<tracked, late>> /\ Return(w)
  BY MeNow DEF EndTeardown, ProcOK, OrderlyInv, Knows
<1>2. PICK k \in Keys : k = me[w].req.key
  BY <1>1
<1>3. Present(me[w].req) /\ me[w].ok /\ tracked[k] = Absent
  BY <1>1, <1>2 DEF AnswerKnows, Lost, Emptied
<1>4. rows'[k] = NoRow /\ (\A j \in Keys \ {k} : rows'[j] = rows[j])
  BY <1>2, <1>3 DEF EndTeardown, IInv, TypeOK
<1>5. Agrees(k)'
  BY <1>1, <1>3, <1>4, Blank DEF Agrees
<1>6. \A j \in Keys \ {k} : Alike(j)
  BY <1>1, <1>4 DEF Alike
<1>7. Works(w) = {k}
  BY <1>1, <1>2, WorksAre DEF Works
<1> QED BY <1>1, <1>5, <1>6, <1>7, TidyReturn

LEMMA TidyKill ==
    ASSUME IInv, OrderlyInv, KeysApart', NEW w, KillSwitch(w) \/ (w \in Procs /\ Reconcile(w))
    PROVE  w \in Procs /\ Tidy(w)
<1>1. PICK op \in {"kill", "reconcile"} : Call(w, [NoMe EXCEPT !.op = op], op, NoReq)
  BY DEF KillSwitch, Reconcile
<1> DEFINE call == [op |-> op, key |-> NoReq.key, cid |-> NoReq.cid, id |-> NoReq.id]
           n == [[NoMe EXCEPT !.op = op] EXCEPT !.req = call]
<1>2. n.op = op /\ n.req = call /\ call.op = op
  BY DEF NoMe
<1>3. Goto(w, "wait", n)
  BY <1>1 DEF Call
<1> HIDE DEF n, call
<1>4. /\ w \in Procs /\ pc[w] = "idle" /\ UNCHANGED <<rows, tracked, late>> /\ IInv'
  BY EnterOK, KillPreserves, ReconcilePreserves DEF KillSwitch, Reconcile
<1>5. Moves(w) /\ pc'[w] = "wait" /\ me'[w] = n
  BY <1>3, <1>4 DEF Goto, Moves, IInv, TypeOK
<1>6. Works(w)' = Keys /\ Works(w) = {}
  BY <1>2, <1>4, <1>5, WorksAre DEF Works
<1>7. \A j \in Keys : Agrees(j)'
  BY <1>4, <1>5, <1>6, FreshAgrees, StillAlike, AlikeKeeps
<1>8. WaitKnows(w)'
  BY <1>2, <1>5, <1>7 DEF WaitKnows
<1>9. Knows(w)'
  BY <1>2, <1>5, <1>8 DEF Knows
<1> QED BY <1>4, <1>5, <1>6, <1>9, TidyLocal

LEMMA TidyEndKill ==
    ASSUME IInv, OrderlyInv, NEW w \in Procs, EndKill(w) PROVE Tidy(w)
<1>1. /\ pc[w] = "answer" /\ me[w].op = "kill" /\ AnswerKnows(w)
      /\ UNCHANGED <<tracked, late>> /\ Return(w)
  BY DEF EndKill, OrderlyInv, Knows
<1>2. rows' = [k \in Keys |-> IF Active(k) THEN NoRow ELSE rows[k]]
  BY <1>1 DEF EndKill, AnswerKnows
<1>3. ASSUME NEW k \in Keys PROVE Agrees(k)'
  <2>1. CASE Agrees(k) /\ tracked[k].st # "running"
    <3>1. rows[k].status # "running" /\ rows[k].status # "pending"
      BY <2>1, Blank DEF Agrees
    <3>2. rows'[k] = rows[k]
      BY <1>2, <3>1 DEF Active
    <3> QED BY <1>1, <2>1, <3>2 DEF Agrees
  <2>2. CASE Emptied(k) /\ rows[k].status = "running"
    <3>1. rows'[k] = NoRow /\ tracked'[k] = Absent
      BY <1>1, <1>2, <2>2 DEF Active, Emptied
    <3> QED BY <3>1, Blank DEF Agrees
  <2> QED BY <1>1, <2>1, <2>2 DEF AnswerKnows
<1>4. Works(w) = Keys
  BY <1>1, WorksAre DEF Works
<1> QED BY <1>1, <1>3, <1>4, TidyReturn


-----------------------------------------------------------------------------
\* The sweep and the reconciler.

LEMMA TidySweepExpired ==
    ASSUME IInv, OrderlyInv, KeysApart', NEW w \in Procs, SweepExpired(w) PROVE Tidy(w)
<1> DEFINE T == {Held(k) : k \in {k \in Keys : rows[k].past /\ Active(k)}}
           m == [NoMe EXCEPT !.op = "sweep", !.todo = T]
<1>1. m.op = "sweep" /\ m.todo = T /\ m.errs = {} /\ m.dels = {}
  BY DEF NoMe
<1>2. Goto(w, "sweep", m) /\ pc[w] = "idle" /\ UNCHANGED <<rows, tracked, late>> /\ IInv'
  BY SweepExpiredPreserves DEF SweepExpired
<1>3. ASSUME NEW i \in T PROVE i.key \in Keys /\ i = Held(i.key)
  BY DEF Held
<1> HIDE DEF m, T
<1>4. Moves(w) /\ pc'[w] = "sweep" /\ me'[w] = m
  BY <1>2 DEF Goto, Moves, IInv, TypeOK
<1>5. Works(w) = {} /\ Works(w)' = {i.key : i \in T}
  BY <1>1, <1>2, <1>4, WorksAre DEF Works
<1>6. ASSUME NEW i \in T PROVE i.key \in Keys /\ Agrees(i.key)' /\ i = Held(i.key)'
  <2>1. PICK k \in Keys : k = i.key /\ k \in Works(w)' /\ i = Held(k)
    BY <1>3, <1>5
  <2>2. Agrees(k)' /\ Held(k)' = Held(k)
    BY <1>2, <1>4, <2>1, FreshAgrees, StillAlike, AlikeKeeps
  <2> QED BY <2>1, <2>2
<1>7. Sweeping(me[w], {})'
  BY <1>1, <1>4, <1>6 DEF Sweeping
<1>8. Knows(w)'
  BY <1>1, <1>4, <1>7 DEF Knows
<1> QED BY <1>2, <1>4, <1>5, <1>8, TidyLocal

LEMMA TidySweepNext ==
    ASSUME IInv, OrderlyInv, NEW w \in Procs, SweepNext(w) PROVE Tidy(w)
<1>1. /\ pc[w] = "sweep" /\ me[w].op = "sweep" /\ Sweeping(me[w], {})
      /\ UNCHANGED <<rows, tracked, late>> /\ me[w] \in MeType /\ IInv'
  BY MeNow, SweepNextPreserves DEF SweepNext, OrderlyInv, Knows
<1>2. PICK i \in me[w].todo :
         LET m == [me[w] EXCEPT !.todo = @ \ {i}] IN
         IF i.cid # None THEN Call(w, m, "release", i)
                         ELSE Goto(w, "sweep", [m EXCEPT !.dels = @ \cup {i}])
  BY DEF SweepNext
<1>3. PICK k \in Keys : k = i.key
  BY <1>1, <1>2 DEF Sweeping
<1>4. Agrees(k) /\ i = Held(k)
  BY <1>1, <1>2, <1>3 DEF Sweeping
<1>5. i.key = k /\ i.cid = rows[k].cid /\ i.id = rows[k].id
  BY <1>4 DEF Held
<1>a. i.id # 0
  BY <1>2, MeNow DEF MeType, HeldType, Ids
<1>b. rows[k] # NoRow /\ i.cid # None
  BY <1>4, <1>5, <1>a, Blank DEF Agrees
<1> DEFINE call == [op |-> "release", key |-> i.key, cid |-> i.cid, id |-> i.id]
           n == [[me[w] EXCEPT !.todo = @ \ {i}] EXCEPT !.req = call]
<1>6. /\ n.op = "sweep" /\ n.req = call /\ n.todo = me[w].todo \ {i}
      /\ n.errs = me[w].errs /\ n.dels = me[w].dels
  BY <1>1 DEF MeType
<1>7. call.op = "release" /\ call.key = k /\ call.cid = rows[k].cid /\ call.id = rows[k].id
  BY <1>5
<1>8. Goto(w, "wait", n)
  BY <1>2, <1>b DEF Call
<1> HIDE DEF n, call
<1>9. Moves(w) /\ pc'[w] = "wait" /\ me'[w] = n
  BY <1>1, <1>8 DEF Goto, Moves, IInv, TypeOK
<1>10. \A j \in Keys : Agrees(j)' = Agrees(j) /\ Held(j)' = Held(j)
  BY <1>1 DEF Agrees, Held
<1>11. ASSUME NEW j \in n.todo
       PROVE  j.key \in Keys \ {k} /\ Agrees(j.key)' /\ j = Held(j.key)'
  <2>1. j.key \in Keys /\ Agrees(j.key) /\ j = Held(j.key) /\ j # i
    BY <1>1, <1>6, <1>11 DEF Sweeping
  <2>2. j.key # k
    BY <1>4, <2>1
  <2> QED BY <1>1, <1>10, <2>1, <2>2
<1>12. ASSUME NEW j \in n.dels PROVE j.key \in Keys /\ Lost(j)'
  <2>1. j.key \in Keys /\ Lost(j)
    BY <1>1, <1>6, <1>12 DEF Sweeping
  <2> QED BY <1>1, <2>1 DEF Lost, Emptied, Present
<1>14. n.errs = {} /\ me[w].errs = {}
  BY <1>1, <1>6 DEF Sweeping
<1>15. Sweeping(me[w], {k})'
  BY <1>9, <1>11, <1>12, <1>14 DEF Sweeping
<1>16. WaitKnows(w)'
  BY <1>1, <1>4, <1>6, <1>7, <1>9, <1>10, <1>15 DEF WaitKnows, Whole, Present
<1>17. Knows(w)'
  BY <1>6, <1>9, <1>16 DEF Knows
<1>18. Works(w) = {j.key : j \in me[w].todo \cup me[w].dels \cup me[w].errs}
  BY <1>1, WorksAre DEF Works
<1>19. Works(w)' = {k} \cup {j.key : j \in n.todo \cup n.dels \cup n.errs}
  BY <1>6, <1>7, <1>9, WorksAre DEF Works
<1>20. \A j \in Keys : j \in Works(w) => j \in Works(w)'
  BY <1>5, <1>6, <1>14, <1>18, <1>19
<1> QED BY <1>1, <1>9, <1>17, <1>20, TidyLocal

LEMMA TidySweepAnswer ==
    ASSUME IInv, OrderlyInv, NEW w \in Procs, SweepAnswer(w) PROVE Tidy(w)
<1>1. /\ pc[w] = "answer" /\ me[w].op = "sweep" /\ AnswerKnows(w) /\ me[w].req.key \in Keys
      /\ UNCHANGED <<rows, tracked, late>> /\ me[w] \in MeType /\ IInv'
  BY MeNow, SweepAnswerPreserves DEF SweepAnswer, OrderlyInv, Knows, ProcOK
<1>2. PICK k \in Keys : k = me[w].req.key
  BY <1>1
<1>3. PICK i : i = [key |-> me[w].req.key, id |-> me[w].req.id, cid |-> me[w].req.cid]
  OBVIOUS
<1>4. i.key = k /\ i.id = me[w].req.id
  BY <1>2, <1>3
<1>5. me[w].ok /\ Lost(i) /\ Sweeping(me[w], {k})
  BY <1>1, <1>2, <1>4 DEF AnswerKnows, Lost, Present
<1> DEFINE n == [me[w] EXCEPT !.dels = @ \cup {i}]
<1>6. Goto(w, "sweep", n)
  BY <1>3, <1>5 DEF SweepAnswer
<1>7. n.op = "sweep" /\ n.todo = me[w].todo /\ n.errs = {} /\ n.dels = me[w].dels \cup {i}
      /\ me[w].errs = {}
  BY <1>1, <1>5 DEF MeType, Sweeping
<1> HIDE DEF n
<1>8. Moves(w) /\ pc'[w] = "sweep" /\ me'[w] = n
  BY <1>1, <1>6 DEF Goto, Moves, IInv, TypeOK
<1>9. \A j \in Keys : Agrees(j)' = Agrees(j) /\ Held(j)' = Held(j)
  BY <1>1 DEF Agrees, Held
<1>10. ASSUME NEW j \in n.todo PROVE j.key \in Keys /\ Agrees(j.key)' /\ j = Held(j.key)'
  BY <1>1, <1>5, <1>7, <1>9, <1>10 DEF Sweeping
<1>11. ASSUME NEW j \in n.dels PROVE j.key \in Keys /\ Lost(j)'
  <2>1. j.key \in Keys /\ Lost(j)
    BY <1>4, <1>5, <1>7, <1>11 DEF Sweeping
  <2> QED BY <1>1, <2>1 DEF Lost, Emptied, Present
<1>13. Sweeping(me[w], {})'
  BY <1>7, <1>8, <1>10, <1>11 DEF Sweeping
<1>14. Knows(w)'
  BY <1>7, <1>8, <1>13 DEF Knows
<1>15. Works(w) = {k} \cup {j.key : j \in me[w].todo \cup me[w].dels \cup me[w].errs}
  BY <1>1, <1>2, WorksAre DEF Works
<1>16. Works(w)' = {j.key : j \in n.todo \cup n.dels \cup n.errs}
  BY <1>7, <1>8, WorksAre DEF Works
<1>17. i \in n.dels
  BY <1>7
<1>18. \A j \in Keys : j \in Works(w) => j \in Works(w)'
  BY <1>4, <1>7, <1>15, <1>16, <1>17
<1> QED BY <1>1, <1>8, <1>14, <1>18, TidyLocal

LEMMA TidySweepCommit ==
    ASSUME IInv, OrderlyInv, NEW w \in Procs, SweepCommit(w) PROVE Tidy(w)
<1>1. /\ pc[w] = "sweep" /\ Sweeping(me[w], {}) /\ me[w].todo = {} /\ me[w].op = "sweep"
      /\ UNCHANGED <<tracked, late>> /\ Return(w)
      /\ Commit(me[w].dels, {}, [k \in Keys |-> "error"])
  BY DEF SweepCommit, OrderlyInv, Knows, Sweeping
<1>2. rows' = [k \in Keys |->
                IF \E i \in me[w].dels : i.key = k /\ i.id = rows[k].id THEN NoRow ELSE rows[k]]
  BY <1>1 DEF Commit
<1>3. Works(w) = {i.key : i \in me[w].dels}
  BY <1>1, WorksAre DEF Works, Sweeping
<1>4. ASSUME NEW k \in Keys, k \in Works(w) PROVE Agrees(k)'
  <2>1. PICK i \in me[w].dels : i.key = k
    BY <1>3, <1>4
  <2>2. Emptied(k) /\ i.id = rows[k].id
    BY <1>1, <2>1 DEF Sweeping, Lost, Present
  <2>3. rows'[k] = NoRow /\ tracked'[k] = Absent
    BY <1>1, <1>2, <2>1, <2>2 DEF Emptied
  <2> QED BY <2>3, Blank DEF Agrees
<1>5. ASSUME NEW k \in Keys, k \notin Works(w) PROVE Alike(k)
  BY <1>1, <1>2, <1>3, <1>5 DEF Alike
<1> QED BY <1>1, <1>4, <1>5, TidyReturn

\* The rows the reconciler asks for are the running ones.
LEMMA CheckedNow ==
    ASSUME IInv, NEW k \in Keys, Checked(k)
    PROVE  (Active(k) /\ rows[k].cid # None) <=> rows[k].status = "running"
BY Blank DEF Checked, Agrees, Active

LEMMA TidyReconcileQuery ==
    ASSUME IInv, OrderlyInv, NEW w \in Procs, ReconcileQuery(w) PROVE Tidy(w)
<1>1. /\ pc[w] = "answer" /\ AnswerKnows(w) /\ me[w].op = "reconcile"
      /\ UNCHANGED <<rows, tracked, late>> /\ me[w] \in MeType /\ IInv'
  BY MeNow, ReconcileQueryPreserves DEF ReconcileQuery, OrderlyInv, Knows
<1>2. me[w].ok /\ me[w].live = tracked /\ (\A j \in Keys : Checked(j))
  BY <1>1 DEF AnswerKnows
<1> DEFINE T == {Held(k) : k \in {k \in Keys : Active(k) /\ rows[k].cid # None}}
           n == [me[w] EXCEPT !.todo = T]
<1>3. Goto(w, "apply", n)
  BY <1>2 DEF ReconcileQuery
<1>4. n.live = tracked /\ n.todo = T /\ n.op = "reconcile"
  BY <1>1, <1>2 DEF MeType
<1>5. T = {Held(j) : j \in {j \in Keys : rows[j].status = "running"}}
  BY <1>2, CheckedNow
<1>6. T = {Held(j)' : j \in {j \in Keys : rows'[j].status = "running"}}
  BY <1>1, <1>5 DEF Held
<1> HIDE DEF T, n
<1>7. Moves(w) /\ pc'[w] = "apply" /\ me'[w] = n
  BY <1>1, <1>3 DEF Goto, Moves, IInv, TypeOK
<1>8. \A j \in Keys : Checked(j)'
  BY <1>1, <1>2 DEF Checked, Agrees
<1>9. ApplyKnows(w)'
  BY <1>1, <1>4, <1>6, <1>7, <1>8 DEF ApplyKnows
<1>10. Knows(w)'
  BY <1>4, <1>7, <1>9 DEF Knows
<1>11. Works(w)' = Keys
  BY <1>4, <1>7, WorksAre DEF Works
<1> QED BY <1>1, <1>7, <1>10, <1>11, TidyLocal

LEMMA TidyReconcileCommit ==
    ASSUME IInv, OrderlyInv, NEW w \in Procs, ReconcileCommit(w) PROVE Tidy(w)
<1>1. pc[w] = "apply" /\ ApplyKnows(w) /\ me[w].op = "reconcile" /\ UNCHANGED <<tracked, late>>
      /\ Return(w)
  BY DEF ReconcileCommit, OrderlyInv, Knows
<1> DEFINE live == {me[w].live[k].cid : k \in Keys}
           here == {i \in me[w].todo : i.cid \in live}
           st == [k \in Keys |-> IF me[w].live[k].st = "running" THEN "same" ELSE "stopped"]
<1>2. Commit(me[w].todo \ here, here, st)
  BY DEF ReconcileCommit
<1>3. live = {tracked[k].cid : k \in Keys}
      /\ st = [k \in Keys |-> IF tracked[k].st = "running" THEN "same" ELSE "stopped"]
      /\ here \subseteq me[w].todo
  BY <1>1 DEF ApplyKnows
<1>4. \A i \in me[w].todo : /\ i.key \in Keys /\ i = Held(i.key) /\ Present(i)
                            /\ i.cid = rows[i.key].cid /\ rows[i.key].status = "running"
  BY <1>1 DEF ApplyKnows, Held, Present
<1>5. ASSUME NEW k \in Keys, rows[k].status = "running"
      PROVE  Held(k) \in me[w].todo /\ Held(k).key = k /\ Held(k).id = rows[k].id
             /\ Held(k).cid = rows[k].cid
  BY <1>1, <1>5 DEF ApplyKnows, Held
<1>6. \A i \in here : i \in me[w].todo /\ i.cid \in live
  OBVIOUS
<1>7. \A i \in me[w].todo : i.cid \in live => i \in here
  OBVIOUS
<1> HIDE DEF live, here, st
<1>8. rows' = [k \in Keys |->
           IF \E i \in me[w].todo \ here : i.key = k /\ i.id = rows[k].id THEN NoRow
           ELSE IF \E i \in here : i.key = k /\ st[i.key] # "same"
           THEN [rows[k] EXCEPT !.status = st[k]] ELSE rows[k]]
  BY <1>2, <1>4, <1>6 DEF Commit
<1>9. ASSUME NEW k \in Keys PROVE Agrees(k)'
  <2>0. Checked(k)
    BY <1>1 DEF ApplyKnows
  <2>1. CASE rows[k].status # "running"
    <3>1. \A i \in me[w].todo : i.key # k
      BY <1>4, <2>1
    <3>2. rows'[k] = rows[k]
      BY <1>6, <1>8, <3>1
    <3>3. Agrees(k)
      BY <2>0, <2>1 DEF Checked
    <3> QED BY <1>1, <3>2, <3>3 DEF Agrees
  <2>2. CASE rows[k].status = "running" /\ rows[k].cid \in live
    <3>1. Held(k) \in here /\ Held(k).key = k
      BY <1>5, <1>7, <2>2
    <3>2. \A i \in me[w].todo : i.key = k => i \in here
      BY <1>4, <3>1
    <3>3. ~ \E i \in me[w].todo \ here : i.key = k /\ i.id = rows[k].id
      BY <3>2
    <3>4. tracked[k].cid = rows[k].cid
      BY <1>3, <2>0, <2>2 DEF Checked, Agrees
    <3>5. CASE tracked[k].st = "running"
      <4>1. st[k] = "same"
        BY <1>3, <3>5
      <4>2. rows'[k] = rows[k]
        BY <1>8, <3>3, <4>1
      <4>3. Agrees(k)
        BY <2>0, <3>5, Blank DEF Checked
      <4> QED BY <1>1, <4>2, <4>3 DEF Agrees
    <3>6. CASE tracked[k].st # "running"
      <4>1. st[k] = "stopped"
        BY <1>3, <3>6
      <4>2. rows'[k] = [rows[k] EXCEPT !.status = "stopped"]
        BY <1>8, <3>1, <3>3, <4>1
      <4>3. rows'[k].status = "stopped" /\ rows'[k].cid = rows[k].cid
        BY <4>2, RowNow DEF RowType
      <4>4. rows[k].cid # None
        BY <2>0, <2>2, Blank DEF Checked, Agrees
      <4> QED BY <1>1, <3>4, <3>6, <4>3, <4>4 DEF Agrees
    <3> QED BY <3>5, <3>6
  <2>3. CASE rows[k].status = "running" /\ rows[k].cid \notin live
    <3>1. Held(k) \in me[w].todo \ here /\ Held(k).key = k /\ Held(k).id = rows[k].id
      BY <1>5, <1>6, <2>3
    <3>2. rows'[k] = NoRow
      BY <1>8, <3>1
    <3>3. tracked[k] = Absent
      BY <1>3, <2>0, <2>3 DEF Checked, Agrees
    <3> QED BY <1>1, <3>2, <3>3, Blank DEF Agrees
  <2> QED BY <2>1, <2>2, <2>3
<1>10. Works(w) = Keys
  BY <1>1, WorksAre DEF Works
<1> QED BY <1>1, <1>9, <1>10, TidyReturn


-----------------------------------------------------------------------------
\* The daemon's answers, to processes that keep apart.

\* The daemon and Docker answer in time and do as they are told; what is left is that
\* no container can be made, and that one exits or is removed by hand.
Calm == FaultKinds \subseteq {"remove", "spawn", "exit"}

\* Of the faults of an RPC only a failed spawn is left.
LEMMA PlainOutcome ==
    ASSUME Calm, NEW r \in ReqType, ReqOK(r), NEW o \in Outcomes(r), Execute(o)
    PROVE  /\ o \in Executed(r) /\ o.fault \in {"none", "spawn"}
           /\ tracked' = o.tracked
<1>1. o.fault \in {"none", "spawn", "remove", "exit"} /\ tracked' = o.tracked
  BY DEF Calm, Execute, Fault
<1>2. ASSUME NEW e \in Executed(r), o = [e EXCEPT !.ok = FALSE, !.fault = "firewall"]
      PROVE  FALSE
  <2>1. Shaped(e)
    BY <1>2, OutcomeShape
  <2>2. o.fault = "firewall"
    BY <1>2, <2>1 DEF Shaped, Outcome
  <2> QED BY <1>1, <2>2
<1>3. o \in Executed(r)
  BY <1>2 DEF Outcomes
<1>4. o.fault \in {"none", "spawn", "docker"}
  BY <1>3, OutcomeShape DEF Shaped
<1> QED BY <1>1, <1>3, <1>4

LEMMA EnsureDoes ==
    ASSUME IInv, NEW r \in ReqType, r.op = "ensure", r.key \in Keys, tracked[r.key] = Absent,
           NEW o \in Executed(r), tracked' = o.tracked
    PROVE  /\ \A j \in Keys \ {r.key} : tracked'[j] = tracked[j]
           /\ IF o.ok THEN /\ tracked'[r.key].cid = o.cid /\ o.cid # None
                           /\ tracked'[r.key].st = "running"
                      ELSE tracked'[r.key] = Absent
<1>1. o \in Ensured(r) /\ tracked[r.key].cid = None
  BY Blank DEF Executed
<1>2. CASE o = Outcome(tracked, docker, None, "spawn", FALSE)
  BY <1>2 DEF Outcome
<1>3. ASSUME NEW c \in FreshCid,
             o = Outcome([tracked EXCEPT ![r.key] = [cid |-> c, st |-> "running"]],
                         [docker EXCEPT ![c] = "running"], c, "none", TRUE)
      PROVE  /\ \A j \in Keys \ {r.key} : tracked'[j] = tracked[j]
             /\ o.ok /\ tracked'[r.key].cid = o.cid /\ o.cid # None
             /\ tracked'[r.key].st = "running"
  <2>1. c # None
    BY RowsAssumption DEF FreshCid
  <2>2. o.tracked = [tracked EXCEPT ![r.key] = [cid |-> c, st |-> "running"]]
        /\ o.cid = c /\ o.ok = TRUE
    BY <1>3 DEF Outcome
  <2> QED BY <2>1, <2>2 DEF IInv, TypeOK
<1> QED BY <1>1, <1>2, <1>3 DEF Ensured

LEMMA ReleaseDoes ==
    ASSUME IInv, NEW r \in ReqType, r.op = "release", r.key \in Keys, r.cid \in Cids,
           tracked[r.key].cid = r.cid,
           NEW o \in Executed(r), o.fault \in {"none", "spawn"}, tracked' = o.tracked
    PROVE  /\ \A j \in Keys \ {r.key} : tracked'[j] = tracked[j]
           /\ tracked'[r.key] = Absent /\ o.ok
<1>1. o = Outcome(Untrack({r.cid}), Removed({r.cid}), r.cid, "none", TRUE)
  BY DEF Executed, Released, Outcome
<1>2. tracked' = Untrack({r.cid}) /\ o.ok = TRUE
  BY <1>1 DEF Outcome
<1>3. \A j \in Keys \ {r.key} : tracked[j].cid # r.cid
  BY RowsAssumption DEF IInv, TrackedOK
<1>4. \A j \in Keys : tracked'[j] = IF tracked[j].cid = r.cid THEN Absent ELSE tracked[j]
  BY <1>2 DEF Untrack
<1> QED BY <1>2, <1>3, <1>4

LEMMA KillDoes ==
    ASSUME IInv, NEW r \in ReqType, r.op = "kill",
           NEW o \in Executed(r), o.fault \in {"none", "spawn"}, tracked' = o.tracked
    PROVE  /\ o.ok
           /\ \A k \in Keys : tracked'[k] = IF tracked[k].st = "running" THEN Absent ELSE tracked[k]
<1> DEFINE C == {tracked[k].cid : k \in {k \in Keys : tracked[k].st = "running"}}
<1>1. o = Outcome(Untrack(C), Removed(C), None, "none", TRUE)
  <2>1. o \in Killed
    BY DEF Executed
  <2>2. ASSUME NEW c, NEW d, o = Outcome(Untrack(C \ {c}), d, None, "docker", TRUE)
        PROVE  FALSE
    BY <2>2 DEF Outcome
  <2> QED BY <2>1, <2>2 DEF Killed
<1>2. tracked' = Untrack(C) /\ o.ok = TRUE
  BY <1>1 DEF Outcome
<1>3. ASSUME NEW k \in Keys PROVE tracked[k].cid \in C <=> tracked[k].st = "running"
  <2>1. ASSUME tracked[k].cid \in C PROVE tracked[k].st = "running"
    <3>1. PICK j \in Keys : tracked[j].st = "running" /\ tracked[j].cid = tracked[k].cid
      BY <2>1
    <3>2. tracked[j].cid # None
      BY <3>1, EntryNow, RowsAssumption
    <3>3. j = k
      BY <3>1, <3>2 DEF IInv, TrackedOK
    <3> QED BY <3>1, <3>3
  <2> QED BY <2>1
<1> HIDE DEF C
<1>4. \A k \in Keys : tracked'[k] = IF tracked[k].cid \in C THEN Absent ELSE tracked[k]
  BY <1>2 DEF Untrack
<1> QED BY <1>2, <1>3, <1>4

LEMMA ReconcileDoes ==
    ASSUME IInv, \A j \in Keys : Agrees(j), NEW r \in ReqType, r.op = "reconcile",
           NEW o \in Executed(r), o.fault \in {"none", "spawn"}, tracked' = o.tracked,
           UNCHANGED rows
    PROVE  o.ok /\ (\A k \in Keys : Checked(k)')
<1>1. tracked' = [k \in Keys |->
                IF tracked[k].st # "running" THEN tracked[k]
                ELSE IF docker[tracked[k].cid] = "gone" THEN Absent
                ELSE [tracked[k] EXCEPT !.st = docker[tracked[k].cid]]]
      /\ o.ok = TRUE
  <2>1. ASSUME NEW t, o = Outcome(t, docker, None, "docker", TRUE) PROVE FALSE
    BY <2>1 DEF Outcome
  <2>2. o = Outcome(Pruned({}), docker, None, "none", TRUE)
    BY <2>1 DEF Executed, Reconciled
  <2> QED BY <2>2 DEF Outcome, Pruned
<1>2. \A k \in Keys : tracked'[k].cid \in {None, tracked[k].cid}
  <2> SUFFICES ASSUME NEW k \in Keys PROVE tracked'[k].cid \in {None, tracked[k].cid}
    OBVIOUS
  <2>1. tracked[k] \in TrackType
    BY EntryNow
  <2>2. [tracked[k] EXCEPT !.st = docker[tracked[k].cid]].cid = tracked[k].cid
    BY <2>1 DEF TrackType
  <2> QED BY <1>1, <2>2, Blank
<1>3. ASSUME NEW k \in Keys PROVE Checked(k)'
  <2>1. Agrees(k) /\ tracked[k] \in TrackType
    BY EntryNow
  <2>2. CASE tracked[k].st # "running"
    <3>1. tracked'[k] = tracked[k]
      BY <1>1, <2>2
    <3> QED BY <2>1, <3>1 DEF Checked, Agrees
  <2>3. CASE tracked[k].st = "running"
    <3>1. /\ rows[k].status = "running" /\ rows[k].cid = tracked[k].cid
          /\ tracked[k].cid \in Cids /\ rows[k].cid # None
          /\ docker[tracked[k].cid] \in {"running", "exited", "gone"}
      BY <2>1, <2>3, EntryNow, AgreesNow, RowsAssumption DEF Agrees, IInv, TypeOK
    <3>2. CASE docker[tracked[k].cid] = "gone"
      <4>1. tracked'[k] = Absent
        BY <1>1, <2>3, <3>2
      <4>2. \A j \in Keys : tracked'[j].cid # rows[k].cid
        BY <1>2, <3>1, <4>1, Blank DEF IInv, TrackedOK
      <4> QED BY <3>1, <4>1, <4>2 DEF Checked
    <3>3. CASE docker[tracked[k].cid] # "gone"
      <4> DEFINE e == [tracked[k] EXCEPT !.st = docker[tracked[k].cid]]
      <4>1. tracked'[k] = e
        BY <1>1, <2>3, <3>3
      <4>2. e.cid = tracked[k].cid /\ e.st = docker[tracked[k].cid]
        BY <2>1 DEF TrackType
      <4> HIDE DEF e
      <4>3. CASE docker[tracked[k].cid] = "running"
        BY <2>1, <2>3, <4>1, <4>2, <4>3 DEF Checked, Agrees
      <4>4. CASE docker[tracked[k].cid] = "exited"
        BY <3>1, <4>1, <4>2, <4>4 DEF Checked
      <4> QED BY <3>1, <3>3, <4>3, <4>4
    <3> QED BY <3>2, <3>3
  <2> QED BY <2>2, <2>3
<1> QED BY <1>1, <1>3

LEMMA TidyServe ==
    ASSUME IInv, Calm, OrderlyInv, NEW w \in Procs, Serve(w) PROVE Tidy(w)
<1>1. /\ pc[w] = "wait" /\ WaitKnows(w) /\ me[w].req \in ReqType /\ ReqOK(me[w].req)
      /\ UNCHANGED <<rows, late>> /\ me[w] \in MeType /\ IInv'
      /\ (me[w].op \in {"spawn", "teardown", "force"} => NoJob(me[w]))
  BY MeNow, ServePreserves DEF Serve, OrderlyInv, Knows, ProcOK
<1>2. PICK o \in Outcomes(me[w].req) :
         LET c == IF me[w].op = "spawn" THEN o.cid ELSE me[w].req.cid IN
         /\ Execute(o)
         /\ Goto(w, "answer",
                 [me[w] EXCEPT !.ok = o.ok, !.req.cid = c,
                    !.st = IF me[w].op = "spawn" THEN o.tracked[me[w].req.key].st ELSE @,
                    !.live = IF me[w].op = "reconcile" THEN o.tracked ELSE @])
  BY DEF Serve
<1>3. /\ o \in Executed(me[w].req) /\ o.fault \in {"none", "spawn"} /\ tracked' = o.tracked
  BY <1>1, <1>2, PlainOutcome
<1>4. PICK c : c = IF me[w].op = "spawn" THEN o.cid ELSE me[w].req.cid
  OBVIOUS
<1>5. PICK s : s = IF me[w].op = "spawn" THEN o.tracked[me[w].req.key].st ELSE me[w].st
  OBVIOUS
<1>6. PICK v : v = IF me[w].op = "reconcile" THEN o.tracked ELSE me[w].live
  OBVIOUS
<1> DEFINE n == [me[w] EXCEPT !.ok = o.ok, !.req.cid = c, !.st = s, !.live = v]
<1>7. Goto(w, "answer", n)
  BY <1>1, <1>2, <1>4, <1>5, <1>6 DEF MeType
<1>8. /\ n.op = me[w].op /\ n.todo = me[w].todo /\ n.errs = me[w].errs /\ n.dels = me[w].dels
      /\ n.ok = o.ok /\ n.live = v /\ n.req = [me[w].req EXCEPT !.cid = c]
  BY <1>1 DEF MeType
<1>9. n.req.key = me[w].req.key /\ n.req.id = me[w].req.id /\ n.req.cid = c
  BY <1>1, <1>8 DEF ReqType
<1> HIDE DEF n
<1>10. Moves(w) /\ pc'[w] = "answer" /\ me'[w] = n
  BY <1>1, <1>7 DEF Goto, Moves, IInv, TypeOK
<1>11. PICK r \in ReqType : r = me[w].req
  BY <1>1
<1>a. Works(w)' = Works(w)
  BY <1>1, <1>8, <1>9, <1>10 DEF Works, WorksAt
<1>b. me[w].op \in {"spawn", "teardown", "force", "sweep"} => r.key \in Works(w)
  BY <1>1, <1>11 DEF Works, WorksAt
<1>c. me'[w].op \in {"spawn", "teardown", "force"} => NoJob(me'[w])
  BY <1>1, <1>8, <1>10 DEF NoJob
<1>12. CASE me[w].op = "spawn"
  <2>1. r.op = "ensure" /\ r.key \in Keys /\ Reserved(r) /\ tracked[r.key] = Absent
    BY <1>1, <1>11, <1>12 DEF WaitKnows, ReqOK
  <2>2. /\ \A j \in Keys \ {r.key} : tracked'[j] = tracked[j]
        /\ IF o.ok THEN /\ tracked'[r.key].cid = o.cid /\ o.cid # None
                        /\ tracked'[r.key].st = "running"
                   ELSE tracked'[r.key] = Absent
    BY <1>3, <1>11, <2>1, EnsureDoes
  <2>3. \A j \in Keys \ {r.key} : Alike(j)
    BY <1>1, <2>2 DEF Alike
  <2>4. Reserved(me[w].req)'
    BY <1>1, <1>9, <1>10, <1>11, <2>1 DEF Reserved
  <2>6. me'[w].op = "spawn" /\ me'[w].ok = o.ok /\ me'[w].req.key = r.key /\ me'[w].req.cid = o.cid
    BY <1>4, <1>8, <1>9, <1>10, <1>11, <1>12
  <2>7. IF me'[w].ok
        THEN /\ tracked'[me'[w].req.key].cid = me'[w].req.cid /\ me'[w].req.cid # None
             /\ tracked'[me'[w].req.key].st = "running"
        ELSE tracked'[me'[w].req.key] = Absent
    BY <2>2, <2>6
  <2>8. AnswerKnows(w)'
    BY <2>4, <2>6, <2>7 DEF AnswerKnows
  <2>9. Knows(w)'
    BY <1>10, <1>c, <2>8 DEF Knows
  <2> QED BY <1>1, <1>10, <1>12, <1>a, <1>b, <2>3, <2>9 DEF Tidy
<1>13. CASE me[w].op \in {"teardown", "force", "sweep"}
  <2>1. r.op = "release" /\ r.key \in Keys /\ r.cid \in Cids /\ r.id \in Ids /\ Whole(r)
    BY <1>1, <1>11, <1>13 DEF WaitKnows, ReqOK
  <2>2. /\ \A j \in Keys \ {r.key} : tracked'[j] = tracked[j]
        /\ tracked'[r.key] = Absent /\ o.ok
    BY <1>3, <1>11, <2>1, ReleaseDoes DEF Whole, Agrees
  <2>3. rows[r.key] # NoRow
    BY <2>1, Blank DEF Whole, Present, Ids
  <2>4. Lost(r)'
    BY <1>1, <2>1, <2>2, <2>3 DEF Lost, Whole, Emptied, Agrees, Present
  <2>5. Lost(me[w].req)'
    BY <1>9, <1>10, <1>11, <2>4 DEF Lost, Emptied, Present
  <2>6. \A j \in Keys \ {r.key} : Agrees(j)' = Agrees(j) /\ Held(j)' = Held(j) /\ Alike(j)
    BY <1>1, <2>2 DEF Agrees, Held, Alike
  <2>7. AnswerKnows(w)'
    <3>1. CASE me[w].op \in {"teardown", "force"}
      BY <1>8, <1>10, <2>2, <2>5, <3>1 DEF AnswerKnows
    <3>2. CASE me[w].op = "sweep"
      <4>1. Sweeping(me[w], {r.key})
        BY <1>1, <1>11, <3>2 DEF WaitKnows
      <4>2. ASSUME NEW i \in n.todo
            PROVE  i.key \in Keys \ {r.key} /\ Agrees(i.key)' /\ i = Held(i.key)'
        BY <1>8, <2>6, <4>1, <4>2 DEF Sweeping
      <4>3. ASSUME NEW i \in n.dels PROVE i.key \in Keys /\ Lost(i)'
        <5>1. i.key \in Keys /\ Lost(i)
          BY <1>8, <4>1, <4>3 DEF Sweeping
        <5>2. tracked'[i.key] = Absent
          BY <2>2, <5>1 DEF Lost, Emptied
        <5> QED BY <1>1, <5>1, <5>2 DEF Lost, Emptied, Present
      <4>4. n.errs = {}
        BY <1>8, <4>1 DEF Sweeping
      <4>5. Sweeping(me[w], {r.key})'
        BY <1>10, <4>2, <4>3, <4>4 DEF Sweeping
      <4>6. me'[w].req.key = r.key /\ me'[w].ok /\ me'[w].op = "sweep"
        BY <1>8, <1>9, <1>10, <1>11, <2>2, <3>2
      <4> QED BY <2>5, <4>5, <4>6 DEF AnswerKnows
    <3> QED BY <1>13, <3>1, <3>2
  <2>8. Knows(w)'
    BY <1>10, <1>c, <2>7 DEF Knows
  <2> QED BY <1>1, <1>10, <1>13, <1>a, <1>b, <2>6, <2>8 DEF Tidy
<1>14. CASE me[w].op = "kill"
  <2>1. r.op = "kill" /\ \A j \in Keys : Agrees(j)
    BY <1>1, <1>11, <1>14 DEF WaitKnows
  <2>2. /\ o.ok
        /\ \A k \in Keys : tracked'[k] = IF tracked[k].st = "running" THEN Absent ELSE tracked[k]
    BY <1>3, <1>11, <2>1, KillDoes
  <2>3. ASSUME NEW k \in Keys
        PROVE  \/ Agrees(k)' /\ tracked'[k].st # "running"
               \/ Emptied(k)' /\ rows'[k].status = "running"
    <3>1. Agrees(k)
      BY <2>1
    <3>2. CASE tracked[k].st = "running"
      <4>1. rows[k].status = "running" /\ rows[k] # NoRow
        BY <3>1, <3>2, AgreesNow, Blank
      <4> QED BY <1>1, <2>2, <3>2, <4>1 DEF Emptied
    <3>3. CASE tracked[k].st # "running"
      BY <1>1, <2>2, <3>1, <3>3 DEF Agrees
    <3> QED BY <3>2, <3>3
  <2>4. AnswerKnows(w)'
    BY <1>8, <1>10, <1>14, <2>2, <2>3 DEF AnswerKnows
  <2>5. Knows(w)'
    BY <1>10, <1>c, <2>4 DEF Knows
  <2>6. Works(w) = Keys
    BY <1>1, <1>14, WorksAre DEF Works
  <2> QED BY <1>1, <1>10, <1>a, <2>5, <2>6 DEF Tidy
<1>15. CASE me[w].op = "reconcile"
  <2>1. r.op = "reconcile" /\ \A j \in Keys : Agrees(j)
    BY <1>1, <1>11, <1>15 DEF WaitKnows
  <2>2. o.ok /\ (\A k \in Keys : Checked(k)')
    BY <1>1, <1>3, <1>11, <2>1, ReconcileDoes
  <2>3. v = tracked'
    BY <1>3, <1>6, <1>15
  <2>4. AnswerKnows(w)'
    BY <1>8, <1>10, <1>15, <2>2, <2>3 DEF AnswerKnows
  <2>5. Knows(w)'
    BY <1>10, <1>c, <2>4 DEF Knows
  <2>6. Works(w) = Keys
    BY <1>1, <1>15, WorksAre DEF Works
  <2> QED BY <1>1, <1>10, <1>a, <2>5, <2>6 DEF Tidy
<1> QED BY <1>1, <1>12, <1>13, <1>14, <1>15 DEF WaitKnows

\* Only TTLs change.
LEMMA PastAlike ==
    ASSUME IInv, UNCHANGED tracked, NEW k \in Keys, rows[k] # NoRow, NEW b,
           rows' = [rows EXCEPT ![k].past = b]
    PROVE  \A j \in Keys : Alike(j)
<1>1. rows[k] \in RowType /\ rows[k].id \in Ids
  BY RowNow
<1>2. /\ rows'[k].id = rows[k].id /\ rows'[k].cid = rows[k].cid
      /\ rows'[k].status = rows[k].status
  BY <1>1 DEF IInv, TypeOK, RowType
<1>3. rows'[k] # NoRow
  <2>1. rows[k].id # 0
    BY <1>1 DEF Ids
  <2> QED BY <1>2, <2>1, Blank
<1>4. \A j \in Keys \ {k} : rows'[j] = rows[j]
  BY DEF IInv, TypeOK
<1> QED BY <1>2, <1>3, <1>4 DEF Alike

LEMMA OrderlyInit == Init => OrderlyInv
<1> SUFFICES ASSUME Init PROVE OrderlyInv
  OBVIOUS
<1>1. \A k \in Keys : Agrees(k)
  BY BlankAgrees DEF Init
<1>2. \A p \in Procs : Knows(p)
  BY DEF Init, Knows
<1> QED BY <1>1, <1>2 DEF Init, OrderlyInv

LEMMA OrderlyStep ==
    ASSUME IInv, Calm, OrderlyInv, KeysApart, KeysApart', [Next]_vars PROVE OrderlyInv'
<1>0. IInv'
  BY NextTable
<1>1. ASSUME NEW w \in Workers, Request(w) PROVE OrderlyInv'
  <2>1. CASE Spawn(w)
    BY <1>0, <2>1, TidySpawn, TidyPreserves
  <2>2. CASE Teardown(w) \/ ForceTeardown(w)
    BY <1>0, <2>2, TidyTeardown, TidyPreserves DEF Teardown, ForceTeardown
  <2>3. CASE KillSwitch(w)
    BY <1>0, <2>3, TidyKill, TidyPreserves
  <2>4. CASE Extend(w)
    <3>1. PICK k \in Keys : rows[k].past /\ rows' = [rows EXCEPT ![k].past = FALSE]
      BY <2>4 DEF Extend
    <3>2. rows[k] # NoRow /\ UNCHANGED <<tracked, pc, me, late>>
      BY <2>4, <3>1, Blank DEF Extend, Enter
    <3>3. \A j \in Keys : Alike(j)
      BY <3>1, <3>2, PastAlike
    <3> QED BY <1>0, <3>2, <3>3, StillPreserves
  <2> QED BY <1>1, <2>1, <2>2, <2>3, <2>4 DEF Request
<1>2. ASSUME NEW p \in Procs, Continue(p) \/ Job(p) \/ Serve(p) PROVE OrderlyInv'
  <2>1. Tidy(p)
    BY <1>2, TidyInsert, TidyEndSpawn, TidyEndTeardown, TidyEndKill, TidySweepNext,
       TidySweepAnswer, TidySweepCommit, TidyReconcileQuery, TidyReconcileCommit,
       TidySweepExpired, TidyKill, TidyServe DEF Continue, Job
  <2> QED BY <1>0, <2>1, TidyPreserves
<1>3. ASSUME NEW p \in Procs PROVE ~ Timeout(p) /\ ~ Unavailable(p) /\ ~ Die(p)
  BY DEF Calm, Timeout, Unavailable, Die, Fault
<1>4. ASSUME NEW k \in Keys, Expire(k) PROVE OrderlyInv'
  BY <1>0, <1>4, PastAlike, StillPreserves DEF Expire
<1>5. CASE DockerEvent \/ UNCHANGED vars
  BY <1>0, <1>5, StillAlike, StillPreserves DEF DockerEvent, vars
<1>6. late = {}
  BY DEF OrderlyInv
<1> QED BY <1>1, <1>2, <1>3, <1>4, <1>5, <1>6 DEF Next

\* While no two requests or jobs work on one row at the same time, and the daemon answers
\* them all, the rows of the plugin and the daemon's table name the same containers
\* whenever all are done: whatever number of workers and jobs is at work on other rows,
\* whatever spawns fail and whatever stops, is removed by hand or passes its TTL.
THEOREM AgreeWhenQuiet ==
    ASSUME Calm PROVE Spec /\ []KeysApart => []QuietAgree
<1>1. IInv /\ OrderlyInv /\ KeysApart /\ KeysApart' /\ [Next]_vars => OrderlyInv'
  BY OrderlyStep
<1>2. OrderlyInv => QuietAgree
  BY WorksAre DEF OrderlyInv, QuietAgree, Quiet, Agrees, Works
<1> QED BY <1>1, <1>2, OrderlyInit, InductiveInvariant, PTL DEF Spec
=============================================================================
