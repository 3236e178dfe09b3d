---------------------------- MODULE InstanceRows ----------------------------
(***************************************************************************)
(* The plugin's view of instances: the table EdoInstance, the routes of    *)
(* api/user.py and api/admin.py and the two jobs of scheduler.py that      *)
(* change it, and the RPCs by which they drive the daemon.                 *)
(*                                                                         *)
(* A request or a job is a process of its own (a gunicorn thread, or the   *)
(* thread of whichever worker won the job's lease); one database statement *)
(* or transaction is one step.  The daemon executes an RPC in one step:    *)
(* module Containers is what happens inside.  An answer may come too late  *)
(* (DaemonTimeout): the caller goes on as after an error, and the daemon   *)
(* still executes the request.                                             *)
(***************************************************************************)
EXTENDS Naturals, FiniteSets

CONSTANTS
    Owners, Chals,
    Workers,      \* processes that serve the routes
    Sweepers,     \* processes that run _sweep_expired
    Reconcilers,  \* processes that run _reconcile
    Routes,       \* the routes a run uses
    Cap,          \* max_containers_per_owner
    Cids,         \* container ids; Docker never hands one out twice
    MaxCalls,     \* bound: requests of participants and admins
    MaxFaults,    \* bound: faults of all kinds together
    FaultKinds,   \* the kinds of fault a run allows
    None

AllRoutes == {"spawn", "teardown", "force", "kill", "extend"}
AllFaultKinds == {"spawn", "docker", "firewall", "timeout", "down", "die",
                  "remove", "exit"}

ASSUME RowsAssumption ==
    /\ Routes \subseteq AllRoutes
    /\ FaultKinds \subseteq AllFaultKinds
    /\ Cap \in Nat /\ MaxCalls \in Nat /\ MaxFaults \in Nat
    /\ None \notin Cids /\ None \notin Owners \X Chals

Procs == Workers \cup Sweepers \cup Reconcilers
Keys  == Owners \X Chals
Ids   == 1 .. MaxCalls

VARIABLES
    rows,      \* table edo_instances: (owner, challenge) -> row
    tracked,   \* the daemon's instances table: key -> container and status
    docker,    \* the containers' real states
    late,      \* requests whose caller no longer waits
    pc, me,    \* each process's next step and local variables
    calls, faults,  \* counters for the two bounds; calls also numbers rows
    orphaned   \* ghost: ids of the pending rows whose request died

vars == <<rows, tracked, docker, late, pc, me, calls, faults, orphaned>>

NoRow  == [id |-> 0, cid |-> None, status |-> "none", past |-> FALSE]
Absent == [cid |-> None, st |-> "gone"]
NoReq  == [op |-> "none", key |-> None, cid |-> None, id |-> 0]
\* req: the RPC and its arguments; ok, st: the answer; live: the snapshot that
\* container.reconcile returns; todo, dels, errs: the rows a job works on.
NoMe == [req |-> NoReq, op |-> "none", ok |-> FALSE, st |-> "gone",
         live |-> [k \in Keys |-> Absent], todo |-> {}, dels |-> {}, errs |-> {}]

Active(k) == rows[k].status \in {"pending", "running"}
\* A row as a session holds it: its primary key and its container_id.
Held(k) == [key |-> k, id |-> rows[k].id, cid |-> rows[k].cid]
Present(i) == rows[i.key].id = i.id

-----------------------------------------------------------------------------
\* The moves of a process.

Goto(p, l, m) == pc' = [pc EXCEPT ![p] = l] /\ me' = [me EXCEPT ![p] = m]
Return(p) == Goto(p, "idle", NoMe)

Fault(kind) ==
    /\ kind \in FaultKinds
    /\ faults < MaxFaults
    /\ faults' = faults + 1

\* _call: the request goes out and the process waits.
Call(p, m, op, i) ==
    Goto(p, "wait", [m EXCEPT !.req = [op |-> op, key |-> i.key, cid |-> i.cid, id |-> i.id]])

Init ==
    /\ rows = [k \in Keys |-> NoRow]
    /\ tracked = [k \in Keys |-> Absent]
    /\ docker = [c \in Cids |-> "unused"]
    /\ late = {}
    /\ pc = [p \in Procs |-> "idle"]
    /\ me = [p \in Procs |-> NoMe]
    /\ calls = 0 /\ faults = 0
    /\ orphaned = {}

Enter(w, route) ==
    /\ w \in Workers /\ pc[w] = "idle"
    /\ route \in Routes
    /\ calls < MaxCalls
    /\ calls' = calls + 1
    /\ UNCHANGED <<tracked, docker, late, faults, orphaned>>

-----------------------------------------------------------------------------
\* api/user.py: spawn_instance.

ActiveOf(o) == {k \in Keys : k[1] = o /\ Active(k)}

\* Mutant: the limit itself does not stop a spawn.
SpawnOffByOne(w) ==
    /\ Enter(w, "spawn")
    /\ \E k \in Keys :
         /\ Cardinality(ActiveOf(k[1])) <= Cap
         /\ Goto(w, "insert", [NoMe EXCEPT !.op = "spawn", !.req.key = k, !.req.id = calls'])
    /\ UNCHANGED rows

\* The count of the owner's active rows against the limit.
Spawn(w) ==
    /\ Enter(w, "spawn")
    /\ \E k \in Keys :
         /\ Cardinality(ActiveOf(k[1])) < Cap
         /\ Goto(w, "insert", [NoMe EXCEPT !.op = "spawn", !.req.key = k, !.req.id = calls'])
    /\ UNCHANGED rows

\* Mutant: no unique constraint, the new row takes the old one's place.
InsertRowAnyway(w) ==
    LET k == me[w].req.key IN
    /\ pc[w] = "insert"
    /\ rows' = [rows EXCEPT ![k] = [id |-> me[w].req.id, cid |-> None,
                                    status |-> "pending", past |-> FALSE]]
    /\ Call(w, me[w], "ensure", [key |-> k, id |-> me[w].req.id, cid |-> None])
    /\ UNCHANGED <<tracked, docker, late, calls, faults, orphaned>>

\* The INSERT of the pending row: UNIQUE (challenge_id, owner_type, owner_id).
InsertRow(w) ==
    LET k == me[w].req.key IN
    /\ pc[w] = "insert"
    /\ \/ /\ rows[k] = NoRow
          /\ rows' = [rows EXCEPT ![k] = [id |-> me[w].req.id, cid |-> None,
                                          status |-> "pending", past |-> FALSE]]
          /\ Call(w, me[w], "ensure", [key |-> k, id |-> me[w].req.id, cid |-> None])
       \/ /\ rows[k] # NoRow
          /\ Return(w) /\ UNCHANGED rows
    /\ UNCHANGED <<tracked, docker, late, calls, faults, orphaned>>

\* Mutant: a failed spawn keeps its row.
EndSpawnKeep(w) ==
    LET i == me[w].req IN
    /\ pc[w] = "answer" /\ me[w].op = "spawn"
    /\ IF Present(i) /\ me[w].ok
       THEN rows' = [rows EXCEPT ![i.key].cid = i.cid, ![i.key].status = "running"]
       ELSE UNCHANGED rows
    /\ Return(w)
    /\ UNCHANGED <<tracked, docker, late, calls, faults, orphaned>>

\* Mutant: the row takes the status the daemon answered.
EndSpawnStatus(w) ==
    LET i == me[w].req IN
    /\ pc[w] = "answer" /\ me[w].op = "spawn"
    /\ \/ /\ Present(i) /\ me[w].ok
          /\ rows' = [rows EXCEPT ![i.key].cid = i.cid, ![i.key].status = me[w].st]
       \/ /\ Present(i) /\ ~ me[w].ok
          /\ rows' = [rows EXCEPT ![i.key] = NoRow]
       \/ ~ Present(i) /\ UNCHANGED rows
    /\ Return(w)
    /\ UNCHANGED <<tracked, docker, late, calls, faults, orphaned>>

\* The answer goes into the row the request inserted; an error deletes that row.
\* If somebody deleted it meanwhile, the commit fails and nothing changes.
EndSpawn(w) ==
    LET i == me[w].req IN
    /\ pc[w] = "answer" /\ me[w].op = "spawn"
    /\ \/ /\ Present(i) /\ me[w].ok
          /\ rows' = [rows EXCEPT ![i.key].cid = i.cid, ![i.key].status = "running"]
       \/ /\ Present(i) /\ ~ me[w].ok
          /\ rows' = [rows EXCEPT ![i.key] = NoRow]
       \/ ~ Present(i) /\ UNCHANGED rows
    /\ Return(w)
    /\ UNCHANGED <<tracked, docker, late, calls, faults, orphaned>>

-----------------------------------------------------------------------------
\* teardown_instance (user), force_teardown (admin), kill_switch, extend_instance.

\* A row without a container_id costs no RPC.
TeardownAs(w, route) ==
    /\ Enter(w, route)
    /\ \E k \in Keys :
         /\ rows[k] # NoRow
         /\ LET m == [NoMe EXCEPT !.op = route] i == Held(k) IN
            IF i.cid # None
            THEN Call(w, m, "release", i)
            ELSE Goto(w, "answer", [m EXCEPT !.req.key = k, !.req.id = i.id, !.ok = TRUE])
    /\ UNCHANGED rows

Teardown(w) == TeardownAs(w, "teardown")
ForceTeardown(w) == TeardownAs(w, "force")

\* A participant's teardown deletes the row whatever the answer, an admin's only
\* if the RPC succeeded; {"removed": False} is a success.
EndTeardown(w) ==
    LET i == me[w].req IN
    /\ pc[w] = "answer" /\ me[w].op \in {"teardown", "force"}
    /\ \/ /\ Present(i) /\ (me[w].op = "teardown" \/ me[w].ok)
          /\ rows' = [rows EXCEPT ![i.key] = NoRow]
       \/ /\ ~ Present(i) \/ (me[w].op = "force" /\ ~ me[w].ok)
          /\ UNCHANGED rows
    /\ Return(w)
    /\ UNCHANGED <<tracked, docker, late, calls, faults, orphaned>>

KillSwitch(w) ==
    /\ Enter(w, "kill")
    /\ Call(w, [NoMe EXCEPT !.op = "kill"], "kill", NoReq)
    /\ UNCHANGED rows

EndKill(w) ==
    /\ pc[w] = "answer" /\ me[w].op = "kill"
    /\ \/ /\ me[w].ok
          /\ rows' = [k \in Keys |-> IF Active(k) THEN NoRow ELSE rows[k]]
       \/ ~ me[w].ok /\ UNCHANGED rows
    /\ Return(w)
    /\ UNCHANGED <<tracked, docker, late, calls, faults, orphaned>>

\* Of any row its owner can name, also one that is already past its TTL.
Extend(w) ==
    /\ Enter(w, "extend")
    /\ \E k \in Keys : /\ rows[k].past
                       /\ rows' = [rows EXCEPT ![k].past = FALSE]
    /\ UNCHANGED <<pc, me>>

-----------------------------------------------------------------------------
\* scheduler.py: _sweep_expired.

\* Mutant: the sweep leaves pending rows alone.
SweepRunning(s) ==
    LET expired == {k \in Keys : rows[k].past /\ rows[k].status = "running"} IN
    /\ s \in Sweepers /\ pc[s] = "idle"
    /\ expired # {}
    /\ Goto(s, "sweep", [NoMe EXCEPT !.op = "sweep", !.todo = {Held(k) : k \in expired}])
    /\ UNCHANGED <<rows, tracked, docker, late, calls, faults, orphaned>>

\* The rows past their TTL, as they are now.
SweepExpired(s) ==
    LET expired == {k \in Keys : rows[k].past /\ Active(k)} IN
    /\ s \in Sweepers /\ pc[s] = "idle"
    /\ expired # {}
    /\ Goto(s, "sweep", [NoMe EXCEPT !.op = "sweep", !.todo = {Held(k) : k \in expired}])
    /\ UNCHANGED <<rows, tracked, docker, late, calls, faults, orphaned>>

SweepNext(s) ==
    /\ pc[s] = "sweep"
    /\ \E i \in me[s].todo :
         LET m == [me[s] EXCEPT !.todo = @ \ {i}] IN
         IF i.cid # None THEN Call(s, m, "release", i)
                         ELSE Goto(s, "sweep", [m EXCEPT !.dels = @ \cup {i}])
    /\ UNCHANGED <<rows, tracked, docker, late, calls, faults, orphaned>>

SweepAnswer(s) ==
    LET m == me[s]
        i == [key |-> m.req.key, id |-> m.req.id, cid |-> m.req.cid]
    IN
    /\ pc[s] = "answer" /\ m.op = "sweep"
    /\ Goto(s, "sweep", IF m.ok THEN [m EXCEPT !.dels = @ \cup {i}]
                                ELSE [m EXCEPT !.errs = @ \cup {i}])
    /\ UNCHANGED <<rows, tracked, docker, late, calls, faults, orphaned>>

\* One transaction for the whole sweep.  To delete a row that is gone is a
\* warning; to update one fails it all.
Commit(dels, updates, status) ==
    IF \A i \in updates : Present(i)
    THEN rows' = [k \in Keys |->
           IF \E i \in dels : i.key = k /\ i.id = rows[k].id THEN NoRow
           ELSE IF \E i \in updates : i.key = k /\ status[i.key] # "same"
           THEN [rows[k] EXCEPT !.status = status[k]] ELSE rows[k]]
    ELSE UNCHANGED rows

SweepCommit(s) ==
    /\ pc[s] = "sweep" /\ me[s].todo = {}
    /\ Commit(me[s].dels, me[s].errs, [k \in Keys |-> "error"])
    /\ Return(s)
    /\ UNCHANGED <<tracked, docker, late, calls, faults, orphaned>>

-----------------------------------------------------------------------------
\* scheduler.py: _reconcile.

Reconcile(r) ==
    /\ r \in Reconcilers /\ pc[r] = "idle"
    /\ Call(r, [NoMe EXCEPT !.op = "reconcile"], "reconcile", NoReq)
    /\ UNCHANGED <<rows, tracked, docker, late, calls, faults, orphaned>>

\* The query comes after the answer; rows without a container_id are left alone.
ReconcileQuery(r) ==
    /\ pc[r] = "answer" /\ me[r].op = "reconcile"
    /\ \/ /\ me[r].ok
          /\ Goto(r, "apply", [me[r] EXCEPT !.todo =
                       {Held(k) : k \in {k \in Keys : Active(k) /\ rows[k].cid # None}}])
       \/ ~ me[r].ok /\ Return(r)
    /\ UNCHANGED <<rows, tracked, docker, late, calls, faults, orphaned>>

\* Mutant: a row whose container is gone is only marked.
ReconcileCommitMark(r) ==
    LET live == {me[r].live[k].cid : k \in Keys}
        here == {i \in me[r].todo : i.cid \in live}
    IN
    /\ pc[r] = "apply"
    /\ Commit({}, here, [k \in Keys |-> IF me[r].live[k].st = "running" THEN "same" ELSE "stopped"])
    /\ Return(r)
    /\ UNCHANGED <<tracked, docker, late, calls, faults, orphaned>>

\* A row the daemon does not list is deleted, one that does not run is stopped,
\* and last_reconciled_at is written to all the others.
ReconcileCommit(r) ==
    LET live == {me[r].live[k].cid : k \in Keys}
        here == {i \in me[r].todo : i.cid \in live}
    IN
    /\ pc[r] = "apply"
    /\ Commit(me[r].todo \ here, here,
              [k \in Keys |-> IF me[r].live[k].st = "running" THEN "same" ELSE "stopped"])
    /\ Return(r)
    /\ UNCHANGED <<tracked, docker, late, calls, faults, orphaned>>

-----------------------------------------------------------------------------
\* The daemon.  A request has a set of outcomes: the daemon's table, Docker and
\* the answer afterwards, and the fault it took.

Outcome(t, d, c, fault, ok) ==
    [tracked |-> t, docker |-> d, cid |-> c, ok |-> ok, fault |-> fault]

FreshCid == LET unused == {c \in Cids : docker[c] = "unused"} IN
            IF unused = {} THEN {} ELSE {CHOOSE c \in unused : TRUE}

\* Mutant: a failed spawn leaves its container in the table.
EnsuredHalf(r) ==
    IF tracked[r.key].cid # None
    THEN {Outcome(tracked, docker, tracked[r.key].cid, "none", TRUE)}
    ELSE {Outcome([tracked EXCEPT ![r.key] = [cid |-> c, st |-> "running"]],
                  [docker EXCEPT ![c] = "running"], c, f, f = "none")
            : c \in FreshCid, f \in {"none", "spawn"}}

\* An existing instance is the answer, whatever state it is in.
Ensured(r) ==
    IF tracked[r.key].cid # None
    THEN {Outcome(tracked, docker, tracked[r.key].cid, "none", TRUE)}
    ELSE {Outcome([tracked EXCEPT ![r.key] = [cid |-> c, st |-> "running"]],
                  [docker EXCEPT ![c] = "running"], c, "none", TRUE) : c \in FreshCid}
         \cup {Outcome(tracked, docker, None, "spawn", FALSE)}

Untrack(C) == [k \in Keys |-> IF tracked[k].cid \in C THEN Absent ELSE tracked[k]]
Removed(C) == [c \in Cids |-> IF c \in C THEN "gone" ELSE docker[c]]
\* Docker refuses to stop c, or to remove it once it has stopped.
Refused(c, C) == {Removed(C), [Removed(C) EXCEPT ![c] = "exited"]}

\* When Docker refuses, the answer is {"removed": False}: not an error.
Released(r) ==
    {Outcome(Untrack({r.cid}), Removed({r.cid}), r.cid, "none", TRUE)}
    \cup IF docker[r.cid] = "gone" THEN {}
         ELSE {Outcome(tracked, d, r.cid, "docker", TRUE) : d \in Refused(r.cid, {})}

\* Mutant: a container Docker refused to remove loses its row too.
KilledForgets ==
    LET C == {tracked[k].cid : k \in {k \in Keys : tracked[k].st = "running"}} IN
    {Outcome(Untrack(C), Removed(D), None, IF D = C THEN "none" ELSE "docker", TRUE)
        : D \in {C} \cup {C \ {c} : c \in {c \in C : docker[c] # "gone"}}}

\* teardown_all: the instances whose status is 'running'.
Killed ==
    LET C == {tracked[k].cid : k \in {k \in Keys : tracked[k].st = "running"}} IN
    {Outcome(Untrack(C), Removed(C), None, "none", TRUE)}
    \cup UNION {{Outcome(Untrack(C \ {c}), d, None, "docker", TRUE) : d \in Refused(c, C \ {c})}
                  : c \in {c \in C : docker[c] # "gone"}}

\* reconcile: the same instances are pruned or get Docker's status, but for one
\* that Docker does not answer for.
Pruned(skipped) ==
    [k \in Keys |-> IF tracked[k].st # "running" \/ k \in skipped THEN tracked[k]
                    ELSE IF docker[tracked[k].cid] = "gone" THEN Absent
                    ELSE [tracked[k] EXCEPT !.st = docker[tracked[k].cid]]]
Reconciled ==
    {Outcome(Pruned({}), docker, None, "none", TRUE)}
    \cup {Outcome(Pruned({k}), docker, None, "docker", TRUE) :
             k \in {k \in Keys : tracked[k].st = "running"}}

Executed(r) ==
    CASE r.op = "ensure"    -> Ensured(r)
      [] r.op = "release"   -> Released(r)
      [] r.op = "kill"      -> Killed
      [] r.op = "reconcile" -> Reconciled

\* After its work every handler but reconcile rebuilds the firewall, and answers
\* with an error if that fails.
Outcomes(r) ==
    Executed(r) \cup
    {[o EXCEPT !.ok = FALSE, !.fault = "firewall"] :
        o \in {o \in Executed(r) : o.fault = "none" /\ r.op # "reconcile"}}

Execute(o) ==
    /\ tracked' = o.tracked /\ docker' = o.docker
    /\ IF o.fault = "none" THEN UNCHANGED faults ELSE Fault(o.fault)

Serve(p) ==
    /\ pc[p] = "wait"
    /\ \E o \in Outcomes(me[p].req) :
         LET c == IF me[p].op = "spawn" THEN o.cid ELSE me[p].req.cid IN
         /\ Execute(o)
         /\ Goto(p, "answer",
                 [me[p] EXCEPT !.ok = o.ok, !.req.cid = c,
                    !.st = IF me[p].op = "spawn" THEN o.tracked[me[p].req.key].st ELSE @,
                    !.live = IF me[p].op = "reconcile" THEN o.tracked ELSE @])
    /\ UNCHANGED <<rows, late, calls, orphaned>>

ServeLate(r) ==
    /\ r \in late
    /\ \E o \in Outcomes(r) : Execute(o)
    /\ late' = late \ {r}
    /\ UNCHANGED <<rows, pc, me, calls, orphaned>>

-----------------------------------------------------------------------------
\* What else can happen.

\* The caller gives up waiting; the daemon does not know.
Timeout(p) ==
    /\ pc[p] = "wait" /\ Fault("timeout")
    /\ late' = late \cup {me[p].req}
    /\ Goto(p, "answer", [me[p] EXCEPT !.ok = FALSE])
    /\ UNCHANGED <<rows, tracked, docker, calls, orphaned>>

\* The socket is missing, or the daemon dies before it does anything.
Unavailable(p) ==
    /\ pc[p] = "wait" /\ Fault("down")
    /\ Goto(p, "answer", [me[p] EXCEPT !.ok = FALSE])
    /\ UNCHANGED <<rows, tracked, docker, late, calls, orphaned>>

\* A worker process dies; its uncommitted work is rolled back.
Die(p) ==
    /\ pc[p] # "idle" /\ Fault("die")
    /\ late' = IF pc[p] = "wait" THEN late \cup {me[p].req} ELSE late
    /\ orphaned' = IF pc[p] \in {"wait", "answer"} /\ me[p].op = "spawn"
                   THEN orphaned \cup {me[p].req.id} ELSE orphaned
    /\ Return(p)
    /\ UNCHANGED <<rows, tracked, docker, calls>>

\* The TTL of a row runs out.
Expire(k) ==
    /\ rows[k] # NoRow /\ ~ rows[k].past
    /\ rows' = [rows EXCEPT ![k].past = TRUE]
    /\ UNCHANGED <<tracked, docker, late, pc, me, calls, faults, orphaned>>

\* A container stops, or is removed by hand.
DockerEvent ==
    /\ \E c \in Cids :
         \/ docker[c] = "running" /\ Fault("exit") /\ docker' = [docker EXCEPT ![c] = "exited"]
         \/ docker[c] \in {"running", "exited"} /\ Fault("remove")
            /\ docker' = [docker EXCEPT ![c] = "gone"]
    /\ UNCHANGED <<rows, tracked, late, pc, me, calls, orphaned>>

-----------------------------------------------------------------------------
Request(w) == Spawn(w) \/ Teardown(w) \/ ForceTeardown(w) \/ KillSwitch(w) \/ Extend(w)

\* A process goes on with what it has begun.
Continue(p) ==
    \/ InsertRow(p) \/ EndSpawn(p) \/ EndTeardown(p) \/ EndKill(p)
    \/ SweepNext(p) \/ SweepAnswer(p) \/ SweepCommit(p)
    \/ ReconcileQuery(p) \/ ReconcileCommit(p)

Job(p) == SweepExpired(p) \/ Reconcile(p)

Next ==
    \/ \E w \in Workers : Request(w)
    \/ \E p \in Procs : \/ Continue(p) \/ Job(p) \/ Serve(p)
                        \/ Timeout(p) \/ Unavailable(p) \/ Die(p)
    \/ \E r \in late : ServeLate(r)
    \/ \E k \in Keys : Expire(k)
    \/ DockerEvent

Spec == Init /\ [][Next]_vars

\* The rows a process works on.  The kill switch and the reconciler work on all.
WorksAt(l, m) ==
    IF l = "idle" THEN {}
    ELSE IF m.op \in {"kill", "reconcile"} THEN Keys
    ELSE (IF l = "sweep" THEN {} ELSE {m.req.key})
         \cup {i.key : i \in m.todo \cup m.dels \cup m.errs}
Works(p) == WorksAt(pc[p], me[p])

\* No two processes work on one row at once: what "one request at a time per
\* instance" would be, which nothing in the plugin sees to.
KeysApart == \A p, q \in Procs : p # q => Works(p) \cap Works(q) = {}
OrderlySpec == Init /\ [][Next /\ KeysApart']_vars

\* Processes go on, the daemon answers, the jobs come round.
FairSpec ==
    /\ Spec
    /\ \A p \in Procs : WF_vars(Continue(p)) /\ WF_vars(Job(p)) /\ WF_vars(Serve(p))

-----------------------------------------------------------------------------
\* Properties.

RowType  == [id : Ids \cup {0}, cid : Cids \cup {None}, past : BOOLEAN,
             status : {"none", "pending", "running", "stopped", "error"}]
TrackType == [cid : Cids \cup {None}, st : {"running", "exited", "gone"}]
HeldType == [key : Keys, id : Ids, cid : Cids \cup {None}]
ReqType  == [op : {"none", "ensure", "release", "kill", "reconcile"},
             key : Keys \cup {None}, cid : Cids \cup {None}, id : Ids \cup {0}]
MeType   == [req : ReqType, op : AllRoutes \cup {"none", "sweep", "reconcile"},
             ok : BOOLEAN, st : {"running", "exited", "gone"}, live : [Keys -> TrackType],
             todo : SUBSET HeldType, dels : SUBSET HeldType, errs : SUBSET HeldType]
Pcs == {"idle", "insert", "wait", "answer", "sweep", "apply"}

\* The types of the tables, the requests and the processes' locals.
TypeOK ==
    /\ rows \in [Keys -> RowType]
    /\ tracked \in [Keys -> TrackType]
    /\ docker \in [Cids -> {"unused", "running", "exited", "gone"}]
    /\ late \subseteq ReqType
    /\ pc \in [Procs -> Pcs]
    /\ me \in [Procs -> MeType]
    /\ calls \in 0..MaxCalls /\ faults \in 0..MaxFaults
    /\ orphaned \subseteq Ids

\* Process p answers for the pending row of k: it inserted that very row.
Attends(p, k) ==
    /\ pc[p] \in {"wait", "answer"} /\ me[p].op = "spawn"
    /\ me[p].req.key = k /\ me[p].req.id = rows[k].id

\* A pending row would "permanently occupy the UNIQUE constraint": there is none
\* unless the request that inserted it is still at work, or its worker died.
PendingAccounted ==
    \A k \in Keys : rows[k].status = "pending" =>
        (\E p \in Procs : Attends(p, k)) \/ rows[k].id \in orphaned

\* What the requests, the processes and the two tables have to be for that and
\* for the refinement below to stay true.
ReqOK(r) ==
    /\ r.op # "none"
    /\ r.op \in {"ensure", "release"} => r.key \in Keys /\ r.id \in Ids
    /\ r.op = "release" => r.cid \in Cids
ProcOK(l, m) ==
    /\ l = "wait" => ReqOK(m.req)
    /\ l = "insert" => m.op = "spawn"
    /\ l \in {"insert", "wait", "answer"} /\ m.op \in {"spawn", "teardown", "force", "sweep"}
         => m.req.key \in Keys /\ m.req.id \in Ids
RowsOK == \A k \in Keys : rows[k] = NoRow \/ rows[k].id \in Ids
TrackedOK(t, d) ==
    /\ \A k \in Keys : t[k] = Absent \/ (t[k].cid \in Cids /\ d[t[k].cid] # "unused")
    /\ \A j, k \in Keys : t[j].cid = t[k].cid /\ t[k].cid # None => j = k

\* The inductive invariant of PendingAccounted and of ImplementsTable.
IInv ==
    /\ TypeOK /\ PendingAccounted /\ RowsOK /\ TrackedOK(tracked, docker)
    /\ \A p \in Procs : ProcOK(pc[p], me[p])
    /\ \A r \in late : ReqOK(r)

\* The count and the insertion are two statements: of the requests that passed the
\* count together, all but one may go over the cap, and no more than that.
CapBounded == \A o \in Owners : Cardinality(ActiveOf(o)) < Cap + Cardinality(Workers)

\* "global per-owner container cap": an owner's active rows never exceed it.
CapHolds == \A o \in Owners : Cardinality(ActiveOf(o)) <= Cap

\* What this module takes the daemon to do is what module Containers was shown to
\* do: the outcomes of an RPC are steps of the table both implement.
Table == INSTANCE InstanceTable WITH table <- [k \in Keys |-> tracked[k].cid],
                                     gone <- {c \in Cids : docker[c] = "gone"}
ImplementsTable == Table!Spec

Quiet == \A p \in Procs : pc[p] = "idle"

\* While no two processes work on one key, and the daemon answers, the plugin's rows
\* and the daemon's table name the same containers whenever all are done.
QuietAgree == Quiet => \A k \in Keys : rows[k].cid = tracked[k].cid

\* The reserved row "closes the double-click race": the daemon never has two
\* spawns of one owner and challenge to execute.
EnsuresOf(k) ==
    {p \in Procs : pc[p] = "wait" /\ me[p].req.op = "ensure" /\ me[p].req.key = k}
LateEnsuresOf(k) == {r \in late : r.op = "ensure" /\ r.key = k}
OneEnsurePerKey ==
    \A k \in Keys : Cardinality(EnsuresOf(k)) + Cardinality(LateEnsuresOf(k)) <= 1

\* "a spawn failure means nothing was ever created": a row deleted for a failed
\* spawn leaves no container behind, now or later.
SpawnFailsClean ==
    [][\A w \in Workers, k \in Keys :
          /\ pc[w] = "answer" /\ me[w].op = "spawn" /\ me[w].req.key = k
          /\ rows[k] # NoRow /\ rows'[k] = NoRow
          => tracked[k].cid = None /\ LateEnsuresOf(k) = {}]_vars

\* "Confirmed gone": the reconciler deletes no row whose container the daemon has.
ReconcileConfirmed ==
    [][\A r \in Reconcilers, k \in Keys :
          pc[r] = "apply" /\ pc'[r] = "idle" /\ rows[k] # NoRow /\ rows'[k] = NoRow
          => tracked[k].cid # rows[k].cid]_vars

\* The sweep tears down "any instance whose expires_at is in the past", no other.
SweepOnlyExpired ==
    [][\A s \in Sweepers, k \in Keys :
          pc[s] = "sweep" /\ pc'[s] = "idle" /\ rows[k] # NoRow /\ rows'[k] = NoRow
          => rows[k].past]_vars

\* A failed teardown is "not something to silently sweep away": the sweep only
\* forgets a row once its container is gone.
SweepKeepsFailed ==
    [][\A s \in Sweepers : pc[s] = "sweep" /\ pc'[s] = "idle" /\ rows' # rows
          => \A i \in me[s].dels : i.cid # None => docker[i.cid] = "gone"]_vars

\* A spawn never takes a "stale, no-longer-running instance" of the daemon for
\* the one it asked for.
SpawnedRuns ==
    [][\A w \in Workers, k \in Keys :
          /\ pc[w] = "answer" /\ me[w].op = "spawn" /\ me[w].req.key = k
          /\ rows[k].status = "pending" /\ rows'[k].status = "running"
          => me[w].st = "running"]_vars

\* The reconciler heals a row whose container is gone, long before its TTL: time
\* need not pass for it.
RowsHeal ==
    \A k \in Keys :
        (rows[k].status = "running" /\ docker[rows[k].cid] = "gone")
          ~> ~ (rows[k].status = "running" /\ docker[rows[k].cid] = "gone")

\* No row stays pending for ever, whatever became of its request: once its TTL is
\* over the sweep comes for it.
Overdue(k) == rows[k].status = "pending" /\ rows[k].past
PendingResolves == \A k \in Keys : Overdue(k) ~> ~ Overdue(k)

\* "the reconciler heals any drift if the container is somehow still alive": a
\* container that runs without a row does not do so for ever.
Unowned(c) == docker[c] = "running" /\ \A k \in Keys : rows[k].cid # c
AliveHealed == \A c \in Cids : Unowned(c) ~> ~ Unowned(c)
=============================================================================
