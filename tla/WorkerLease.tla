----------------------------- MODULE WorkerLease -----------------------------
(***************************************************************************)
(* Leader election of the plugin's background jobs: scheduler.py and the   *)
(* table EdoWorkerLease.  Every gunicorn worker process runs its own       *)
(* scheduler; at each tick of a job it tries to win the job's lease and    *)
(* runs the job if it does.  One lease is modelled: the two jobs use two   *)
(* rows that never meet.                                                   *)
(*                                                                         *)
(* Time is the clock of the host, which all workers read, in whole units.  *)
(* Between reading it and the UPDATE a worker may be delayed for any time. *)
(***************************************************************************)
EXTENDS Naturals

CONSTANTS
    Workers,    \* process ids; a restarted process has a new one
    Interval,   \* seconds between two ticks of the job
    MinLease,   \* shortest lease (10 in the code)
    Grace,      \* misfire_grace_time: a later tick is dropped (30 in the code)
    JobMax,     \* longest run of the job, assumed by PromptSpec only
    MaxTime,    \* bound: the clock
    None

ASSUME LeaseAssumption ==
    /\ Interval \in Nat \ {0} /\ MinLease \in Nat /\ Grace \in Nat
    /\ JobMax \in Nat /\ MaxTime \in Nat
    /\ None \notin Workers

VARIABLES
    clock,
    lease,    \* the row: its holder (None: no row yet) and expires_at
    pc,       \* "off", "idle", the steps of _try_acquire_lease, "job", "dead"
    now,      \* each worker's `now` of its latest tick
    grant,    \* the expiry each worker last won
    due,      \* the time of its next tick
    last      \* ghost: when a lease was last won

vars == <<clock, lease, pc, now, grant, due, last>>

Lease == IF 3 * Interval > MinLease THEN 3 * Interval ELSE MinLease

Pcs == {"off", "idle", "update", "select", "insert", "job", "dead"}
Time == 0 .. MaxTime

Init ==
    /\ clock = 0
    /\ lease = [holder |-> None, exp |-> 0]
    /\ pc = [w \in Workers |-> "off"]
    /\ now = [w \in Workers |-> 0]
    /\ grant = [w \in Workers |-> 0]
    /\ due = [w \in Workers |-> 0]
    /\ last = 0

\* start_scheduler: the first tick comes one interval later.
StartScheduler(w) ==
    /\ pc[w] = "off"
    /\ pc' = [pc EXCEPT ![w] = "idle"]
    /\ due' = [due EXCEPT ![w] = clock + Interval]
    /\ UNCHANGED <<clock, lease, now, grant, last>>

\* A tick: d is the first time still to come on the job's grid, d - Interval the
\* last that is due, which stands for all the earlier ones (coalesce).  The
\* scheduler drops a tick that finds the job running or is late beyond Grace.
TickJob(w) ==
    /\ pc[w] \notin {"off", "dead"}
    /\ due[w] <= clock
    /\ \E d \in (clock + 1) .. (clock + Interval) :
         /\ (d - due[w]) % Interval = 0
         /\ due' = [due EXCEPT ![w] = d]
         /\ IF pc[w] = "idle" /\ clock + Interval <= d + Grace
            THEN pc' = [pc EXCEPT ![w] = "update"] /\ now' = [now EXCEPT ![w] = clock]
            ELSE UNCHANGED <<pc, now>>
    /\ UNCHANGED <<clock, lease, grant, last>>

Win(w) ==
    /\ lease' = [holder |-> w, exp |-> now[w] + Lease]
    /\ grant' = [grant EXCEPT ![w] = now[w] + Lease]
    /\ pc' = [pc EXCEPT ![w] = "job"]
    /\ last' = clock

\* Mutant: a lease that expires at this very moment is taken over.
RenewableAtExpiry(w) ==
    lease.holder # None /\ (lease.exp <= now[w] \/ lease.holder = w)

\* Mutant: an expired lease is only renewed by its holder.
RenewableByHolder(w) == lease.holder = w

\* The WHERE of the conditional UPDATE.
Renewable(w) == lease.holder # None /\ (lease.exp < now[w] \/ lease.holder = w)

\* Mutant: the WHERE does not look at who holds the lease, nor since when.
UpdateLeaseBlindly(w) ==
    /\ pc[w] = "update"
    /\ IF lease.holder # None
       THEN Win(w)
       ELSE pc' = [pc EXCEPT ![w] = "select"] /\ UNCHANGED <<lease, grant, last>>
    /\ UNCHANGED <<clock, now, due>>

UpdateLease(w) ==
    /\ pc[w] = "update"
    /\ IF Renewable(w)
       THEN Win(w)
       ELSE pc' = [pc EXCEPT ![w] = "select"] /\ UNCHANGED <<lease, grant, last>>
    /\ UNCHANGED <<clock, now, due>>

SelectLease(w) ==
    /\ pc[w] = "select"
    /\ pc' = [pc EXCEPT ![w] = IF lease.holder # None THEN "idle" ELSE "insert"]
    /\ UNCHANGED <<clock, lease, now, grant, due, last>>

\* Mutant: the INSERT replaces a row that came in meanwhile.
InsertLeaseReplacing(w) ==
    /\ pc[w] = "insert"
    /\ Win(w)
    /\ UNCHANGED <<clock, now, due>>

\* The primary key lets one INSERT through; the others lose this tick.
InsertLease(w) ==
    /\ pc[w] = "insert"
    /\ IF lease.holder = None
       THEN Win(w)
       ELSE pc' = [pc EXCEPT ![w] = "idle"] /\ UNCHANGED <<lease, grant, last>>
    /\ UNCHANGED <<clock, now, due>>

FinishJob(w) ==
    /\ pc[w] = "job"
    /\ pc' = [pc EXCEPT ![w] = "idle"]
    /\ UNCHANGED <<clock, lease, now, grant, due, last>>

Die(w) ==
    /\ pc[w] \notin {"off", "dead"}
    /\ pc' = [pc EXCEPT ![w] = "dead"]
    /\ UNCHANGED <<clock, lease, now, grant, due, last>>

Tick ==
    /\ clock < MaxTime
    /\ clock' = clock + 1
    /\ UNCHANGED <<lease, pc, now, grant, due, last>>

WorkerStep(w) ==
    \/ StartScheduler(w) \/ TickJob(w) \/ UpdateLease(w) \/ SelectLease(w)
    \/ InsertLease(w) \/ FinishJob(w) \/ Die(w)

Next == Tick \/ \E w \in Workers : WorkerStep(w)

Spec == Init /\ [][Next]_vars

\* A machine that is not overloaded: ticks are on time, the lease statements
\* take less than a unit and a job at most JobMax.
Prompt ==
    \A w \in Workers : /\ pc[w] \notin {"update", "select", "insert"}
                       /\ pc[w] \in {"idle", "job"} => clock < due[w]
                       /\ pc[w] = "job" => clock < now[w] + JobMax

PromptNext == (Tick /\ Prompt) \/ \E w \in Workers : WorkerStep(w)

PromptSpec == Init /\ [][PromptNext]_vars

-----------------------------------------------------------------------------
\* Properties.

\* The types of the lease row, the clock and the workers' variables.
TypeOK ==
    /\ clock \in Time
    /\ lease \in [holder : Workers \cup {None}, exp : Nat]
    /\ pc \in [Workers -> Pcs]
    /\ now \in [Workers -> Time]
    /\ grant \in [Workers -> Nat]
    /\ due \in [Workers -> Nat]
    /\ last \in Time

\* "at most one concurrent worker wins": two workers never run the job both
\* within a lease they won, however long either is delayed before its UPDATE.
InLease(w) == pc[w] = "job" /\ clock <= grant[w]
LeaseExclusive == \A v, w \in Workers : InLease(v) /\ InLease(w) => v = w

\* expires_at never moves back, also when a delayed worker writes a new expiry
\* computed from an old `now`.
ExpiryAdvances == [][lease'.exp >= lease.exp]_vars

\* A takeover is never earlier than the expiry the former holder was promised.
TakeoverAfterExpiry ==
    [][lease.holder # None /\ lease'.holder # lease.holder => lease.exp < clock]_vars

\* With ticks on time and jobs shorter than a lease, a worker that is up and has
\* ticked once never waits for a leader longer than one lease and one interval.
TakeoverBound ==
    \A w \in Workers : pc[w] = "idle" /\ now[w] > 0 => clock <= last + Lease + Interval

\* Why TakeoverBound holds: the next tick of a worker that waits is within an
\* interval of the last win or of the end of the lease it met, and that of one in
\* the job within an interval of the job's end.
Waits(w) ==
    /\ pc[w] = "off" => now[w] = 0
    /\ pc[w] \in {"idle", "job"} => clock <= due[w]
    /\ pc[w] \in {"update", "select", "insert"} =>
         now[w] = clock /\ due[w] <= now[w] + Interval /\ clock < due[w]
    /\ pc[w] = "select" => lease.holder = None \/ now[w] <= last + Lease
    /\ pc[w] = "insert" => lease.holder = None \/ last = clock
    /\ pc[w] = "job" => /\ now[w] <= last /\ clock <= now[w] + JobMax
                        /\ due[w] <= now[w] + JobMax + Interval
    /\ pc[w] = "idle" /\ now[w] > 0 => due[w] <= last + Lease + Interval

PromptInv ==
    /\ last <= clock
    /\ lease.holder # None => lease.exp <= last + Lease
    /\ \A w \in Workers : Waits(w)

\* "run on exactly one gunicorn worker, not once per worker".
OneWorkerActs == \A v, w \in Workers : pc[v] = "job" /\ pc[w] = "job" => v = w

\* An expiry is what its holder wrote, and a worker still running the job either
\* holds the lease it won or lost it after that one had expired.
LeaseInv ==
    /\ lease.holder \in Workers => lease.exp <= now[lease.holder] + Lease
    /\ lease.holder = None => lease.exp = 0
    /\ \A w \in Workers :
         /\ now[w] <= clock
         /\ pc[w] = "job" => \/ lease.holder = w /\ lease.exp = grant[w]
                             \/ lease.holder # None /\ grant[w] < clock

\* The inductive invariant of LeaseExclusive.
IInv == TypeOK /\ LeaseInv
=============================================================================
