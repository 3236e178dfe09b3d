---------------------------- MODULE FlagProgress ----------------------------
(***************************************************************************)
(* The flags one owner has found of one challenge: table EdoFlagSolve,     *)
(* CTFd's Solves and Fails, the route submit_flag of api/user.py, the      *)
(* fallback attempt/solve/fail of challenge_type.py that CTFd's own route  *)
(* calls, and the admin's reset_owner_progress.                            *)
(*                                                                         *)
(* Owners never share rows, so one owner stands for all; its members       *)
(* submit at the same time, each from a worker process.  The database of   *)
(* docker/docker-compose.yml is MariaDB: all reads of a transaction see    *)
(* the state at its first read (a snapshot), while an INSERT is checked    *)
(* against the unique keys as they are.  A step of this module is thus     *)
(* what a transaction reads, or the commit of what it writes.              *)
(***************************************************************************)
EXTENDS Naturals, FiniteSets

CONSTANTS
    Members,      \* the processes that serve the owner's members
    Admins,       \* the processes that serve admins
    Flags,        \* the challenge's flags
    Wrong,        \* stands for every submission that matches no flag
    MaxAttempts,  \* challenge.max_attempts; 0 is no limit
    MaxCalls,     \* bound: requests
    MaxDeaths     \* bound: workers that die

ASSUME FlagsAssumption ==
    /\ IsFiniteSet(Flags) /\ Flags # {} /\ Wrong \notin Flags
    /\ IsFiniteSet(Members) /\ Members \cap Admins = {}
    /\ MaxAttempts \in Nat /\ MaxCalls \in Nat /\ MaxDeaths \in Nat

Procs == Members \cup Admins

VARIABLES
    found,    \* table edo_flag_solves: the flags found
    solved,   \* table solves: the owner's row for the challenge exists
    fails,    \* table fails: how many rows
    pc, loc,  \* each process's next step, its submission and what it read
    calls, deaths,  \* counters for the two bounds
    resets          \* ghost: how often an admin has reset the owner's progress

vars == <<found, solved, fails, pc, loc, calls, deaths, resets>>

\* seen: whether the transaction's snapshot has the Solves row.
NoLoc == [sub |-> Wrong, seen |-> FALSE]

Init ==
    /\ found = {} /\ solved = FALSE /\ fails = 0
    /\ pc = [p \in Procs |-> "idle"]
    /\ loc = [p \in Procs |-> NoLoc]
    /\ calls = 0 /\ deaths = 0 /\ resets = 0

Goto(p, l, m) == pc' = [pc EXCEPT ![p] = l] /\ loc' = [loc EXCEPT ![p] = m]
Return(p) == Goto(p, "idle", NoLoc)

Enter(p) == pc[p] = "idle" /\ calls < MaxCalls /\ calls' = calls + 1

AttemptsLeft == MaxAttempts = 0 \/ fails < MaxAttempts

-----------------------------------------------------------------------------
\* api/user.py: submit_flag.

\* Mutant: max_attempts is not looked at.
SubmitUnlimited(p) ==
    /\ p \in Members
    /\ Enter(p)
    /\ \E s \in Flags \cup {Wrong} :
         \/ s = Wrong /\ Goto(p, "fail", [NoLoc EXCEPT !.sub = s])
         \/ s \in found /\ Return(p)
         \/ s \in Flags \ found /\ Goto(p, "record", [NoLoc EXCEPT !.sub = s])
    /\ UNCHANGED <<found, solved, fails, deaths, resets>>

\* Mutant: a submission that matches no flag is recorded like one that does.
SubmitAny(p) ==
    /\ p \in Members
    /\ Enter(p)
    /\ \E s \in Flags \cup {Wrong} :
         Goto(p, IF s \in found THEN "fail" ELSE "record", [NoLoc EXCEPT !.sub = s])
    /\ UNCHANGED <<found, solved, fails, deaths, resets>>

\* What the first transaction reads decides between refusal, a wrong answer, a
\* flag found before, and a find.
Submit(p) ==
    /\ p \in Members
    /\ Enter(p)
    /\ \E s \in Flags \cup {Wrong} :
         \/ ~ AttemptsLeft /\ Return(p)
         \/ AttemptsLeft /\ s = Wrong /\ Goto(p, "fail", [NoLoc EXCEPT !.sub = s])
         \/ AttemptsLeft /\ s \in found /\ Return(p)
         \/ AttemptsLeft /\ s \in Flags \ found /\ Goto(p, "record", [NoLoc EXCEPT !.sub = s])
    /\ UNCHANGED <<found, solved, fails, deaths, resets>>

\* The INSERT of the find; a teammate may have inserted it since.
Record(p) ==
    /\ pc[p] = "record"
    /\ \/ loc[p].sub \in found /\ Return(p) /\ UNCHANGED found
       \/ /\ loc[p].sub \notin found
          /\ found' = found \cup {loc[p].sub}
          /\ Goto(p, "progress", loc[p])
    /\ UNCHANGED <<solved, fails, calls, deaths, resets>>

\* Mutant: the set is complete only beyond its last flag.
ProgressStrict(p) ==
    /\ pc[p] = "progress"
    /\ IF Cardinality(found) > Cardinality(Flags)
       THEN Goto(p, "solve", [loc[p] EXCEPT !.seen = solved]) ELSE Return(p)
    /\ UNCHANGED <<found, solved, fails, calls, deaths, resets>>

\* Mutant: one flag short counts as complete.
ProgressEarly(p) ==
    /\ pc[p] = "progress"
    /\ IF Cardinality(found) + 1 >= Cardinality(Flags)
       THEN Goto(p, "solve", [loc[p] EXCEPT !.seen = solved]) ELSE Return(p)
    /\ UNCHANGED <<found, solved, fails, calls, deaths, resets>>

\* owner_progress reads in the transaction after that commit, and so does
\* _insert_ctfd_solve its look-up of a Solves row.
Progress(p) ==
    /\ pc[p] = "progress"
    /\ IF Cardinality(found) >= Cardinality(Flags)
       THEN Goto(p, "solve", [loc[p] EXCEPT !.seen = solved]) ELSE Return(p)
    /\ UNCHANGED <<found, solved, fails, calls, deaths, resets>>

\* CTFd's unique key refuses a second Solves row of the owner.
InsertSolve(p) ==
    /\ pc[p] = "solve"
    /\ solved' = (solved \/ ~ loc[p].seen)
    /\ Return(p)
    /\ UNCHANGED <<found, fails, calls, deaths, resets>>

InsertFail(p) ==
    /\ pc[p] = "fail"
    /\ fails' = fails + 1
    /\ Return(p)
    /\ UNCHANGED <<found, solved, calls, deaths, resets>>

-----------------------------------------------------------------------------
\* challenge_type.py, under CTFd's own route: no attempt once there is a Solves
\* row; attempt() decides from one snapshot; solve() or fail() follows.

Completes(s) == s \in Flags \ found /\ Cardinality(found) + 1 >= Cardinality(Flags)

Native(p) ==
    /\ p \in Members
    /\ ~ solved /\ AttemptsLeft
    /\ Enter(p)
    /\ \E s \in Flags \cup {Wrong} :
         Goto(p, IF Completes(s) THEN "credit" ELSE "fail", [NoLoc EXCEPT !.sub = s])
    /\ UNCHANGED <<found, solved, fails, deaths, resets>>

\* solve(): record_flag_find looks in the snapshot of attempt(), so it inserts.
Credit(p) ==
    /\ pc[p] = "credit"
    /\ \/ loc[p].sub \in found /\ Return(p) /\ UNCHANGED found
       \/ /\ loc[p].sub \notin found
          /\ found' = found \cup {loc[p].sub}
          /\ Goto(p, "award", loc[p])
    /\ UNCHANGED <<solved, fails, calls, deaths, resets>>

\* solve() goes on to _insert_ctfd_solve without counting again.
Award(p) ==
    /\ pc[p] = "award"
    /\ Goto(p, "solve", [loc[p] EXCEPT !.seen = solved])
    /\ UNCHANGED <<found, solved, fails, calls, deaths, resets>>

-----------------------------------------------------------------------------
\* api/admin.py: reset_owner_progress, one transaction.
Reset(a) ==
    /\ a \in Admins
    /\ Enter(a)
    /\ found' = {} /\ solved' = FALSE
    /\ resets' = resets + 1
    /\ UNCHANGED <<fails, pc, loc, deaths>>

\* A worker dies in the middle of a request.
Die(p) ==
    /\ pc[p] # "idle" /\ deaths < MaxDeaths
    /\ deaths' = deaths + 1
    /\ Return(p)
    /\ UNCHANGED <<found, solved, fails, calls, resets>>

Continue(p) ==
    \/ Record(p) \/ Progress(p) \/ InsertSolve(p) \/ InsertFail(p)
    \/ Credit(p) \/ Award(p)

Next == \E p \in Procs : Submit(p) \/ Native(p) \/ Continue(p) \/ Reset(p) \/ Die(p)

Spec == Init /\ [][Next]_vars

-----------------------------------------------------------------------------
\* Properties.

LocType == [sub : Flags \cup {Wrong}, seen : BOOLEAN]
Pcs == {"idle", "record", "progress", "solve", "fail", "credit", "award"}

\* The types of the tables and of what the processes read.
TypeOK ==
    /\ found \subseteq Flags /\ solved \in BOOLEAN /\ fails \in Nat
    /\ pc \in [Procs -> Pcs]
    /\ loc \in [Procs -> LocType]
    /\ \A p \in Procs : pc[p] \in {"record", "credit"} => loc[p].sub \in Flags
    /\ calls \in 0..MaxCalls /\ deaths \in 0..MaxDeaths /\ resets \in Nat

\* No over-award, "full credit for a partial find": without a reset, a Solves row
\* stands for the whole set of flags.
NoOverAward == resets = 0 /\ solved => found = Flags

\* No under-award: the whole set without its Solves row is in the hands of a
\* request that is about to insert it, or a worker has died.
Awarding(p) == pc[p] \in {"progress", "award"} \/ (pc[p] = "solve" /\ ~ loc[p].seen)
NoUnderAward == found = Flags /\ ~ solved => deaths > 0 \/ \E p \in Procs : Awarding(p)

\* challenge_type.py: an award is never made short of the full set.
AwardExact == solved => found = Flags

\* max_attempts is read before the failure is recorded: requests that pass the
\* check together exceed it, by at most one less than there are members.
AttemptsBounded == MaxAttempts # 0 => fails < MaxAttempts + Cardinality(Members)

\* Why they hold.  Whoever is past the check of completeness still sees a
\* complete set: without a reset, finds are only ever added.
OverInv ==
    resets = 0 =>
      /\ solved => found = Flags
      /\ \A p \in Procs : pc[p] \in {"award", "solve"} => found = Flags
      /\ \A p \in Procs : pc[p] = "credit" => found \cup {loc[p].sub} = Flags

\* The failures recorded and those under way were let through by a check that
\* counted fewer than MaxAttempts.
Failing == {p \in Members : pc[p] = "fail"}
AttemptsInv ==
    /\ \A a \in Admins : pc[a] = "idle"
    /\ MaxAttempts # 0 => fails + Cardinality(Failing) < MaxAttempts + Cardinality(Members)

IInv == TypeOK /\ OverInv /\ NoUnderAward /\ AttemptsInv
=============================================================================
