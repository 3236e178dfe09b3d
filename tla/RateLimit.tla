----------------------------- MODULE RateLimit -----------------------------
(***************************************************************************)
(* check_rate_limit of decorators.py, which submit_flag asks first: a      *)
(* sliding window of the requests a process has let through, for one key.  *)
(* Keys share nothing but a lock, and processes nothing at all, so one     *)
(* bucket of one process stands for all.                                   *)
(*                                                                         *)
(* A thread reads the clock before it takes the lock; others may pass it   *)
(* there.  The deque is what the requests let through (`log') leave when   *)
(* the first `head' of them are popped.                                    *)
(***************************************************************************)
EXTENDS Integers, Sequences, FiniteSets

CONSTANTS
    Threads,   \* of one worker process
    Limits,    \* the values of submit_rate_limit; _setting takes 0 for unset
    Second,    \* ticks of the clock in a second
    Window,    \* submit_rate_window, in ticks
    MaxTime,   \* bound: the clock
    MaxCalls   \* bound: requests

ASSUME RateAssumption ==
    /\ IsFiniteSet(Threads) /\ Threads # {}
    /\ Limits \subseteq Nat \ {0}
    /\ Second \in Nat \ {0} /\ Window \in Nat
    /\ MaxTime \in Nat /\ MaxCalls \in Nat

VARIABLES
    clock,     \* time.monotonic()
    limit,     \* the setting, one value for the whole behaviour
    log, head, \* the times let through, and how many the deque has dropped
    pc, now,   \* each thread's next step and what it read from the clock
    calls,     \* requests so far
    latest,    \* ghost: the greatest time any check has used
    due        \* ghost: when a refused client was told to come back, 0 if it need not

vars == <<clock, limit, log, head, pc, now, calls, latest, due>>

Init ==
    /\ clock = 0 /\ limit \in Limits
    /\ log = <<>> /\ head = 0
    /\ pc = [t \in Threads |-> "idle"] /\ now = [t \in Threads |-> 0]
    /\ calls = 0 /\ latest = 0 /\ due = 0

Tick ==
    /\ clock < MaxTime
    /\ clock' = clock + 1
    /\ UNCHANGED <<limit, log, head, pc, now, calls, latest, due>>

Call(t) ==
    /\ pc[t] = "idle" /\ calls < MaxCalls
    /\ calls' = calls + 1
    /\ pc' = [pc EXCEPT ![t] = "check"]
    /\ now' = [now EXCEPT ![t] = clock]
    /\ UNCHANGED <<clock, limit, log, head, latest, due>>

\* Mutant: an entry at the edge of the window is popped too.
PopsEdge(h, time) ==
    /\ h \in head..Len(log)
    /\ \A i \in head + 1 .. h : log[i] <= time - Window
    /\ h < Len(log) => log[h + 1] > time - Window

\* Popping from the left until an entry is not older than the window.
Pops(h, time) ==
    /\ h \in head..Len(log)
    /\ \A i \in head + 1 .. h : log[i] < time - Window
    /\ h < Len(log) => log[h + 1] >= time - Window

\* Mutant: without the + 1.
RetryRounded(r, left) == r * Second <= left /\ left < (r + 1) * Second

\* int(window - (now - bucket[0])) + 1: the first whole second after `left'.
RetryAfter(r, left) == (r - 1) * Second <= left /\ left < r * Second

\* Mutant: one more than the limit.
AllowedOneMore(h) == Len(log) - h <= limit

Allowed(h) == Len(log) - h < limit

Leave(t) ==
    /\ pc' = [pc EXCEPT ![t] = "idle"]
    /\ latest' = IF now[t] > latest THEN now[t] ELSE latest
    /\ UNCHANGED <<clock, limit, now, calls>>

Admit(t) ==
    /\ pc[t] = "check"
    /\ \E h \in head..Len(log) : Pops(h, now[t]) /\ Allowed(h) /\ head' = h
    /\ log' = Append(log, now[t])
    /\ due' = 0
    /\ Leave(t)

\* The answer 429: come back when the oldest entry has left the window.
Refuse(t) ==
    /\ pc[t] = "check"
    /\ \E h \in head..Len(log) :
         /\ Pops(h, now[t]) /\ ~ Allowed(h) /\ head' = h
         /\ \E r \in 0 .. Window + MaxTime + 1 :
              /\ RetryAfter(r, Window - (now[t] - log[h + 1]))
              /\ due' = IF due = 0 THEN now[t] + r * Second ELSE due
    /\ UNCHANGED log
    /\ Leave(t)

Next == Tick \/ \E t \in Threads : Call(t) \/ Admit(t) \/ Refuse(t)

Spec == Init /\ [][Next]_vars

-----------------------------------------------------------------------------
\* Properties.

\* Types; the deque never holds more than the limit.
TypeOK ==
    /\ clock \in 0..MaxTime /\ limit \in Limits /\ calls \in 0..MaxCalls
    /\ log \in Seq(Nat) /\ head \in 0..Len(log) /\ Len(log) - head <= limit
    /\ pc \in [Threads -> {"idle", "check"}] /\ now \in [Threads -> Nat]
    /\ latest \in Nat /\ due \in Nat

\* How many requests were let through at times of the window that ends at `time'.
Within(time) == {i \in DOMAIN log : log[i] \in time - Window .. time}

\* "In-process token bucket": of the requests that read the clock in one window,
\* the process lets through at most the limit, and one more for each other
\* thread that was overtaken on its way to the lock.
WindowBound ==
    \A time \in 0..MaxTime : Cardinality(Within(time)) <= limit + Cardinality(Threads) - 1

\* retry_after is honest: a refused client that asks again then is let through,
\* whoever else was refused meanwhile, unless somebody was let through.
RetryHonest ==
    due > 0 => \A h \in head..Len(log) : Pops(h, due) => Allowed(h)

\* "A sliding window": never more than the limit within one.
WindowExact == \A time \in 0..MaxTime : Cardinality(Within(time)) <= limit

\* Why they hold.  What was popped is older than the window of some check; once a
\* check has gone beyond a window, only those that had read the clock before it
\* can still add to that window.  A client that was refused waits for the oldest
\* entry, unless that is gone by now.
Overtaken(time) == {t \in Threads : pc[t] = "check" /\ now[t] <= time}
IInv ==
    /\ TypeOK
    /\ latest <= clock /\ \A t \in Threads : now[t] <= clock
    /\ \A i \in 1..head : log[i] < latest - Window
    /\ \A time \in 0..MaxTime : time < latest =>
         Cardinality(Within(time)) + Cardinality(Overtaken(time)) <= limit + Cardinality(Threads) - 1
    /\ due > 0 => \/ Len(log) - head < limit
                  \/ head < Len(log) /\ log[head + 1] < due - Window
=============================================================================
