------------------------------ MODULE Firewall ------------------------------
(***************************************************************************)
(* The rule chain EDO_FORWARD.  Every handler that changes peers or        *)
(* owners' octets ends with _rebuild_firewall, which reads both tables and *)
(* then applies them with one iptables command after another; the handlers *)
(* run in threads that share no lock.                                      *)
(*                                                                         *)
(* What the handlers do before is in modules Containers and VpnPeers; here *)
(* it is the change of a table.  The chain EDO_INPUT, whose failure is     *)
(* only logged, is left out, and so is firewalld.  Of DOCKER-USER and      *)
(* FORWARD the model has the one that _preferred_forward_hook picks.       *)
(***************************************************************************)
EXTENDS Naturals, Sequences, FiniteSets, SequencesExt, FiniteSetsExt

CONSTANTS
    Owners,
    Ips,        \* the addresses of peers, WG_SUBNET
    Octets,     \* each stands for its subnet, a part of DOCKER_POOL
    Inet,       \* what lies behind the public interface
    None,
    Threads,
    MaxCalls,   \* bound: requests
    MaxFaults,  \* bound: kinds of fault in one behaviour
    FaultKinds

AllFaultKinds == {"start", "hook", "flush", "rule", "crash", "reboot"}

ASSUME FirewallAssumption ==
    /\ IsFiniteSet(Owners) /\ IsFiniteSet(Ips) /\ IsFiniteSet(Octets) /\ IsFiniteSet(Threads)
    /\ Ips \cap Octets = {} /\ Inet \notin Ips \cup Octets /\ None \notin Owners \cup Octets
    /\ FaultKinds \subseteq AllFaultKinds /\ MaxCalls \in Nat /\ MaxFaults \in Nat

VARIABLES
    peers,     \* table peers: the owner an address is given to
    octets,    \* table owner_octets
    chain,     \* the rules of EDO_FORWARD, in order
    jumps,     \* how many jumps to it the hook has
    pc, loc,   \* each thread's next step and what it has read
    booting,   \* the daemon has not accepted a request yet
    calls,     \* requests so far
    happened,  \* the kinds of fault so far
    stale,     \* ghost: the chain may hold, or lack, rules of other tables
    silent,    \* ghost: a table was changed by a handler that does not rebuild
    overlapped \* ghost: two handlers were at work at once

tables == <<peers, octets>>
vars == <<tables, chain, jumps, pc, loc, booting, calls, happened, stale, silent, overlapped>>

NoPeers  == [i \in Ips |-> None]
NoOctets == [o \in Owners |-> None]
NoLoc == [peers |-> NoPeers, octets |-> NoOctets, todo |-> <<>>, ip |-> None, guard |-> 0]

-----------------------------------------------------------------------------
\* Rules and packets.

Rule(from, to, verdict) == [from |-> from, to |-> to, verdict |-> verdict]

\* The peers that have a subnet to reach, by owner.
Reaching(ps, os) == {i \in Ips : ps[i] # None /\ os[ps[i]] # None}

\* For each of these peers two accepts, one in each direction.
Accepts(ps, os) ==
    LET is == SetToSeq(Reaching(ps, os))
        Peer(j) == {is[(j + 1) \div 2]}
        Net(j)  == {os[ps[is[(j + 1) \div 2]]]}
    IN [j \in 1 .. 2 * Len(is) |-> IF j % 2 = 1 THEN Rule(Peer(j), Net(j), "ACCEPT")
                                               ELSE Rule(Net(j), Peer(j), "ACCEPT")]

\* Mutant: no rule for the way back.
BuildOneWay(ps, os) ==
    <<Rule(Ips, Ips, "DROP")>>
    \o SetToSeq({Rule({i}, {os[ps[i]]}, "ACCEPT") : i \in Reaching(ps, os)})
    \o <<Rule(Octets, Octets, "DROP"), Rule(Octets, {Inet}, "DROP")>>

BuildRules(ps, os) ==
    <<Rule(Ips, Ips, "DROP")>>
    \o Accepts(ps, os)
    \o <<Rule(Octets, Octets, "DROP"), Rule(Octets, {Inet}, "DROP")>>

\* First match wins; "NONE" leaves a packet to the host's other rules.
Verdict(a, b) ==
    LET hits == {n \in DOMAIN chain : a \in chain[n].from /\ b \in chain[n].to} IN
    IF hits = {} THEN "NONE" ELSE chain[Min(hits)].verdict

-----------------------------------------------------------------------------
\* The host has come up: the tables are what the daemon kept, the chain is gone,
\* and the daemon rebuilds it before it accepts a request.
Init ==
    /\ peers \in [Ips -> Owners \cup {None}]
    /\ octets \in {os \in [Owners -> Octets \cup {None}] :
                    \A o, q \in Owners : o # q /\ os[o] # None => os[o] # os[q]}
    /\ chain = <<>> /\ jumps = 0
    /\ \E t \in Threads : pc = [q \in Threads |-> IF q = t THEN "peers" ELSE "idle"]
    /\ loc = [t \in Threads |-> NoLoc]
    /\ booting = TRUE /\ calls = 0 /\ happened = {}
    /\ stale = TRUE /\ silent = FALSE /\ overlapped = FALSE

Goto(t, l, m) == pc' = [pc EXCEPT ![t] = l] /\ loc' = [loc EXCEPT ![t] = m]
Step(t, from, to) == pc[t] = from /\ Goto(t, to, loc[t])
Return(t) == Goto(t, "idle", NoLoc) /\ booting' = FALSE

Fault(kind) ==
    /\ kind \in FaultKinds
    /\ Cardinality(happened \cup {kind}) <= MaxFaults
    /\ happened' = happened \cup {kind}
NoFault == UNCHANGED happened

\* A handler that came to a change of a table, and goes on with the rebuild.
Begin(t, next, l) ==
    /\ pc[t] = "idle" /\ ~ booting /\ calls < MaxCalls
    /\ calls' = calls + 1
    /\ Goto(t, next, l)
    /\ overlapped' = (overlapped \/ \E q \in Threads \ {t} : pc[q] # "idle")
    /\ UNCHANGED <<chain, jumps, booting, happened>>
Handler(t, next) == Begin(t, next, NoLoc)

\* A peer whose file cannot be written is taken out of the table again, and
\* there is no rebuild.
EnsurePeer(t) ==
    /\ \E i \in Ips, o \in Owners :
         /\ peers[i] = None /\ peers' = [peers EXCEPT ![i] = o]
         /\ \/ Begin(t, "peers", NoLoc)
            \/ Begin(t, "rollback", [NoLoc EXCEPT !.ip = i])
    /\ stale' = TRUE
    /\ UNCHANGED <<octets, silent>>

Rollback(t) ==
    /\ pc[t] = "rollback" /\ Return(t)
    /\ peers' = [peers EXCEPT ![loc[t].ip] = None]
    /\ stale' = TRUE /\ silent' = TRUE
    /\ UNCHANGED <<octets, chain, jumps, calls, happened, overlapped>>

\* Mutant: no rebuild after a removal.
RemovePeerOnly(t) ==
    /\ Handler(t, "idle")
    /\ \E i \in Ips : peers[i] # None /\ peers' = [peers EXCEPT ![i] = None]
    /\ stale' = TRUE
    /\ UNCHANGED <<octets, silent>>

\* When the client's file cannot be unlinked there is no rebuild, and a retry
\* finds no peer and does not rebuild either.
RemovePeer(t) ==
    /\ \/ Handler(t, "peers") /\ UNCHANGED silent
       \/ Handler(t, "idle") /\ silent' = TRUE
    /\ \E i \in Ips : peers[i] # None /\ peers' = [peers EXCEPT ![i] = None]
    /\ stale' = TRUE
    /\ UNCHANGED octets

FreeOctets == Octets \ {octets[o] : o \in Owners}

\* A spawn gives its owner an octet if it has none; one that fails later does
\* not rebuild.
Spawn(t) ==
    \E o \in Owners :
      /\ octets' = IF octets[o] # None THEN octets
                   ELSE [octets EXCEPT ![o] = IF FreeOctets = {} THEN None
                                              ELSE CHOOSE n \in FreeOctets : TRUE]
      /\ octets[o] # None \/ FreeOctets # {}
      /\ stale' = (stale \/ octets' # octets)
      /\ \/ Handler(t, "peers") /\ UNCHANGED silent
         \/ Handler(t, "idle") /\ silent' = (silent \/ octets' # octets)
      /\ UNCHANGED peers

\* A release or the kill switch frees the octets of owners it leaves without
\* an instance, one after the other; so does reconcile, which does not rebuild.
Release(t)   == Handler(t, "free")  /\ UNCHANGED <<tables, stale, silent>>
Reconcile(t) == Handler(t, "prune") /\ UNCHANGED <<tables, stale, silent>>

FreeOctet(t) ==
    /\ pc[t] \in {"free", "prune"}
    /\ \E o \in Owners : octets[o] # None /\ octets' = [octets EXCEPT ![o] = None]
    /\ stale' = TRUE
    /\ silent' = (silent \/ pc[t] = "prune")
    /\ UNCHANGED <<peers, chain, jumps, pc, loc, booting, calls, happened, overlapped>>

EndFree(t) ==
    /\ \/ Step(t, "free", "peers") /\ UNCHANGED booting
       \/ pc[t] = "prune" /\ Return(t)
    /\ UNCHANGED <<tables, chain, jumps, calls, happened, stale, silent, overlapped>>

-----------------------------------------------------------------------------
\* _rebuild_firewall and apply_firewall.

ReadPeers(t) ==
    /\ pc[t] = "peers"
    /\ Goto(t, "octets", [loc[t] EXCEPT !.peers = peers])
    /\ UNCHANGED <<tables, chain, jumps, booting, calls, happened, stale, silent, overlapped>>

ReadOctets(t) ==
    /\ pc[t] = "octets"
    /\ Goto(t, "start", [loc[t] EXCEPT !.octets = octets])
    /\ UNCHANGED <<tables, chain, jumps, booting, calls, happened, stale, silent, overlapped>>

\* The public interface, ip_forward.
Start(t) ==
    /\ \/ Step(t, "start", "unhook") /\ NoFault /\ UNCHANGED booting
       \/ pc[t] = "start" /\ Fault("start") /\ Return(t)
    /\ UNCHANGED <<tables, chain, jumps, calls, stale, silent, overlapped>>

\* Mutant: the old jumps stay.
UnhookNone(t) ==
    /\ Step(t, "unhook", "hook")
    /\ UNCHANGED <<tables, chain, jumps, booting, calls, happened, stale, silent, overlapped>>

\* _unhook_edo_from_all looks for a jump and deletes it, five times at most.
Unhook(t) ==
    /\ pc[t] = "unhook"
    /\ IF jumps > 0 /\ loc[t].guard < 5 THEN Goto(t, "delete", loc[t])
                                        ELSE Goto(t, "hook", [loc[t] EXCEPT !.guard = 0])
    /\ UNCHANGED <<tables, chain, jumps, booting, calls, happened, stale, silent, overlapped>>

Delete(t) ==
    /\ pc[t] = "delete"
    /\ Goto(t, "unhook", [loc[t] EXCEPT !.guard = @ + 1])
    /\ jumps' = IF jumps > 0 THEN jumps - 1 ELSE 0
    /\ UNCHANGED <<tables, chain, booting, calls, happened, stale, silent, overlapped>>

\* Mutant: a jump is only made for a chain that has no rules yet.
HookNew(t) ==
    /\ Step(t, "hook", "flush")
    /\ jumps' = IF chain = <<>> THEN jumps + 1 ELSE jumps
    /\ UNCHANGED <<tables, chain, booting, calls, happened, stale, silent, overlapped>>

Hook(t) ==
    /\ \/ /\ Step(t, "hook", "flush") /\ NoFault
          /\ jumps' = jumps + 1
          /\ UNCHANGED booting
       \/ pc[t] = "hook" /\ Fault("hook") /\ Return(t) /\ UNCHANGED jumps
    /\ UNCHANGED <<tables, chain, calls, stale, silent, overlapped>>

Current(t) == loc[t].peers = peers /\ loc[t].octets = octets

Flush(t) ==
    /\ pc[t] = "flush"
    /\ \/ /\ Goto(t, "append", [loc[t] EXCEPT !.todo = BuildRules(loc[t].peers, loc[t].octets)])
          /\ NoFault
          /\ chain' = <<>>
          /\ stale' = ~ Current(t)
          /\ UNCHANGED booting
       \/ Fault("flush") /\ Return(t) /\ UNCHANGED <<chain, stale>>
    /\ UNCHANGED <<tables, jumps, calls, silent, overlapped>>

\* _iptables_append looks for the rule and appends it if it is not there.  When
\* that fails the chain is emptied.
CheckRule(t) ==
    /\ pc[t] = "append" /\ loc[t].todo # <<>>
    /\ IF Head(loc[t].todo) \in ToSet(chain)
       THEN Goto(t, "append", [loc[t] EXCEPT !.todo = Tail(@)])
       ELSE Goto(t, "add", loc[t])
    /\ UNCHANGED <<tables, chain, jumps, booting, calls, happened, stale, silent, overlapped>>

AppendRule(t) ==
    /\ pc[t] = "add"
    /\ \/ /\ Goto(t, "append", [loc[t] EXCEPT !.todo = Tail(@)])
          /\ NoFault
          /\ chain' = Append(chain, Head(loc[t].todo))
          /\ stale' = (stale \/ ~ Current(t))
       \/ Fault("rule") /\ Goto(t, "clear", NoLoc) /\ stale' = TRUE /\ UNCHANGED chain
    /\ UNCHANGED <<tables, jumps, booting, calls, silent, overlapped>>

Clear(t) ==
    /\ pc[t] = "clear" /\ Return(t)
    /\ chain' = <<>> /\ stale' = TRUE
    /\ UNCHANGED <<tables, jumps, calls, happened, silent, overlapped>>

EndRebuild(t) ==
    /\ pc[t] = "append" /\ loc[t].todo = <<>>
    /\ Return(t)
    /\ UNCHANGED <<tables, chain, jumps, calls, happened, stale, silent, overlapped>>

-----------------------------------------------------------------------------
\* main: after a start the daemon rebuilds before it accepts a request.
Restart ==
    /\ booting' = TRUE
    /\ \E t \in Threads :
         /\ pc' = [q \in Threads |-> IF q = t THEN "peers" ELSE "idle"]
         /\ loc' = [q \in Threads |-> NoLoc]
    /\ UNCHANGED <<tables, calls, silent, overlapped>>

Crash  == Fault("crash") /\ Restart /\ stale' = TRUE /\ UNCHANGED <<chain, jumps>>
Reboot == Fault("reboot") /\ Restart /\ chain' = <<>> /\ jumps' = 0 /\ stale' = TRUE

Rebuild(t) ==
    \/ ReadPeers(t) \/ ReadOctets(t) \/ Start(t) \/ Unhook(t) \/ Delete(t) \/ Hook(t)
    \/ Flush(t) \/ CheckRule(t) \/ AppendRule(t) \/ Clear(t) \/ EndRebuild(t)

Next ==
    \/ \E t \in Threads :
         \/ EnsurePeer(t) \/ RemovePeer(t) \/ Spawn(t) \/ Release(t) \/ Reconcile(t)
         \/ Rollback(t) \/ FreeOctet(t) \/ EndFree(t) \/ Rebuild(t)
    \/ Crash \/ Reboot

Spec == Init /\ [][Next]_vars

-----------------------------------------------------------------------------
\* Properties.

Addrs == Ips \cup Octets \cup {Inet}
RuleType == [from : SUBSET Addrs, to : SUBSET Addrs, verdict : {"ACCEPT", "DROP"}]
LocType == [peers : [Ips -> Owners \cup {None}], octets : [Owners -> Octets \cup {None}],
            todo : Seq(RuleType), ip : Ips \cup {None}, guard : 0..5]
Pcs == {"idle", "rollback", "free", "prune", "peers", "octets", "start", "unhook", "delete",
        "hook", "flush", "append", "add", "clear"}
\* Types; there are never more jumps than rebuilds that came to the hook at once.
TypeOK ==
    /\ peers \in [Ips -> Owners \cup {None}]
    /\ octets \in [Owners -> Octets \cup {None}]
    /\ chain \in Seq(RuleType)
    /\ jumps \in 0..Cardinality(Threads)
    /\ pc \in [Threads -> Pcs] /\ loc \in [Threads -> LocType]
    /\ booting \in BOOLEAN /\ stale \in BOOLEAN /\ happened \subseteq FaultKinds
    /\ silent \in BOOLEAN /\ overlapped \in BOOLEAN /\ calls \in 0..MaxCalls

Quiet == \A t \in Threads : pc[t] = "idle"

\* What _build_chain_rules says of a packet, given the tables: a peer and its own
\* owner's subnet reach each other, peers do not, subnets do not, nor does a subnet
\* reach what lies outside.  It has no rule for a peer and another owner's subnet.
Own(i, n) == peers[i] # None /\ octets[peers[i]] = n
TableRule(a, b) ==
    CASE a \in Ips /\ b \in Ips -> "DROP"
      [] a \in Octets /\ b \in Octets \cup {Inet} -> "DROP"
      [] a \in Ips /\ b \in Octets /\ Own(a, b) -> "ACCEPT"
      [] a \in Octets /\ b \in Ips /\ Own(b, a) -> "ACCEPT"
      [] OTHER -> "NONE"

\* When every rebuild since the last flush had read the tables as they are, the
\* chain decides by them, in whatever order the rebuilds' commands came.
ChainAgrees ==
    Quiet /\ ~ stale => \A a, b \in Addrs : Verdict(a, b) = TableRule(a, b)

\* "A WireGuard peer may only reach the docker subnet of ITS OWN owner": the
\* chain drops what a peer sends to the subnet of another.
PeersConfined ==
    Quiet /\ ~ stale =>
      \A i \in Ips, o \in Owners : peers[i] \notin {None, o} /\ octets[o] # None
                                    => Verdict(i, octets[o]) = "DROP"

\* What it does instead: it leaves that packet to the host's own rules.
ForeignOpen ==
    Quiet /\ ~ stale =>
      \A i \in Ips, n \in Octets : ~ Own(i, n) => Verdict(i, n) = "NONE"

\* "Impossible to drift out of sync with the DB": one handler after the other,
\* deaths and restarts included, leaves no stale chain, unless a command failed
\* or the handler was one that does not rebuild.
NoDrift ==
    Quiet /\ ~ overlapped /\ ~ silent /\ happened \subseteq {"crash", "reboot"} => ~ stale

\* Rebuilds that unhook each other's jump, and deaths in between, leave the chain
\* hooked in the end.
Hooked == Quiet /\ happened \cap {"start", "hook"} = {} => jumps > 0

\* The docstring of apply_firewall, without its conditions.
NeverDrifts == Quiet /\ happened = {} => ~ stale

\* Why they hold.  No two rules of one pair of tables decide the same packet, so
\* it is enough which rules the chain has; and those it lacks, unless it is
\* stale, are what the rebuilds that have read the tables as they are still have
\* to append.
RulesOf(ps, os) ==
    {Rule(Ips, Ips, "DROP"), Rule(Octets, Octets, "DROP"), Rule(Octets, {Inet}, "DROP")}
    \cup {Rule({i}, {os[ps[i]]}, "ACCEPT") : i \in Reaching(ps, os)}
    \cup {Rule({os[ps[i]]}, {i}, "ACCEPT") : i \in Reaching(ps, os)}
AppendPcs == {"append", "add"}
Pending == UNION {ToSet(loc[t].todo) : t \in {q \in Threads : pc[q] \in AppendPcs /\ Current(q)}}
RulesInv ==
    /\ \A t \in Threads :
         /\ ToSet(loc[t].todo) \subseteq RulesOf(loc[t].peers, loc[t].octets)
         /\ pc[t] \notin AppendPcs => loc[t].todo = <<>>
    /\ ~ stale => ToSet(chain) \cup Pending = RulesOf(peers, octets)

\* A rebuild makes a jump only after it has removed one or found none, so that the
\* jumps and the rebuilds that have yet to make one are together as many as there are
\* threads at most; and the last to remove one has yet to make one.
Hooking ==
    {t \in Threads : \/ pc[t] = "hook"
                     \/ pc[t] \in {"unhook", "delete"} /\ loc[t].guard > 0}
BeforeHook == {"peers", "octets", "start", "unhook", "delete", "hook"}
JumpsInv ==
    /\ jumps + Cardinality(Hooking) <= Cardinality(Threads)
    /\ happened \cap {"start", "hook"} = {} =>
         jumps > 0 \/ \E t \in Threads : pc[t] \in BeforeHook

\* Without overlap, one thread is at work, what it has read is what the tables
\* are, and a stale chain is about to be flushed.
SerialInv ==
    ~ overlapped =>
      /\ \A t, q \in Threads : pc[t] # "idle" /\ pc[q] # "idle" => t = q
      /\ \A t \in Threads :
           /\ pc[t] = "octets" => loc[t].peers = peers
           /\ pc[t] \in {"start", "unhook", "delete", "hook", "flush"} \cup AppendPcs => Current(t)
      /\ ~ silent /\ happened \subseteq {"crash", "reboot"} /\ stale =>
           \E t \in Threads : pc[t] \in Pcs \ ({"idle", "prune", "clear"} \cup AppendPcs)

\* Between a look and what it was for; and the count of deletes is of one unhooking.
LocalInv ==
    \A t \in Threads : /\ pc[t] = "add" => loc[t].todo # <<>>
                       /\ pc[t] = "clear" => "rule" \in happened
                       /\ pc[t] = "delete" => loc[t].guard < 5
                       /\ pc[t] \notin {"unhook", "delete"} => loc[t].guard = 0

IInv == TypeOK /\ LocalInv /\ RulesInv /\ JumpsInv /\ SerialInv
=============================================================================
