-------------------------- MODULE ContainersProofs --------------------------
(***************************************************************************)
(* Proofs about Containers, for every value of its constants and any       *)
(* number of threads: the types, that no container is forgotten and that a *)
(* row outlives its container, for every interleaving; that only a release *)
(* removes a container and that every container is tracked between         *)
(* requests, when no two requests work on one key at a time; and, when     *)
(* none frees or contests a subnet another is using, that owners keep      *)
(* their subnets to themselves.                                            *)
(***************************************************************************)
EXTENDS Containers, FiniteSetTheorems, TLAPS

\* Containers that Docker has handed out keep their key, and none comes back.
Monotone ==
    \A c \in Cids : cts[c].st # "unused" =>
        /\ cts'[c].st # "unused"
        /\ cts'[c].key = cts[c].key
        /\ cts[c].st \notin LiveStates => cts'[c].st \notin LiveStates

\* Only thread t moves.
Moves(t) ==
    /\ pc' \in [Procs -> Pcs] /\ loc' \in [Procs -> LocType]
    /\ \A u \in Procs \ {t} : pc'[u] = pc[u] /\ loc'[u] = loc[u]

\* The step of thread t leaves no container behind that it answered for.
Handover(t) ==
    \A c \in Cids : cts'[c].st \in LiveStates =>
        \/ \E k \in Keys : rows'[k].cid = c
        \/ pc'[t] \in HoldPcs /\ loc'[t].cid = c
        \/ c \in abandoned'
        \/ /\ cts[c].st \in LiveStates
           /\ (\E k \in Keys : rows[k].cid = c) => (\E k \in Keys : rows'[k].cid = c)
           /\ c \in abandoned => c \in abandoned'
           /\ ~ (pc[t] \in HoldPcs /\ loc[t].cid = c)

\* The variables other than pc and loc keep their types.
TablesTyped ==
    /\ octetOf \in [Owners -> Octets \cup {0}]
    /\ rows \in [Keys -> RowType]
    /\ nets \in [Octets -> Owners \cup {None}]
    /\ cts \in [Cids -> CtType]
    /\ calls \in 0..MaxCalls /\ faults \in 0..MaxFaults
    /\ abandoned \subseteq Cids

\* What a thread knows stays true as long as it does not move.
LEMMA LocStable ==
    ASSUME NEW p \in Pcs, NEW l \in LocType, LocOK(p, l, cts), Monotone
    PROVE  LocOK(p, l, cts')
<1>1. \A c : Issued(c, cts) => Issued(c, cts') /\ cts'[c].key = cts[c].key
  BY DEF Issued, Monotone
<1>2. p = "row" => cts'[l.cid].st \notin LiveStates
  BY DEF LocOK, Issued, Monotone, ItemPcs
<1> QED BY <1>1, <1>2 DEF LocOK

\* A step of one thread preserves the invariant if it keeps types and keys,
\* knows what its next step needs and hands its container over.
LEMMA StepPreserves ==
    ASSUME IInv, NEW t \in Procs, Moves(t), TablesTyped', Monotone, KeysAgree',
           LocOK(pc'[t], loc'[t], cts'), Handover(t)
    PROVE  IInv'
<1>1. TypeOK'
  BY DEF TypeOK, TablesTyped, Moves
<1>2. ThreadsOK'
  <2> SUFFICES ASSUME NEW u \in Procs, u # t PROVE LocOK(pc'[u], loc'[u], cts')
    BY DEF ThreadsOK
  <2>1. pc'[u] = pc[u] /\ loc'[u] = loc[u]
    BY DEF Moves
  <2>2. pc[u] \in Pcs /\ loc[u] \in LocType /\ LocOK(pc[u], loc[u], cts)
    BY DEF IInv, TypeOK, ThreadsOK
  <2> QED BY <2>1, <2>2, LocStable
<1>3. ContainersAccounted'
  <2> SUFFICES ASSUME NEW c \in Cids, cts'[c].st \in LiveStates
               PROVE  Tracked(c)' \/ InFlight(c)' \/ c \in abandoned'
    BY DEF ContainersAccounted, LiveCids, Live
  <2>1. CASE /\ cts[c].st \in LiveStates
             /\ (\E k \in Keys : rows[k].cid = c) => (\E k \in Keys : rows'[k].cid = c)
             /\ c \in abandoned => c \in abandoned'
             /\ ~ (pc[t] \in HoldPcs /\ loc[t].cid = c)
    <3>1. Tracked(c) \/ InFlight(c) \/ c \in abandoned
      BY <2>1 DEF IInv, ContainersAccounted, LiveCids, Live
    <3>2. InFlight(c) => InFlight(c)'
      BY <2>1 DEF InFlight, Moves
    <3> QED BY <2>1, <3>1, <3>2 DEF Tracked
  <2> QED BY <2>1 DEF Handover, Tracked, InFlight
<1> QED BY <1>1, <1>2, <1>3 DEF IInv

-----------------------------------------------------------------------------
\* Steps that touch neither the instances table nor a container.

\* The octets, networks and counters keep their types.
RestTyped ==
    /\ octetOf \in [Owners -> Octets \cup {0}]
    /\ nets \in [Octets -> Owners \cup {None}]
    /\ calls \in 0..MaxCalls /\ faults \in 0..MaxFaults

\* Thread t answers for no container Docker has.
HoldsNone(t) ==
    pc[t] \in HoldPcs => loc[t].cid \notin Cids \/ cts[loc[t].cid].st \notin LiveStates

\* A step that moves one thread on, with rows and containers as they were.
LEMMA LocalPreserves ==
    ASSUME IInv, NEW t \in Procs, Moves(t), UNCHANGED <<rows, cts, abandoned>>,
           RestTyped', LocOK(pc'[t], loc'[t], cts),
           HoldsNone(t) \/ (pc'[t] \in HoldPcs /\ loc'[t].cid = loc[t].cid)
    PROVE  IInv'
<1>1. Monotone
  BY DEF Monotone
<1>2. KeysAgree'
  BY DEF IInv, KeysAgree, Issued, LiveCids, Live
<1>3. Handover(t)
  BY DEF Handover, HoldsNone
<1>4. TablesTyped'
  BY DEF RestTyped, TablesTyped, IInv, TypeOK
<1> QED BY <1>1, <1>2, <1>3, <1>4, StepPreserves

\* The idle thread's locals.
LEMMA NoLocOK == NoLoc \in LocType /\ (\A ct : LocOK("idle", NoLoc, ct))
BY DEF NoLoc, LocType, LocOK, Ops, SpawnPcs, HoldPcs, ItemPcs

\* What a thread has between its steps.
LEMMA LocNow ==
    ASSUME IInv, NEW t \in Procs
    PROVE  pc[t] \in Pcs /\ loc[t] \in LocType /\ LocOK(pc[t], loc[t], cts)
BY DEF IInv, TypeOK, ThreadsOK

\* Where Goto leads.
LEMMA GotoMoves ==
    ASSUME IInv, NEW t \in Procs, NEW p \in Pcs, NEW l \in LocType, Goto(t, p, l)
    PROVE  Moves(t) /\ pc'[t] = p /\ loc'[t] = l
BY DEF Goto, Moves, IInv, TypeOK

\* A request answered without touching rows or containers.
LEMMA ReturnMoves ==
    ASSUME IInv, NEW t \in Procs, Return(t)
    PROVE  Moves(t) /\ (\A ct : LocOK(pc'[t], loc'[t], ct)) /\ pc'[t] = "idle"
<1>1. "idle" \in Pcs
  BY DEF Pcs
<1> QED BY <1>1, NoLocOK DEF Return, Goto, Moves, IInv, TypeOK

\* A fault keeps the counter's type.
LEMMA FaultTyped ==
    ASSUME IInv, NEW k, Fault(k)
    PROVE  faults' \in 0..MaxFaults
BY ConstantsAssumption DEF IInv, TypeOK, Fault

LEMMA FindPreserves == ASSUME IInv, NEW t \in Procs, Find(t) PROVE IInv'
<1>1. RestTyped' /\ HoldsNone(t) /\ UNCHANGED <<rows, cts, abandoned>>
  BY DEF Find, IInv, TypeOK, RestTyped, HoldsNone, HoldPcs
<1>2. CASE Return(t)
  BY <1>1, <1>2, ReturnMoves, LocalPreserves
<1>3. CASE Move(t, "octet")
  <2>1. LocOK("octet", loc[t], cts) /\ "octet" \in Pcs
    BY LocNow DEF LocOK, Find, Pcs, SpawnPcs, HoldPcs, ItemPcs
  <2>2. Moves(t) /\ pc'[t] = "octet" /\ loc'[t] = loc[t]
    BY <1>3, <2>1, LocNow, GotoMoves DEF Move
  <2> QED BY <1>1, <2>1, <2>2, LocalPreserves
<1> QED BY <1>2, <1>3 DEF Find

LEMMA GetOctetPreserves == ASSUME IInv, NEW t \in Procs, GetOctet(t) PROVE IInv'
<1> DEFINE n == octetOf[Owner(t)]
           l1 == [loc[t] EXCEPT !.oct = n]
           l2 == [loc[t] EXCEPT !.left = OctetTries]
<1>1. RestTyped' /\ HoldsNone(t) /\ UNCHANGED <<rows, cts, abandoned>>
  BY DEF GetOctet, IInv, TypeOK, RestTyped, HoldsNone, HoldPcs
<1>2. n \in Octets \cup {0}
  <2>1. loc[t].key \in Keys
    BY LocNow DEF LocOK, GetOctet, SpawnPcs
  <2> QED BY <2>1 DEF IInv, TypeOK, Owner, Keys
<1>3. CASE n # 0 /\ Goto(t, "net", l1)
  <2>1. l1 \in LocType /\ LocOK("net", l1, cts) /\ "net" \in Pcs
    BY <1>2, <1>3, LocNow DEF LocOK, LocType, GetOctet, Pcs, SpawnPcs, HoldPcs, ItemPcs
  <2>2. Moves(t) /\ pc'[t] = "net" /\ loc'[t] = l1
    BY <1>3, <2>1, GotoMoves
  <2> QED BY <1>1, <2>1, <2>2, LocalPreserves
<1>4. CASE Goto(t, "alloc", l2)
  <2>1. l2 \in LocType /\ LocOK("alloc", l2, cts) /\ "alloc" \in Pcs
    BY ConstantsAssumption, LocNow DEF LocOK, LocType, GetOctet, Pcs, SpawnPcs, HoldPcs, ItemPcs
  <2>2. Moves(t) /\ pc'[t] = "alloc" /\ loc'[t] = l2
    BY <1>4, <2>1, GotoMoves
  <2> QED BY <1>1, <2>1, <2>2, LocalPreserves
<1> QED BY <1>3, <1>4 DEF GetOctet

LEMMA AllocOctetPreserves == ASSUME IInv, NEW t \in Procs, AllocOctet(t) PROVE IInv'
<1> DEFINE l1 == [loc[t] EXCEPT !.left = @ - 1]
<1>1. HoldsNone(t) /\ UNCHANGED <<rows, cts, abandoned, nets, calls, faults>>
  BY DEF AllocOctet, HoldsNone, HoldPcs
<1>2. CASE UNCHANGED octetOf /\ Return(t)
  <2>1. RestTyped'
    BY <1>2 DEF AllocOctet, IInv, TypeOK, RestTyped
  <2> QED BY <1>1, <1>2, <2>1, ReturnMoves, LocalPreserves
<1>3. CASE UNCHANGED octetOf /\ loc[t].left > 0 /\ Goto(t, "alloc", l1)
  <2>1. RestTyped'
    BY <1>3 DEF AllocOctet, IInv, TypeOK, RestTyped
  <2>2. l1 \in LocType /\ LocOK("alloc", l1, cts) /\ "alloc" \in Pcs
    <3>1. loc[t].left - 1 \in Nat
      BY <1>3, LocNow DEF LocType
    <3>2. l1 \in LocType
      BY <3>1, LocNow DEF LocType
    <3>3. LocOK("alloc", loc[t], cts)
      BY LocNow DEF AllocOctet
    <3> QED BY <3>2, <3>3, LocNow DEF LocOK, LocType, Pcs, SpawnPcs, HoldPcs, ItemPcs
  <2>3. Moves(t) /\ pc'[t] = "alloc" /\ loc'[t] = l1
    BY <1>3, <2>2, GotoMoves
  <2> QED BY <1>1, <2>1, <2>2, <2>3, LocalPreserves
<1>4. ASSUME NEW n \in Octets, octetOf' = [octetOf EXCEPT ![Owner(t)] = n],
             Goto(t, "net", [loc[t] EXCEPT !.oct = n, !.left = 0])
      PROVE  IInv'
  <2> DEFINE l2 == [loc[t] EXCEPT !.oct = n, !.left = 0]
  <2>1. RestTyped'
    BY <1>1, <1>4 DEF IInv, TypeOK, RestTyped
  <2>2. l2 \in LocType /\ LocOK("net", l2, cts) /\ "net" \in Pcs
    <3>1. loc[t] \in LocType /\ LocOK("alloc", loc[t], cts)
      BY LocNow DEF AllocOctet
    <3>2. l2 \in LocType
      BY <1>4, <3>1 DEF LocType
    <3>3. /\ l2.key = loc[t].key /\ l2.cid = loc[t].cid /\ l2.oct = n
          /\ l2.todo = loc[t].todo /\ l2.op = loc[t].op
      BY <3>1 DEF LocType
    <3> HIDE DEF l2
    <3>4. LocOK("net", l2, cts) /\ "net" \in Pcs
      BY <1>4, <3>1, <3>3 DEF LocOK, Pcs, SpawnPcs, HoldPcs, ItemPcs
    <3> QED BY <3>2, <3>4
  <2>3. Moves(t) /\ pc'[t] = "net" /\ loc'[t] = l2
    BY <1>4, <2>2, GotoMoves
  <2> QED BY <1>1, <2>1, <2>2, <2>3, LocalPreserves
<1> QED BY <1>2, <1>3, <1>4 DEF AllocOctet

LEMMA GetNetPreserves == ASSUME IInv, NEW t \in Procs, GetNet(t) PROVE IInv'
<1>1. HoldsNone(t) /\ UNCHANGED <<rows, cts, abandoned>>
  BY DEF GetNet, HoldsNone, HoldPcs
<1>2. RestTyped'
  BY FaultTyped DEF GetNet, IInv, TypeOK, RestTyped
<1>3. CASE Return(t)
  BY <1>1, <1>2, <1>3, ReturnMoves, LocalPreserves
<1>4. ASSUME NEW p \in {"mknet", "build"}, Move(t, p) PROVE IInv'
  <2>1. LocOK(p, loc[t], cts) /\ p \in Pcs
    BY LocNow DEF LocOK, GetNet, Pcs, SpawnPcs, HoldPcs, ItemPcs
  <2>2. Moves(t) /\ pc'[t] = p /\ loc'[t] = loc[t]
    BY <1>4, <2>1, LocNow, GotoMoves DEF Move
  <2> QED BY <1>1, <1>2, <2>1, <2>2, LocalPreserves
<1> QED BY <1>3, <1>4 DEF GetNet

LEMMA MakeNetPreserves == ASSUME IInv, NEW t \in Procs, MakeNet(t) PROVE IInv'
<1>1. HoldsNone(t) /\ UNCHANGED <<rows, cts, abandoned>>
  BY DEF MakeNet, HoldsNone, HoldPcs
<1>2. RestTyped'
  <2>1. Owner(t) \in Owners
    BY LocNow DEF LocOK, MakeNet, SpawnPcs, Owner, Keys
  <2>2. faults' \in 0..MaxFaults
    BY FaultTyped DEF MakeNet, IInv, TypeOK
  <2> QED BY <2>1, <2>2 DEF MakeNet, IInv, TypeOK, RestTyped
<1>3. CASE Return(t)
  BY <1>1, <1>2, <1>3, ReturnMoves, LocalPreserves
<1>4. CASE Move(t, "build")
  <2>1. LocOK("build", loc[t], cts) /\ "build" \in Pcs
    BY LocNow DEF LocOK, MakeNet, Pcs, SpawnPcs, HoldPcs, ItemPcs
  <2>2. Moves(t) /\ pc'[t] = "build" /\ loc'[t] = loc[t]
    BY <1>4, <2>1, LocNow, GotoMoves DEF Move
  <2> QED BY <1>1, <1>2, <2>1, <2>2, LocalPreserves
<1> QED BY <1>3, <1>4 DEF MakeNet

LEMMA BuildPreserves == ASSUME IInv, NEW t \in Procs, Build(t) PROVE IInv'
<1> DEFINE l1 == [loc[t] EXCEPT !.left = Tries]
<1>1. HoldsNone(t) /\ UNCHANGED <<rows, cts, abandoned>>
  BY DEF Build, HoldsNone, HoldPcs
<1>2. RestTyped'
  BY FaultTyped DEF Build, IInv, TypeOK, RestTyped
<1>3. CASE Return(t)
  BY <1>1, <1>2, <1>3, ReturnMoves, LocalPreserves
<1>4. CASE Goto(t, "ip", l1)
  <2>1. l1 \in LocType /\ LocOK("ip", l1, cts) /\ "ip" \in Pcs
    BY ConstantsAssumption, LocNow DEF LocOK, LocType, Build, Pcs, SpawnPcs, HoldPcs, ItemPcs
  <2>2. Moves(t) /\ pc'[t] = "ip" /\ loc'[t] = l1
    BY <1>4, <2>1, GotoMoves
  <2> QED BY <1>1, <1>2, <2>1, <2>2, LocalPreserves
<1> QED BY <1>3, <1>4 DEF Build

LEMMA PickAddressPreserves == ASSUME IInv, NEW t \in Procs, PickAddress(t) PROVE IInv'
<1> DEFINE l1 == [loc[t] EXCEPT !.left = @ - 1]
<1>1. RestTyped' /\ HoldsNone(t) /\ UNCHANGED <<rows, cts, abandoned>>
  BY DEF PickAddress, IInv, TypeOK, RestTyped, HoldsNone, HoldPcs
<1>2. CASE Return(t)
  BY <1>1, <1>2, ReturnMoves, LocalPreserves
<1>3. CASE loc[t].left > 0 /\ Goto(t, "ip", l1)
  <2>1. l1 \in LocType /\ LocOK("ip", l1, cts) /\ "ip" \in Pcs
    <3>1. loc[t].left - 1 \in Nat
      BY <1>3, LocNow DEF LocType
    <3>2. l1 \in LocType
      BY <3>1, LocNow DEF LocType
    <3>3. LocOK("ip", loc[t], cts)
      BY LocNow DEF PickAddress
    <3> QED BY <3>2, <3>3, LocNow DEF LocOK, LocType, Pcs, SpawnPcs, HoldPcs, ItemPcs
  <2>2. Moves(t) /\ pc'[t] = "ip" /\ loc'[t] = l1
    BY <1>3, <2>1, GotoMoves
  <2> QED BY <1>1, <2>1, <2>2, LocalPreserves
<1>4. ASSUME loc[t].left > 0, NEW h \in Hosts, NEW p \in Ports \cup {0},
             Goto(t, "create", [loc[t] EXCEPT !.host = h, !.port = p])
      PROVE  IInv'
  <2> DEFINE l2 == [loc[t] EXCEPT !.host = h, !.port = p]
  <2>1. l2 \in LocType /\ LocOK("create", l2, cts) /\ "create" \in Pcs
    <3>1. loc[t] \in LocType /\ LocOK("ip", loc[t], cts)
      BY LocNow DEF PickAddress
    <3>2. l2 \in LocType
      BY <1>4, <3>1 DEF LocType
    <3>3. /\ l2.key = loc[t].key /\ l2.cid = loc[t].cid /\ l2.oct = loc[t].oct
          /\ l2.todo = loc[t].todo /\ l2.op = loc[t].op /\ l2.left = loc[t].left
      BY <3>1 DEF LocType
    <3> HIDE DEF l2
    <3>4. LocOK("create", l2, cts) /\ "create" \in Pcs
      BY <1>4, <3>1, <3>3 DEF LocOK, Pcs, SpawnPcs, HoldPcs, ItemPcs
    <3> QED BY <3>2, <3>4
  <2>2. Moves(t) /\ pc'[t] = "create" /\ loc'[t] = l2
    BY <1>4, <2>1, GotoMoves
  <2> QED BY <1>1, <2>1, <2>2, LocalPreserves
<1> QED BY <1>2, <1>3, <1>4 DEF PickAddress

-----------------------------------------------------------------------------
\* Steps of spawn_instance once it may have a container.

\* An APIError leads to the except branch with the container still in hand.
LEMMA ToCleanPreserves ==
    ASSUME IInv, NEW t \in Procs, NEW b \in BOOLEAN, pc[t] \in {"create", "start", "get"},
           ToClean(t, b), UNCHANGED <<rows, cts, abandoned>>, RestTyped'
    PROVE  IInv'
<1> DEFINE l1 == [loc[t] EXCEPT !.conflict = b]
<1>1. l1 \in LocType /\ LocOK("clean", l1, cts) /\ "clean" \in Pcs
  BY LocNow DEF LocOK, LocType, Pcs, SpawnPcs, HoldPcs, ItemPcs
<1>2. Moves(t) /\ pc'[t] = "clean" /\ loc'[t] = l1
  BY <1>1, GotoMoves DEF ToClean
<1>3. loc'[t].cid = loc[t].cid /\ "clean" \in HoldPcs
  BY <1>2, LocNow DEF LocType, HoldPcs
<1> QED BY <1>1, <1>2, <1>3, LocalPreserves

\* Every other table as it was.
LEMMA RestKept ==
    ASSUME IInv, UNCHANGED <<octetOf, nets, calls>>,
           UNCHANGED faults \/ (\E k \in AllFaultKinds : Fault(k))
    PROVE  RestTyped'
BY FaultTyped DEF IInv, TypeOK, RestTyped

LEMMA CreatePreserves == ASSUME IInv, NEW t \in Procs, Create(t) PROVE IInv'
<1>1. RestTyped' /\ UNCHANGED <<rows, abandoned>> /\ pc[t] = "create"
  BY RestKept DEF Create, AllFaultKinds
<1>2. CASE UNCHANGED cts /\ (ToClean(t, TRUE) \/ ToClean(t, FALSE))
  BY <1>1, <1>2, ToCleanPreserves
<1> DEFINE new == [key |-> loc[t].key, oct |-> loc[t].oct, host |-> loc[t].host,
                   port |-> loc[t].port, st |-> "created"]
           l1 == [loc[t] EXCEPT !.cid = FreshCid]
<1>3. CASE /\ Named(loc[t].key) = {}
           /\ \E c \in Cids : cts[c].st = "unused"
           /\ cts' = [cts EXCEPT ![FreshCid] = new]
           /\ Goto(t, "start", l1)
  <2>1. FreshCid \in Cids /\ cts[FreshCid].st = "unused"
    BY <1>3 DEF FreshCid
  <2>2. PICK c \in Cids : c = FreshCid
    BY <2>1
  <2>3. loc[t].key \in Keys /\ loc[t].oct \in Octets
    BY <1>1, LocNow DEF LocOK, SpawnPcs
  <2>4. new \in CtType
    BY <2>3, LocNow DEF CtType, LocType, LiveStates
  <2>5. /\ cts' \in [Cids -> CtType] /\ cts'[c] = new
        /\ \A d \in Cids \ {c} : cts'[d] = cts[d]
    BY <1>3, <2>2, <2>4 DEF IInv, TypeOK
  <2>6. Monotone
    BY <2>1, <2>2, <2>5 DEF Monotone
  <2>7. l1 \in LocType /\ "start" \in Pcs
    BY <2>1, LocNow DEF LocType, Pcs, SpawnPcs
  <2>8. l1.cid = c /\ l1.key = loc[t].key /\ l1.oct = loc[t].oct /\ l1.todo = loc[t].todo
        /\ l1.op = loc[t].op /\ l1.left = loc[t].left
    BY <2>2, LocNow DEF LocType
  <2>9. LocOK("start", l1, cts')
    <3>1. LocOK("create", loc[t], cts')
      BY <1>1, <2>6, LocNow, LocStable
    <3>2. Issued(c, cts') /\ cts'[c].key = loc[t].key
      BY <2>5 DEF Issued
    <3>3. None \notin Cids
      BY ConstantsAssumption
    <3> QED BY <2>3, <2>8, <3>1, <3>2, <3>3 DEF LocOK, SpawnPcs, HoldPcs, ItemPcs
  <2>10. Moves(t) /\ pc'[t] = "start" /\ loc'[t] = l1
    BY <1>3, <2>7, GotoMoves
  <2>11. KeysAgree'
    <3>1. \A d \in Cids : cts'[d].st # "unused" => cts'[d].key \in Keys
      BY <2>3, <2>5 DEF IInv, KeysAgree
    <3>2. \A k \in Keys : rows'[k].cid # None
             => Issued(rows'[k].cid, cts') /\ cts'[rows'[k].cid].key = k
      BY <1>1, <2>6 DEF IInv, KeysAgree, Issued, Monotone
    <3>3. \A d \in Cids : cts[d].st \in LiveStates => cts[d].key # loc[t].key
      BY <1>3 DEF Named, LiveCids, Live
    <3>4. \A d, e \in LiveCids' : cts'[d].key = cts'[e].key => d = e
      BY <2>5, <3>3 DEF IInv, KeysAgree, LiveCids, Live
    <3> QED BY <3>1, <3>2, <3>4 DEF KeysAgree
  <2>12. Handover(t)
    BY <1>1, <2>5, <2>8, <2>10 DEF Handover, HoldPcs
  <2>13. TablesTyped'
    BY <1>1, <2>5 DEF TablesTyped, RestTyped, IInv, TypeOK
  <2> QED BY <2>6, <2>9, <2>10, <2>11, <2>12, <2>13, StepPreserves
<1> QED BY <1>2, <1>3 DEF Create

\* A container changes its state: keys stay as they are.
LEMMA StateChange ==
    ASSUME IInv, NEW c \in Cids, NEW s \in LiveStates \cup {"gone"},
           cts[c].st # "unused", s \in LiveStates => cts[c].st \in LiveStates,
           cts' = [cts EXCEPT ![c].st = s], UNCHANGED rows
    PROVE  /\ cts' \in [Cids -> CtType] /\ cts'[c].st = s
           /\ \A d \in Cids \ {c} : cts'[d] = cts[d]
           /\ Monotone /\ KeysAgree'
<1>1. cts[c] \in CtType /\ [cts[c] EXCEPT !.st = s] \in CtType
  BY DEF IInv, TypeOK, CtType, LiveStates
<1>2. /\ cts' \in [Cids -> CtType] /\ cts'[c].st = s /\ cts'[c].key = cts[c].key
      /\ \A d \in Cids \ {c} : cts'[d] = cts[d]
  BY <1>1 DEF IInv, TypeOK, CtType
<1>3. s # "unused"
  BY DEF LiveStates
<1>4. Monotone
  BY <1>2, <1>3 DEF Monotone
<1>5. KeysAgree'
  <2>1. \A d \in Cids : cts'[d].st # "unused" => cts'[d].key \in Keys
    BY <1>2 DEF IInv, KeysAgree
  <2>2. \A k \in Keys : rows'[k].cid # None
             => Issued(rows'[k].cid, cts') /\ cts'[rows'[k].cid].key = k
    BY <1>4 DEF IInv, KeysAgree, Issued, Monotone
  <2>3. \A d \in Cids : cts'[d].key = cts[d].key
                        /\ (cts'[d].st \in LiveStates => cts[d].st \in LiveStates)
    BY <1>2
  <2>4. \A d, e \in LiveCids' : cts'[d].key = cts'[e].key => d = e
    BY <2>3 DEF IInv, KeysAgree, LiveCids, Live
  <2> QED BY <2>1, <2>2, <2>4 DEF KeysAgree
<1> QED BY <1>2, <1>4, <1>5

LEMMA StartPreserves == ASSUME IInv, NEW t \in Procs, Start(t) PROVE IInv'
<1> DEFINE c == loc[t].cid
<1>1. RestTyped' /\ UNCHANGED <<rows, abandoned>> /\ pc[t] = "start"
  BY RestKept DEF Start, AllFaultKinds
<1>2. CASE UNCHANGED cts /\ (ToClean(t, TRUE) \/ ToClean(t, FALSE))
  BY <1>1, <1>2, ToCleanPreserves
<1>3. CASE Live(c) /\ cts' = [cts EXCEPT ![c].st = "running"] /\ Move(t, "get")
  <2>1. c \in Cids /\ cts[c].st \in LiveStates /\ cts[c].st # "unused"
    BY <1>1, <1>3, LocNow, ConstantsAssumption
       DEF LocOK, Issued, LocType, HoldPcs, SpawnPcs, Live, LiveStates
  <2>2. /\ cts' \in [Cids -> CtType] /\ cts'[c].st = "running"
        /\ \A d \in Cids \ {c} : cts'[d] = cts[d]
        /\ Monotone /\ KeysAgree'
    BY <1>1, <1>3, <2>1, StateChange DEF LiveStates
  <2>3. LocOK("start", loc[t], cts')
    BY <1>1, <2>2, LocNow, LocStable
  <2>4. LocOK("get", loc[t], cts') /\ "get" \in Pcs
    BY <2>3 DEF LocOK, Pcs, SpawnPcs, HoldPcs, ItemPcs
  <2>5. Moves(t) /\ pc'[t] = "get" /\ loc'[t] = loc[t]
    BY <1>3, <2>4, LocNow, GotoMoves DEF Move
  <2>6. Handover(t)
    BY <1>1, <2>2, <2>5 DEF Handover, HoldPcs
  <2>7. TablesTyped'
    BY <1>1, <2>2 DEF TablesTyped, RestTyped, IInv, TypeOK
  <2> QED BY <2>2, <2>4, <2>5, <2>6, <2>7, StepPreserves
<1> QED BY <1>2, <1>3 DEF Start

LEMMA GetPreserves == ASSUME IInv, NEW t \in Procs, Get(t) PROVE IInv'
<1>1. RestTyped' /\ UNCHANGED <<rows, cts, abandoned>> /\ pc[t] = "get"
  BY RestKept DEF Get, AllFaultKinds
<1>2. CASE ToClean(t, FALSE)
  BY <1>1, <1>2, ToCleanPreserves
<1>3. CASE Move(t, "live")
  <2>1. LocOK("live", loc[t], cts) /\ "live" \in Pcs
    BY <1>1, LocNow DEF LocOK, Pcs, SpawnPcs, HoldPcs, ItemPcs
  <2>2. Moves(t) /\ pc'[t] = "live" /\ loc'[t] = loc[t]
    BY <1>3, <2>1, LocNow, GotoMoves DEF Move
  <2> QED BY <1>1, <2>1, <2>2, LocalPreserves DEF HoldPcs
<1> QED BY <1>2, <1>3 DEF Get

LEMMA ReloadPreserves == ASSUME IInv, NEW t \in Procs, Reload(t) PROVE IInv'
<1> DEFINE c == loc[t].cid
<1>1. RestTyped' /\ UNCHANGED <<rows, cts>> /\ pc[t] = "live"
  BY RestKept DEF Reload, AllFaultKinds
<1>2. CASE ~ Live(c) /\ Return(t) /\ UNCHANGED abandoned
  <2>1. HoldsNone(t)
    BY <1>2 DEF HoldsNone, Live
  <2> QED BY <1>1, <1>2, <2>1, ReturnMoves, LocalPreserves
<1>3. CASE Move(t, "add") /\ UNCHANGED abandoned
  <2>1. LocOK("add", loc[t], cts) /\ "add" \in Pcs
    BY <1>1, LocNow DEF LocOK, Pcs, SpawnPcs, HoldPcs, ItemPcs
  <2>2. Moves(t) /\ pc'[t] = "add" /\ loc'[t] = loc[t]
    BY <1>3, <2>1, LocNow, GotoMoves DEF Move
  <2> QED BY <1>1, <1>3, <2>1, <2>2, LocalPreserves DEF HoldPcs
<1>4. CASE abandoned' = abandoned \cup {c} /\ Return(t)
  <2>1. c \in Cids
    BY <1>1, LocNow DEF LocOK, Issued, SpawnPcs, HoldPcs
  <2>2. Monotone /\ KeysAgree'
    BY <1>1 DEF Monotone, IInv, KeysAgree, Issued, LiveCids, Live
  <2>3. Handover(t)
    BY <1>1, <1>4 DEF Handover
  <2>4. TablesTyped'
    BY <1>1, <1>4, <2>1 DEF TablesTyped, RestTyped, IInv, TypeOK
  <2> QED BY <1>4, <2>2, <2>3, <2>4, ReturnMoves, StepPreserves
<1> QED BY <1>2, <1>3, <1>4 DEF Reload

LEMMA CleanPreserves == ASSUME IInv, NEW t \in Procs, Clean(t) PROVE IInv'
<1> DEFINE me == loc[t]
           mine == Named(me.key)
           l1 == [me EXCEPT !.triedHosts = @ \cup {me.host}, !.cid = None,
                            !.triedPorts = @ \cup {me.port}, !.left = @ - 1,
                            !.conflict = FALSE]
<1>1. RestTyped' /\ UNCHANGED rows /\ pc[t] = "clean"
  BY RestKept DEF Clean, AllFaultKinds
<1>2. /\ cts' \in [Cids -> CtType] /\ Monotone
      /\ \A c \in Cids : cts'[c].key = cts[c].key
      /\ \A c \in Cids : cts'[c].st \in LiveStates => cts[c].st \in LiveStates
      /\ \A c \in Cids : cts'[c].st # "unused" => cts[c].st # "unused"
  <2>1. CASE UNCHANGED cts
    BY <2>1 DEF Monotone, IInv, TypeOK
  <2>2. CASE cts' = [c \in Cids |-> IF c \in mine THEN [cts[c] EXCEPT !.st = "gone"]
                                               ELSE cts[c]]
    <3>1. \A c \in Cids : [cts[c] EXCEPT !.st = "gone"] \in CtType
      BY DEF IInv, TypeOK, CtType
    <3>2. \A c \in mine : cts[c].st \in LiveStates
      BY DEF Named, LiveCids, Live
    <3>3. \A c \in Cids : \/ cts'[c] = cts[c]
                         \/ /\ c \in mine /\ cts'[c].st = "gone" /\ cts'[c].key = cts[c].key
      BY <2>2 DEF IInv, TypeOK, CtType
    <3>4. cts' \in [Cids -> CtType]
      BY <2>2, <3>1 DEF IInv, TypeOK
    <3> QED BY <3>2, <3>3, <3>4 DEF Monotone, LiveStates
  <2> QED BY <2>1, <2>2 DEF Clean
<1>3. KeysAgree'
  <2>1. \A c \in Cids : cts'[c].st # "unused" => cts'[c].key \in Keys
    BY <1>2 DEF IInv, KeysAgree
  <2>2. \A k \in Keys : rows'[k].cid # None
             => Issued(rows'[k].cid, cts') /\ cts'[rows'[k].cid].key = k
    BY <1>1, <1>2 DEF IInv, KeysAgree, Issued, Monotone
  <2>3. \A d, e \in LiveCids' : cts'[d].key = cts'[e].key => d = e
    BY <1>2 DEF IInv, KeysAgree, LiveCids, Live
  <2> QED BY <2>1, <2>2, <2>3 DEF KeysAgree
<1>4. TablesTyped'
  <2>1. abandoned' \subseteq Cids
    BY DEF Clean, Named, LiveCids, IInv, TypeOK
  <2> QED BY <1>1, <1>2, <2>1 DEF TablesTyped, RestTyped, IInv, TypeOK
<1>5. \A c \in Cids : c = me.cid /\ cts'[c].st \in LiveStates => c \in abandoned'
  <2> SUFFICES ASSUME me.cid \in Cids, cts'[me.cid].st \in LiveStates
               PROVE  me.cid \in abandoned'
    OBVIOUS
  <2>1. me.cid \in mine
    BY <1>1, <1>2, LocNow, ConstantsAssumption
       DEF LocOK, Named, LiveCids, Live, HoldPcs, SpawnPcs
  <2>2. CASE cts' = [c \in Cids |-> IF c \in mine THEN [cts[c] EXCEPT !.st = "gone"]
                                               ELSE cts[c]]
    <3>1. cts'[me.cid].st = "gone"
      BY <2>1, <2>2 DEF IInv, TypeOK, CtType
    <3> QED BY <3>1 DEF LiveStates
  <2>3. CASE abandoned' = abandoned \cup mine
    BY <2>1, <2>3
  <2> QED BY <2>2, <2>3 DEF Clean
<1>6. Handover(t)
  BY <1>1, <1>2, <1>5 DEF Handover, Clean
<1>7. CASE Return(t)
  BY <1>2, <1>3, <1>4, <1>6, <1>7, ReturnMoves, StepPreserves
<1>8. CASE me.conflict /\ Goto(t, "ip", l1)
  <2>1. me.left - 1 \in Nat /\ me.key \in Keys /\ me.oct \in Octets
    BY <1>1, LocNow DEF LocOK, LocType, SpawnPcs
  <2>2. l1 \in LocType /\ "ip" \in Pcs
    <3>1. me \in LocType
      BY LocNow
    <3>2. l1 \in LocType
      BY <2>1, <3>1 DEF LocType
    <3> QED BY <3>2 DEF Pcs, SpawnPcs
  <2>3. l1.cid = None /\ l1.key = me.key /\ l1.oct = me.oct /\ l1.todo = me.todo
        /\ l1.op = me.op
    BY LocNow DEF LocType
  <2>4. LocOK("clean", me, cts')
    BY <1>1, <1>2, LocNow, LocStable
  <2>5. LocOK("ip", l1, cts')
    BY <2>1, <2>3, <2>4 DEF LocOK, HoldPcs, ItemPcs
  <2>6. Moves(t) /\ pc'[t] = "ip" /\ loc'[t] = l1
    BY <1>8, <2>2, GotoMoves
  <2> QED BY <1>2, <1>3, <1>4, <1>6, <2>5, <2>6, StepPreserves
<1> QED BY <1>7, <1>8 DEF Clean

\* A row's columns come from the container it names.
LEMMA RowTyped ==
    ASSUME IInv, NEW c \in Cids, NEW s \in LiveStates
    PROVE  RowOf(c, s) \in RowType /\ RowOf(c, s).cid = c
BY DEF IInv, TypeOK, CtType, RowType, RowOf, LiveStates

\* A key without a row gets the row of a container of that key.
LEMMA RowInserted ==
    ASSUME IInv, NEW k \in Keys, NEW r \in RowType, rows[k].cid = None, r.cid \in Cids,
           Issued(r.cid, cts), cts[r.cid].key = k,
           rows' = [rows EXCEPT ![k] = r], UNCHANGED cts
    PROVE  /\ rows' \in [Keys -> RowType] /\ rows'[k].cid = r.cid
           /\ \A j \in Keys \ {k} : rows'[j] = rows[j]
           /\ Monotone /\ KeysAgree'
<1>1. /\ rows' \in [Keys -> RowType] /\ rows'[k] = r
      /\ \A j \in Keys \ {k} : rows'[j] = rows[j]
  BY DEF IInv, TypeOK
<1>2. KeysAgree'
  BY <1>1 DEF IInv, KeysAgree, Issued, LiveCids, Live
<1> QED BY <1>1, <1>2 DEF Monotone

LEMMA AddInstancePreserves == ASSUME IInv, NEW t \in Procs, AddInstance(t) PROVE IInv'
<1> DEFINE me == loc[t]
           r == RowOf(me.cid, "running")
<1>1. RestTyped' /\ UNCHANGED <<cts, abandoned>> /\ pc[t] = "add"
  BY RestKept DEF AddInstance
<1>2. me.cid \in Cids /\ me.key \in Keys /\ Issued(me.cid, cts) /\ cts[me.cid].key = me.key
  BY <1>1, LocNow DEF LocOK, Issued, SpawnPcs, HoldPcs
<1>3. CASE rows[me.key].cid = None /\ rows' = [rows EXCEPT ![me.key] = r] /\ Return(t)
  <2>1. r \in RowType /\ r.cid = me.cid
    BY <1>2, RowTyped DEF LiveStates
  <2>2. /\ rows' \in [Keys -> RowType] /\ rows'[me.key].cid = me.cid
        /\ \A j \in Keys \ {me.key} : rows'[j] = rows[j]
        /\ Monotone /\ KeysAgree'
    BY <1>1, <1>2, <1>3, <2>1, RowInserted
  <2>3. Handover(t)
    BY <1>1, <1>2, <1>3, <2>2, ConstantsAssumption DEF Handover
  <2>4. TablesTyped'
    BY <1>1, <2>2 DEF TablesTyped, RestTyped, IInv, TypeOK
  <2> QED BY <1>3, <2>2, <2>3, <2>4, ReturnMoves, StepPreserves
<1>4. CASE UNCHANGED rows /\ Move(t, "undo")
  <2>1. LocOK("undo", me, cts) /\ "undo" \in Pcs
    BY <1>1, LocNow DEF LocOK, Pcs, SpawnPcs, HoldPcs, ItemPcs
  <2>2. Moves(t) /\ pc'[t] = "undo" /\ loc'[t] = me
    BY <1>4, <2>1, LocNow, GotoMoves DEF Move
  <2> QED BY <1>1, <1>4, <2>1, <2>2, LocalPreserves DEF HoldPcs
<1> QED BY <1>3, <1>4 DEF AddInstance

LEMMA UndoPreserves == ASSUME IInv, NEW t \in Procs, Undo(t) PROVE IInv'
<1> DEFINE c == loc[t].cid
<1>1. RestTyped' /\ UNCHANGED rows /\ pc[t] = "undo" /\ Return(t)
  BY RestKept DEF Undo, AllFaultKinds
<1>2. c \in Cids /\ cts[c].st # "unused"
  BY <1>1, LocNow DEF LocOK, Issued, SpawnPcs, HoldPcs
<1>3. CASE cts' = [cts EXCEPT ![c].st = "gone"] /\ UNCHANGED abandoned
  <2>1. /\ cts' \in [Cids -> CtType] /\ cts'[c].st = "gone"
        /\ \A d \in Cids \ {c} : cts'[d] = cts[d]
        /\ Monotone /\ KeysAgree'
    BY <1>1, <1>2, <1>3, StateChange DEF LiveStates
  <2>2. Handover(t)
    BY <1>1, <1>3, <2>1 DEF Handover, LiveStates
  <2>3. TablesTyped'
    BY <1>1, <1>3, <2>1 DEF TablesTyped, RestTyped, IInv, TypeOK
  <2> QED BY <1>1, <2>1, <2>2, <2>3, ReturnMoves, StepPreserves
<1>4. CASE abandoned' = abandoned \cup {c} /\ UNCHANGED cts
  <2>1. Monotone /\ KeysAgree'
    BY <1>1, <1>4 DEF Monotone, IInv, KeysAgree, Issued, LiveCids, Live
  <2>2. Handover(t)
    BY <1>1, <1>4 DEF Handover
  <2>3. TablesTyped'
    BY <1>1, <1>2, <1>4 DEF TablesTyped, RestTyped, IInv, TypeOK
  <2> QED BY <1>1, <2>1, <2>2, <2>3, ReturnMoves, StepPreserves
<1> QED BY <1>3, <1>4 DEF Undo

-----------------------------------------------------------------------------
\* Steps of release_instance and of the loops.

LEMMA FindRowPreserves == ASSUME IInv, NEW t \in Procs, FindRow(t) PROVE IInv'
<1>1. RestTyped' /\ HoldsNone(t) /\ UNCHANGED <<rows, cts, abandoned>> /\ pc[t] = "rfind"
  BY RestKept DEF FindRow, HoldsNone, HoldPcs
<1>2. PICK k \in Keys \cup {None} : Goto(t, "stop", [loc[t] EXCEPT !.key = k])
  BY DEF FindRow
<1> DEFINE l1 == [loc[t] EXCEPT !.key = k]
<1>3. l1 \in LocType /\ LocOK("stop", l1, cts) /\ "stop" \in Pcs
  BY <1>1, LocNow DEF LocOK, LocType, Pcs, SpawnPcs, HoldPcs, ItemPcs
<1>4. Moves(t) /\ pc'[t] = "stop" /\ loc'[t] = l1
  BY <1>2, <1>3, GotoMoves
<1> QED BY <1>1, <1>3, <1>4, LocalPreserves

\* A step of release_instance that leaves the containers as they are.
LEMMA ReleaseMoves ==
    ASSUME IInv, NEW t \in Procs, pc[t] \in {"stop", "remove"},
           NEW p \in {"remove", "row", "next"}, Move(t, p),
           UNCHANGED <<rows, cts, abandoned>>, RestTyped',
           p = "row" => ~ Live(loc[t].cid)
    PROVE  IInv'
<1>1. HoldsNone(t)
  BY DEF HoldsNone, HoldPcs
<1>2. LocOK(p, loc[t], cts) /\ p \in Pcs
  BY LocNow DEF LocOK, Live, Pcs, SpawnPcs, HoldPcs, ItemPcs
<1>3. Moves(t) /\ pc'[t] = p /\ loc'[t] = loc[t]
  BY <1>2, LocNow, GotoMoves DEF Move
<1> QED BY <1>1, <1>2, <1>3, LocalPreserves

\* A step of release_instance that stops the container, or removes it.
LEMMA ReleaseSets ==
    ASSUME IInv, NEW t \in Procs, pc[t] \in {"stop", "remove"},
           NEW p \in {"remove", "row"}, Move(t, p),
           NEW s \in {"gone", "exited"}, cts' = [cts EXCEPT ![loc[t].cid].st = s],
           s = "exited" => Live(loc[t].cid), p = "row" => s = "gone",
           UNCHANGED <<rows, abandoned>>, RestTyped'
    PROVE  IInv'
<1> DEFINE c == loc[t].cid
<1>1. c \in Cids /\ cts[c].st # "unused"
  BY LocNow DEF LocOK, Issued, ItemPcs
<1>2. /\ cts' \in [Cids -> CtType] /\ cts'[c].st = s
      /\ \A d \in Cids \ {c} : cts'[d] = cts[d]
      /\ Monotone /\ KeysAgree'
  BY <1>1, StateChange DEF Live, LiveStates
<1>3. LocOK(pc[t], loc[t], cts')
  BY <1>2, LocNow, LocStable
<1>4. LocOK(p, loc[t], cts') /\ p \in Pcs
  BY <1>2, <1>3 DEF LocOK, Pcs, SpawnPcs, HoldPcs, ItemPcs, LiveStates
<1>5. Moves(t) /\ pc'[t] = p /\ loc'[t] = loc[t]
  BY <1>4, LocNow, GotoMoves DEF Move
<1>6. Handover(t)
  BY <1>1, <1>2 DEF Handover, HoldPcs, Live, LiveStates
<1>7. TablesTyped'
  BY <1>2 DEF TablesTyped, RestTyped, IInv, TypeOK
<1> QED BY <1>2, <1>4, <1>5, <1>6, <1>7, StepPreserves

LEMMA StopPreserves == ASSUME IInv, NEW t \in Procs, Stop(t) PROVE IInv'
<1>1. RestTyped' /\ UNCHANGED <<rows, abandoned>> /\ pc[t] = "stop"
  BY RestKept DEF Stop, AllFaultKinds
<1> QED BY <1>1, ReleaseMoves, ReleaseSets DEF Stop

LEMMA RemovePreserves == ASSUME IInv, NEW t \in Procs, Remove(t) PROVE IInv'
<1>1. RestTyped' /\ UNCHANGED <<rows, abandoned>> /\ pc[t] = "remove"
  BY RestKept DEF Remove, AllFaultKinds
<1> QED BY <1>1, ReleaseMoves, ReleaseSets DEF Remove

LEMMA RemoveRowPreserves == ASSUME IInv, NEW t \in Procs, RemoveRow(t) PROVE IInv'
<1> DEFINE p == IF loc[t].key = None THEN "next" ELSE "count"
<1>1. RestTyped' /\ UNCHANGED <<cts, abandoned>> /\ pc[t] = "row"
  BY RestKept DEF RemoveRow
<1>2. NoRow \in RowType /\ NoRow.cid = None
  BY DEF NoRow, RowType
<1>3. /\ rows' \in [Keys -> RowType]
      /\ \A k \in Keys : rows'[k] = IF rows[k].cid = loc[t].cid THEN NoRow ELSE rows[k]
  BY <1>2 DEF RemoveRow, IInv, TypeOK
<1>4. Monotone /\ KeysAgree'
  BY <1>1, <1>2, <1>3 DEF Monotone, IInv, KeysAgree, Issued, LiveCids, Live
<1>5. LocOK(p, loc[t], cts') /\ p \in Pcs
  BY <1>1, LocNow DEF LocOK, LocType, Pcs, SpawnPcs, HoldPcs, ItemPcs
<1>6. Moves(t) /\ pc'[t] = p /\ loc'[t] = loc[t]
  BY <1>5, LocNow, GotoMoves DEF RemoveRow, Move
<1>7. cts[loc[t].cid].st \notin LiveStates
  BY <1>1, LocNow DEF LocOK
<1>8. Handover(t)
  BY <1>1, <1>3, <1>7 DEF Handover, HoldPcs
<1>9. TablesTyped'
  BY <1>1, <1>3 DEF TablesTyped, RestTyped, IInv, TypeOK
<1> QED BY <1>4, <1>5, <1>6, <1>8, <1>9, StepPreserves

LEMMA CountRowsPreserves == ASSUME IInv, NEW t \in Procs, CountRows(t) PROVE IInv'
<1>1. RestTyped' /\ HoldsNone(t) /\ UNCHANGED <<rows, cts, abandoned>> /\ pc[t] = "count"
  BY RestKept DEF CountRows, HoldsNone, HoldPcs
<1>2. PICK p \in {"next", "goct"} : Move(t, p)
  BY DEF CountRows
<1>3. LocOK(p, loc[t], cts) /\ p \in Pcs
  BY <1>1, LocNow DEF LocOK, Pcs, SpawnPcs, HoldPcs, ItemPcs
<1>4. Moves(t) /\ pc'[t] = p /\ loc'[t] = loc[t]
  BY <1>2, <1>3, LocNow, GotoMoves DEF Move
<1> QED BY <1>1, <1>3, <1>4, LocalPreserves

LEMMA GetOctetToFreePreserves ==
    ASSUME IInv, NEW t \in Procs, GetOctetToFree(t) PROVE IInv'
<1> DEFINE n == octetOf[Owner(t)]
           l1 == [loc[t] EXCEPT !.oct = n]
<1>1. RestTyped' /\ HoldsNone(t) /\ UNCHANGED <<rows, cts, abandoned>> /\ pc[t] = "goct"
  BY RestKept DEF GetOctetToFree, HoldsNone, HoldPcs
<1>2. n \in Octets \cup {0}
  BY <1>1, LocNow DEF LocOK, Owner, Keys, IInv, TypeOK
<1>3. CASE Move(t, "next")
  <2>1. LocOK("next", loc[t], cts) /\ "next" \in Pcs
    BY <1>1, LocNow DEF LocOK, Pcs, SpawnPcs, HoldPcs, ItemPcs
  <2>2. Moves(t) /\ pc'[t] = "next" /\ loc'[t] = loc[t]
    BY <1>3, <2>1, LocNow, GotoMoves DEF Move
  <2> QED BY <1>1, <2>1, <2>2, LocalPreserves
<1>4. CASE n # 0 /\ Goto(t, "rmnet", l1)
  <2>1. l1 \in LocType /\ LocOK("rmnet", l1, cts) /\ "rmnet" \in Pcs
    BY <1>1, <1>2, <1>4, LocNow DEF LocOK, LocType, Pcs, SpawnPcs, HoldPcs, ItemPcs
  <2>2. Moves(t) /\ pc'[t] = "rmnet" /\ loc'[t] = l1
    BY <1>4, <2>1, GotoMoves
  <2> QED BY <1>1, <2>1, <2>2, LocalPreserves
<1> QED BY <1>3, <1>4 DEF GetOctetToFree

LEMMA RemoveNetPreserves == ASSUME IInv, NEW t \in Procs, RemoveNet(t) PROVE IInv'
<1>1. HoldsNone(t) /\ UNCHANGED <<octetOf, rows, cts, calls, abandoned>> /\ pc[t] = "rmnet"
  BY DEF RemoveNet, HoldsNone, HoldPcs
<1>2. RestTyped'
  <2>1. nets' \in [Octets -> Owners \cup {None}]
    BY DEF RemoveNet, IInv, TypeOK
  <2>2. faults' \in 0..MaxFaults
    BY FaultTyped DEF RemoveNet, IInv, TypeOK
  <2> QED BY <1>1, <2>1, <2>2 DEF RestTyped, IInv, TypeOK
<1>3. PICK p \in {"next", "free"} : Move(t, p)
  BY DEF RemoveNet
<1>4. LocOK(p, loc[t], cts) /\ p \in Pcs
  BY <1>1, LocNow DEF LocOK, Pcs, SpawnPcs, HoldPcs, ItemPcs
<1>5. Moves(t) /\ pc'[t] = p /\ loc'[t] = loc[t]
  BY <1>3, <1>4, LocNow, GotoMoves DEF Move
<1> QED BY <1>1, <1>2, <1>4, <1>5, LocalPreserves

LEMMA FreeOctetPreserves == ASSUME IInv, NEW t \in Procs, FreeOctet(t) PROVE IInv'
<1>1. HoldsNone(t) /\ UNCHANGED <<rows, nets, cts, calls, faults, abandoned>> /\ pc[t] = "free"
  BY DEF FreeOctet, HoldsNone, HoldPcs
<1>2. RestTyped'
  BY <1>1 DEF FreeOctet, RestTyped, IInv, TypeOK
<1>3. LocOK("next", loc[t], cts) /\ "next" \in Pcs
  BY <1>1, LocNow DEF LocOK, Pcs, SpawnPcs, HoldPcs, ItemPcs
<1>4. Moves(t) /\ pc'[t] = "next" /\ loc'[t] = loc[t]
  BY <1>3, LocNow, GotoMoves DEF FreeOctet, Move
<1> QED BY <1>1, <1>2, <1>3, <1>4, LocalPreserves

\* A snapshot of the active rows names containers Docker handed out.
LEMMA ActiveTodoOK ==
    ASSUME IInv
    PROVE  ActiveTodo \in SUBSET TodoType /\ (\A i \in ActiveTodo : Issued(i.cid, cts))
<1> SUFFICES ASSUME NEW i \in ActiveTodo
             PROVE  i \in TodoType /\ Issued(i.cid, cts)
  OBVIOUS
<1>1. PICK k \in ActiveRows : i = [cid |-> rows[k].cid, st |-> rows[k].status]
  BY DEF ActiveTodo
<1> QED BY <1>1 DEF ActiveRows, IInv, TypeOK, RowType, TodoType, KeysAgree, Issued, LiveStates

LEMMA NextItemPreserves == ASSUME IInv, NEW t \in Procs, NextItem(t) PROVE IInv'
<1>1. RestTyped' /\ HoldsNone(t) /\ UNCHANGED <<rows, cts, abandoned>> /\ pc[t] = "next"
  BY RestKept DEF NextItem, HoldsNone, HoldPcs
<1>2. CASE Return(t)
  BY <1>1, <1>2, ReturnMoves, LocalPreserves
<1> DEFINE l1 == [NoLoc EXCEPT !.op = "reconcile", !.todo = ActiveTodo]
<1>3. CASE Goto(t, "next", l1)
  <2>1. l1 \in LocType /\ "next" \in Pcs /\ l1.todo = ActiveTodo /\ l1.op = "reconcile"
    BY NoLocOK, ActiveTodoOK DEF NoLoc, LocType, Ops, Pcs
  <2>2. LocOK("next", l1, cts)
    BY <2>1, ActiveTodoOK DEF LocOK, SpawnPcs, HoldPcs, ItemPcs
  <2>3. Moves(t) /\ pc'[t] = "next" /\ loc'[t] = l1
    BY <1>3, <2>1, GotoMoves
  <2> QED BY <1>1, <2>2, <2>3, LocalPreserves
<1>4. ASSUME NEW i \in loc[t].todo,
             Goto(t, LoopBody[loc[t].op],
                  [loc[t] EXCEPT !.todo = @ \ {i}, !.cid = i.cid, !.key = None, !.seen = i.st])
      PROVE  IInv'
  <2> DEFINE l2 == [loc[t] EXCEPT !.todo = @ \ {i}, !.cid = i.cid, !.key = None, !.seen = i.st]
             p == LoopBody[loc[t].op]
  <2>1. p \in {"rfind", "check", "adopt"}
    BY LocNow DEF LocOK, LoopBody
  <2>2. i \in TodoType /\ Issued(i.cid, cts)
    BY LocNow DEF LocOK, LocType
  <2>3. l2 \in LocType
    <3>1. loc[t] \in LocType /\ i.cid \in Cids /\ i.st \in LiveStates
      BY <2>2, LocNow DEF TodoType
    <3>2. loc[t].todo \ {i} \in SUBSET TodoType
      BY <3>1 DEF LocType
    <3> QED BY <3>1, <3>2 DEF LocType
  <2>4. l2.todo = loc[t].todo \ {i} /\ l2.cid = i.cid /\ l2.seen = i.st /\ l2.op = loc[t].op
    BY LocNow DEF LocType
  <2>5. LocOK(p, l2, cts) /\ p \in Pcs
    BY <2>1, <2>2, <2>4, LocNow DEF LocOK, TodoType, Pcs, SpawnPcs, HoldPcs, ItemPcs
  <2>6. Moves(t) /\ pc'[t] = p /\ loc'[t] = l2
    BY <1>4, <2>3, <2>5, GotoMoves
  <2> QED BY <1>1, <2>5, <2>6, LocalPreserves
<1> QED BY <1>2, <1>3, <1>4 DEF NextItem

LEMMA CheckPreserves == ASSUME IInv, NEW t \in Procs, Check(t) PROVE IInv'
<1> DEFINE c == loc[t].cid
           l1 == [loc[t] EXCEPT !.key = cts[c].key]
           l2 == [loc[t] EXCEPT !.seen = cts[c].st]
<1>1. RestTyped' /\ HoldsNone(t) /\ UNCHANGED <<rows, cts, abandoned>> /\ pc[t] = "check"
  BY RestKept DEF Check, HoldsNone, HoldPcs, AllFaultKinds
<1>2. c \in Cids /\ cts[c].st # "unused" /\ cts[c].key \in Keys
  BY <1>1, LocNow DEF LocOK, Issued, ItemPcs, IInv, KeysAgree
<1>3. CASE ~ Live(c) /\ Goto(t, "row", l1)
  <2>1. l1 \in LocType /\ LocOK("row", l1, cts) /\ "row" \in Pcs
    BY <1>1, <1>2, <1>3, LocNow DEF LocOK, LocType, Live, Pcs, SpawnPcs, HoldPcs, ItemPcs
  <2>2. Moves(t) /\ pc'[t] = "row" /\ loc'[t] = l1
    BY <1>3, <2>1, GotoMoves
  <2> QED BY <1>1, <2>1, <2>2, LocalPreserves
<1>4. CASE Live(c) /\ Goto(t, "sync", l2)
  <2>1. l2 \in LocType /\ LocOK("sync", l2, cts) /\ "sync" \in Pcs
    BY <1>1, <1>2, <1>4, LocNow DEF LocOK, LocType, Live, Pcs, SpawnPcs, HoldPcs, ItemPcs
  <2>2. Moves(t) /\ pc'[t] = "sync" /\ loc'[t] = l2
    BY <1>4, <2>1, GotoMoves
  <2> QED BY <1>1, <2>1, <2>2, LocalPreserves
<1>5. CASE Move(t, "next")
  <2>1. LocOK("next", loc[t], cts) /\ "next" \in Pcs
    BY <1>1, LocNow DEF LocOK, Pcs, SpawnPcs, HoldPcs, ItemPcs
  <2>2. Moves(t) /\ pc'[t] = "next" /\ loc'[t] = loc[t]
    BY <1>5, <2>1, LocNow, GotoMoves DEF Move
  <2> QED BY <1>1, <2>1, <2>2, LocalPreserves
<1> QED BY <1>3, <1>4, <1>5 DEF Check

LEMMA SyncStatusPreserves == ASSUME IInv, NEW t \in Procs, SyncStatus(t) PROVE IInv'
<1>1. RestTyped' /\ UNCHANGED <<cts, abandoned>> /\ pc[t] = "sync"
  BY RestKept DEF SyncStatus
<1>2. loc[t].seen \in LiveStates
  BY <1>1, LocNow DEF LocOK
<1>3. /\ rows' \in [Keys -> RowType]
      /\ \A k \in Keys : rows'[k].cid = rows[k].cid
  <2>1. \A k \in Keys : /\ [rows[k] EXCEPT !.status = loc[t].seen] \in RowType
                        /\ [rows[k] EXCEPT !.status = loc[t].seen].cid = rows[k].cid
    BY <1>2 DEF IInv, TypeOK, RowType
  <2> QED BY <2>1 DEF SyncStatus, IInv, TypeOK
<1>4. Monotone /\ KeysAgree'
  BY <1>1, <1>3 DEF Monotone, IInv, KeysAgree, Issued, LiveCids, Live
<1>5. LocOK("next", loc[t], cts') /\ "next" \in Pcs
  BY <1>1, LocNow DEF LocOK, Pcs, SpawnPcs, HoldPcs, ItemPcs
<1>6. Moves(t) /\ pc'[t] = "next" /\ loc'[t] = loc[t]
  BY <1>5, LocNow, GotoMoves DEF SyncStatus, Move
<1>7. Handover(t)
  BY <1>1, <1>3 DEF Handover, HoldPcs
<1>8. TablesTyped'
  BY <1>1, <1>3 DEF TablesTyped, RestTyped, IInv, TypeOK
<1> QED BY <1>4, <1>5, <1>6, <1>7, <1>8, StepPreserves

LEMMA AdoptPreserves == ASSUME IInv, NEW t \in Procs, Adopt(t) PROVE IInv'
<1> DEFINE c == loc[t].cid
           k == cts[c].key
           known == cts[c].st = "running" /\ octetOf[k[1]] = cts[c].oct
           st == IF Live(c) THEN cts[c].st ELSE loc[t].seen
           r0 == RowOf(c, st)
           r == [r0 EXCEPT !.oct = IF known THEN @ ELSE 0, !.host = IF known THEN @ ELSE 0,
                           !.port = IF st = "running" THEN @ ELSE 0]
<1>1. RestTyped' /\ UNCHANGED <<cts, abandoned>> /\ pc[t] = "adopt"
  BY RestKept DEF Adopt
<1>2. c \in Cids /\ Issued(c, cts) /\ k \in Keys
  BY <1>1, LocNow DEF LocOK, Issued, ItemPcs, IInv, KeysAgree
<1>3. r \in RowType /\ r.cid = c
  <2>1. st \in LiveStates
    BY <1>1, LocNow DEF LocOK, Live
  <2>2. r0 \in RowType /\ r0.cid = c
    BY <1>2, <2>1, RowTyped
  <2> HIDE DEF r0, known, st
  <2> QED BY <2>2 DEF RowType
<1>4. LocOK("next", loc[t], cts) /\ "next" \in Pcs
  BY <1>1, LocNow DEF LocOK, Pcs, SpawnPcs, HoldPcs, ItemPcs
<1>5. Moves(t) /\ pc'[t] = "next" /\ loc'[t] = loc[t]
  BY <1>4, LocNow, GotoMoves DEF Adopt, Move
<1>6. CASE UNCHANGED rows
  <2>1. HoldsNone(t)
    BY <1>1 DEF HoldsNone, HoldPcs
  <2> QED BY <1>1, <1>4, <1>5, <1>6, <2>1, LocalPreserves
<1>7. CASE rows[k].cid = None /\ rows' = [rows EXCEPT ![k] = r]
  <2> HIDE DEF r
  <2>1. /\ rows' \in [Keys -> RowType] /\ rows'[k].cid = c
        /\ \A j \in Keys \ {k} : rows'[j] = rows[j]
        /\ Monotone /\ KeysAgree'
    BY <1>1, <1>2, <1>3, <1>7, RowInserted
  <2>2. Handover(t)
    BY <1>1, <1>2, <1>7, <2>1, ConstantsAssumption DEF Handover, HoldPcs
  <2>3. TablesTyped'
    BY <1>1, <2>1 DEF TablesTyped, RestTyped, IInv, TypeOK
  <2> QED BY <1>1, <1>4, <1>5, <2>1, <2>2, <2>3, StepPreserves
<1> QED BY <1>6, <1>7 DEF Adopt

-----------------------------------------------------------------------------
\* Requests, start-up, the crash and Docker's own steps.

\* A request starts a thread with no container in hand.
LEMMA AcceptPreserves ==
    ASSUME IInv, NEW t \in Procs, Accept(t), NEW p \in {"find", "rfind", "next"},
           NEW l \in LocType, Goto(t, p, l), LocOK(p, l, cts)
    PROVE  IInv'
<1>1. HoldsNone(t) /\ UNCHANGED <<rows, cts, abandoned>>
  BY DEF Accept, HoldsNone, HoldPcs
<1>2. RestTyped'
  BY ConstantsAssumption DEF Accept, IInv, TypeOK, RestTyped
<1>3. p \in Pcs
  BY DEF Pcs
<1>4. Moves(t) /\ pc'[t] = p /\ loc'[t] = l
  BY <1>3, GotoMoves
<1> QED BY <1>1, <1>2, <1>4, LocalPreserves

LEMMA RequestPreserves == ASSUME IInv, NEW t \in Threads, Request(t) PROVE IInv'
<1>1. t \in Procs
  BY DEF Procs
<1>2. CASE EnsureInstance(t)
  <2>1. PICK k \in Keys : Goto(t, "find", [NoLoc EXCEPT !.op = "spawn", !.key = k])
    BY <1>2 DEF EnsureInstance
  <2> DEFINE l == [NoLoc EXCEPT !.op = "spawn", !.key = k]
  <2>2. l \in LocType /\ LocOK("find", l, cts)
    BY NoLocOK DEF NoLoc, LocOK, LocType, Ops, SpawnPcs, HoldPcs, ItemPcs
  <2> HIDE DEF l
  <2> QED BY <1>1, <1>2, <2>1, <2>2, AcceptPreserves DEF EnsureInstance, l
<1>3. CASE ReleaseInstance(t)
  <2>1. PICK c \in Cids : /\ Tracked(c) \/ cts[c].st = "gone"
                          /\ Goto(t, "rfind", [NoLoc EXCEPT !.op = "release", !.cid = c])
    BY <1>3 DEF ReleaseInstance
  <2> DEFINE l == [NoLoc EXCEPT !.op = "release", !.cid = c]
  <2>2. Issued(c, cts)
    BY <2>1, ConstantsAssumption DEF Tracked, IInv, KeysAgree, Issued
  <2>3. l \in LocType /\ LocOK("rfind", l, cts)
    BY <2>2, NoLocOK DEF NoLoc, LocOK, LocType, Ops, SpawnPcs, HoldPcs, ItemPcs
  <2> HIDE DEF l
  <2> QED BY <1>1, <1>3, <2>1, <2>3, AcceptPreserves DEF ReleaseInstance, l
<1>4. ASSUME NEW o \in {"kill", "reconcile"}, Accept(t),
             Goto(t, "next", [NoLoc EXCEPT !.op = o, !.todo = ActiveTodo])
      PROVE  IInv'
  <2> DEFINE l == [NoLoc EXCEPT !.op = o, !.todo = ActiveTodo]
  <2>1. l \in LocType /\ LocOK("next", l, cts)
    BY NoLocOK, ActiveTodoOK DEF NoLoc, LocOK, LocType, Ops, SpawnPcs, HoldPcs, ItemPcs
  <2> HIDE DEF l
  <2> QED BY <1>1, <1>4, <2>1, AcceptPreserves DEF l
<1> QED BY <1>2, <1>3, <1>4 DEF Request, KillSwitch, Reconcile

LEMMA BootScanPreserves == ASSUME IInv, BootScan PROVE IInv'
<1>1. Main \in Procs
  BY DEF Procs
<1>2. RestTyped' /\ HoldsNone(Main) /\ UNCHANGED <<rows, cts, abandoned>>
  BY RestKept DEF BootScan, HoldsNone, HoldPcs, AllFaultKinds
<1>3. CASE Return(Main)
  BY <1>1, <1>2, <1>3, ReturnMoves, LocalPreserves
<1>4. ASSUME NEW S \in SUBSET TodoType, \A i \in S : Issued(i.cid, cts),
             Goto(Main, "next", [NoLoc EXCEPT !.op = "adopt", !.todo = S])
      PROVE  IInv'
  <2> DEFINE l == [NoLoc EXCEPT !.op = "adopt", !.todo = S]
  <2>1. l \in LocType /\ LocOK("next", l, cts) /\ "next" \in Pcs
    BY <1>4, NoLocOK DEF NoLoc, LocOK, LocType, Ops, Pcs, SpawnPcs, HoldPcs, ItemPcs
  <2>2. Moves(Main) /\ pc'[Main] = "next" /\ loc'[Main] = l
    BY <1>1, <1>4, <2>1, GotoMoves
  <2> QED BY <1>1, <1>2, <2>1, <2>2, LocalPreserves
<1> DEFINE S1 == {[cid |-> c, st |-> cts[c].st] : c \in {c \in LiveCids : ~ Tracked(c)}}
<1>5. S1 \in SUBSET TodoType /\ (\A i \in S1 : Issued(i.cid, cts))
  BY DEF LiveCids, Live, TodoType, Issued, LiveStates
<1>6. \/ Return(Main)
      \/ \E S \in {S1, {}} : Goto(Main, "next", [NoLoc EXCEPT !.op = "adopt", !.todo = S])
  BY DEF BootScan
<1> HIDE DEF S1
<1> QED BY <1>3, <1>4, <1>5, <1>6

LEMMA CrashPreserves == ASSUME IInv, Crash PROVE IInv'
<1>1. TypeOK'
  <2>1. faults' \in 0..MaxFaults
    BY FaultTyped DEF Crash
  <2>2. loc' \in [Procs -> LocType] /\ pc' \in [Procs -> Pcs]
    BY NoLocOK DEF Crash, Pcs
  <2>3. abandoned' \subseteq Cids
    BY DEF Crash, LiveCids, IInv, TypeOK
  <2> QED BY <2>1, <2>2, <2>3 DEF Crash, IInv, TypeOK
<1>2. KeysAgree'
  BY DEF Crash, IInv, KeysAgree, Issued, LiveCids, Live
<1>3. ThreadsOK'
  <2>1. LocOK("boot", NoLoc, cts')
    BY DEF NoLoc, LocOK, SpawnPcs, HoldPcs, ItemPcs
  <2> QED BY <2>1, NoLocOK DEF Crash, ThreadsOK
<1>4. ContainersAccounted'
  BY DEF Crash, ContainersAccounted, LiveCids, Live, Tracked
<1> QED BY <1>1, <1>2, <1>3, <1>4 DEF IInv

LEMMA DockerPreserves ==
    ASSUME IInv, DockerRemove \/ DockerExit \/ DockerRestart
    PROVE  IInv'
<1>1. RestTyped' /\ UNCHANGED <<rows, pc, loc, abandoned>> /\ Main \in Procs
  BY RestKept DEF DockerRemove, DockerExit, DockerRestart, Procs, AllFaultKinds
<1>2. PICK c \in Cids, s \in LiveStates \cup {"gone"} :
           cts[c].st \in LiveStates /\ cts' = [cts EXCEPT ![c].st = s]
  BY DEF DockerRemove, DockerExit, DockerRestart, LiveCids, Live, LiveStates
<1>3. /\ cts' \in [Cids -> CtType] /\ cts'[c].st = s
      /\ \A d \in Cids \ {c} : cts'[d] = cts[d]
      /\ Monotone /\ KeysAgree'
  BY <1>1, <1>2, StateChange DEF LiveStates
<1>4. Moves(Main)
  BY <1>1 DEF Moves, IInv, TypeOK
<1>5. LocOK(pc'[Main], loc'[Main], cts')
  BY <1>1, <1>3, LocNow, LocStable
<1>6. Handover(Main)
  BY <1>1, <1>2, <1>3 DEF Handover
<1>7. TablesTyped'
  BY <1>1, <1>3 DEF TablesTyped, RestTyped, IInv, TypeOK
<1> QED BY <1>1, <1>3, <1>4, <1>5, <1>6, <1>7, StepPreserves

-----------------------------------------------------------------------------
\* The theorems.

LEMMA InitIInv == Init => IInv
<1> SUFFICES ASSUME Init PROVE IInv
  OBVIOUS
<1>1. TypeOK
  BY NoLocOK, ConstantsAssumption
     DEF Init, TypeOK, NoRow, RowType, CtType, Pcs, LiveStates
<1>2. KeysAgree
  BY DEF Init, KeysAgree, NoRow, LiveCids, Live, LiveStates
<1>3. ThreadsOK
  BY NoLocOK DEF Init, ThreadsOK
<1>4. ContainersAccounted
  BY DEF Init, ContainersAccounted, LiveCids, Live, LiveStates
<1> QED BY <1>1, <1>2, <1>3, <1>4 DEF IInv

\* Every step of every thread, of the daemon and of Docker preserves the
\* inductive invariant.
LEMMA NextIInv == IInv /\ [Next]_vars => IInv'
<1> SUFFICES ASSUME IInv, [Next]_vars PROVE IInv'
  OBVIOUS
<1>1. CASE UNCHANGED vars
  BY <1>1 DEF vars, IInv, TypeOK, KeysAgree, ThreadsOK, ContainersAccounted, LiveCids,
              Live, Tracked, InFlight
<1>2. ASSUME NEW t \in Threads, Request(t) PROVE IInv'
  BY <1>2, RequestPreserves
<1>3. ASSUME NEW t \in Procs, SpawnStep(t) PROVE IInv'
  BY <1>3, FindPreserves, GetOctetPreserves, AllocOctetPreserves, GetNetPreserves,
     MakeNetPreserves, BuildPreserves, PickAddressPreserves, CreatePreserves,
     StartPreserves, GetPreserves, CleanPreserves, ReloadPreserves,
     AddInstancePreserves, UndoPreserves DEF SpawnStep
<1>4. ASSUME NEW t \in Procs, ReleaseStep(t) PROVE IInv'
  BY <1>4, FindRowPreserves, StopPreserves, RemovePreserves, RemoveRowPreserves, CountRowsPreserves,
     GetOctetToFreePreserves, RemoveNetPreserves, FreeOctetPreserves DEF ReleaseStep
<1>5. ASSUME NEW t \in Procs, LoopStep(t) PROVE IInv'
  BY <1>5, NextItemPreserves, CheckPreserves, SyncStatusPreserves, AdoptPreserves
     DEF LoopStep
<1>6. CASE BootScan \/ Environment
  BY <1>6, BootScanPreserves, CrashPreserves, DockerPreserves DEF Environment
<1> QED BY <1>1, <1>2, <1>3, <1>4, <1>5, <1>6 DEF Next, ThreadStep

\* The invariant of the specification from which the three theorems follow.
THEOREM InductiveInvariant == Spec => []IInv
BY InitIInv, NextIInv, PTL DEF Spec

\* The tables, Docker's objects and the locals of db.py and containers.py keep
\* their types, for any number of owners, threads, octets and retries.
THEOREM TypeCorrect == Spec => []TypeOK
<1>1. IInv => TypeOK
  BY DEF IInv
<1> QED BY <1>1, InductiveInvariant, PTL

\* spawn_instance, release_instance, reconcile and adopt_untracked forget no
\* container, whatever their interleaving and Docker's errors.
THEOREM NoContainerForgotten == Spec => []ContainersAccounted
<1>1. IInv => ContainersAccounted
  BY DEF IInv
<1> QED BY <1>1, InductiveInvariant, PTL

\* The steps that change the instances table.
LEMMA RowMovers ==
    ASSUME [Next]_vars
    PROVE  \/ UNCHANGED rows
           \/ \E t \in Procs : AddInstance(t) \/ RemoveRow(t) \/ SyncStatus(t) \/ Adopt(t)
<1>1. ASSUME NEW t \in Threads, Request(t) PROVE UNCHANGED rows
  BY <1>1 DEF Request, EnsureInstance, ReleaseInstance, KillSwitch, Reconcile, Accept
<1>2. ASSUME NEW t \in Procs, SpawnStep(t) PROVE UNCHANGED rows \/ AddInstance(t)
  BY <1>2 DEF SpawnStep, Find, GetOctet, AllocOctet, GetNet, MakeNet, Build,
              PickAddress, Create, Start, Get, Clean, Reload, Undo
<1>3. ASSUME NEW t \in Procs, ReleaseStep(t) PROVE UNCHANGED rows \/ RemoveRow(t)
  BY <1>3 DEF ReleaseStep, FindRow, Stop, Remove, CountRows, GetOctetToFree, RemoveNet,
              FreeOctet
<1>4. ASSUME NEW t \in Procs, LoopStep(t)
      PROVE  UNCHANGED rows \/ SyncStatus(t) \/ Adopt(t)
  BY <1>4 DEF LoopStep, NextItem, Check
<1>5. CASE BootScan \/ Environment
  BY <1>5 DEF BootScan, Environment, Crash, DockerRemove, DockerExit, DockerRestart
<1> QED BY <1>1, <1>2, <1>3, <1>4, <1>5 DEF Next, ThreadStep, vars

\* remove_instance deletes only rows of containers that are gone, and no other
\* call takes a row away.
LEMMA RowStep ==
    ASSUME IInv, [Next]_vars, NEW k \in Keys, rows[k].cid # None, rows'[k].cid # rows[k].cid
    PROVE  ~ Live(rows[k].cid) /\ rows'[k].cid = None
<1>1. CASE UNCHANGED rows
  BY <1>1
<1>2. ASSUME NEW t \in Procs, AddInstance(t) PROVE FALSE
  <2>1. rows' = [rows EXCEPT ![loc[t].key] = RowOf(loc[t].cid, "running")]
        /\ rows[loc[t].key].cid = None
    BY <1>2 DEF AddInstance
  <2> QED BY <2>1 DEF IInv, TypeOK
<1>3. ASSUME NEW t \in Procs, RemoveRow(t)
      PROVE  ~ Live(rows[k].cid) /\ rows'[k].cid = None
  <2>1. rows[k].cid = loc[t].cid /\ rows'[k].cid = None
    BY <1>3 DEF RemoveRow, NoRow
  <2>2. cts[loc[t].cid].st \notin LiveStates
    BY <1>3, LocNow DEF RemoveRow, LocOK
  <2> QED BY <2>1, <2>2 DEF Live
<1>4. ASSUME NEW t \in Procs, SyncStatus(t) PROVE FALSE
  <2>1. [rows[k] EXCEPT !.status = loc[t].seen].cid = rows[k].cid
    BY DEF IInv, TypeOK, RowType
  <2> QED BY <1>4, <2>1 DEF SyncStatus
<1>5. ASSUME NEW t \in Procs, Adopt(t) PROVE FALSE
  <2>1. UNCHANGED rows \/ \E j \in Keys : \E r : rows[j].cid = None /\ rows' = [rows EXCEPT ![j] = r]
    <3>1. cts[loc[t].cid].key \in Keys
      BY <1>5, LocNow DEF Adopt, LocOK, Issued, ItemPcs, IInv, KeysAgree
    <3> QED BY <1>5, <3>1 DEF Adopt
  <2> QED BY <2>1 DEF IInv, TypeOK
<1> QED BY <1>1, <1>2, <1>3, <1>4, <1>5, RowMovers

\* A row outlives its container: no caller of release_instance, kill_switch or
\* container.reconcile loses the record of something that still exists.
THEOREM RowsOutlive == Spec => RowsOutliveContainers
<1> DEFINE A == \A k \in Keys : rows[k].cid # None /\ rows'[k].cid # rows[k].cid
                                  => ~ Live(rows[k].cid)
<1>1. IInv /\ [Next]_vars => [A]_vars
  BY RowStep
<1> QED BY <1>1, InductiveInvariant, PTL DEF Spec, RowsOutliveContainers
-----------------------------------------------------------------------------
\* The refinement.

\* The steps that change a container.
LEMMA CtsMovers ==
    ASSUME [Next]_vars
    PROVE  \/ UNCHANGED cts
           \/ \E t \in Procs : \/ Create(t) \/ Start(t) \/ Undo(t) \/ Clean(t)
                              \/ Stop(t) \/ Remove(t)
           \/ DockerRemove \/ DockerExit \/ DockerRestart
<1>1. ASSUME NEW t \in Threads, Request(t) PROVE UNCHANGED cts
  BY <1>1 DEF Request, EnsureInstance, ReleaseInstance, KillSwitch, Reconcile, Accept
<1>2. ASSUME NEW t \in Procs, SpawnStep(t)
      PROVE  UNCHANGED cts \/ Create(t) \/ Start(t) \/ Undo(t) \/ Clean(t)
  BY <1>2 DEF SpawnStep, Find, GetOctet, AllocOctet, GetNet, MakeNet, Build,
              PickAddress, Get, Reload, AddInstance
<1>3. ASSUME NEW t \in Procs, ReleaseStep(t) PROVE UNCHANGED cts \/ Stop(t) \/ Remove(t)
  BY <1>3 DEF ReleaseStep, FindRow, RemoveRow, CountRows, GetOctetToFree, RemoveNet,
              FreeOctet
<1>4. ASSUME NEW t \in Procs, LoopStep(t) PROVE UNCHANGED cts
  BY <1>4 DEF LoopStep, NextItem, Check, SyncStatus, Adopt
<1>5. CASE BootScan \/ Crash
  BY <1>5 DEF BootScan, Crash
<1> QED BY <1>1, <1>2, <1>3, <1>4, <1>5 DEF Next, ThreadStep, Environment, vars

\* Docker's steps and those of the create loop bring no container back.
LEMMA GoneStays ==
    ASSUME IInv, [Next]_vars, NEW c \in Cids, cts[c].st = "gone"
    PROVE  cts'[c].st = "gone"
<1>1. CASE UNCHANGED cts
  BY <1>1
<1>2. ASSUME NEW t \in Procs, Create(t) PROVE cts'[c].st = "gone"
  <2>1. UNCHANGED cts \/ \E new : \E d \in Cids : cts[d].st = "unused" /\ cts' = [cts EXCEPT ![d] = new]
    BY <1>2 DEF Create, FreshCid
  <2> QED BY <2>1 DEF IInv, TypeOK
<1>3. ASSUME NEW d \in Cids, NEW s, cts' = [cts EXCEPT ![d].st = s],
             cts[d].st \in LiveStates \/ s = "gone"
      PROVE  cts'[c].st = "gone"
  <2>1. CASE d = c
    BY <1>3, <2>1 DEF IInv, TypeOK, CtType, LiveStates
  <2>2. CASE d # c
    BY <1>3, <2>2 DEF IInv, TypeOK
  <2> QED BY <2>1, <2>2
<1>4. ASSUME NEW t \in Procs, Start(t) \/ Undo(t) \/ Stop(t) \/ Remove(t) PROVE cts'[c].st = "gone"
  <2>1. loc[t].cid \in Cids
    BY <1>4, LocNow, ConstantsAssumption
       DEF Start, Undo, Stop, Remove, LocOK, Issued, LocType, SpawnPcs, HoldPcs, ItemPcs
  <2>2. CASE Start(t)
    BY <1>1, <1>3, <2>1, <2>2 DEF Start, Live
  <2>3. CASE Undo(t)
    BY <1>1, <1>3, <2>1, <2>3 DEF Undo
  <2>4. CASE Stop(t) \/ Remove(t)
    BY <1>1, <1>3, <2>1, <2>4 DEF Stop, Remove, Live
  <2> QED BY <1>4, <2>2, <2>3, <2>4
<1>5. ASSUME NEW t \in Procs, Clean(t) PROVE cts'[c].st = "gone"
  <2>1. c \notin Named(loc[t].key)
    BY DEF Named, LiveCids, Live, LiveStates
  <2> QED BY <1>1, <1>5, <2>1 DEF Clean
<1>6. CASE DockerRemove \/ DockerExit \/ DockerRestart
  <2>1. PICK d \in Cids : /\ cts[d].st \in LiveStates
                          /\ \E s : cts' = [cts EXCEPT ![d].st = s]
    BY <1>6 DEF DockerRemove, DockerExit, DockerRestart, LiveCids, Live, LiveStates
  <2> QED BY <1>3, <2>1
<1> QED BY <1>1, <1>2, <1>4, <1>5, <1>6, CtsMovers

\* The container service implements the table of instances: a key takes a
\* container of its own when it has none, and gives it up only when it is gone,
\* for any interleaving of the handlers, errors of Docker and deaths of the daemon.
THEOREM Refinement == Spec => ImplementsTable
<1>1. Init => Table!Init
  BY DEF Init, NoRow, Table!Init
<1>2. IInv /\ [Next]_vars => [Table!Next]_Table!vars
  <2> SUFFICES ASSUME IInv, [Next]_vars PROVE Table!Next
    OBVIOUS
  <2>1. IInv'
    BY NextIInv
  <2>2. \A k \in Keys : Table!Takes(k) \/ Table!Drops(k) \/ Table!Keeps(k)
    <3> SUFFICES ASSUME NEW k \in Keys
                 PROVE  Table!Takes(k) \/ Table!Drops(k) \/ Table!Keeps(k)
      OBVIOUS
    <3>1. CASE rows'[k].cid = rows[k].cid
      BY <3>1 DEF Table!Keeps
    <3>2. CASE rows[k].cid = None /\ rows'[k].cid # None
      <4>1. rows'[k].cid \in Cids
        BY <2>1, <3>2 DEF IInv, KeysAgree, Issued
      <4> QED BY <3>2, <4>1 DEF Table!Takes
    <3>3. CASE rows[k].cid # None /\ rows'[k].cid # rows[k].cid
      <4>1. ~ Live(rows[k].cid) /\ rows'[k].cid = None
        BY <3>3, RowStep
      <4>2. rows[k].cid \in Cids /\ cts[rows[k].cid].st = "gone"
        BY <3>3, <4>1 DEF IInv, TypeOK, CtType, KeysAgree, Issued, Live
      <4>3. cts'[rows[k].cid].st = "gone"
        BY <4>2, GoneStays
      <4> QED BY <4>1, <4>2, <4>3 DEF Table!Drops
    <3> QED BY <3>1, <3>2, <3>3
  <2>3. \A j, k \in Keys : rows'[j].cid = rows'[k].cid /\ rows'[k].cid # None => j = k
    BY <2>1 DEF IInv, KeysAgree
  <2>4. {c \in Cids : cts[c].st = "gone"} \subseteq {c \in Cids : cts'[c].st = "gone"}
    BY GoneStays
  <2> QED BY <2>2, <2>3, <2>4 DEF Table!Next
<1> QED BY <1>1, <1>2, InductiveInvariant, PTL DEF Spec, ImplementsTable, Table!Spec

-----------------------------------------------------------------------------
\* Start-up and requests.

\* Only the main thread starts up, and it serves no spawn.
BootOK(t) ==
    /\ pc[t] = "adopt" => loc[t].op = "adopt"
    /\ loc[t].op = "adopt" => t = Main /\ pc[t] \in {"next", "adopt"}
    /\ pc[t] = "boot" => t = Main
    /\ pc[t] \in SpawnPcs \cup {"find"} => t # Main

\* No request is served until the start-up has ended.
BootInv ==
    /\ pc[Main] # "idle" => \A t \in Threads : pc[t] = "idle"
    /\ \A t \in Procs : BootOK(t)

\* No thread but t moves.
Alone(t) == \A u \in Procs \ {t} : pc'[u] = pc[u] /\ loc'[u] = loc[u]

ReleasePcs == {"rfind", "stop", "remove", "row", "count", "goct", "rmnet", "free"}

LEMMA GotoThere ==
    ASSUME IInv, NEW t \in Procs, NEW p, NEW l, Goto(t, p, l)
    PROVE  pc'[t] = p /\ loc'[t] = l /\ Alone(t)
BY DEF Goto, Alone, IInv, TypeOK

LEMMA ReturnThere ==
    ASSUME IInv, NEW t \in Procs, Return(t)
    PROVE  pc'[t] = "idle" /\ loc'[t] = NoLoc /\ Alone(t)
BY GotoThere DEF Return

LEMMA MoveThere ==
    ASSUME IInv, NEW t \in Procs, NEW p, Move(t, p)
    PROVE  pc'[t] = p /\ loc'[t] = loc[t] /\ Alone(t)
BY GotoThere DEF Move

\* The thread goes on with the same request.
Goes(t) ==
    /\ loc'[t].op = loc[t].op /\ loc'[t].key = loc[t].key
    /\ loc'[t].todo = loc[t].todo

\* A step of spawn_instance ends the request or goes on with its key.
LEMMA SpawnControl ==
    ASSUME IInv, NEW t \in Procs, SpawnStep(t)
    PROVE  /\ pc[t] \in SpawnPcs \cup {"find"} /\ Alone(t)
           /\ \/ pc'[t] = "idle" /\ loc'[t] = NoLoc
              \/ pc'[t] \in SpawnPcs /\ Goes(t)
<1> DEFINE Ends  == pc'[t] = "idle" /\ loc'[t] = NoLoc
           Spawns == pc'[t] \in SpawnPcs /\ Goes(t)
<1>1. loc[t] \in LocType
  BY LocNow
<1>2. Return(t) => Ends /\ Alone(t)
  BY ReturnThere
<1>3. ASSUME NEW p \in SpawnPcs, Move(t, p) PROVE Spawns /\ Alone(t)
  BY <1>3, MoveThere DEF Goes
<1>4. ASSUME NEW p \in SpawnPcs, NEW l, Goto(t, p, l),
             l.op = loc[t].op, l.key = loc[t].key, l.todo = loc[t].todo
      PROVE  Spawns /\ Alone(t)
  BY <1>4, GotoThere DEF Goes
<1>5. ASSUME NEW b, ToClean(t, b) PROVE Spawns /\ Alone(t)
  BY <1>1, <1>4, <1>5 DEF ToClean, LocType, SpawnPcs
<1>6. ASSUME Find(t) \/ GetNet(t) \/ MakeNet(t) \/ Reload(t) \/ AddInstance(t) \/ Undo(t)
      PROVE  (Ends \/ Spawns) /\ Alone(t)
  BY <1>2, <1>3, <1>6 DEF Find, GetNet, MakeNet, Reload, AddInstance, Undo, SpawnPcs
<1>7. ASSUME GetOctet(t) \/ Build(t) PROVE (Ends \/ Spawns) /\ Alone(t)
  BY <1>1, <1>2, <1>4, <1>7 DEF GetOctet, Build, SpawnPcs, LocType
<1>8. ASSUME AllocOctet(t) PROVE (Ends \/ Spawns) /\ Alone(t)
  <2>1. CASE Goto(t, "alloc", [loc[t] EXCEPT !.left = @ - 1])
    BY <1>1, <1>4, <2>1 DEF SpawnPcs, LocType
  <2>2. ASSUME NEW n, Goto(t, "net", [loc[t] EXCEPT !.oct = n, !.left = 0])
        PROVE  Spawns /\ Alone(t)
    BY <1>1, <1>4, <2>2 DEF SpawnPcs, LocType
  <2> QED BY <1>2, <1>8, <2>1, <2>2 DEF AllocOctet
<1>9. ASSUME PickAddress(t) PROVE (Ends \/ Spawns) /\ Alone(t)
  <2>1. CASE Goto(t, "ip", [loc[t] EXCEPT !.left = @ - 1])
    BY <1>1, <1>4, <2>1 DEF SpawnPcs, LocType
  <2>2. ASSUME NEW h, NEW p, Goto(t, "create", [loc[t] EXCEPT !.host = h, !.port = p])
        PROVE  Spawns /\ Alone(t)
    BY <1>1, <1>4, <2>2 DEF SpawnPcs, LocType
  <2> QED BY <1>2, <1>9, <2>1, <2>2 DEF PickAddress
<1>10. ASSUME Create(t) PROVE (Ends \/ Spawns) /\ Alone(t)
  <2>1. ASSUME NEW c, Goto(t, "start", [loc[t] EXCEPT !.cid = c]) PROVE Spawns /\ Alone(t)
    BY <1>1, <1>4, <2>1 DEF SpawnPcs, LocType
  <2> QED BY <1>5, <1>10, <2>1 DEF Create
<1>11. ASSUME Start(t) \/ Get(t) PROVE (Ends \/ Spawns) /\ Alone(t)
  BY <1>3, <1>5, <1>11 DEF Start, Get, SpawnPcs
<1>12. ASSUME Clean(t) PROVE (Ends \/ Spawns) /\ Alone(t)
  <2> DEFINE l == [loc[t] EXCEPT !.triedHosts = @ \cup {loc[t].host}, !.cid = None,
                        !.triedPorts = @ \cup {loc[t].port}, !.left = @ - 1,
                        !.conflict = FALSE]
  <2>1. l.op = loc[t].op /\ l.key = loc[t].key /\ l.todo = loc[t].todo
    BY <1>1 DEF LocType
  <2>2. Return(t) \/ Goto(t, "ip", l)
    BY <1>12 DEF Clean
  <2> HIDE DEF l
  <2> QED BY <1>2, <1>4, <2>1, <2>2 DEF SpawnPcs
<1>13. pc[t] \in SpawnPcs \cup {"find"}
  BY DEF SpawnStep, Find, GetOctet, AllocOctet, GetNet, MakeNet, Build, PickAddress,
         Create, Start, Get, Clean, Reload, AddInstance, Undo, SpawnPcs
<1> QED BY <1>6, <1>7, <1>8, <1>9, <1>10, <1>11, <1>12, <1>13 DEF SpawnStep

\* A step of release_instance goes on to the next, or back to the loop.
LEMMA ReleaseControl ==
    ASSUME IInv, NEW t \in Procs, ReleaseStep(t)
    PROVE  /\ pc[t] \in ReleasePcs /\ Alone(t)
           /\ pc'[t] \in (ReleasePcs \ {"rfind"}) \cup {"next"}
           /\ loc'[t].op = loc[t].op /\ loc'[t].todo = loc[t].todo
<1> DEFINE Goal == /\ Alone(t) /\ pc'[t] \in (ReleasePcs \ {"rfind"}) \cup {"next"}
                   /\ loc'[t].op = loc[t].op /\ loc'[t].todo = loc[t].todo
<1>1. loc[t] \in LocType
  BY LocNow
<1>2. ASSUME NEW p \in (ReleasePcs \ {"rfind"}) \cup {"next"}, Move(t, p) PROVE Goal
  BY <1>2, MoveThere
<1>3. ASSUME NEW p \in (ReleasePcs \ {"rfind"}) \cup {"next"}, NEW l, Goto(t, p, l),
             l.op = loc[t].op, l.todo = loc[t].todo
      PROVE  Goal
  BY <1>3, GotoThere
<1>4. ASSUME FindRow(t) PROVE Goal
  <2>1. PICK k : Goto(t, "stop", [loc[t] EXCEPT !.key = k])
    BY <1>4 DEF FindRow
  <2> QED BY <1>1, <1>3, <2>1 DEF ReleasePcs, LocType
<1>5. ASSUME GetOctetToFree(t) PROVE Goal
  <2>1. ASSUME NEW n, Goto(t, "rmnet", [loc[t] EXCEPT !.oct = n]) PROVE Goal
    BY <1>1, <1>3, <2>1 DEF ReleasePcs, LocType
  <2> QED BY <1>2, <1>5, <2>1 DEF GetOctetToFree, ReleasePcs
<1>6. ASSUME \/ Stop(t) \/ Remove(t) \/ RemoveRow(t)
             \/ CountRows(t) \/ RemoveNet(t) \/ FreeOctet(t)
      PROVE  Goal
  BY <1>2, <1>6 DEF Stop, Remove, RemoveRow, CountRows, RemoveNet, FreeOctet, ReleasePcs
<1>7. pc[t] \in ReleasePcs
  BY DEF ReleaseStep, FindRow, Stop, Remove, RemoveRow, CountRows, GetOctetToFree,
         RemoveNet, FreeOctet, ReleasePcs
<1> QED BY <1>4, <1>5, <1>6, <1>7 DEF ReleaseStep

\* The loops, and the bodies of reconcile and adopt_untracked.
LEMMA NextItemControl ==
    ASSUME IInv, NEW t \in Procs, NextItem(t)
    PROVE  /\ pc[t] = "next" /\ Alone(t)
           /\ \/ loc[t].op # "adopt" /\ pc'[t] = "idle" /\ loc'[t] = NoLoc
              \/ /\ loc[t].op = "adopt" /\ loc[t].todo = {}
                 /\ pc'[t] = "next" /\ loc'[t].op = "reconcile"
              \/ \E i \in loc[t].todo :
                   /\ pc'[t] = LoopBody[loc[t].op] /\ loc'[t].op = loc[t].op
                   /\ loc[t].op \in {"kill", "reconcile", "adopt"}
                   /\ loc'[t].todo = loc[t].todo \ {i} /\ loc'[t].cid = i.cid
<1>1. loc[t] \in LocType /\ LocOK("next", loc[t], cts)
  BY LocNow DEF NextItem
<1>2. CASE Return(t) /\ loc[t].op # "adopt"
  BY <1>2, ReturnThere DEF NextItem
<1>3. CASE /\ loc[t].todo = {} /\ loc[t].op = "adopt"
           /\ Goto(t, "next", [NoLoc EXCEPT !.op = "reconcile", !.todo = ActiveTodo])
  <2> DEFINE l == [NoLoc EXCEPT !.op = "reconcile", !.todo = ActiveTodo]
  <2>1. l.op = "reconcile"
    BY DEF NoLoc
  <2>2. Goto(t, "next", l) /\ pc[t] = "next"
    BY <1>3 DEF NextItem
  <2> HIDE DEF l
  <2> QED BY <1>3, <2>1, <2>2, GotoThere
<1>4. ASSUME NEW i \in loc[t].todo,
             Goto(t, LoopBody[loc[t].op],
                  [loc[t] EXCEPT !.todo = @ \ {i}, !.cid = i.cid, !.key = None, !.seen = i.st])
      PROVE  /\ Alone(t)
             /\ pc'[t] = LoopBody[loc[t].op] /\ loc'[t].op = loc[t].op
             /\ loc[t].op \in {"kill", "reconcile", "adopt"}
             /\ loc'[t].todo = loc[t].todo \ {i} /\ loc'[t].cid = i.cid
  <2> DEFINE l == [loc[t] EXCEPT !.todo = @ \ {i}, !.cid = i.cid, !.key = None, !.seen = i.st]
  <2>1. l.op = loc[t].op /\ l.todo = loc[t].todo \ {i} /\ l.cid = i.cid
    BY <1>1 DEF LocType
  <2>2. Goto(t, LoopBody[loc[t].op], l)
    BY <1>4
  <2> HIDE DEF l
  <2>3. loc[t].op \in {"kill", "reconcile", "adopt"}
    BY <1>1, <1>4 DEF LocOK
  <2> QED BY <2>1, <2>2, <2>3, GotoThere
<1> QED BY <1>2, <1>3, <1>4 DEF NextItem

LEMMA BodyControl ==
    ASSUME IInv, NEW t \in Procs, Check(t) \/ SyncStatus(t) \/ Adopt(t)
    PROVE  /\ pc[t] \in {"check", "sync", "adopt"} /\ Alone(t)
           /\ pc'[t] \in {"row", "sync", "next"} /\ (pc[t] # "check" => pc'[t] = "next")
           /\ loc'[t].op = loc[t].op /\ loc'[t].todo = loc[t].todo
<1>1. loc[t] \in LocType
  BY LocNow
<1>2. CASE SyncStatus(t) \/ Adopt(t)
  BY <1>2, MoveThere DEF SyncStatus, Adopt
<1>3. CASE Check(t)
  <2>1. CASE Move(t, "next")
    BY <1>3, <2>1, MoveThere DEF Check
  <2>2. ASSUME NEW k, Goto(t, "row", [loc[t] EXCEPT !.key = k])
        PROVE  /\ Alone(t) /\ pc'[t] = "row"
               /\ loc'[t].op = loc[t].op /\ loc'[t].todo = loc[t].todo
    BY <1>1, <2>2, GotoThere DEF LocType
  <2>3. ASSUME NEW s, Goto(t, "sync", [loc[t] EXCEPT !.seen = s])
        PROVE  /\ Alone(t) /\ pc'[t] = "sync"
               /\ loc'[t].op = loc[t].op /\ loc'[t].todo = loc[t].todo
    BY <1>1, <2>3, GotoThere DEF LocType
  <2> QED BY <1>3, <2>1, <2>2, <2>3 DEF Check
<1> QED BY <1>2, <1>3

LEMMA StepAlone ==
    ASSUME IInv, NEW t \in Procs, ThreadStep(t)
    PROVE  Alone(t) /\ pc[t] \notin {"idle", "boot"}
<1>1. Alone(t)
  BY SpawnControl, ReleaseControl, NextItemControl, BodyControl DEF ThreadStep, LoopStep
<1>2. pc[t] \notin {"idle", "boot"}
  BY SpawnControl, ReleaseControl, NextItemControl, BodyControl
     DEF ThreadStep, LoopStep, SpawnPcs, ReleasePcs
<1> QED BY <1>1, <1>2

LEMMA RequestControl ==
    ASSUME IInv, NEW t \in Threads, Request(t)
    PROVE  /\ t \in Procs /\ Alone(t) /\ pc[t] = "idle" /\ pc[Main] = "idle"
           /\ pc'[t] \in {"find", "rfind", "next"}
           /\ loc'[t].op \in {"spawn", "release", "kill", "reconcile"}
           /\ UNCHANGED <<octetOf, rows, nets, cts, abandoned>>
<1>1. t \in Procs
  BY DEF Procs
<1> DEFINE Goal == /\ Alone(t) /\ pc'[t] \in {"find", "rfind", "next"}
                   /\ loc'[t].op \in {"spawn", "release", "kill", "reconcile"}
<1>2. ASSUME NEW p \in {"find", "rfind", "next"}, NEW l, Goto(t, p, l),
             l.op \in {"spawn", "release", "kill", "reconcile"}
      PROVE  Goal
  BY <1>1, <1>2, GotoThere
<1>4. ASSUME EnsureInstance(t) PROVE Goal
  <2>1. PICK k : Goto(t, "find", [NoLoc EXCEPT !.op = "spawn", !.key = k])
    BY <1>4 DEF EnsureInstance
  <2> QED BY <1>2, <2>1 DEF NoLoc
<1>5. ASSUME ReleaseInstance(t) PROVE Goal
  <2>1. PICK c : Goto(t, "rfind", [NoLoc EXCEPT !.op = "release", !.cid = c])
    BY <1>5 DEF ReleaseInstance
  <2> QED BY <1>2, <2>1 DEF NoLoc
<1>6. ASSUME NEW o \in {"kill", "reconcile"},
             Goto(t, "next", [NoLoc EXCEPT !.op = o, !.todo = ActiveTodo])
      PROVE  Goal
  BY <1>2, <1>6 DEF NoLoc
<1>7. Goal
  BY <1>4, <1>5, <1>6 DEF Request, KillSwitch, Reconcile
<1>3. Accept(t)
  BY DEF Request, EnsureInstance, ReleaseInstance, KillSwitch, Reconcile
<1> QED BY <1>1, <1>3, <1>7 DEF Accept

\* A thread's own step keeps to its part.
LEMMA BootOKKept ==
    ASSUME IInv, NEW t \in Procs, ThreadStep(t), BootOK(t) PROVE BootOK(t)'
<1>1. CASE SpawnStep(t)
  BY <1>1, SpawnControl DEF BootOK, Goes, NoLoc, SpawnPcs
<1>2. CASE ReleaseStep(t)
  BY <1>2, ReleaseControl DEF BootOK, ReleasePcs, SpawnPcs
<1>3. CASE Check(t) \/ SyncStatus(t) \/ Adopt(t)
  BY <1>3, BodyControl DEF BootOK, SpawnPcs
<1>4. CASE NextItem(t)
  <2>1. CASE pc'[t] = "idle" /\ loc'[t] = NoLoc
    BY <2>1 DEF BootOK, NoLoc, SpawnPcs
  <2>2. CASE pc'[t] = "next" /\ loc'[t].op = "reconcile"
    BY <2>2 DEF BootOK, SpawnPcs
  <2>3. CASE /\ pc'[t] = LoopBody[loc[t].op] /\ loc'[t].op = loc[t].op
             /\ loc[t].op \in {"kill", "reconcile", "adopt"}
    BY <2>3 DEF BootOK, LoopBody, SpawnPcs
  <2> QED BY <1>4, <2>1, <2>2, <2>3, NextItemControl
<1> QED BY <1>1, <1>2, <1>3, <1>4 DEF ThreadStep, LoopStep

LEMMA BootInit == Init => BootInv
BY DEF Init, BootInv, BootOK, NoLoc, SpawnPcs, Procs

\* Start-up finds what no row knows, or nothing when Docker does not answer; with
\* no Docker at all it ends at once.
LEMMA BootScanMoves ==
    ASSUME IInv, BootScan
    PROVE  /\ pc[Main] = "boot" /\ Alone(Main) /\ UNCHANGED <<octetOf, rows, nets, cts, abandoned>>
           /\ \/ /\ pc'[Main] = "next" /\ loc'[Main].op = "adopt"
                 /\ \A i \in loc'[Main].todo : i.cid \in LiveCids /\ ~ Tracked(i.cid)
                 /\ \/ \A c \in LiveCids : Tracked(c) \/ \E i \in loc'[Main].todo : i.cid = c
                    \/ Fault("docker")
              \/ Fault("docker") /\ pc'[Main] = "idle" /\ loc'[Main] = NoLoc
<1>0. Main \in Procs /\ pc[Main] = "boot" /\ UNCHANGED <<octetOf, rows, nets, cts, abandoned>>
  BY DEF Procs, BootScan
<1> DEFINE S1 == {[cid |-> c, st |-> cts[c].st] : c \in {c \in LiveCids : ~ Tracked(c)}}
<1>1. CASE Fault("docker") /\ Return(Main)
  BY <1>0, <1>1, ReturnThere
<1>2. ASSUME NEW S, Goto(Main, "next", [NoLoc EXCEPT !.op = "adopt", !.todo = S])
      PROVE  /\ pc'[Main] = "next" /\ Alone(Main)
             /\ loc'[Main].op = "adopt" /\ loc'[Main].todo = S
  <2> DEFINE l == [NoLoc EXCEPT !.op = "adopt", !.todo = S]
  <2>1. l.op = "adopt" /\ l.todo = S
    BY DEF NoLoc
  <2>2. Goto(Main, "next", l)
    BY <1>2
  <2> HIDE DEF l
  <2> QED BY <1>0, <2>1, <2>2, GotoThere
<1>3. \A i \in S1 : i.cid \in LiveCids /\ ~ Tracked(i.cid)
  OBVIOUS
<1>4. ASSUME NEW c \in LiveCids, ~ Tracked(c) PROVE \E i \in S1 : i.cid = c
  <2>1. [cid |-> c, st |-> cts[c].st] \in S1
    BY <1>4
  <2> QED BY <2>1
<1>5. \/ Fault("docker") /\ Return(Main)
      \/ \E S : /\ Goto(Main, "next", [NoLoc EXCEPT !.op = "adopt", !.todo = S])
                /\ S = S1 \/ (S = {} /\ Fault("docker"))
  BY DEF BootScan
<1>6. CASE \E S : /\ Goto(Main, "next", [NoLoc EXCEPT !.op = "adopt", !.todo = S])
                  /\ S = S1 \/ (S = {} /\ Fault("docker"))
  <2>1. PICK S : /\ Goto(Main, "next", [NoLoc EXCEPT !.op = "adopt", !.todo = S])
                 /\ S = S1 \/ (S = {} /\ Fault("docker"))
    BY <1>6
  <2>2. /\ pc'[Main] = "next" /\ Alone(Main)
        /\ loc'[Main].op = "adopt" /\ loc'[Main].todo = S
    BY <1>2, <2>1
  <2> HIDE DEF S1
  <2> QED BY <1>0, <1>3, <1>4, <2>1, <2>2
<1> QED BY <1>1, <1>5, <1>6

LEMMA BootStep == ASSUME IInv, BootInv, [Next]_vars PROVE BootInv'
<1>0. Main \in Procs /\ Main \notin Threads /\ Threads \subseteq Procs
  BY ConstantsAssumption DEF Procs
<1>1. ASSUME NEW t \in Procs, Alone(t), BootOK(t)',
             t = Main => \A u \in Threads : pc[u] = "idle",
             t # Main => pc[Main] = "idle"
      PROVE  BootInv'
  <2>1. \A u \in Procs : BootOK(u)'
    BY <1>1 DEF Alone, BootInv, BootOK
  <2> QED BY <1>0, <1>1, <2>1 DEF Alone, BootInv
<1>2. ASSUME NEW t \in Threads, Request(t) PROVE BootInv'
  <2>1. BootOK(t)'
    BY <1>0, <1>2, RequestControl DEF BootOK, SpawnPcs
  <2> QED BY <1>0, <1>1, <1>2, <2>1, RequestControl
<1>3. ASSUME NEW t \in Procs, ThreadStep(t) PROVE BootInv'
  <2>1. Alone(t) /\ pc[t] # "idle" /\ BootOK(t)'
    BY <1>3, StepAlone, BootOKKept DEF BootInv
  <2> QED BY <1>0, <1>1, <2>1 DEF BootInv, Procs
<1>4. CASE BootScan
  <2>1. /\ pc[Main] = "boot" /\ Alone(Main)
        /\ \/ pc'[Main] = "next" /\ loc'[Main].op = "adopt"
           \/ pc'[Main] = "idle" /\ loc'[Main] = NoLoc
    BY <1>4, BootScanMoves
  <2>2. BootOK(Main)'
    BY <2>1 DEF BootOK, NoLoc, SpawnPcs
  <2> QED BY <1>0, <1>1, <2>1, <2>2 DEF BootInv
<1>5. CASE Crash
  BY <1>0, <1>5 DEF Crash, BootInv, BootOK, NoLoc, SpawnPcs, Procs
<1>6. CASE UNCHANGED <<pc, loc>>
  BY <1>6 DEF BootInv, BootOK
<1>7. DockerRemove \/ DockerExit \/ DockerRestart \/ UNCHANGED vars => UNCHANGED <<pc, loc>>
  BY DEF DockerRemove, DockerExit, DockerRestart, vars
<1> QED BY <1>2, <1>3, <1>4, <1>5, <1>6, <1>7 DEF Next, Environment

-----------------------------------------------------------------------------
\* What a step does to the rows and to the containers.

\* Rows keep their container, or lose one that is gone.
Fade == \A k \in Keys : \/ rows'[k].cid = rows[k].cid
                        \/ rows'[k].cid = None /\ ~ Live(rows[k].cid)

\* The key k gets the row of container c.
Fills(k, c) ==
    /\ rows[k].cid = None /\ rows'[k].cid = c
    /\ \A j \in Keys \ {k} : rows'[j] = rows[j]

LEMMA RowsMove ==
    ASSUME IInv, [Next]_vars
    PROVE  \/ Fade
           \/ \E t \in Procs : /\ AddInstance(t) /\ rows[loc[t].key].cid = None
                               /\ Fills(loc[t].key, loc[t].cid)
           \/ \E t \in Procs : Adopt(t) /\ Fills(cts[loc[t].cid].key, loc[t].cid)
<1>1. CASE UNCHANGED rows
  BY <1>1 DEF Fade
<1>2. ASSUME NEW t \in Procs, AddInstance(t), ~ UNCHANGED rows
      PROVE  rows[loc[t].key].cid = None /\ Fills(loc[t].key, loc[t].cid)
  <2>1. loc[t].key \in Keys
    BY <1>2, LocNow DEF AddInstance, LocOK, SpawnPcs
  <2>2. /\ rows[loc[t].key].cid = None
        /\ rows' = [rows EXCEPT ![loc[t].key] = RowOf(loc[t].cid, "running")]
    BY <1>2 DEF AddInstance
  <2> QED BY <2>1, <2>2 DEF Fills, RowOf, IInv, TypeOK
<1>3. ASSUME NEW t \in Procs, Adopt(t), ~ UNCHANGED rows
      PROVE  Fills(cts[loc[t].cid].key, loc[t].cid)
  <2>1. PICK k \in Keys : k = cts[loc[t].cid].key
    BY <1>3, LocNow DEF Adopt, LocOK, Issued, ItemPcs, IInv, KeysAgree
  <2>2. rows[k].cid = None /\ (\E r : r.cid = loc[t].cid /\ rows' = [rows EXCEPT ![k] = r])
    BY <1>3, <2>1 DEF Adopt, RowOf
  <2> QED BY <2>1, <2>2 DEF Fills, IInv, TypeOK
<1>4. ASSUME NEW t \in Procs, RemoveRow(t) \/ SyncStatus(t) PROVE Fade
  <2> SUFFICES ASSUME NEW k \in Keys, rows'[k].cid # rows[k].cid
               PROVE  rows'[k].cid = None /\ ~ Live(rows[k].cid)
    BY DEF Fade
  <2>1. rows[k].cid # None
    <3>1. [rows[k] EXCEPT !.status = loc[t].seen].cid = rows[k].cid
      BY DEF IInv, TypeOK, RowType
    <3>2. rows'[k] = rows[k] \/ rows'[k] = NoRow \/ rows'[k] = [rows[k] EXCEPT !.status = loc[t].seen]
      BY <1>4 DEF RemoveRow, SyncStatus
    <3>3. NoRow.cid = None
      BY DEF NoRow
    <3> QED BY <3>1, <3>2, <3>3
  <2> QED BY <2>1, RowStep
<1> QED BY <1>1, <1>2, <1>3, <1>4, RowMovers

\* No container comes to life; keys and subnets stay.
Fewer ==
    \A c \in Cids : /\ cts'[c].st \in LiveStates => cts[c].st \in LiveStates
                    /\ cts'[c].key = cts[c].key /\ cts'[c].oct = cts[c].oct
                    /\ cts[c].st # "unused" => cts'[c].st # "unused"

\* The step that makes a container, of the name its key has to itself.
Creates(t) ==
    /\ Create(t) /\ Named(loc[t].key) = {} /\ pc'[t] = "start"
    /\ \E c \in Cids :
         /\ cts[c].st = "unused" /\ loc'[t].cid = c
         /\ cts'[c].key = loc[t].key /\ cts'[c].oct = loc[t].oct /\ cts'[c].st = "created"
         /\ \A d \in Cids \ {c} : cts'[d] = cts[d]

\* A container changes its state.
LEMMA StateSet ==
    ASSUME IInv, NEW c \in Cids, NEW s, cts' = [cts EXCEPT ![c].st = s], s # "unused",
           s \in LiveStates => cts[c].st \in LiveStates
    PROVE  Fewer /\ cts'[c].st = s /\ (\A d \in Cids \ {c} : cts'[d] = cts[d])
<1>1. cts'[c] = [cts[c] EXCEPT !.st = s] /\ (\A d \in Cids \ {c} : cts'[d] = cts[d])
  BY DEF IInv, TypeOK
<1>2. cts'[c].st = s /\ cts'[c].key = cts[c].key /\ cts'[c].oct = cts[c].oct
  BY <1>1 DEF IInv, TypeOK, CtType
<1> QED BY <1>1, <1>2 DEF Fewer

LEMMA CreateMoves ==
    ASSUME IInv, NEW t \in Procs, Create(t)
    PROVE  (UNCHANGED cts /\ pc'[t] = "clean") \/ Creates(t)
<1>1. ASSUME NEW b, ToClean(t, b) PROVE pc'[t] = "clean"
  BY <1>1, GotoThere DEF ToClean
<1> DEFINE new == [key |-> loc[t].key, oct |-> loc[t].oct, host |-> loc[t].host,
                   port |-> loc[t].port, st |-> "created"]
           l1 == [loc[t] EXCEPT !.cid = FreshCid]
<1>2. CASE /\ Named(loc[t].key) = {}
           /\ \E c \in Cids : cts[c].st = "unused"
           /\ cts' = [cts EXCEPT ![FreshCid] = new]
           /\ Goto(t, "start", l1)
  <2>1. PICK c \in Cids : c = FreshCid /\ cts[c].st = "unused"
    BY <1>2 DEF FreshCid
  <2>2. cts'[c] = new /\ (\A d \in Cids \ {c} : cts'[d] = cts[d])
    BY <1>2, <2>1 DEF IInv, TypeOK
  <2>3. l1.cid = c
    BY <2>1, LocNow DEF LocType
  <2> HIDE DEF l1
  <2>4. pc'[t] = "start" /\ loc'[t].cid = c
    BY <1>2, <2>3, GotoThere
  <2> QED BY <1>2, <2>1, <2>2, <2>4 DEF Creates
<1> QED BY <1>1, <1>2 DEF Create

LEMMA CtsMove ==
    ASSUME IInv, [Next]_vars PROVE Fewer \/ \E t \in Procs : Creates(t)
<1>1. ASSUME UNCHANGED cts PROVE Fewer
  BY <1>1 DEF Fewer
<1>2. ASSUME NEW t \in Procs, Create(t) PROVE Fewer \/ Creates(t)
  BY <1>1, <1>2, CreateMoves
<1>3. ASSUME NEW t \in Procs, Start(t) \/ Undo(t) \/ Stop(t) \/ Remove(t) PROVE Fewer
  <2>1. loc[t].cid \in Cids
    BY <1>3, LocNow, ConstantsAssumption
       DEF Start, Undo, Stop, Remove, LocOK, Issued, LocType, SpawnPcs, HoldPcs, ItemPcs
  <2>2. CASE Start(t)
    BY <1>1, <2>1, <2>2, StateSet DEF Start, Live
  <2>3. CASE Undo(t)
    BY <1>1, <2>1, <2>3, StateSet DEF Undo, LiveStates
  <2>4. CASE Stop(t) \/ Remove(t)
    BY <1>1, <2>1, <2>4, StateSet DEF Stop, Remove, Live, LiveStates
  <2> QED BY <1>3, <2>2, <2>3, <2>4
<1>4. ASSUME NEW t \in Procs, Clean(t) PROVE Fewer
  <2>1. CASE cts' = [c \in Cids |-> IF c \in Named(loc[t].key)
                                    THEN [cts[c] EXCEPT !.st = "gone"] ELSE cts[c]]
    <3> SUFFICES ASSUME NEW c \in Cids
                 PROVE  /\ cts'[c].st \in LiveStates => cts[c].st \in LiveStates
                        /\ cts'[c].key = cts[c].key /\ cts'[c].oct = cts[c].oct
                        /\ cts[c].st # "unused" => cts'[c].st # "unused"
      BY DEF Fewer
    <3>1. cts'[c] = cts[c] \/ cts'[c] = [cts[c] EXCEPT !.st = "gone"]
      BY <2>1
    <3>2. cts[c] \in CtType
      BY DEF IInv, TypeOK
    <3> QED BY <3>1, <3>2 DEF CtType, LiveStates
  <2> QED BY <1>1, <1>4, <2>1 DEF Clean
<1>5. CASE DockerRemove \/ DockerExit \/ DockerRestart
  <2>1. PICK d \in Cids, s \in LiveStates \cup {"gone"} :
             cts[d].st \in LiveStates /\ cts' = [cts EXCEPT ![d].st = s]
    BY <1>5 DEF DockerRemove, DockerExit, DockerRestart, LiveCids, Live, LiveStates
  <2> QED BY <2>1, StateSet DEF LiveStates
<1> QED BY <1>1, <1>2, <1>3, <1>4, <1>5, CtsMovers

-----------------------------------------------------------------------------
\* Spawns of different keys, any number of them at a time.

\* No other container has the name of c.
Lone(c) == Named(cts[c].key) \subseteq {c}

\* Start-up has still to adopt c, or is about to.
Adopting(c) ==
    /\ loc[Main].op = "adopt"
    /\ \/ \E i \in loc[Main].todo : i.cid = c
       \/ pc[Main] = "adopt" /\ loc[Main].cid = c

\* The key a thread spawns for has no row, and its container the name to itself.
SpawnKnows(t) ==
    pc[t] \in SpawnPcs =>
        /\ rows[loc[t].key].cid = None /\ pc[t] # "undo"
        /\ pc[t] \in {"start", "get", "live", "add"} => Lone(loc[t].cid)

\* The inductive invariant of OnlyReleaseRemoves.
SpawnInv ==
    /\ \A t \in Procs : SpawnKnows(t)
    /\ \A c \in LiveCids : rows[cts[c].key].cid \in {None, c}
    /\ \A c \in Cids : Adopting(c) => Lone(c)

LEMMA Movers ==
    ASSUME IInv, [Next]_vars
    PROVE  \/ \E t \in Threads : Request(t)
           \/ \E t \in Procs : ThreadStep(t)
           \/ BootScan \/ Crash
           \/ UNCHANGED <<pc, loc>>
BY DEF Next, Environment, DockerRemove, DockerExit, DockerRestart, vars

\* What start-up has to adopt is what it found, less what it has done.
LEMMA AdoptingWas ==
    ASSUME IInv, BootInv, [Next]_vars, NEW c \in Cids, Adopting(c)'
    PROVE  Adopting(c) \/ (BootScan /\ c \in LiveCids /\ ~ Tracked(c))
<1>0. Main \in Procs /\ Main \notin Threads
  BY ConstantsAssumption DEF Procs
<1>1. CASE pc'[Main] = pc[Main] /\ loc'[Main] = loc[Main]
  BY <1>1 DEF Adopting
<1>2. ASSUME ThreadStep(Main) PROVE Adopting(c)
  <2>1. CASE SpawnStep(Main)
    BY <1>0, <2>1, SpawnControl DEF BootInv, BootOK
  <2>2. CASE ReleaseStep(Main)
    BY <1>0, <2>2, ReleaseControl DEF Adopting, BootInv, BootOK, ReleasePcs
  <2>3. CASE Check(Main) \/ SyncStatus(Main) \/ Adopt(Main)
    BY <1>0, <2>3, BodyControl DEF Adopting
  <2>4. CASE NextItem(Main)
    <3>1. CASE pc'[Main] = "idle" /\ loc'[Main] = NoLoc
      BY <3>1 DEF Adopting, NoLoc
    <3>2. CASE loc'[Main].op = "reconcile"
      BY <3>2 DEF Adopting
    <3>3. ASSUME NEW i \in loc[Main].todo, loc'[Main].op = loc[Main].op,
                 loc'[Main].todo = loc[Main].todo \ {i}, loc'[Main].cid = i.cid
          PROVE  Adopting(c)
      BY <3>3 DEF Adopting
    <3> QED BY <1>0, <2>4, <3>1, <3>2, <3>3, NextItemControl
  <2> QED BY <1>2, <2>1, <2>2, <2>3, <2>4 DEF ThreadStep, LoopStep
<1>3. CASE BootScan
  BY <1>3, BootScanMoves DEF Adopting, NoLoc
<1>4. CASE Crash
  BY <1>0, <1>4 DEF Crash, Adopting, NoLoc
<1>5. ASSUME NEW t \in Procs \ {Main}, Alone(t)
      PROVE  pc'[Main] = pc[Main] /\ loc'[Main] = loc[Main]
  BY <1>0, <1>5 DEF Alone
<1> QED
  BY <1>0, <1>1, <1>2, <1>3, <1>4, <1>5, Movers, RequestControl, StepAlone

\* It ends for a container when it is adopted, or the daemon dies.
LEMMA AdoptingEnds ==
    ASSUME IInv, BootInv, [Next]_vars, NEW c \in Cids, Adopting(c)
    PROVE  \/ Adopting(c)' \/ pc'[Main] = "boot"
           \/ Adopt(Main) /\ loc[Main].cid = c
<1>0. Main \in Procs /\ Main \notin Threads
  BY ConstantsAssumption DEF Procs
<1>1. CASE pc'[Main] = pc[Main] /\ loc'[Main] = loc[Main]
  BY <1>1 DEF Adopting
<1>2. pc[Main] \in {"next", "adopt"} /\ loc[Main].op = "adopt"
  BY <1>0 DEF Adopting, BootInv, BootOK
<1>3. CASE Adopt(Main)
  BY <1>0, <1>3, BodyControl DEF Adopting
<1>4. CASE NextItem(Main)
  <2>1. ASSUME NEW i \in loc[Main].todo, pc'[Main] = LoopBody[loc[Main].op],
               loc'[Main].op = loc[Main].op,
               loc'[Main].todo = loc[Main].todo \ {i}, loc'[Main].cid = i.cid
        PROVE  Adopting(c)'
    <3>0. LoopBody["adopt"] = "adopt"
      BY DEF LoopBody
    <3>1. pc'[Main] = "adopt" /\ pc[Main] = "next"
      BY <1>2, <1>4, <2>1, <3>0 DEF NextItem
    <3>2. \E j \in loc[Main].todo : j.cid = c
      BY <3>1 DEF Adopting
    <3> QED BY <1>2, <2>1, <3>1, <3>2 DEF Adopting
  <2>2. loc[Main].todo # {}
    BY <1>4 DEF Adopting, NextItem
  <2> QED BY <1>0, <1>2, <1>4, <2>1, <2>2, NextItemControl
<1>5. CASE ThreadStep(Main)
  BY <1>0, <1>2, <1>3, <1>4, <1>5, SpawnControl, ReleaseControl, BodyControl
     DEF ThreadStep, LoopStep, Check, SyncStatus, SpawnPcs, ReleasePcs
<1>6. CASE Crash
  BY <1>0, <1>6 DEF Crash
<1>7. ~ BootScan
  BY <1>2 DEF BootScan
<1>8. ASSUME NEW t \in Procs \ {Main}, Alone(t)
      PROVE  pc'[Main] = pc[Main] /\ loc'[Main] = loc[Main]
  BY <1>0, <1>8 DEF Alone
<1> QED
  BY <1>0, <1>1, <1>5, <1>6, <1>7, <1>8, Movers, RequestControl, StepAlone

\* Where a thread gets at the later steps of a spawn.
LEMMA SpawnGoes ==
    ASSUME IInv, NEW t \in Procs, SpawnStep(t)
    PROVE  /\ pc'[t] = "undo" => AddInstance(t) /\ rows[loc[t].key].cid # None
           /\ pc'[t] = "start" => Create(t)
           /\ pc'[t] \in {"get", "live", "add"} =>
                pc[t] \in {"start", "get", "live"} /\ loc'[t].cid = loc[t].cid
           /\ AddInstance(t) /\ rows[loc[t].key].cid = None => pc'[t] = "idle"
           /\ pc[t] = "find" => Find(t) /\ (pc'[t] = "idle" \/ rows[loc[t].key].cid = None)
<1> DEFINE Early == {"octet", "alloc", "net", "mknet", "build", "ip", "create", "clean"}
<1>0. loc[t] \in LocType
  BY LocNow
<1>1. Return(t) => pc'[t] = "idle"
  BY ReturnThere
<1>2. ASSUME NEW p, Move(t, p) PROVE pc'[t] = p /\ loc'[t] = loc[t]
  BY <1>2, MoveThere
<1>3. ASSUME NEW p, NEW l, Goto(t, p, l) PROVE pc'[t] = p
  BY <1>3, GotoThere
<1>4. ASSUME NEW b, ToClean(t, b) PROVE pc'[t] = "clean"
  BY <1>3, <1>4 DEF ToClean
<1>5. CASE Find(t) \/ GetNet(t) \/ MakeNet(t)
  BY <1>1, <1>2, <1>5 DEF Find, GetNet, MakeNet, AddInstance
<1>6. CASE GetOctet(t) \/ Build(t)
  BY <1>1, <1>3, <1>6 DEF GetOctet, Build, AddInstance
<1>7. CASE AllocOctet(t) \/ PickAddress(t)
  <2>1. pc'[t] \in {"idle", "alloc", "net", "ip", "create"}
    BY <1>1, <1>3, <1>7 DEF AllocOctet, PickAddress
  <2>2. pc[t] \in {"alloc", "ip"}
    BY <1>7 DEF AllocOctet, PickAddress
  <2> QED BY <2>1, <2>2 DEF AddInstance
<1>8. CASE Create(t)
  BY <1>8, CreateMoves DEF Create, Creates, AddInstance
<1>9. CASE Start(t) \/ Get(t) \/ Reload(t)
  <2>1. pc'[t] \in {"idle", "clean"} \/ (pc'[t] \in {"get", "live", "add"} /\ loc'[t] = loc[t])
    BY <1>1, <1>2, <1>4, <1>9 DEF Start, Get, Reload
  <2>2. pc[t] \in {"start", "get", "live"}
    BY <1>9 DEF Start, Get, Reload
  <2> QED BY <2>1, <2>2 DEF AddInstance
<1>10. CASE Clean(t)
  <2>1. pc'[t] \in {"idle", "ip"}
    <3>1. CASE Return(t)
      BY <1>1, <3>1
    <3>2. CASE \E l : Goto(t, "ip", l)
      BY <1>3, <3>2
    <3> QED BY <1>10, <3>1, <3>2 DEF Clean
  <2> QED BY <1>10, <2>1 DEF AddInstance, Clean
<1>11. CASE AddInstance(t)
  BY <1>1, <1>2, <1>11 DEF AddInstance
<1>12. CASE Undo(t)
  BY <1>1, <1>12 DEF Undo, AddInstance
<1> QED BY <1>5, <1>6, <1>7, <1>8, <1>9, <1>10, <1>11, <1>12 DEF SpawnStep

\* A name that is had alone stays so, unless a container is made.
LEMMA LoneStays ==
    ASSUME IInv, Fewer, NEW c \in Cids, Lone(c) PROVE Lone(c)'
BY DEF Lone, Fewer, Named, LiveCids, Live

\* Nor does a container of another key disturb it.
LEMMA LoneKept ==
    ASSUME IInv, [Next]_vars, KeysApart, NEW t \in Procs, pc[t] \in SpawnPcs \ {"create"},
           NEW c \in Cids, cts[c].key = loc[t].key, Lone(c)
    PROVE  Lone(c)'
<1>1. ASSUME NEW u \in Procs, Creates(u) PROVE Lone(c)'
  <2>1. loc[u].key # loc[t].key
    BY <1>1 DEF Creates, Create, KeysApart, SpawnPcs
  <2>2. PICK d \in Cids : /\ cts'[d].key = loc[u].key
                          /\ \A e \in Cids \ {d} : cts'[e] = cts[e]
                          /\ cts[d].st = "unused"
    BY <1>1 DEF Creates
  <2>3. CASE c = d
    BY <1>1, <2>1, <2>2, <2>3 DEF Creates, Named, Lone, LiveCids, Live
  <2>4. CASE c # d
    BY <2>1, <2>2, <2>4 DEF Named, Lone, LiveCids, Live
  <2> QED BY <2>3, <2>4
<1> QED BY <1>1, CtsMove, LoneStays

\* A thread that is spawning goes on, or was, or another one moves.
LEMMA SpawnMover ==
    ASSUME IInv, [Next]_vars, NEW t \in Procs, pc'[t] \in SpawnPcs
    PROVE  \/ SpawnStep(t) /\ Alone(t) /\ Goes(t)
           \/ pc'[t] = pc[t] /\ loc'[t] = loc[t]
<1>0. {"idle", "boot", "find", "rfind", "next", "check", "sync", "adopt"} \cap SpawnPcs = {}
      /\ ReleasePcs \cap SpawnPcs = {}
  BY DEF SpawnPcs, ReleasePcs
<1>1. ASSUME NEW u \in Procs, Alone(u), u # t PROVE pc'[t] = pc[t] /\ loc'[t] = loc[t]
  BY <1>1 DEF Alone
<1>2. ASSUME ThreadStep(t) PROVE SpawnStep(t) /\ Alone(t) /\ Goes(t)
  <2>1. CASE SpawnStep(t)
    BY <1>0, <2>1, SpawnControl
  <2>2. ~ ReleaseStep(t)
    BY <1>0, ReleaseControl
  <2>3. ~ (Check(t) \/ SyncStatus(t) \/ Adopt(t))
    BY <1>0, BodyControl, ReleaseControl DEF ReleasePcs
  <2>4. ASSUME NextItem(t) PROVE FALSE
    <3>1. LoopBody["kill"] \notin SpawnPcs /\ LoopBody["reconcile"] \notin SpawnPcs
          /\ LoopBody["adopt"] \notin SpawnPcs
      BY DEF LoopBody, SpawnPcs
    <3>2. pc'[t] \notin SpawnPcs
      BY <1>0, <2>4, <3>1, NextItemControl
    <3> QED BY <3>2
  <2> QED BY <1>2, <2>1, <2>2, <2>3, <2>4 DEF ThreadStep, LoopStep
<1>3. ASSUME NEW u \in Threads, Request(u) PROVE pc'[t] = pc[t] /\ loc'[t] = loc[t]
  <2>1. u # t /\ u \in Procs
    BY <1>0, <1>3, RequestControl
  <2> QED BY <1>1, <1>3, <2>1, RequestControl
<1>4. ASSUME BootScan PROVE pc'[t] = pc[t] /\ loc'[t] = loc[t]
  <2>1. Main # t /\ Main \in Procs /\ Alone(Main)
    BY <1>0, <1>4, BootScanMoves DEF Procs
  <2> QED BY <1>1, <2>1
<1>5. ~ Crash
  BY <1>0 DEF Crash
<1>6. CASE UNCHANGED <<pc, loc>>
  BY <1>6
<1> QED BY <1>1, <1>2, <1>3, <1>4, <1>5, <1>6, Movers, StepAlone

LEMMA SpawnInit == Init => SpawnInv
BY DEF Init, SpawnInv, SpawnKnows, Adopting, NoLoc, SpawnPcs, LiveCids, Live,
       LiveStates, Procs

LEMMA SpawnKnowsKept ==
    ASSUME IInv, KeysApart, BootInv, SpawnInv, [Next]_vars, NEW t \in Procs
    PROVE  SpawnKnows(t)'
<1> SUFFICES ASSUME pc'[t] \in SpawnPcs
             PROVE  /\ rows'[loc'[t].key].cid = None /\ pc'[t] # "undo"
                    /\ pc'[t] \in {"start", "get", "live", "add"} => Lone(loc[t].cid)'
  BY DEF SpawnKnows
<1>0. loc[t].key \in Keys \/ pc[t] \notin SpawnPcs \cup {"find"}
  BY LocNow DEF LocOK
<1>1. CASE SpawnStep(t) /\ Goes(t)
  <2>1. loc'[t].key = loc[t].key
    BY <1>1 DEF Goes
  <2>2. rows[loc[t].key].cid = None /\ pc[t] \in SpawnPcs \cup {"find"}
    <3>1. pc[t] \in SpawnPcs \cup {"find"}
      BY <1>1, SpawnControl
    <3>2. "idle" \notin SpawnPcs
      BY DEF SpawnPcs
    <3> QED BY <1>1, <3>1, <3>2, SpawnGoes DEF SpawnInv, SpawnKnows
  <2>3. ~ AddInstance(t)
    <3>1. "idle" \notin SpawnPcs
      BY DEF SpawnPcs
    <3> QED BY <1>1, <2>2, <3>1, SpawnGoes
  <2>4. UNCHANGED rows
    BY <1>1, <2>3 DEF SpawnStep, Find, GetOctet, AllocOctet, GetNet, MakeNet, Build,
          PickAddress, Create, Start, Get, Clean, Reload, Undo
  <2>5. pc'[t] # "undo"
    BY <1>1, <2>3, SpawnGoes
  <2>6. ASSUME pc'[t] = "start" PROVE Lone(loc[t].cid)'
    <3>1. Creates(t)
      BY <1>1, <2>6, SpawnGoes, CreateMoves
    <3>2. PICK c \in Cids :
             /\ loc'[t].cid = c /\ cts'[c].key = loc[t].key
             /\ \A d \in Cids \ {c} : cts'[d] = cts[d]
      BY <3>1 DEF Creates
    <3>3. Named(loc[t].key) = {}
      BY <3>1 DEF Creates
    <3>4. Lone(c)'
      BY <3>2, <3>3 DEF Lone, Named, LiveCids, Live
    <3> QED BY <3>2, <3>4 DEF Lone, Named, LiveCids, Live
  <2>7. ASSUME pc'[t] \in {"get", "live", "add"} PROVE Lone(loc[t].cid)'
    <3>1. pc[t] \in {"start", "get", "live"} /\ loc'[t].cid = loc[t].cid
      BY <1>1, <2>7, SpawnGoes
    <3>2. pc[t] \in SpawnPcs
      BY <3>1 DEF SpawnPcs
    <3>3. PICK c \in Cids : c = loc[t].cid
      BY <3>1, <3>2, LocNow, ConstantsAssumption DEF LocOK, HoldPcs, LocType
    <3>4. Lone(c)
      BY <3>1, <3>2, <3>3 DEF SpawnInv, SpawnKnows
    <3>5. cts[c].key = loc[t].key
      BY <3>2, <3>3, LocNow, ConstantsAssumption DEF LocOK
    <3>6. Lone(c)'
      BY <3>1, <3>2, <3>4, <3>5, LoneKept
    <3> QED BY <3>1, <3>3, <3>6 DEF Lone, Named, LiveCids, Live
  <2> QED BY <2>1, <2>2, <2>4, <2>5, <2>6, <2>7
<1>2. CASE pc'[t] = pc[t] /\ loc'[t] = loc[t]
  <2>1. pc[t] \in SpawnPcs /\ rows[loc[t].key].cid = None /\ pc[t] # "undo"
    BY <1>2 DEF SpawnInv, SpawnKnows
  <2>2. rows'[loc[t].key].cid = None
    <3>1. CASE Fade
      BY <1>0, <2>1, <3>1 DEF Fade
    <3>2. ASSUME NEW u \in Procs, AddInstance(u), rows[loc[u].key].cid = None,
                 Fills(loc[u].key, loc[u].cid)
          PROVE  rows'[loc[t].key].cid = None
      <4>1. u # t
        BY <1>2, <3>2, SpawnGoes DEF SpawnStep, AddInstance
      <4>2. loc[u].key # loc[t].key
        BY <2>1, <3>2, <4>1 DEF KeysApart, AddInstance, SpawnPcs
      <4> QED BY <1>0, <2>1, <3>2, <4>2 DEF Fills
    <3>3. ASSUME NEW u \in Procs, Adopt(u) PROVE FALSE
      BY <2>1, <3>3 DEF BootInv, BootOK, Adopt, SpawnPcs, Procs
    <3> QED BY <3>1, <3>2, <3>3, RowsMove
  <2>3. ASSUME pc[t] \in {"start", "get", "live", "add"} PROVE Lone(loc[t].cid)'
    <3>3. PICK c \in Cids : c = loc[t].cid
      BY <2>3, LocNow, ConstantsAssumption DEF LocOK, HoldPcs, LocType
    <3>4. Lone(c)
      BY <2>1, <2>3, <3>3 DEF SpawnInv, SpawnKnows
    <3>5. cts[c].key = loc[t].key
      BY <2>1, <3>3, LocNow, ConstantsAssumption DEF LocOK
    <3>6. Lone(c)'
      BY <2>1, <2>3, <3>4, <3>5, LoneKept
    <3> QED BY <1>2, <3>3, <3>6 DEF Lone, Named, LiveCids, Live
  <2> QED BY <1>2, <2>1, <2>2, <2>3
<1> QED BY <1>1, <1>2, SpawnMover

\* A container's row is its own.
LEMMA OwnRow ==
    ASSUME IInv, BootInv, SpawnInv, [Next]_vars, NEW c \in Cids, cts'[c].st \in LiveStates
    PROVE  rows'[cts'[c].key].cid \in {None, c}
<1>1. CASE Fewer
  <2>1. c \in LiveCids /\ cts'[c].key = cts[c].key /\ rows[cts[c].key].cid \in {None, c}
    BY <1>1 DEF Fewer, LiveCids, Live, SpawnInv
  <2>2. PICK k \in Keys : k = cts[c].key
    BY <2>1 DEF IInv, KeysAgree, LiveCids, Live, LiveStates
  <2>3. ASSUME NEW d \in Cids, Fills(cts[d].key, d), Lone(d) PROVE rows'[k].cid \in {None, c}
    <3>1. CASE k = cts[d].key
      <4>1. c = d
        BY <2>1, <2>2, <2>3, <3>1 DEF Lone, Named
      <4> QED BY <2>3, <3>1, <4>1 DEF Fills
    <3>2. CASE k # cts[d].key
      BY <2>1, <2>2, <2>3, <3>2 DEF Fills
    <3> QED BY <3>1, <3>2
  <2>4. CASE Fade
    BY <2>1, <2>2, <2>4 DEF Fade
  <2>5. ASSUME NEW t \in Procs, AddInstance(t), Fills(loc[t].key, loc[t].cid)
        PROVE  rows'[k].cid \in {None, c}
    <3>1. pc[t] \in SpawnPcs /\ pc[t] = "add"
      BY <2>5 DEF AddInstance, SpawnPcs
    <3>2. loc[t].cid \in Cids /\ cts[loc[t].cid].key = loc[t].key
      BY <3>1, LocNow DEF LocOK, HoldPcs, LocType
    <3>3. Lone(loc[t].cid)
      BY <3>1 DEF SpawnInv, SpawnKnows
    <3> QED BY <2>3, <2>5, <3>2, <3>3
  <2>6. ASSUME NEW t \in Procs, Adopt(t), Fills(cts[loc[t].cid].key, loc[t].cid)
        PROVE  rows'[k].cid \in {None, c}
    <3>1. t = Main /\ loc[t].op = "adopt" /\ pc[t] = "adopt"
      BY <2>6 DEF BootInv, BootOK, Adopt
    <3>2. loc[t].cid \in Cids
      BY <3>1, LocNow DEF LocOK, ItemPcs, Issued
    <3>3. Lone(loc[t].cid)
      BY <3>1, <3>2 DEF SpawnInv, Adopting
    <3> QED BY <2>3, <2>6, <3>2, <3>3
  <2> QED BY <2>1, <2>2, <2>4, <2>5, <2>6, RowsMove
<1>2. ASSUME NEW t \in Procs, Creates(t) PROVE rows'[cts'[c].key].cid \in {None, c}
  <2>1. UNCHANGED rows /\ pc[t] \in SpawnPcs
    BY <1>2 DEF Creates, Create, SpawnPcs
  <2>2. rows[loc[t].key].cid = None
    BY <2>1 DEF SpawnInv, SpawnKnows
  <2>3. cts'[c].key = loc[t].key \/ cts'[c] = cts[c]
    BY <1>2 DEF Creates
  <2> QED BY <2>1, <2>2, <2>3 DEF SpawnInv, LiveCids, Live
<1> QED BY <1>1, <1>2, CtsMove

LEMMA AdoptingLone ==
    ASSUME IInv, BootInv, SpawnInv, [Next]_vars, NEW c \in Cids, Adopting(c)'
    PROVE  Lone(c)'
<1>1. CASE Adopting(c)
  <2>1. Lone(c)
    BY <1>1 DEF SpawnInv
  <2>2. pc[Main] # "idle"
    BY <1>1 DEF Adopting, BootInv, BootOK, Procs
  <2>3. ~ \E t \in Procs : Creates(t)
    BY <2>2 DEF Creates, Create, BootInv, BootOK, SpawnPcs, Procs
  <2> QED BY <2>1, <2>3, CtsMove, LoneStays
<1>2. CASE BootScan /\ c \in LiveCids
  <2>1. UNCHANGED cts
    BY <1>2 DEF BootScan
  <2> QED BY <1>2, <2>1 DEF IInv, KeysAgree, Lone, Named, LiveCids, Live
<1> QED BY <1>1, <1>2, AdoptingWas

LEMMA SpawnStepKept ==
    ASSUME KeysApart, IInv, BootInv, SpawnInv, [Next]_vars PROVE SpawnInv'
<1>2. \A t \in Procs : SpawnKnows(t)'
  BY SpawnKnowsKept
<1>3. \A c \in LiveCids' : rows'[cts'[c].key].cid \in {None, c}
  BY OwnRow DEF LiveCids, Live
<1>4. \A c \in Cids : Adopting(c)' => Lone(c)'
  BY AdoptingLone
<1> QED BY <1>2, <1>3, <1>4 DEF SpawnInv

LEMMA BootSpec == Spec /\ []KeysApart => [](IInv /\ BootInv /\ SpawnInv)
<1>1. Init => IInv /\ BootInv /\ SpawnInv
  BY InitIInv, BootInit, SpawnInit
<1>2. IInv /\ BootInv /\ SpawnInv /\ KeysApart /\ [Next]_vars => (IInv /\ BootInv /\ SpawnInv)'
  BY NextIInv, BootStep, SpawnStepKept
<1> QED BY <1>1, <1>2, PTL DEF Spec

LEMMA GoneStep ==
    ASSUME IInv, BootInv, SpawnInv, [Next]_vars, "remove" \notin FaultKinds,
           NEW c \in Cids, Tracked(c), Live(c), cts'[c].st = "gone"
    PROVE  \E t \in Procs : pc[t] = "remove" /\ loc[t].cid = c
<1>0. "gone" \notin LiveStates
  BY DEF LiveStates
<1>1. ~ UNCHANGED cts /\ cts'[c] # cts[c]
  BY <1>0 DEF Live
<1>2. ASSUME NEW t \in Procs, Create(t) PROVE FALSE
  BY <1>1, <1>2, CreateMoves DEF Creates
<1>3. ASSUME NEW t \in Procs, Start(t) PROVE FALSE
  <2>1. loc[t].cid \in Cids
    BY <1>3, LocNow, ConstantsAssumption DEF Start, LocOK, LocType, SpawnPcs, HoldPcs
  <2>2. cts' = [cts EXCEPT ![loc[t].cid].st = "running"] /\ Live(loc[t].cid)
    BY <1>1, <1>3 DEF Start
  <2>3. cts'[loc[t].cid].st = "running" /\ \A d \in Cids \ {loc[t].cid} : cts'[d] = cts[d]
    BY <2>1, <2>2, StateSet DEF Live
  <2> QED BY <1>1, <2>1, <2>3
<1>4. ASSUME NEW t \in Procs, Undo(t) PROVE FALSE
  BY <1>4 DEF Undo, SpawnInv, SpawnKnows, SpawnPcs
<1>5. ASSUME NEW t \in Procs, Stop(t) \/ Remove(t)
      PROVE  pc[t] = "remove" /\ loc[t].cid = c
  <2>1. loc[t].cid \in Cids
    BY <1>5, LocNow DEF Stop, Remove, LocOK, Issued, ItemPcs
  <2>2. PICK s \in {"gone", "exited"} : /\ cts' = [cts EXCEPT ![loc[t].cid].st = s]
                                        /\ s = "exited" => Live(loc[t].cid)
                                        /\ s = "gone" => Remove(t)
    BY <1>1, <1>5 DEF Stop, Remove
  <2>3. cts'[loc[t].cid].st = s /\ \A d \in Cids \ {loc[t].cid} : cts'[d] = cts[d]
    BY <2>1, <2>2, StateSet DEF Live, LiveStates
  <2>4. loc[t].cid = c /\ s = "gone"
    BY <1>1, <2>1, <2>3
  <2> QED BY <2>2, <2>4 DEF Remove
<1>6. ASSUME NEW t \in Procs, Clean(t) PROVE FALSE
  <2>1. c \in Named(loc[t].key)
    BY <1>1, <1>6 DEF Clean
  <2>2. rows[loc[t].key].cid = None
    BY <1>6 DEF Clean, SpawnInv, SpawnKnows, SpawnPcs
  <2>3. PICK k \in Keys : rows[k].cid = c
    BY DEF Tracked
  <2>4. cts[c].key = k
    BY <2>3, ConstantsAssumption DEF IInv, KeysAgree
  <2> QED BY <2>1, <2>2, <2>3, <2>4, ConstantsAssumption DEF Named
<1>7. ~ DockerRemove
  BY DEF DockerRemove, Fault
<1>8. ASSUME DockerExit \/ DockerRestart PROVE FALSE
  <2>1. PICK d \in Cids, s \in LiveStates :
             cts[d].st \in LiveStates /\ cts' = [cts EXCEPT ![d].st = s]
    BY <1>8 DEF DockerExit, DockerRestart, LiveStates
  <2>2. cts'[d].st = s /\ \A e \in Cids \ {d} : cts'[e] = cts[e]
    BY <2>1, StateSet DEF LiveStates
  <2> QED BY <1>0, <1>1, <2>1, <2>2
<1> QED BY <1>1, <1>2, <1>3, <1>4, <1>5, <1>6, <1>7, <1>8, CtsMovers

\* spawn_instance removes no tracked container, nor does anything but a release,
\* however many requests meet, while no two spawns of one key do and nobody
\* removes containers by hand.
THEOREM OnlyReleases ==
    ASSUME "remove" \notin FaultKinds PROVE Spec /\ []KeysApart => OnlyReleaseRemoves
<1> DEFINE A == \A c \in Cids : Tracked(c) /\ Live(c) /\ cts'[c].st = "gone"
                                  => \E t \in Procs : pc[t] = "remove" /\ loc[t].cid = c
<1>1. IInv /\ BootInv /\ SpawnInv /\ [Next]_vars => [A]_vars
  BY GoneStep
<1> QED BY <1>1, BootSpec, PTL DEF Spec, OnlyReleaseRemoves

-----------------------------------------------------------------------------
\* What the death of the daemon left behind is adopted when it starts again.

AbandonedInv ==
    \A c \in abandoned :
        /\ cts[c].st # "unused"
        /\ Live(c) => Tracked(c) \/ pc[Main] = "boot" \/ Adopting(c)

LEMMA AbandonedInit == Init => AbandonedInv
BY DEF Init, AbandonedInv

\* Only a failing call of Docker abandons a container, or a crash.
LEMMA Abandons ==
    ASSUME [Next]_vars, "docker" \notin FaultKinds PROVE UNCHANGED abandoned \/ Crash
<1>1. \A t \in Threads : Request(t) => UNCHANGED abandoned
  BY DEF Request, EnsureInstance, ReleaseInstance, KillSwitch, Reconcile, Accept
<1>2. \A t \in Procs : SpawnStep(t) => UNCHANGED abandoned
  BY DEF SpawnStep, Find, GetOctet, AllocOctet, GetNet, MakeNet, Build, PickAddress,
         Create, Start, Get, Clean, Reload, AddInstance, Undo, Fault
<1>3. \A t \in Procs : ReleaseStep(t) \/ LoopStep(t) => UNCHANGED abandoned
  BY DEF ReleaseStep, FindRow, Stop, Remove, RemoveRow, CountRows, GetOctetToFree,
         RemoveNet, FreeOctet, LoopStep, NextItem, Check, SyncStatus, Adopt
<1> QED BY <1>1, <1>2, <1>3
  DEF Next, ThreadStep, BootScan, Environment, DockerRemove, DockerExit, DockerRestart, vars

LEMMA TrackedStays ==
    ASSUME IInv, [Next]_vars, NEW c \in Cids, Live(c), Tracked(c) PROVE Tracked(c)'
BY RowStep, ConstantsAssumption DEF Tracked

LEMMA BootEnds ==
    ASSUME IInv, [Next]_vars, pc[Main] = "boot" PROVE pc'[Main] = "boot" \/ BootScan
<1>1. Main \in Procs /\ Main \notin Threads
  BY ConstantsAssumption DEF Procs
<1>2. ASSUME NEW t \in Procs \ {Main}, Alone(t) PROVE pc'[Main] = pc[Main]
  BY <1>1, <1>2 DEF Alone
<1>3. ~ ThreadStep(Main)
  BY <1>1, StepAlone
<1> QED BY <1>1, <1>2, <1>3, Movers, RequestControl, StepAlone DEF Crash

LEMMA AbandonedStep ==
    ASSUME IInv, BootInv, SpawnInv, AbandonedInv, [Next]_vars, "docker" \notin FaultKinds
    PROVE  AbandonedInv'
<1>1. CASE Crash
  <2>1. Main \in Procs /\ pc'[Main] = "boot" /\ UNCHANGED cts
    BY <1>1 DEF Crash, Procs
  <2> QED BY <1>1, <2>1 DEF Crash, AbandonedInv, LiveCids, Live, LiveStates
<1>2. ASSUME UNCHANGED abandoned, NEW c \in abandoned
      PROVE  /\ cts'[c].st # "unused"
             /\ Live(c)' => Tracked(c)' \/ pc'[Main] = "boot" \/ Adopting(c)'
  <2>1. c \in Cids /\ cts[c].st # "unused"
    BY <1>2 DEF AbandonedInv, IInv, TypeOK
  <2>2. cts'[c].st # "unused" /\ (Live(c)' => Live(c))
    BY <2>1, CtsMove DEF Fewer, Creates, Live
  <2>3. ASSUME Live(c), Tracked(c) PROVE Tracked(c)'
    BY <2>1, <2>3, TrackedStays
  <2>4. ASSUME Live(c), pc[Main] = "boot" PROVE Tracked(c)' \/ pc'[Main] = "boot" \/ Adopting(c)'
    <3>1. CASE BootScan
      <4>1. Tracked(c) \/ \E i \in loc'[Main].todo : i.cid = c
        BY <2>1, <2>4, <3>1, BootScanMoves DEF Fault, LiveCids
      <4> QED BY <2>3, <2>4, <3>1, <4>1, BootScanMoves DEF Adopting, Fault
    <3> QED BY <2>4, <3>1, BootEnds
  <2>5. ASSUME Live(c), Adopting(c) PROVE Tracked(c)' \/ pc'[Main] = "boot" \/ Adopting(c)'
    <3>1. CASE Adopt(Main) /\ loc[Main].cid = c
      <4>1. PICK k \in Keys : k = cts[c].key
        BY <2>1 DEF IInv, KeysAgree
      <4>2. CASE rows[k].cid = None
        <5>1. \E r : r.cid = c /\ rows' = [rows EXCEPT ![k] = r]
          BY <3>1, <4>1, <4>2 DEF Adopt, RowOf
        <5>2. rows'[k].cid = c
          BY <5>1 DEF IInv, TypeOK
        <5> QED BY <5>2 DEF Tracked
      <4>3. CASE rows[k].cid # None
        <5>1. Tracked(c)
          BY <2>1, <2>5, <4>1, <4>3 DEF SpawnInv, Tracked, LiveCids
        <5> QED BY <2>3, <2>5, <5>1
      <4> QED BY <4>2, <4>3
    <3> QED BY <2>1, <2>5, <3>1, AdoptingEnds
  <2> QED BY <1>2, <2>2, <2>3, <2>4, <2>5 DEF AbandonedInv
<1>3. UNCHANGED abandoned => AbandonedInv'
  BY <1>2 DEF AbandonedInv
<1> QED BY <1>1, <1>3, Abandons

\* The invariant of QuietTracked.
KeptInv == IInv /\ BootInv /\ SpawnInv /\ ("docker" \notin FaultKinds => AbandonedInv)

LEMMA KeptStep == ASSUME KeptInv, KeysApart, [Next]_vars PROVE KeptInv'
BY NextIInv, BootStep, SpawnStepKept, AbandonedStep DEF KeptInv

LEMMA KeptSpec == Spec /\ []KeysApart => []KeptInv
<1>1. Init => KeptInv
  BY InitIInv, BootInit, SpawnInit, AbandonedInit DEF KeptInv
<1> QED BY <1>1, KeptStep, PTL DEF Spec

\* Nothing is left behind when no spawn is under way and start-up has ended, but
\* for what a failing call of Docker left.
LEMMA KeptTracked ==
    ASSUME KeptInv, pc[Main] \notin {"boot", "adopt"}, loc[Main].op # "adopt",
           NEW c \in LiveCids, ~ InFlight(c)
    PROVE  Tracked(c) \/ Stray(c)
BY DEF KeptInv, IInv, ContainersAccounted, AbandonedInv, Adopting, LiveCids, Stray

\* Between requests Docker has no managed container that the table does not: a
\* container the daemon was creating when it died is adopted, whatever requests
\* met, as long as no two spawns of one key did.
THEOREM TrackedWhenQuiet == Spec /\ []KeysApart => []QuietTracked
<1>1. ASSUME KeptInv PROVE QuietTracked
  <2> SUFFICES ASSUME Quiet, NEW c \in LiveCids PROVE Tracked(c) \/ Stray(c)
    BY DEF QuietTracked
  <2>1. Main \in Procs
    BY DEF Procs
  <2>2. loc[Main].op # "adopt"
    BY <1>1, <2>1 DEF Quiet, KeptInv, BootInv, BootOK
  <2>3. ~ InFlight(c)
    BY DEF Quiet, InFlight, HoldPcs
  <2> QED BY <1>1, <2>1, <2>2, <2>3, KeptTracked DEF Quiet
<1> QED BY <1>1, KeptSpec, PTL

-----------------------------------------------------------------------------
\* Orderly requests, any number of them at a time: octets, networks and containers
\* agree.

\* An octet is one owner's.
OctetsApart == \A o, p \in Owners : octetOf[o] = octetOf[p] /\ octetOf[o] # 0 => o = p

\* A container is on its owner's octet.
OnOctet ==
    \A c \in LiveCids :
        Stray(c) \/ (octetOf[cts[c].key[1]] = cts[c].oct /\ cts[c].oct # 0)

\* The owner has neither instance nor container.
Unused(o) ==
    OwnerRows(o) = {} /\ \A c \in LiveCids : cts[c].key[1] # o \/ Stray(c)

\* A spawn has its owner's octet.  A release has it as long as no other release
\* has freed it, and has removed the network before it frees it.
OctetKnows(t) ==
    /\ pc[t] \in NetPcs => octetOf[Owner(t)] = loc[t].oct
    /\ pc[t] \in {"rmnet", "free"} => octetOf[Owner(t)] \in {loc[t].oct, 0}
    /\ pc[t] \in FreePcs => Unused(Owner(t))
    /\ pc[t] = "free" /\ octetOf[Owner(t)] # 0 => nets[loc[t].oct] = None

OctetInv ==
    /\ OctetsApart /\ OnOctet /\ OwnersKeepSubnet /\ OwnNetwork
    /\ \A t \in Procs : OctetKnows(t)
    /\ \A c \in Cids : Adopting(c) => octetOf[cts[c].key[1]] # 0 \/ Stray(c)

\* The inductive invariant of OwnNetwork and OwnersKeepSubnet.
SubnetInv == Orderly /\ KeptInv /\ OctetInv

\* A container Docker failed to remove stays a stray.
LEMMA StrayStays ==
    ASSUME [Next]_vars, NEW c, Stray(c) PROVE Stray(c)'
<1>1. \A t \in Threads : Request(t) => UNCHANGED abandoned
  BY DEF Request, EnsureInstance, ReleaseInstance, KillSwitch, Reconcile, Accept
<1>2. \A t \in Procs : SpawnStep(t) => abandoned \subseteq abandoned'
  BY DEF SpawnStep, Find, GetOctet, AllocOctet, GetNet, MakeNet, Build, PickAddress,
         Create, Start, Get, Clean, Reload, AddInstance, Undo
<1>3. \A t \in Procs : ReleaseStep(t) \/ LoopStep(t) => UNCHANGED abandoned
  BY DEF ReleaseStep, FindRow, Stop, Remove, RemoveRow, CountRows, GetOctetToFree,
         RemoveNet, FreeOctet, LoopStep, NextItem, Check, SyncStatus, Adopt
<1>4. abandoned \subseteq abandoned'
  BY <1>1, <1>2, <1>3
     DEF Next, ThreadStep, BootScan, Environment, Crash, DockerRemove, DockerExit,
         DockerRestart, vars
<1> QED BY <1>4 DEF Stray

\* The steps that change the table of octets, and Docker's networks.
LEMMA OctetMovers ==
    ASSUME [Next]_vars
    PROVE  UNCHANGED octetOf \/ \E t \in Procs : AllocOctet(t) \/ FreeOctet(t)
<1>1. \A t \in Threads : Request(t) => UNCHANGED octetOf
  BY DEF Request, EnsureInstance, ReleaseInstance, KillSwitch, Reconcile, Accept
<1>2. \A t \in Procs : SpawnStep(t) => UNCHANGED octetOf \/ AllocOctet(t)
  BY DEF SpawnStep, Find, GetOctet, GetNet, MakeNet, Build, PickAddress,
         Create, Start, Get, Clean, Reload, AddInstance, Undo
<1>3. \A t \in Procs : ReleaseStep(t) \/ LoopStep(t) => UNCHANGED octetOf \/ FreeOctet(t)
  BY DEF ReleaseStep, FindRow, Stop, Remove, RemoveRow, CountRows, GetOctetToFree,
         RemoveNet, LoopStep, NextItem, Check, SyncStatus, Adopt
<1> QED BY <1>1, <1>2, <1>3
  DEF Next, ThreadStep, BootScan, Environment, Crash, DockerRemove, DockerExit,
      DockerRestart, vars

LEMMA NetMovers ==
    ASSUME [Next]_vars
    PROVE  UNCHANGED nets \/ \E t \in Procs : MakeNet(t) \/ RemoveNet(t)
<1>1. \A t \in Threads : Request(t) => UNCHANGED nets
  BY DEF Request, EnsureInstance, ReleaseInstance, KillSwitch, Reconcile, Accept
<1>2. \A t \in Procs : SpawnStep(t) => UNCHANGED nets \/ MakeNet(t)
  BY DEF SpawnStep, Find, GetOctet, AllocOctet, GetNet, Build, PickAddress,
         Create, Start, Get, Clean, Reload, AddInstance, Undo
<1>3. \A t \in Procs : ReleaseStep(t) \/ LoopStep(t) => UNCHANGED nets \/ RemoveNet(t)
  BY DEF ReleaseStep, FindRow, Stop, Remove, RemoveRow, CountRows, GetOctetToFree,
         FreeOctet, LoopStep, NextItem, Check, SyncStatus, Adopt
<1> QED BY <1>1, <1>2, <1>3
  DEF Next, ThreadStep, BootScan, Environment, Crash, DockerRemove, DockerExit,
      DockerRestart, vars

\* An owner that has no octet gets one that is free, and its spawn goes on with it.
Allocates(t) ==
    /\ pc'[t] = "net" /\ loc'[t].key = loc[t].key
    /\ octetOf[Owner(t)] = 0 /\ octetOf'[Owner(t)] \in Octets \ UsedOctets
    /\ \A o \in Owners \ {Owner(t)} : octetOf'[o] = octetOf[o]
    /\ UNCHANGED <<rows, nets, cts>>

Frees(t) ==
    /\ octetOf'[Owner(t)] = 0 /\ \A o \in Owners \ {Owner(t)} : octetOf'[o] = octetOf[o]
    /\ UNCHANGED <<rows, nets, cts>>

LEMMA OwnerKnown ==
    ASSUME IInv, NEW t \in Procs, pc[t] \in SpawnPcs \cup {"find", "count"} \cup FreePcs
    PROVE  loc[t].key \in Keys /\ Owner(t) \in Owners
BY LocNow DEF LocOK, Owner, Keys, FreePcs

LEMMA OctetMoves ==
    ASSUME IInv, [Next]_vars
    PROVE  \/ UNCHANGED octetOf
           \/ \E t \in Procs : AllocOctet(t) /\ pc[t] = "alloc" /\ Allocates(t)
           \/ \E t \in Procs : FreeOctet(t) /\ pc[t] = "free" /\ Frees(t)
<1>1. ASSUME NEW t \in Procs, AllocOctet(t), ~ UNCHANGED octetOf
      PROVE  pc[t] = "alloc" /\ Allocates(t)
  <2>1. pc[t] = "alloc" /\ UNCHANGED <<rows, nets, cts>>
    BY <1>1 DEF AllocOctet
  <2>2. Owner(t) \in Owners
    BY <2>1, OwnerKnown DEF SpawnPcs
  <2> DEFINE l(n) == [loc[t] EXCEPT !.oct = n, !.left = 0]
  <2>3. PICK n \in Octets : /\ n \notin UsedOctets /\ octetOf' = [octetOf EXCEPT ![Owner(t)] = n]
                            /\ Goto(t, "net", l(n))
    BY <1>1 DEF AllocOctet, IsLeast
  <2>4. octetOf[Owner(t)] = 0
    BY <1>1 DEF AllocOctet
  <2>5. l(n).key = loc[t].key
    BY LocNow DEF LocType
  <2> HIDE DEF l
  <2>6. pc'[t] = "net" /\ loc'[t].key = loc[t].key
    BY <2>3, <2>5, GotoThere
  <2> QED BY <2>1, <2>2, <2>3, <2>4, <2>6 DEF Allocates, IInv, TypeOK
<1>2. ASSUME NEW t \in Procs, FreeOctet(t) PROVE pc[t] = "free" /\ Frees(t)
  <2>1. Owner(t) \in Owners
    BY <1>2, OwnerKnown DEF FreeOctet, FreePcs
  <2> QED BY <1>2, <2>1 DEF FreeOctet, Frees, IInv, TypeOK
<1> QED BY <1>1, <1>2, OctetMovers

\* A network is made for the owner of a spawn, or removed when nothing runs on it.
Makes(t) ==
    /\ pc[t] = "mknet" /\ loc[t].oct \in Octets /\ nets[loc[t].oct] = None
    /\ nets' = [nets EXCEPT ![loc[t].oct] = Owner(t)]
    /\ UNCHANGED <<octetOf, rows, cts>>

Unmakes(t) ==
    /\ pc[t] = "rmnet" /\ loc[t].oct \in Octets /\ ~ Busy(loc[t].oct)
    /\ nets' = [nets EXCEPT ![loc[t].oct] = None]
    /\ UNCHANGED <<octetOf, rows, cts>>

LEMMA NetMoves ==
    ASSUME IInv, [Next]_vars
    PROVE  \/ UNCHANGED nets
           \/ \E t \in Procs : MakeNet(t) /\ Makes(t)
           \/ \E t \in Procs : RemoveNet(t) /\ Unmakes(t)
<1>1. ASSUME NEW t \in Procs, MakeNet(t), ~ UNCHANGED nets PROVE Makes(t)
  BY <1>1, LocNow DEF MakeNet, Makes, LocOK, SpawnPcs
<1>2. ASSUME NEW t \in Procs, RemoveNet(t), ~ UNCHANGED nets PROVE Unmakes(t)
  BY <1>2, LocNow DEF RemoveNet, Unmakes, LocOK
<1> QED BY <1>1, <1>2, NetMovers

\* A container runs that did not: its network is there.
LEMMA Runs ==
    ASSUME IInv, [Next]_vars, NEW c \in Cids, cts'[c].st = "running", cts[c].st # "running"
    PROVE  /\ UNCHANGED <<octetOf, nets>> /\ c \in LiveCids /\ nets[cts[c].oct] # None
           /\ cts'[c].key = cts[c].key /\ cts'[c].oct = cts[c].oct
<1>1. cts'[c] # cts[c] /\ ~ UNCHANGED cts
  OBVIOUS
<1>2. ASSUME NEW d \in Cids, NEW s, cts' = [cts EXCEPT ![d].st = s], cts[d].st \in LiveStates,
             nets[cts[d].oct] # None, UNCHANGED <<octetOf, nets>>
      PROVE  /\ UNCHANGED <<octetOf, nets>> /\ c \in LiveCids /\ nets[cts[c].oct] # None
             /\ cts'[c].key = cts[c].key /\ cts'[c].oct = cts[c].oct
  <2>1. c = d
    BY <1>1, <1>2 DEF IInv, TypeOK
  <2>2. cts'[c] = [cts[c] EXCEPT !.st = s]
    BY <1>2, <2>1 DEF IInv, TypeOK
  <2> QED BY <1>2, <2>1, <2>2 DEF IInv, TypeOK, CtType, LiveCids, Live
<1>3. ASSUME NEW d \in Cids, NEW s, cts' = [cts EXCEPT ![d].st = s], s # "running" PROVE FALSE
  <2>1. c = d
    BY <1>1, <1>3 DEF IInv, TypeOK
  <2>2. cts'[c] = [cts[c] EXCEPT !.st = s]
    BY <1>3, <2>1 DEF IInv, TypeOK
  <2> QED BY <1>3, <2>2 DEF IInv, TypeOK, CtType
<1>4. ASSUME NEW t \in Procs, Create(t) PROVE FALSE
  BY <1>1, <1>4, CreateMoves DEF Creates
<1>5. ASSUME NEW t \in Procs, Start(t) \/ Undo(t) \/ Stop(t) \/ Remove(t) PROVE loc[t].cid \in Cids
  BY <1>5, LocNow, ConstantsAssumption
     DEF Start, Undo, Stop, Remove, LocOK, Issued, LocType, SpawnPcs, HoldPcs, ItemPcs
<1>6. ASSUME NEW t \in Procs, Start(t)
      PROVE  /\ UNCHANGED <<octetOf, nets>> /\ c \in LiveCids /\ nets[cts[c].oct] # None
             /\ cts'[c].key = cts[c].key /\ cts'[c].oct = cts[c].oct
  BY <1>1, <1>2, <1>5, <1>6 DEF Start, Live
<1>7. ASSUME NEW t \in Procs, Undo(t) \/ Stop(t) \/ Remove(t) PROVE FALSE
  BY <1>1, <1>3, <1>5, <1>7 DEF Undo, Stop, Remove
<1>8. ASSUME NEW t \in Procs, Clean(t) PROVE FALSE
  <2>1. cts'[c] = [cts[c] EXCEPT !.st = "gone"]
    BY <1>1, <1>8 DEF Clean
  <2> QED BY <2>1 DEF IInv, TypeOK, CtType
<1>9. ASSUME DockerRemove \/ DockerExit PROVE FALSE
  BY <1>3, <1>9 DEF DockerRemove, DockerExit, LiveCids
<1>10. CASE DockerRestart
  BY <1>2, <1>10 DEF DockerRestart, LiveStates
<1> QED BY <1>1, <1>4, <1>6, <1>7, <1>8, <1>9, <1>10, CtsMovers

\* A live container's key and octet are of their types.
LEMMA LiveTyped ==
    ASSUME IInv, NEW c \in LiveCids
    PROVE  /\ c \in Cids /\ cts[c].key \in Keys /\ cts[c].key[1] \in Owners
           /\ cts[c].oct \in Octets \cup {0}
<1>1. c \in Cids /\ cts[c].st # "unused" /\ cts[c] \in CtType
  BY DEF LiveCids, Live, LiveStates, IInv, TypeOK
<1>2. cts[c].key \in Keys
  BY <1>1 DEF IInv, KeysAgree
<1> QED BY <1>1, <1>2 DEF Keys, CtType

LEMMA ApartStep == ASSUME SubnetInv, [Next]_vars PROVE OctetsApart'
<1>0. IInv /\ OctetsApart
  BY DEF SubnetInv, KeptInv, OctetInv
<1>1. CASE UNCHANGED octetOf
  BY <1>0, <1>1 DEF OctetsApart
<1>2. ASSUME NEW t \in Procs, Allocates(t) PROVE OctetsApart'
  <2>1. \A o \in Owners : octetOf[o] \in UsedOctets
    BY DEF UsedOctets
  <2> QED BY <1>0, <1>2, <2>1 DEF OctetsApart, Allocates
<1>3. ASSUME NEW t \in Procs, Frees(t) PROVE OctetsApart'
  BY <1>0, <1>3 DEF OctetsApart, Frees
<1> QED BY <1>0, <1>1, <1>2, <1>3, OctetMoves

\* The owner of a container keeps its octet.
LEMMA OctetKept ==
    ASSUME SubnetInv, [Next]_vars, NEW c \in LiveCids, ~ Stray(c)
    PROVE  octetOf'[cts[c].key[1]] = octetOf[cts[c].key[1]]
<1>0. IInv /\ OnOctet /\ (\A t \in Procs : OctetKnows(t)) /\ cts[c].key[1] \in Owners
  BY LiveTyped DEF SubnetInv, KeptInv, OctetInv
<1>1. ASSUME NEW t \in Procs, Allocates(t) PROVE cts[c].key[1] # Owner(t)
  BY <1>0, <1>1 DEF Allocates, OnOctet
<1>2. ASSUME NEW t \in Procs, pc[t] = "free" PROVE cts[c].key[1] # Owner(t)
  BY <1>0, <1>2 DEF OctetKnows, Unused, FreePcs
<1> QED BY <1>0, <1>1, <1>2, OctetMoves DEF Allocates, Frees

LEMMA OnOctetStep == ASSUME SubnetInv, [Next]_vars PROVE OnOctet'
<1>0. IInv /\ OnOctet /\ (\A t \in Procs : OctetKnows(t))
  BY DEF SubnetInv, KeptInv, OctetInv
<1> SUFFICES ASSUME NEW c \in Cids, cts'[c].st \in LiveStates, ~ Stray(c)'
             PROVE  octetOf'[cts'[c].key[1]] = cts'[c].oct /\ cts'[c].oct # 0
  BY DEF OnOctet, LiveCids, Live
<1>1. ASSUME c \in LiveCids, cts'[c].key = cts[c].key, cts'[c].oct = cts[c].oct
      PROVE  octetOf'[cts'[c].key[1]] = cts'[c].oct /\ cts'[c].oct # 0
  <2>1. ~ Stray(c)
    BY StrayStays
  <2> QED BY <1>0, <1>1, <2>1, OctetKept DEF OnOctet
<1>2. CASE Fewer
  BY <1>1, <1>2 DEF Fewer, LiveCids, Live
<1>3. ASSUME NEW t \in Procs, Creates(t)
      PROVE  octetOf'[cts'[c].key[1]] = cts'[c].oct /\ cts'[c].oct # 0
  <2>1. pc[t] \in NetPcs /\ pc[t] \in SpawnPcs /\ UNCHANGED octetOf
    BY <1>3 DEF Creates, Create, NetPcs, SpawnPcs
  <2>2. octetOf[loc[t].key[1]] = loc[t].oct /\ loc[t].oct # 0
    <3>1. loc[t].oct \in Octets
      BY <1>0, <2>1, LocNow DEF LocOK, NetPcs
    <3> QED BY <1>0, <2>1, <3>1, ConstantsAssumption DEF OctetKnows, Owner
  <2>3. cts'[c] = cts[c] \/ (cts'[c].key = loc[t].key /\ cts'[c].oct = loc[t].oct)
    BY <1>3 DEF Creates
  <2>4. cts'[c] = cts[c] => c \in LiveCids
    BY DEF LiveCids, Live
  <2> QED BY <1>1, <2>1, <2>2, <2>3, <2>4
<1> QED BY <1>0, <1>2, <1>3, CtsMove

\* An owner that gets a row has an octet.
LEMMA SubnetStep == ASSUME SubnetInv, [Next]_vars PROVE OwnersKeepSubnet'
<1>0. /\ IInv /\ BootInv /\ OwnersKeepSubnet /\ (\A t \in Procs : OctetKnows(t))
      /\ \A c \in Cids : Adopting(c) => octetOf[cts[c].key[1]] # 0 \/ Stray(c)
  BY DEF SubnetInv, KeptInv, OctetInv
<1>1. ASSUME NEW k \in Keys, rows'[k].cid # None
      PROVE  octetOf'[k[1]] # 0 \/ Stray(rows[k].cid)'
  <2>0. k[1] \in Owners
    BY DEF Keys
  <2>1. ASSUME rows[k].cid # None, rows'[k].cid = rows[k].cid
        PROVE  octetOf'[k[1]] # 0 \/ Stray(rows[k].cid)'
    <3>1. PICK c : c = rows[k].cid
      OBVIOUS
    <3>2. k \in OwnerRows(k[1]) /\ (octetOf[k[1]] # 0 \/ Stray(c))
      BY <1>0, <2>0, <2>1, <3>1 DEF OwnersKeepSubnet, OwnerRows
    <3>3. CASE Stray(c)
      <4>1. Stray(c)'
        BY <3>3, StrayStays
      <4> QED BY <2>1, <3>1, <4>1 DEF Stray
    <3>4. ASSUME NEW t \in Procs, Allocates(t), octetOf[k[1]] # 0 PROVE octetOf'[k[1]] # 0
      BY <2>0, <3>4 DEF Allocates
    <3>5. ASSUME NEW t \in Procs, pc[t] = "free", Frees(t), octetOf[k[1]] # 0
          PROVE  octetOf'[k[1]] # 0
      BY <1>0, <2>0, <3>2, <3>5 DEF Frees, OctetKnows, FreePcs, Unused
    <3> QED BY <1>0, <3>2, <3>3, <3>4, <3>5, OctetMoves
  <2>2. ASSUME NEW t \in Procs, AddInstance(t), Fills(loc[t].key, loc[t].cid)
        PROVE  octetOf'[k[1]] # 0 \/ Stray(rows[k].cid)'
    <3>1. pc[t] \in NetPcs /\ UNCHANGED octetOf
      BY <2>2 DEF AddInstance, NetPcs, SpawnPcs
    <3>2. loc[t].oct \in Octets
      BY <1>0, <3>1, LocNow DEF LocOK, NetPcs
    <3>3. octetOf[loc[t].key[1]] # 0
      BY <1>0, <3>1, <3>2, ConstantsAssumption DEF OctetKnows, Owner
    <3>4. k = loc[t].key \/ rows'[k] = rows[k]
      BY <2>2 DEF Fills
    <3> QED BY <1>1, <2>1, <3>1, <3>3, <3>4
  <2>3. ASSUME NEW t \in Procs, Adopt(t), Fills(cts[loc[t].cid].key, loc[t].cid)
        PROVE  octetOf'[k[1]] # 0 \/ Stray(rows[k].cid)'
    <3>1. pc[t] = "adopt" /\ UNCHANGED octetOf
      BY <2>3 DEF Adopt
    <3>2. t = Main /\ loc[t].op = "adopt"
      BY <1>0, <3>1 DEF BootInv, BootOK
    <3>3. PICK c \in Cids : c = loc[t].cid
      BY <1>0, <3>1, LocNow DEF LocOK, ItemPcs, Issued
    <3>4. octetOf[cts[c].key[1]] # 0 \/ Stray(c)
      BY <1>0, <3>1, <3>2, <3>3 DEF Adopting
    <3>5. Stray(c) => Stray(c)'
      BY StrayStays
    <3>6. (k = cts[c].key /\ rows'[k].cid = c) \/ rows'[k] = rows[k]
      BY <2>3, <3>3 DEF Fills
    <3>7. CASE rows'[k] = rows[k]
      BY <1>1, <2>1, <3>7
    <3>8. CASE k = cts[c].key /\ rows'[k].cid = c
      <4>1. Stray(c)' => Stray(rows[k].cid)'
        BY <3>8 DEF Stray
      <4> QED BY <3>1, <3>4, <3>5, <3>8, <4>1
    <3> QED BY <3>6, <3>7, <3>8
  <2>4. CASE Fade
    BY <1>1, <2>1, <2>4 DEF Fade
  <2> QED BY <1>0, <2>2, <2>3, <2>4, RowsMove
<1>2. ASSUME NEW n \in Octets, nets'[n] # None PROVE octetOf'[nets'[n]] = n
  <2>1. CASE UNCHANGED nets
    <3>1. octetOf[nets[n]] = n /\ n # 0 /\ nets[n] \in Owners
      BY <1>0, <1>2, <2>1, ConstantsAssumption DEF OwnersKeepSubnet, IInv, TypeOK
    <3>2. ASSUME NEW t \in Procs, Allocates(t) PROVE octetOf'[nets[n]] = n
      BY <3>1, <3>2 DEF Allocates
    <3>3. ASSUME NEW t \in Procs, pc[t] = "free", Frees(t) PROVE octetOf'[nets[n]] = n
      <4>1. octetOf[Owner(t)] # 0 => octetOf[Owner(t)] = loc[t].oct /\ nets[loc[t].oct] = None
        BY <1>0, <3>3 DEF OctetKnows
      <4>2. nets[n] # Owner(t)
        BY <1>2, <2>1, <3>1, <4>1
      <4> QED BY <3>1, <3>3, <4>2 DEF Frees
    <3> QED BY <1>0, <2>1, <3>1, <3>2, <3>3, OctetMoves
  <2>2. ASSUME NEW t \in Procs, Makes(t) PROVE octetOf'[nets'[n]] = n
    <3>1. octetOf[Owner(t)] = loc[t].oct
      BY <1>0, <2>2 DEF Makes, OctetKnows, NetPcs, SpawnPcs
    <3>2. nets'[n] = IF n = loc[t].oct THEN Owner(t) ELSE nets[n]
      BY <1>0, <2>2 DEF Makes, IInv, TypeOK
    <3> QED BY <1>0, <1>2, <2>2, <3>1, <3>2 DEF Makes, OwnersKeepSubnet
  <2>3. ASSUME NEW t \in Procs, Unmakes(t) PROVE octetOf'[nets'[n]] = n
    <3>1. nets'[n] = IF n = loc[t].oct THEN None ELSE nets[n]
      BY <1>0, <2>3 DEF Unmakes, IInv, TypeOK
    <3> QED BY <1>0, <1>2, <2>3, <3>1 DEF Unmakes, OwnersKeepSubnet
  <2> QED BY <1>0, <2>1, <2>2, <2>3, NetMoves
<1> QED BY <1>1, <1>2 DEF OwnersKeepSubnet

LEMMA OwnNetworkStep == ASSUME SubnetInv, [Next]_vars PROVE OwnNetwork'
<1>0. /\ IInv /\ OwnersKeepSubnet /\ OwnNetwork /\ OnOctet /\ OctetsApart
  BY DEF SubnetInv, KeptInv, OctetInv
<1> SUFFICES ASSUME NEW c \in Cids, cts'[c].st = "running", ~ Stray(c)'
             PROVE  nets'[cts'[c].oct] = cts'[c].key[1]
  BY DEF OwnNetwork
<1>1. ~ Stray(c)
  BY StrayStays
<1>2. CASE cts[c].st # "running"
  <2>1. c \in LiveCids /\ nets[cts[c].oct] # None
    BY <1>0, <1>2, Runs
  <2>2. cts[c].key[1] \in Owners /\ octetOf[cts[c].key[1]] = cts[c].oct /\ cts[c].oct \in Octets
    BY <1>0, <1>1, <2>1, LiveTyped DEF OnOctet
  <2>3. nets[cts[c].oct] \in Owners /\ octetOf[nets[cts[c].oct]] = cts[c].oct
    BY <1>0, <2>1, <2>2 DEF OwnersKeepSubnet, IInv, TypeOK
  <2>4. nets[cts[c].oct] = cts[c].key[1]
    BY <1>0, <2>1, <2>2, <2>3, ConstantsAssumption DEF OctetsApart
  <2> QED BY <1>0, <1>2, <2>4, Runs
<1>3. CASE cts[c].st = "running"
  <2>1. c \in LiveCids
    BY <1>3 DEF LiveCids, Live, LiveStates
  <2>2. cts'[c].key = cts[c].key /\ cts'[c].oct = cts[c].oct
    BY <1>0, <1>3, CtsMove DEF Fewer, Creates
  <2>3. nets[cts[c].oct] = cts[c].key[1] /\ cts[c].key[1] \in Owners /\ cts[c].oct \in Octets
    BY <1>0, <1>3, <1>1, <2>1, LiveTyped DEF OwnNetwork, OnOctet
  <2>4. ASSUME NEW t \in Procs, Makes(t) PROVE nets'[cts[c].oct] = nets[cts[c].oct]
    <3>1. cts[c].oct # loc[t].oct
      BY <2>3, <2>4, ConstantsAssumption DEF Makes
    <3> QED BY <1>0, <2>3, <2>4, <3>1 DEF Makes, IInv, TypeOK
  <2>5. ASSUME NEW t \in Procs, Unmakes(t) PROVE nets'[cts[c].oct] = nets[cts[c].oct]
    <3>1. cts[c].oct # loc[t].oct
      BY <1>3, <2>5 DEF Unmakes, Busy
    <3> QED BY <1>0, <2>3, <2>5, <3>1 DEF Unmakes, IInv, TypeOK
  <2> QED BY <1>0, <2>2, <2>3, <2>4, <2>5, NetMoves
<1> QED BY <1>2, <1>3

\* A spawn has the octet that ensure_owner_network read or wrote.
LEMMA SpawnOctet ==
    ASSUME IInv, NEW t \in Procs, SpawnStep(t), pc'[t] \in NetPcs
    PROVE  \/ pc[t] \in NetPcs /\ loc'[t].oct = loc[t].oct
           \/ GetOctet(t) /\ loc'[t].oct = octetOf[Owner(t)]
           \/ AllocOctet(t) /\ loc'[t].oct = octetOf'[Owner(t)]
<1> DEFINE Keeps == pc[t] \in NetPcs /\ loc'[t].oct = loc[t].oct
<1>0. loc[t] \in LocType
  BY LocNow
<1>1. "idle" \notin NetPcs /\ "octet" \notin NetPcs /\ "alloc" \notin NetPcs
  BY DEF NetPcs, SpawnPcs
<1>2. ~ Return(t)
  BY <1>1, ReturnThere
<1>3. ASSUME NEW p, NEW l, Goto(t, p, l) PROVE pc'[t] = p /\ loc'[t] = l
  BY <1>3, GotoThere
<1>4. ASSUME NEW p, Move(t, p) PROVE pc'[t] = p /\ loc'[t].oct = loc[t].oct
  BY <1>4, MoveThere
<1>5. ASSUME NEW b, ToClean(t, b) PROVE loc'[t].oct = loc[t].oct
  <2> DEFINE l == [loc[t] EXCEPT !.conflict = b]
  <2>1. l.oct = loc[t].oct
    BY <1>0 DEF LocType
  <2>2. Goto(t, "clean", l)
    BY <1>5 DEF ToClean
  <2> HIDE DEF l
  <2> QED BY <1>3, <2>1, <2>2
<1>6. ~ Find(t)
  BY <1>1, <1>2, <1>4 DEF Find
<1>7. ASSUME GetOctet(t) PROVE loc'[t].oct = octetOf[Owner(t)]
  <2> DEFINE l1 == [loc[t] EXCEPT !.oct = octetOf[Owner(t)]]
             l2 == [loc[t] EXCEPT !.left = OctetTries]
  <2>1. l1.oct = octetOf[Owner(t)]
    BY <1>0 DEF LocType
  <2>2. Goto(t, "net", l1) \/ Goto(t, "alloc", l2)
    BY <1>7 DEF GetOctet
  <2> HIDE DEF l1, l2
  <2> QED BY <1>1, <1>3, <2>1, <2>2
<1>8. ASSUME AllocOctet(t) PROVE loc'[t].oct = octetOf'[Owner(t)]
  <2>0. Owner(t) \in Owners
    BY <1>8, OwnerKnown DEF AllocOctet, SpawnPcs
  <2> DEFINE l1 == [loc[t] EXCEPT !.left = @ - 1]
             l2(n) == [loc[t] EXCEPT !.oct = n, !.left = 0]
  <2>1. \A n : l2(n).oct = n
    BY <1>0 DEF LocType
  <2>2. \/ Goto(t, "alloc", l1)
        \/ \E n \in Octets : octetOf' = [octetOf EXCEPT ![Owner(t)] = n] /\ Goto(t, "net", l2(n))
    BY <1>2, <1>8 DEF AllocOctet
  <2> HIDE DEF l1, l2
  <2>3. PICK n \in Octets : octetOf' = [octetOf EXCEPT ![Owner(t)] = n] /\ Goto(t, "net", l2(n))
    BY <1>1, <1>3, <2>2
  <2>4. octetOf'[Owner(t)] = n
    BY <2>0, <2>3 DEF IInv, TypeOK
  <2> QED BY <1>3, <2>1, <2>3, <2>4
<1>9. ASSUME GetNet(t) \/ MakeNet(t) PROVE Keeps
  BY <1>2, <1>4, <1>9 DEF GetNet, MakeNet, NetPcs, SpawnPcs
<1>10. ASSUME Build(t) PROVE Keeps
  <2> DEFINE l == [loc[t] EXCEPT !.left = Tries]
  <2>1. l.oct = loc[t].oct
    BY <1>0 DEF LocType
  <2>2. Goto(t, "ip", l) /\ pc[t] \in NetPcs
    BY <1>2, <1>10 DEF Build, NetPcs, SpawnPcs
  <2> HIDE DEF l
  <2> QED BY <1>3, <2>1, <2>2
<1>11. ASSUME PickAddress(t) PROVE Keeps
  <2> DEFINE l1 == [loc[t] EXCEPT !.left = @ - 1]
             l2(h, p) == [loc[t] EXCEPT !.host = h, !.port = p]
  <2>1. l1.oct = loc[t].oct /\ \A h, p : l2(h, p).oct = loc[t].oct
    BY <1>0 DEF LocType
  <2>2. Goto(t, "ip", l1) \/ \E h, p : Goto(t, "create", l2(h, p))
    BY <1>2, <1>11 DEF PickAddress
  <2>3. pc[t] \in NetPcs
    BY <1>11 DEF PickAddress, NetPcs, SpawnPcs
  <2> HIDE DEF l1, l2
  <2> QED BY <1>3, <2>1, <2>2, <2>3
<1>12. ASSUME Create(t) PROVE Keeps
  <2> DEFINE l == [loc[t] EXCEPT !.cid = FreshCid]
  <2>1. l.oct = loc[t].oct
    BY <1>0 DEF LocType
  <2>2. pc[t] \in NetPcs /\ (Goto(t, "start", l) \/ \E b : ToClean(t, b))
    BY <1>12 DEF Create, NetPcs, SpawnPcs
  <2> HIDE DEF l
  <2> QED BY <1>3, <1>5, <2>1, <2>2
<1>13. ASSUME Start(t) \/ Get(t) PROVE Keeps
  BY <1>4, <1>5, <1>13 DEF Start, Get, NetPcs, SpawnPcs
<1>14. ASSUME Clean(t) PROVE Keeps
  <2> DEFINE l == [loc[t] EXCEPT !.triedHosts = @ \cup {loc[t].host}, !.cid = None,
                        !.triedPorts = @ \cup {loc[t].port}, !.left = @ - 1,
                        !.conflict = FALSE]
  <2>1. l.oct = loc[t].oct
    BY <1>0 DEF LocType
  <2>2. Goto(t, "ip", l) /\ pc[t] \in NetPcs
    BY <1>2, <1>14 DEF Clean, NetPcs, SpawnPcs
  <2> HIDE DEF l
  <2> QED BY <1>3, <2>1, <2>2
<1>15. ASSUME Reload(t) \/ AddInstance(t) \/ Undo(t) PROVE Keeps
  BY <1>2, <1>4, <1>15 DEF Reload, AddInstance, Undo, NetPcs, SpawnPcs
<1> QED BY <1>6, <1>7, <1>8, <1>9, <1>10, <1>11, <1>12, <1>13, <1>14, <1>15 DEF SpawnStep

\* How release_owner_network_if_idle goes on.
LEMMA ReleaseMover ==
    ASSUME IInv, [Next]_vars, NEW t \in Procs, pc'[t] \in FreePcs
    PROVE  \/ pc'[t] = pc[t] /\ loc'[t] = loc[t]
           \/ /\ CountRows(t) /\ OwnerRows(Owner(t)) = {} /\ pc'[t] = "goct"
              /\ loc'[t] = loc[t]
           \/ /\ GetOctetToFree(t) /\ pc'[t] = "rmnet" /\ loc'[t].key = loc[t].key
              /\ loc'[t].oct = octetOf[Owner(t)]
           \/ /\ RemoveNet(t) /\ pc'[t] = "free" /\ loc'[t] = loc[t]
              /\ nets' = [nets EXCEPT ![loc[t].oct] = None]
<1>0. /\ {"idle", "boot", "find", "rfind", "next", "stop", "remove", "row", "count",
          "check", "sync", "adopt"} \cap FreePcs = {}
      /\ SpawnPcs \cap FreePcs = {}
  BY DEF SpawnPcs, FreePcs
<1>1. ASSUME NEW u \in Procs, Alone(u), u # t PROVE pc'[t] = pc[t] /\ loc'[t] = loc[t]
  BY <1>1 DEF Alone
<1>2. ASSUME NEW p, Move(t, p) PROVE pc'[t] = p /\ loc'[t] = loc[t]
  BY <1>2, MoveThere
<1>3. ~ SpawnStep(t)
  BY <1>0, SpawnControl
<1>4. ~ (Check(t) \/ SyncStatus(t) \/ Adopt(t))
  BY <1>0, BodyControl
<1>5. ASSUME NextItem(t) PROVE FALSE
  <2>1. LoopBody["kill"] \notin FreePcs /\ LoopBody["reconcile"] \notin FreePcs
        /\ LoopBody["adopt"] \notin FreePcs
    BY DEF LoopBody, FreePcs
  <2> QED BY <1>0, <1>5, <2>1, NextItemControl
<1>6. ASSUME FindRow(t) PROVE FALSE
  <2>1. \E k : Goto(t, "stop", [loc[t] EXCEPT !.key = k])
    BY <1>6 DEF FindRow
  <2> QED BY <1>0, <2>1, GotoThere
<1>7. ~ (Stop(t) \/ Remove(t) \/ RemoveRow(t) \/ FreeOctet(t))
  BY <1>0, <1>2 DEF Stop, Remove, RemoveRow, FreeOctet
<1>8. ASSUME CountRows(t)
      PROVE  OwnerRows(Owner(t)) = {} /\ pc'[t] = "goct" /\ loc'[t] = loc[t]
  BY <1>0, <1>2, <1>8 DEF CountRows
<1>9. ASSUME GetOctetToFree(t)
      PROVE  pc'[t] = "rmnet" /\ loc'[t].key = loc[t].key /\ loc'[t].oct = octetOf[Owner(t)]
  <2> DEFINE l == [loc[t] EXCEPT !.oct = octetOf[Owner(t)]]
  <2>1. l.oct = octetOf[Owner(t)] /\ l.key = loc[t].key
    BY LocNow DEF LocType
  <2>2. Goto(t, "rmnet", l)
    BY <1>0, <1>2, <1>9 DEF GetOctetToFree
  <2> HIDE DEF l
  <2> QED BY <2>1, <2>2, GotoThere
<1>10. ASSUME RemoveNet(t)
       PROVE  /\ pc'[t] = "free" /\ loc'[t] = loc[t]
              /\ nets' = [nets EXCEPT ![loc[t].oct] = None]
  BY <1>0, <1>2, <1>10 DEF RemoveNet
<1>11. ASSUME ThreadStep(t) PROVE CountRows(t) \/ GetOctetToFree(t) \/ RemoveNet(t)
  BY <1>3, <1>4, <1>5, <1>6, <1>7, <1>11 DEF ThreadStep, LoopStep, ReleaseStep
<1>12. ASSUME NEW u \in Threads, Request(u) PROVE pc'[t] = pc[t] /\ loc'[t] = loc[t]
  <2>1. u # t /\ u \in Procs
    BY <1>0, <1>12, RequestControl
  <2> QED BY <1>1, <1>12, <2>1, RequestControl
<1>13. ASSUME BootScan PROVE pc'[t] = pc[t] /\ loc'[t] = loc[t]
  <2>1. Main # t /\ Main \in Procs /\ Alone(Main)
    BY <1>0, <1>13, BootScanMoves DEF Procs
  <2> QED BY <1>1, <2>1
<1>14. ~ Crash
  BY <1>0 DEF Crash
<1>15. CASE UNCHANGED <<pc, loc>>
  BY <1>15
<1> QED BY <1>1, <1>8, <1>9, <1>10, <1>11, <1>12, <1>13, <1>14, <1>15, Movers, StepAlone

\* The octet of a spawn's owner stays while the spawn is at work.
LEMMA SpawnOctetStays ==
    ASSUME SubnetInv, [Next]_vars, NEW t \in Procs, pc[t] \in NetPcs
    PROVE  octetOf'[Owner(t)] = octetOf[Owner(t)]
<1>0. IInv /\ OctetKnows(t) /\ SubnetsApart /\ pc[t] \in SpawnPcs
  BY DEF SubnetInv, KeptInv, OctetInv, Orderly, NetPcs
<1>1. Owner(t) \in Owners /\ loc[t].oct \in Octets
  BY <1>0, OwnerKnown, LocNow DEF LocOK, NetPcs
<1>2. octetOf[Owner(t)] # 0
  BY <1>0, <1>1, ConstantsAssumption DEF OctetKnows
<1>3. ASSUME NEW u \in Procs, Allocates(u) PROVE octetOf'[Owner(t)] = octetOf[Owner(t)]
  BY <1>1, <1>2, <1>3 DEF Allocates
<1>4. ASSUME NEW u \in Procs, pc[u] = "free", Frees(u)
      PROVE  octetOf'[Owner(t)] = octetOf[Owner(t)]
  BY <1>0, <1>1, <1>4 DEF Frees, SubnetsApart, FreePcs
<1> QED BY <1>0, <1>3, <1>4, OctetMoves

LEMMA SpawnOctetStep ==
    ASSUME SubnetInv, [Next]_vars, NEW t \in Procs, pc'[t] \in NetPcs
    PROVE  octetOf'[loc'[t].key[1]] = loc'[t].oct
<1>0. IInv /\ OctetKnows(t) /\ pc'[t] \in SpawnPcs
  BY DEF SubnetInv, KeptInv, OctetInv, NetPcs
<1>1. pc[t] \in NetPcs => octetOf'[loc[t].key[1]] = loc[t].oct
  BY <1>0, SpawnOctetStays DEF OctetKnows, Owner
<1>2. CASE SpawnStep(t) /\ Goes(t)
  BY <1>0, <1>1, <1>2, SpawnOctet DEF Goes, GetOctet, Owner
<1>3. CASE pc'[t] = pc[t] /\ loc'[t] = loc[t]
  BY <1>1, <1>3
<1> QED BY <1>0, <1>2, <1>3, SpawnMover

\* No spawn of the owner meets a release that is letting it go.
LEMMA UnusedStays ==
    ASSUME SubnetInv, [Next]_vars, NEW t \in Procs, pc[t] \in FreePcs,
           NEW o \in Owners, o = Owner(t)
    PROVE  Unused(o)'
<1>0. IInv /\ BootInv /\ Unused(o) /\ SubnetsApart /\ Main \in Procs /\ pc[t] # "idle"
  BY DEF SubnetInv, KeptInv, OctetInv, OctetKnows, Orderly, Procs, FreePcs
<1>1. ASSUME NEW k \in Keys, k[1] = o PROVE rows'[k].cid = None
  <2>1. rows[k].cid = None
    BY <1>0, <1>1 DEF Unused, OwnerRows
  <2>2. ASSUME NEW u \in Procs, AddInstance(u), Fills(loc[u].key, loc[u].cid)
        PROVE  rows'[k].cid = None
    <3>1. loc[u].key # k
      BY <1>0, <1>1, <2>2 DEF AddInstance, SubnetsApart, NetPcs, SpawnPcs, Owner
    <3> QED BY <2>1, <2>2, <3>1 DEF Fills
  <2>3. ASSUME NEW u \in Procs, Adopt(u) PROVE FALSE
    <3>1. u = Main /\ pc[Main] = "adopt"
      BY <1>0, <2>3 DEF Adopt, BootInv, BootOK
    <3> QED BY <1>0, <3>1 DEF BootInv, Procs, FreePcs
  <2> QED BY <1>0, <2>1, <2>2, <2>3, RowsMove DEF Fade
<1>2. ASSUME NEW c \in Cids, cts'[c].st \in LiveStates PROVE cts'[c].key[1] # o \/ Stray(c)'
  <2>1. ASSUME c \in LiveCids, cts'[c].key = cts[c].key PROVE cts'[c].key[1] # o \/ Stray(c)'
    BY <1>0, <2>1, StrayStays DEF Unused
  <2>2. CASE Fewer
    BY <1>2, <2>1, <2>2 DEF Fewer, LiveCids, Live
  <2>3. ASSUME NEW u \in Procs, Creates(u) PROVE cts'[c].key[1] # o \/ Stray(c)'
    <3>1. loc[u].key[1] # o
      BY <1>0, <2>3 DEF Creates, Create, SubnetsApart, NetPcs, SpawnPcs, Owner
    <3>2. cts'[c].key = loc[u].key \/ cts'[c] = cts[c]
      BY <2>3 DEF Creates
    <3>3. cts'[c] = cts[c] => c \in LiveCids
      BY <1>2 DEF LiveCids, Live
    <3> QED BY <2>1, <3>1, <3>2, <3>3
  <2> QED BY <1>0, <2>2, <2>3, CtsMove
<1>3. OwnerRows(o)' = {}
  BY <1>1 DEF OwnerRows
<1>4. \A c \in LiveCids' : cts'[c].key[1] # o \/ Stray(c)'
  BY <1>2 DEF LiveCids, Live
<1> QED BY <1>3, <1>4 DEF Unused

\* An owner without rows is without containers when it is let go: a spawn of its
\* that has a container keeps the release from going on.
LEMMA CountUnused ==
    ASSUME SubnetInv, Orderly', NEW t \in Procs, CountRows(t), pc'[t] = "goct",
           loc'[t] = loc[t], OwnerRows(Owner(t)) = {}
    PROVE  Unused(Owner(t))
<1>0. BootInv /\ IInv /\ KeptInv /\ Main \in Procs /\ pc[t] = "count" /\ pc[t] # "idle"
  BY DEF SubnetInv, KeptInv, Procs, CountRows
<1>1. pc[Main] \notin {"boot", "adopt"} /\ loc[Main].op # "adopt"
  <2>1. t = Main \/ pc[Main] = "idle"
    BY <1>0 DEF BootInv, Procs
  <2> QED BY <1>0, <2>1 DEF BootInv, BootOK
<1>2. ASSUME NEW c \in LiveCids, cts[c].key[1] = Owner(t) PROVE Stray(c)
  <2>1. ASSUME NEW k \in Keys, rows[k].cid = c PROVE FALSE
    <3>1. c # None /\ cts[c].key = k
      BY <1>0, <2>1, ConstantsAssumption DEF LiveCids, IInv, KeysAgree
    <3> QED BY <1>2, <2>1, <3>1 DEF OwnerRows
  <2>2. ASSUME NEW u \in Procs, pc[u] \in HoldPcs, loc[u].cid = c PROVE FALSE
    <3>1. u # t /\ pc[u] \in NetPcs /\ pc[u] \in SpawnPcs
      BY <1>0, <2>2 DEF HoldPcs, NetPcs, SpawnPcs
    <3>2. cts[c].key = loc[u].key
      BY <1>0, <2>2, <3>1, LocNow, ConstantsAssumption DEF LocOK, LiveCids
    <3>3. pc'[u] = pc[u] /\ loc'[u] = loc[u]
      BY <1>0, <3>1, MoveThere DEF CountRows, Alone
    <3>4. loc'[u].key[1] # loc'[t].key[1]
      BY <3>1, <3>3 DEF Orderly, SubnetsApart, FreePcs, Owner
    <3> QED BY <1>2, <3>2, <3>3, <3>4 DEF Owner
  <2> QED BY <1>0, <1>1, <2>1, <2>2, KeptTracked DEF Tracked, InFlight
<1> QED BY <1>2 DEF Unused

LEMMA FreeStep ==
    ASSUME SubnetInv, [Next]_vars, Orderly', NEW t \in Procs, pc'[t] \in FreePcs
    PROVE  OctetKnows(t)'
<1>0. IInv /\ OctetKnows(t) /\ OctetsApart /\ SubnetsApart
      /\ \A u \in Procs : OctetKnows(u)
  BY DEF SubnetInv, KeptInv, OctetInv, Orderly
<1>1. pc[t] \in FreePcs \cup {"count"} /\ loc'[t].key = loc[t].key
  BY <1>0, ReleaseMover DEF CountRows, GetOctetToFree, RemoveNet, FreePcs
<1>2. PICK o \in Owners : o = Owner(t)
  BY <1>0, <1>1, OwnerKnown
<1>3. loc'[t].key[1] = o
  BY <1>1, <1>2 DEF Owner
<1>4. Unused(o)'
  <2>1. CASE pc[t] \in FreePcs
    BY <1>2, <2>1, UnusedStays
  <2>2. CASE pc[t] = "count"
    <3>1. CountRows(t) /\ OwnerRows(Owner(t)) = {} /\ pc'[t] = "goct" /\ loc'[t] = loc[t]
      BY <1>0, <2>2, ReleaseMover DEF GetOctetToFree, RemoveNet, FreePcs
    <3>2. Unused(o) /\ UNCHANGED <<rows, cts, abandoned>>
      BY <1>2, <3>1, CountUnused DEF CountRows
    <3> QED BY <3>2 DEF Unused, OwnerRows, LiveCids, Live, Stray
  <2> QED BY <1>1, <2>1, <2>2
<1>5. octetOf'[o] \in {octetOf[o], 0}
  <2>1. ASSUME NEW u \in Procs, Allocates(u), pc[u] = "alloc" PROVE octetOf'[o] = octetOf[o]
    <3>1. Owner(u) # o
      BY <1>3, <2>1 DEF Allocates, Orderly, SubnetsApart, NetPcs, SpawnPcs, Owner
    <3> QED BY <1>2, <2>1, <3>1 DEF Allocates
  <2>2. ASSUME NEW u \in Procs, Frees(u) PROVE octetOf'[o] \in {octetOf[o], 0}
    BY <1>2, <2>2 DEF Frees
  <2> QED BY <1>0, <2>1, <2>2, OctetMoves
<1>6. pc'[t] \in {"rmnet", "free"} => octetOf'[o] \in {loc'[t].oct, 0}
  BY <1>0, <1>2, <1>5, ReleaseMover DEF OctetKnows, RemoveNet, CountRows
<1>7. ASSUME pc'[t] = "free", octetOf'[o] # 0 PROVE nets'[loc'[t].oct] = None
  <2>1. CASE RemoveNet(t) /\ loc'[t] = loc[t] /\ nets' = [nets EXCEPT ![loc[t].oct] = None]
    <3>1. loc[t].oct \in Octets
      BY <1>0, <2>1, LocNow DEF LocOK, RemoveNet
    <3> QED BY <1>0, <2>1, <3>1 DEF IInv, TypeOK
  <2>2. CASE pc[t] = "free" /\ loc'[t] = loc[t]
    <3>1. octetOf[o] # 0 /\ octetOf[o] = loc[t].oct /\ nets[loc[t].oct] = None
      BY <1>0, <1>2, <1>5, <1>7, <2>2 DEF OctetKnows
    <3>2. loc[t].oct \in Octets
      BY <1>0, <3>1 DEF IInv, TypeOK
    <3>3. ASSUME NEW u \in Procs, Makes(u) PROVE loc[u].oct # loc[t].oct
      <4>1. pc[u] \in NetPcs /\ pc[u] \in SpawnPcs /\ octetOf[Owner(u)] = loc[u].oct
        BY <1>0, <3>3 DEF Makes, OctetKnows, NetPcs, SpawnPcs
      <4>2. Owner(u) # o /\ Owner(u) \in Owners
        BY <1>0, <1>2, <2>2, <4>1, OwnerKnown DEF SubnetsApart, FreePcs
      <4> QED BY <1>0, <3>1, <4>1, <4>2 DEF OctetsApart
    <3> QED BY <1>0, <2>2, <3>1, <3>2, <3>3, NetMoves DEF Makes, Unmakes, IInv, TypeOK
  <2> QED BY <1>0, <1>7, <2>1, <2>2, ReleaseMover
<1>8. Unused(Owner(t))'
  BY <1>3, <1>4 DEF Unused, OwnerRows, LiveCids, Live, Owner, Stray
<1>9. pc'[t] \notin NetPcs
  BY DEF NetPcs, SpawnPcs, FreePcs
<1> QED BY <1>3, <1>6, <1>7, <1>8, <1>9 DEF OctetKnows, Owner

LEMMA OctetKnowsStep ==
    ASSUME SubnetInv, [Next]_vars, Orderly', NEW t \in Procs PROVE OctetKnows(t)'
<1>1. CASE pc'[t] \in NetPcs
  <2>1. octetOf'[loc'[t].key[1]] = loc'[t].oct
    BY <1>1, SpawnOctetStep
  <2>2. pc'[t] \notin FreePcs /\ pc'[t] \notin {"rmnet", "free"}
    BY <1>1 DEF NetPcs, SpawnPcs, FreePcs
  <2> QED BY <2>1, <2>2 DEF OctetKnows, Owner
<1>2. CASE pc'[t] \in FreePcs
  BY <1>2, FreeStep
<1>3. CASE pc'[t] \notin NetPcs \cup FreePcs
  BY <1>3 DEF OctetKnows, FreePcs
<1> QED BY <1>1, <1>2, <1>3

\* The owner of a container to adopt has an octet.
LEMMA AdoptingOctet ==
    ASSUME SubnetInv, [Next]_vars, NEW c \in Cids, Adopting(c)'
    PROVE  octetOf'[cts'[c].key[1]] # 0 \/ Stray(c)'
<1>0. IInv /\ BootInv /\ OnOctet /\ Main \in Procs
      /\ (Adopting(c) => octetOf[cts[c].key[1]] # 0 \/ Stray(c))
  BY DEF SubnetInv, KeptInv, OctetInv, Procs
<1>1. CASE Adopting(c)
  <2>1. pc[Main] \in {"next", "adopt"}
    BY <1>0, <1>1 DEF Adopting, BootInv, BootOK
  <2>2. \A u \in Procs : u = Main \/ pc[u] = "idle"
    BY <1>0, <2>1 DEF BootInv, Procs
  <2>3. UNCHANGED octetOf
    BY <1>0, <2>1, <2>2, OctetMoves
  <2>4. Fewer
    BY <1>0, <2>1, <2>2, CtsMove DEF Creates, Create
  <2> QED BY <1>0, <1>1, <2>3, <2>4, StrayStays DEF Fewer
<1>2. CASE BootScan /\ c \in LiveCids
  BY <1>0, <1>2, BootScanMoves DEF OnOctet, Stray
<1> QED BY <1>0, <1>1, <1>2, AdoptingWas

LEMMA OctetInit == Init => OctetInv
<1> SUFFICES ASSUME Init PROVE OctetInv
  OBVIOUS
<1>1. LiveCids = {} /\ (\A o : OwnerRows(o) = {})
  BY DEF Init, LiveCids, Live, LiveStates, OwnerRows, NoRow
<1>2. OwnersKeepSubnet
  BY <1>1 DEF Init, OwnersKeepSubnet, NoRow
<1>3. OwnNetwork
  BY DEF Init, OwnNetwork
<1>4. \A t \in Procs : OctetKnows(t)
  BY DEF Init, OctetKnows, NetPcs, SpawnPcs, FreePcs
<1>5. \A c : ~ Adopting(c)
  BY DEF Init, Adopting, NoLoc, Procs
<1> QED BY <1>1, <1>2, <1>3, <1>4, <1>5 DEF Init, OctetInv, OctetsApart, OnOctet

LEMMA SubnetSpec == OrderlySpec => []SubnetInv
<1>1. Init => SubnetInv
  <2>1. Init => Orderly
    BY DEF Init, Orderly, KeysApart, SubnetsApart, NetPcs, SpawnPcs
  <2> QED BY <2>1, InitIInv, BootInit, SpawnInit, AbandonedInit, OctetInit DEF SubnetInv, KeptInv
<1>2. ASSUME SubnetInv, [Next /\ Orderly']_vars PROVE SubnetInv'
  <2>1. [Next]_vars /\ Orderly'
    BY <1>2 DEF vars, SubnetInv, Orderly, KeysApart, SubnetsApart, Owner
  <2>2. KeptInv'
    BY <1>2, <2>1, KeptStep DEF SubnetInv, Orderly
  <2>3. OctetInv'
    BY <1>2, <2>1, ApartStep, OnOctetStep, SubnetStep, OwnNetworkStep, OctetKnowsStep,
       AdoptingOctet DEF OctetInv
  <2> QED BY <2>1, <2>2, <2>3 DEF SubnetInv
<1> QED BY <1>1, <1>2, PTL DEF OrderlySpec

\* spawn_instance and release_owner_network_if_idle keep a running container on
\* the network made for its owner, for any number of threads, interleaved call by
\* call, with every fault: a container that is removed, exits, is restarted by
\* Docker, or is left behind by a crash and adopted never finds itself with another
\* owner.  What it takes is that no two spawns of a key meet, and that a release
\* does not let go the subnet of an owner one of whose spawns has read it.
THEOREM IsolatedOwners == OrderlySpec => []OwnNetwork
<1>1. SubnetInv => OwnNetwork
  BY DEF SubnetInv, OctetInv
<1> QED BY <1>1, SubnetSpec, PTL

\* An owner with rows has its octet, and a network is that of the octet's owner:
\* what allocate_octet, add_instance and release_owner_network_if_idle do in
\* threads of their own never frees a subnet that is in use, two releases of one
\* owner at once included, unless a spawn comes between the count and the free.
THEOREM SubnetsKept == OrderlySpec => []OwnersKeepSubnet
<1>1. SubnetInv => OwnersKeepSubnet
  BY DEF SubnetInv, OctetInv
<1> QED BY <1>1, SubnetSpec, PTL
=============================================================================
