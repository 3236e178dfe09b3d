--------------------------- MODULE VpnPeersProofs ---------------------------
(***************************************************************************)
(* Theorems about VpnPeers, for any users, addresses, processes and        *)
(* requests.  First, the rows of valid peers stand for the daemon's peers. *)
(* Then, by an invariant on keys, blocks and routes, that the daemon's     *)
(* stores agree once it rests and that a revoked key stays gone.           *)
(***************************************************************************)
EXTENDS VpnPeers, FiniteSetTheorems, TLAPS

-----------------------------------------------------------------------------
\* Numbers.

\* A set of naturals has a least member: there is a first free address.
LEMMA Least ==
  ASSUME NEW S \in SUBSET Nat, S # {}
  PROVE  Min(S) \in S
<1>1. IsWellFoundedOn({r \in Nat \X Nat : r[1] < r[2]}, Nat)
  BY NatLessThanWellFounded DEF OpToRel
<1>2. PICK x \in S : \A y \in S : ~ (<<y, x>> \in {r \in Nat \X Nat : r[1] < r[2]})
  BY <1>1, WFMin
<1>3. ASSUME NEW y \in S PROVE x =< y
  <2>1. <<y, x>> \in Nat \X Nat /\ <<y, x>>[1] = y /\ <<y, x>>[2] = x
    OBVIOUS
  <2>2. ~ (<<y, x>>[1] < <<y, x>>[2])
    BY <1>2, <2>1
  <2> QED BY <2>1, <2>2
<1> QED BY <1>3 DEF Min

-----------------------------------------------------------------------------
\* Shapes.

RowType == [key : Nat, ip : Nat, st : {"none", "ok", "revoked"}]
Steps   == Provision \cup Removal \cup {"idle", "bulk", "fw", "answer"}

\* What ShapeInv says of one process, at step l with local variables m.
Shape(l, m) ==
    /\ DOMAIN m = Fields
    /\ m.peer \in Peers /\ m.todo \subseteq Users /\ m.added \subseteq Blocks
    /\ l \in Steps
    /\ l \notin {"idle", "bulk"} => m.user \in Users
    /\ l \in Provision => m.route \in {"download", "bulk"}
    /\ l \in Removal => m.route = "revoke"
    /\ l = "bulk" => m.route = "bulk"
    /\ m.route # "bulk" => m.added = {}
    /\ l = "idle" => m = NoMe

LEMMA ShapeParts ==
  ShapeInv <=> /\ peers \in [Users -> Peers] /\ keys \in Nat /\ rows \in [Users -> RowType]
               /\ DOMAIN pc = Procs /\ DOMAIN me = Procs
               /\ \A p \in Procs : Shape(pc[p], me[p])
  BY DEF ShapeInv, Shape, RowType, Steps

LEMMA NoMeShape == Shape("idle", NoMe) /\ ~ NoMe.gone /\ NoMe.route = "none" /\ NoMe.added = {}
  BY DEF NoMe, NoPeer, Peers, Shape, Fields, Steps, Provision, Removal

LEMMA GotoOne ==
  ASSUME ShapeInv, NEW p \in Procs, NEW l, NEW m, Goto(p, l, m)
  PROVE  /\ pc'[p] = l /\ me'[p] = m
         /\ \A q \in Procs \ {p} : pc'[q] = pc[q] /\ me'[q] = me[q]
         /\ DOMAIN pc' = Procs /\ DOMAIN me' = Procs
  BY DEF ShapeInv, Goto

LEMMA ShapeGoto ==
  ASSUME ShapeInv, NEW p \in Procs, NEW l, NEW m, Goto(p, l, m), Shape(l, m),
         peers' \in [Users -> Peers], keys' \in Nat, rows' \in [Users -> RowType]
  PROVE  ShapeInv'
<1>1. \A q \in Procs : Shape(pc'[q], me'[q])
  BY GotoOne, ShapeParts
<1> QED
  BY <1>1, GotoOne DEF ShapeInv, Shape, RowType, Steps

LEMMA AnswerShape ==
  ASSUME ShapeInv, NEW p \in Procs, NEW ok, pc[p] \notin {"idle", "bulk"}
  PROVE  Shape("answer", [me[p] EXCEPT !.ok = ok])
<1>1. Shape(pc[p], me[p])
  BY ShapeParts
<1> DEFINE m == [me[p] EXCEPT !.ok = ok]
<1>2. /\ DOMAIN m = Fields /\ m.route = me[p].route /\ m.user = me[p].user /\ m.todo = me[p].todo
      /\ m.peer = me[p].peer /\ m.added = me[p].added
  BY <1>1 DEF Shape, Fields
<1> HIDE DEF m
<1>3. Shape("answer", m)
  BY <1>1, <1>2 DEF Shape, Steps, Provision, Removal
<1> QED BY <1>3 DEF m

LEMMA StepShape ==
  ASSUME ShapeInv, Next
  PROVE  ShapeInv'
<1> USE PeersAssumption
<1>1. /\ peers \in [Users -> Peers] /\ keys \in Nat /\ rows \in [Users -> RowType]
      /\ DOMAIN pc = Procs /\ DOMAIN me = Procs
      /\ \A p \in Procs : Shape(pc[p], me[p])
  BY ShapeParts
<1>2. NoPeer \in Peers
  BY DEF NoPeer, Peers
<1>3. ASSUME NEW p \in Procs, NEW ok, Answer(p, ok), pc[p] \notin {"idle", "bulk"},
             peers' \in [Users -> Peers], keys' \in Nat, rows' \in [Users -> RowType]
      PROVE  ShapeInv'
  BY <1>3, AnswerShape, NoMeShape, ShapeGoto DEF Answer, Return
<1>4. ASSUME NEW p \in Procs, NEW l, NEW m, Goto(p, l, m), Shape(l, m),
             UNCHANGED <<peers, keys, rows>>
      PROVE  ShapeInv'
  BY <1>1, <1>4, ShapeGoto
<1>5. ASSUME NEW p \in Procs, NEW l, Goto(p, l, me[p]), UNCHANGED keys,
             peers' \in [Users -> Peers], rows' \in [Users -> RowType],
             \/ pc[p] \in Provision /\ l \in Provision \cup {"fw"}
             \/ pc[p] \in Removal /\ l \in Removal \cup {"fw"}
      PROVE  ShapeInv'
  <2>1. Shape(l, me[p])
    BY <1>1, <1>5 DEF Shape, Steps, Provision, Removal
  <2> QED BY <1>1, <1>5, <2>1, ShapeGoto
<1>6. ASSUME NEW bs \in SUBSET Blocks, Insert(bs) PROVE rows' \in [Users -> RowType]
  <2>1. ASSUME NEW u \in Users
        PROVE  (IF \E b \in bs : b.user = u
                THEN LET b == CHOOSE b \in bs : b.user = u IN [key |-> b.key, ip |-> b.ip, st |-> "ok"]
                ELSE rows[u]) \in RowType
    <3>1. CASE \E b \in bs : b.user = u
      <4>1. (CHOOSE b \in bs : b.user = u) \in Blocks
        BY <3>1
      <4> QED BY <3>1, <4>1 DEF Blocks, RowType
    <3>2. CASE ~ \E b \in bs : b.user = u
      BY <1>1, <3>2
    <3> QED BY <3>1, <3>2
  <2> QED BY <1>6, <2>1 DEF Insert
<1>7. ASSUME NEW p \in Procs, NEW u \in Users, NEW r \in AllRoutes, NEW l \in Steps,
             l \in Provision => r = "download", l \in Removal => r = "revoke", l \notin {"idle", "bulk"},
             Goto(p, l, [NoMe EXCEPT !.route = r, !.user = u]), UNCHANGED <<peers, keys, rows>>
      PROVE  ShapeInv'
  <2> DEFINE m == [NoMe EXCEPT !.route = r, !.user = u]
  <2>1. /\ DOMAIN m = Fields /\ m.route = r /\ m.user = u
        /\ m.peer = NoPeer /\ m.todo = {} /\ m.added = {}
    BY DEF NoMe, Fields
  <2> HIDE DEF m
  <2>2. Shape(l, m)
    BY <1>2, <1>7, <2>1 DEF Shape
  <2> QED BY <1>4, <1>7, <2>2 DEF m
<1>8. ASSUME NEW p \in Procs, Download(p) \/ Revoke(p) PROVE ShapeInv'
  <2>1. UNCHANGED <<peers, keys, rows>>
    BY <1>8 DEF Download, Revoke, Enter, Daemon
  <2>2. CASE Download(p)
    <3>1. PICK u \in Users : Goto(p, "get", [NoMe EXCEPT !.route = "download", !.user = u])
      BY <2>2 DEF Download
    <3>2. "get" \in Steps /\ "get" \notin Removal /\ "download" \in AllRoutes
      BY DEF Steps, Provision, Removal, AllRoutes
    <3> QED BY <1>7, <2>1, <3>1, <3>2
  <2>3. CASE Revoke(p)
    <3>1. PICK u \in Users : Goto(p, "find", [NoMe EXCEPT !.route = "revoke", !.user = u])
      BY <2>3 DEF Revoke
    <3>2. "find" \in Steps /\ "find" \notin Provision /\ "revoke" \in AllRoutes
      BY DEF Steps, Provision, Removal, AllRoutes
    <3> QED BY <1>7, <2>1, <3>1, <3>2
  <2> QED BY <1>8, <2>2, <2>3
<1>9. ASSUME NEW p \in Procs, EndDownload(p) PROVE ShapeInv'
  <2>1. Mine(p) \in Blocks
    BY <1>1, <1>9 DEF EndDownload, Mine, Blocks, Shape, Peers
  <2>2. rows' \in [Users -> RowType] /\ UNCHANGED <<peers, keys>>
    BY <1>1, <1>6, <1>9, <2>1 DEF EndDownload, Daemon
  <2> QED BY <1>1, <1>9, <2>2, NoMeShape, ShapeGoto DEF EndDownload, Return
<1>10. ASSUME NEW p \in Procs, Bulk(p) PROVE ShapeInv'
  <2> DEFINE todo == {u \in Users : rows[u].st # "ok"}
             m == [NoMe EXCEPT !.route = "bulk", !.todo = todo]
  <2>1. /\ DOMAIN m = Fields /\ m.route = "bulk" /\ m.todo = todo
        /\ m.peer = NoPeer /\ m.added = {}
    BY DEF NoMe, Fields
  <2>2. Goto(p, "bulk", m) /\ UNCHANGED <<peers, keys, rows>>
    BY <1>10 DEF Bulk, Enter, Daemon
  <2> HIDE DEF m
  <2>3. Shape("bulk", m)
    BY <1>2, <2>1 DEF Shape, Steps, Provision, Removal
  <2> QED BY <1>4, <2>2, <2>3
<1>11. ASSUME NEW p \in Procs, BulkNext(p) PROVE ShapeInv'
  <2> DEFINE u == Min(me[p].todo)
             m == [me[p] EXCEPT !.user = u, !.todo = @ \ {Min(@)}]
  <2>1. Shape("bulk", me[p])
    BY <1>1, <1>11 DEF BulkNext
  <2>2. u \in Users
    BY <1>11, <2>1, Least DEF BulkNext, Shape
  <2>3. /\ DOMAIN m = Fields /\ m.route = "bulk" /\ m.user = u /\ m.todo \subseteq me[p].todo
        /\ m.peer = me[p].peer /\ m.added = me[p].added
    BY <2>1 DEF Shape, Fields
  <2>4. Goto(p, "get", m) /\ UNCHANGED <<peers, keys, rows>>
    BY <1>11 DEF BulkNext, Daemon
  <2> HIDE DEF m, u
  <2>5. Shape("get", m)
    BY <2>1, <2>2, <2>3 DEF Shape, Steps, Provision, Removal
  <2> QED BY <1>4, <2>4, <2>5
<1>12. ASSUME NEW p \in Procs, BulkFlush(p) PROVE ShapeInv'
  <2>1. Shape("answer", me[p]) /\ me[p].route = "bulk" /\ UNCHANGED <<peers, keys, rows>>
    BY <1>1, <1>12 DEF BulkFlush, Daemon
  <2>2. CASE Goto(p, "bulk", me[p])
    <3>1. Shape("bulk", me[p])
      BY <2>1 DEF Shape, Steps, Provision, Removal
    <3> QED BY <1>4, <2>1, <2>2, <3>1
  <2>3. CASE Return(p)
    BY <1>4, <2>1, <2>3, NoMeShape DEF Return
  <2>4. CASE Goto(p, "bulk", [me[p] EXCEPT !.added = @ \cup {Mine(p)}])
    <3> DEFINE m == [me[p] EXCEPT !.added = @ \cup {Mine(p)}]
    <3>1. Mine(p) \in Blocks
      BY <2>1 DEF Mine, Blocks, Shape, Peers
    <3>2. /\ DOMAIN m = Fields /\ m.route = "bulk" /\ m.user = me[p].user /\ m.todo = me[p].todo
          /\ m.peer = me[p].peer /\ m.added = me[p].added \cup {Mine(p)}
      BY <2>1 DEF Shape, Fields
    <3> HIDE DEF m
    <3>3. Shape("bulk", m)
      BY <2>1, <3>1, <3>2 DEF Shape, Steps, Provision, Removal
    <3> QED BY <1>4, <2>1, <2>4, <3>3 DEF m
  <2> QED BY <1>12, <2>2, <2>3, <2>4 DEF BulkFlush
<1>13. ASSUME NEW p \in Procs, BulkCommit(p) PROVE ShapeInv'
  <2>1. rows' \in [Users -> RowType] /\ UNCHANGED <<peers, keys>>
    BY <1>1, <1>6, <1>13 DEF BulkCommit, Shape, Daemon
  <2> QED BY <1>1, <1>13, <2>1, NoMeShape, ShapeGoto DEF BulkCommit, Return
<1>14. ASSUME NEW p \in Procs, EndRevoke(p) PROVE ShapeInv'
  <2>1. rows' \in [Users -> RowType] /\ UNCHANGED <<peers, keys>>
    BY <1>1, <1>14 DEF EndRevoke, RowType, Daemon
  <2> QED BY <1>1, <1>14, <2>1, NoMeShape, ShapeGoto DEF EndRevoke, Return
<1>15. ASSUME NEW p \in Procs, NEW x \in Peers, NEW l,
              Goto(p, l, [me[p] EXCEPT !.peer = x]), keys' \in Nat, UNCHANGED rows,
              peers' \in [Users -> Peers],
              \/ pc[p] \in Provision /\ l \in Provision
              \/ pc[p] \in Removal /\ l \in Removal
       PROVE  ShapeInv'
  <2> DEFINE m == [me[p] EXCEPT !.peer = x]
  <2>1. Shape(pc[p], me[p])
    BY <1>1
  <2>2. /\ DOMAIN m = Fields /\ m.route = me[p].route /\ m.user = me[p].user /\ m.todo = me[p].todo
        /\ m.peer = x /\ m.added = me[p].added
    BY <2>1 DEF Shape, Fields
  <2> HIDE DEF m
  <2>3. Shape(l, m)
    BY <1>15, <2>1, <2>2 DEF Shape, Steps, Provision, Removal
  <2> QED BY <1>1, <1>15, <2>3, ShapeGoto DEF m
<1>16. ASSUME NEW p \in Procs, Get(p) PROVE ShapeInv'
  <2>1. pc[p] = "get" /\ me[p].user \in Users /\ peers[me[p].user] \in Peers /\ UNCHANGED <<peers, keys, rows>>
    BY <1>1, <1>16 DEF Get, Daemon, Shape
  <2> QED BY <1>1, <1>15, <1>16, <2>1 DEF Get, Provision
<1>17. ASSUME NEW p \in Procs, LoadExisting(p) \/ Load(p) PROVE ShapeInv'
  <2>1. pc[p] \in {"reload", "load"} /\ UNCHANGED <<peers, keys, rows>>
    BY <1>17 DEF LoadExisting, Load, Daemon
  <2>2. (\E ok : Answer(p, ok)) \/ Goto(p, "alloc", me[p])
    BY <1>17 DEF LoadExisting, Load
  <2> QED BY <1>1, <1>3, <1>5, <2>1, <2>2 DEF Provision
<1>18. ASSUME NEW p \in Procs, Alloc(p) PROVE ShapeInv'
  <2>1. pc[p] = "alloc" /\ me[p].user \in Users /\ UNCHANGED rows
    BY <1>1, <1>18 DEF Alloc, Shape
  <2>2. CASE Answer(p, FALSE) /\ UNCHANGED <<peers, keys>>
    BY <1>1, <1>3, <2>1, <2>2
  <2>3. CASE FreeIps # {} /\ keys' = keys + 1
    <3> DEFINE new == [key |-> keys', ip |-> Min(FreeIps)]
    <3>1. Min(FreeIps) \in Nat
      <4>1. FreeIps \in SUBSET Nat
        BY FS_CardinalityType DEF FreeIps
      <4> QED BY <2>3, <4>1, Least
    <3>2. new \in Peers /\ keys' \in Nat
      BY <1>1, <2>3, <3>1 DEF Peers
    <3>3. CASE peers' = [peers EXCEPT ![me[p].user] = new] /\ Goto(p, "append", [me[p] EXCEPT !.peer = new])
      <4>1. peers' \in [Users -> Peers]
        BY <1>1, <3>2, <3>3
      <4> HIDE DEF new
      <4> QED BY <1>15, <2>1, <3>2, <3>3, <4>1 DEF Provision
    <3>4. CASE Answer(p, FALSE) /\ UNCHANGED <<peers, keys>>
      BY <2>2, <3>4
    <3> QED BY <1>18, <3>3, <3>4 DEF Alloc
  <2> QED BY <1>18, <2>2, <2>3 DEF Alloc
<1>19. ASSUME NEW p \in Procs, AppendPeer(p) \/ LiveAdd(p) \/ WriteConf(p) PROVE ShapeInv'
  <2>1. /\ UNCHANGED <<peers, keys, rows>> /\ pc[p] \in {"append", "live", "conf"}
        /\ \E l \in {"live", "undo", "conf", "fw"} : Goto(p, l, me[p])
    BY <1>19 DEF AppendPeer, LiveAdd, WriteConf, Step, Daemon
  <2> QED BY <1>1, <1>5, <2>1 DEF Provision
<1>20. ASSUME NEW p \in Procs, Undo(p) PROVE ShapeInv'
  <2>1. peers' \in [Users -> Peers] /\ UNCHANGED <<keys, rows>> /\ pc[p] = "undo"
    BY <1>1, <1>2, <1>20 DEF Undo
  <2> QED BY <1>1, <1>3, <1>20, <2>1 DEF Undo
<1>21. ASSUME NEW p \in Procs, Rebuild(p) \/ Down(p) PROVE ShapeInv'
  <2>1. UNCHANGED <<peers, keys, rows>> /\ pc[p] \in {"fw", "get", "find"} /\ \E ok : Answer(p, ok)
    BY <1>21 DEF Rebuild, Down, Daemon
  <2> QED BY <1>1, <1>3, <2>1
<1>22. ASSUME NEW p \in Procs, FindPeer(p) PROVE ShapeInv'
  <2>1. pc[p] = "find" /\ me[p].user \in Users /\ peers[me[p].user] \in Peers /\ UNCHANGED <<peers, keys, rows>>
    BY <1>1, <1>22 DEF FindPeer, Daemon, Shape
  <2>2. Answer(p, TRUE) \/ Goto(p, "wgdel", [me[p] EXCEPT !.peer = peers[me[p].user]])
    BY <1>22 DEF FindPeer
  <2> QED BY <1>1, <1>3, <1>15, <2>1, <2>2 DEF Removal
<1>23. ASSUME NEW p \in Procs, LiveRemove(p) \/ Write(p) PROVE ShapeInv'
  <2>1. /\ UNCHANGED <<peers, keys, rows>> /\ pc[p] \in {"wgdel", "write"}
        /\ Answer(p, FALSE) \/ \E l \in {"read", "drop"} : Goto(p, l, me[p])
    BY <1>23 DEF LiveRemove, Write, Step
  <2> QED BY <1>1, <1>3, <1>5, <2>1 DEF Removal
<1>24. ASSUME NEW p \in Procs, ReadHeader(p) \/ ListPeers(p) PROVE ShapeInv'
  <2>1. /\ UNCHANGED <<peers, keys, rows>> /\ pc[p] \in {"read", "list"}
        /\ \/ Goto(p, "list", [me[p] EXCEPT !.hdr = file.hdr])
           \/ Goto(p, "open", [me[p] EXCEPT !.list = BlocksOf(Users \ {me[p].user})])
    BY <1>24 DEF ReadHeader, ListPeers, Daemon
  <2>2. \A x, l : /\ l \in Removal => Shape(l, [me[p] EXCEPT !.hdr = x])
                  /\ l \in Removal => Shape(l, [me[p] EXCEPT !.list = x])
    <3>1. Shape(pc[p], me[p])
      BY <1>1
    <3> TAKE x, l
    <3> DEFINE m == [me[p] EXCEPT !.hdr = x]
               n == [me[p] EXCEPT !.list = x]
    <3>2. /\ DOMAIN m = Fields /\ m.route = me[p].route /\ m.user = me[p].user /\ m.todo = me[p].todo
          /\ m.peer = me[p].peer /\ m.added = me[p].added
          /\ DOMAIN n = Fields /\ n.route = me[p].route /\ n.user = me[p].user /\ n.todo = me[p].todo
          /\ n.peer = me[p].peer /\ n.added = me[p].added
      BY <3>1 DEF Shape, Fields
    <3> HIDE DEF m, n
    <3>3. l \in Removal => Shape(l, m) /\ Shape(l, n)
      BY <2>1, <3>1, <3>2 DEF Shape, Steps, Provision, Removal
    <3> QED BY <3>3 DEF m, n
  <2> QED BY <1>4, <2>1, <2>2 DEF Removal
<1>25. ASSUME NEW p \in Procs, Truncate(p) PROVE ShapeInv'
  <2>1. UNCHANGED <<peers, keys, rows>> /\ pc[p] = "open"
    BY <1>25 DEF Truncate
  <2>2. Answer(p, FALSE) \/ Goto(p, "write", me[p])
    BY <1>25 DEF Truncate
  <2> QED BY <1>1, <1>3, <1>5, <2>1, <2>2 DEF Removal
<1>26. ASSUME NEW p \in Procs, Drop(p) PROVE ShapeInv'
  <2>1. peers' \in [Users -> Peers] /\ UNCHANGED <<keys, rows>> /\ pc[p] = "drop" /\ Goto(p, "fw", me[p])
    BY <1>1, <1>2, <1>26 DEF Drop, Step
  <2> QED BY <1>1, <1>5, <2>1 DEF Removal
<1>27. ASSUME NEW p \in Procs, Timeout(p) PROVE ShapeInv'
  <2> DEFINE m == [me[p] EXCEPT !.gone = TRUE]
  <2>1. UNCHANGED <<peers, keys, rows>> /\ pc[p] \notin {"idle", "bulk", "answer"} /\ Goto(p, pc[p], m)
    BY <1>27 DEF Timeout, InDaemon, Daemon
  <2>2. Shape(pc[p], me[p])
    BY <1>1
  <2>3. /\ DOMAIN m = Fields /\ m.route = me[p].route /\ m.user = me[p].user /\ m.todo = me[p].todo
        /\ m.peer = me[p].peer /\ m.added = me[p].added
    BY <2>2 DEF Shape, Fields
  <2> HIDE DEF m
  <2>4. Shape(pc[p], m)
    BY <2>1, <2>2, <2>3 DEF Shape
  <2> QED BY <1>4, <2>1, <2>4
<1>28. CASE Crash
  <2>1. UNCHANGED <<peers, keys, rows>> /\ DOMAIN pc' = Procs /\ DOMAIN me' = Procs
    BY <1>28 DEF Crash, Daemon
  <2>2. ASSUME NEW p \in Procs PROVE Shape(pc'[p], me'[p])
    <3>1. CASE ~ InDaemon(p)
      BY <1>1, <1>28, <3>1 DEF Crash
    <3>2. CASE InDaemon(p) /\ me[p].gone
      BY <1>28, <3>2, NoMeShape DEF Crash
    <3>3. CASE InDaemon(p) /\ ~ me[p].gone
      <4>1. pc'[p] = "answer" /\ me'[p] = [me[p] EXCEPT !.ok = FALSE]
        BY <1>28, <3>3 DEF Crash
      <4> QED BY <3>3, <4>1, AnswerShape DEF InDaemon
    <3> QED BY <3>1, <3>2, <3>3
  <2> QED BY <1>1, <2>1, <2>2 DEF ShapeInv, Shape, RowType, Steps
<1>29. CASE Reboot
  <2>1. /\ UNCHANGED <<peers, keys, rows>> /\ DOMAIN pc' = Procs /\ DOMAIN me' = Procs
        /\ \A p \in Procs : Shape(pc'[p], me'[p])
    BY <1>29, NoMeShape DEF Reboot
  <2> QED BY <1>1, <2>1 DEF ShapeInv, Shape, RowType, Steps
<1> QED
  BY <1>8, <1>9, <1>10, <1>11, <1>12, <1>13, <1>14, <1>16, <1>17, <1>18, <1>19, <1>20, <1>21,
     <1>22, <1>23, <1>24, <1>25, <1>26, <1>27, <1>28, <1>29
     DEF Next, Handle, Route

-----------------------------------------------------------------------------
\* Rows.

\* Provided and Dropped, at step l with local variables m.
Provides(l, m) ==
    /\ m.route # "revoke"
    /\ l \in {"reload", "append", "live", "conf", "fw"} \/ (l = "answer" /\ m.ok)
Drops(l, m, u) ==
    /\ m.route = "revoke" /\ m.user = u
    /\ l = "fw" \/ (l = "answer" /\ m.ok)

\* What a bulk has flushed are peers of the table.
LEMMA AddedStand ==
  ASSUME RowsInv, NEW p \in Procs, NEW b \in me[p].added
  PROVE  peers[b.user] = [key |-> b.key, ip |-> b.ip] /\ peers[b.user] # NoPeer
BY DEF RowsInv

\* p goes to step l with local variables m, and each part of RowsInv holds of it
\* and, for what the others have, of the new rows and peers.
LEMMA RowsStep ==
  ASSUME ShapeInv, RowsInv, NEW p \in Procs, NEW l, NEW m, Goto(p, l, m),
         ~ m.gone, l # "undo",
         m.route = "revoke" => rows'[m.user].st # "none",
         Provides(l, m) => /\ m.peer # NoPeer
                           /\ rows'[m.user].st = "none" => peers'[m.user] = m.peer,
         \A b \in m.added : /\ rows'[b.user].st = "none"
                            /\ peers'[b.user] = [key |-> b.key, ip |-> b.ip]
                            /\ peers'[b.user] # NoPeer,
         \A b \in m.added : \A q \in Procs \ {p} : \A c \in me[q].added : b.user # c.user,
         \A u \in Users : rows[u].st # "none" => rows'[u].st # "none",
         \A q \in Procs \ {p} : Provided(q) =>
             (rows'[me[q].user].st = "none" => peers'[me[q].user] = me[q].peer),
         \A q \in Procs \ {p} : \A b \in me[q].added :
             rows'[b.user].st = "none" /\ peers'[b.user] = peers[b.user],
         \A u \in Users : rows'[u].st = "ok" =>
             /\ [key |-> rows'[u].key, ip |-> rows'[u].ip] # NoPeer
             /\ \/ peers'[u] = [key |-> rows'[u].key, ip |-> rows'[u].ip]
                \/ Drops(l, m, u)
                \/ \E q \in Procs \ {p} : Dropped(q, u)
  PROVE  RowsInv'
<1>1. /\ pc'[p] = l /\ me'[p] = m
      /\ \A q \in Procs \ {p} : pc'[q] = pc[q] /\ me'[q] = me[q]
  BY GotoOne
<1>2. \A q \in Procs : me[q].route = "revoke" => me[q].user \in Users
  BY NoMeShape DEF ShapeInv
<1>3. \A q \in Procs : ~ me'[q].gone /\ pc'[q] # "undo"
  BY <1>1 DEF RowsInv
<1>4. \A q \in Procs : me'[q].route = "revoke" => rows'[me'[q].user].st # "none"
  BY <1>1, <1>2 DEF RowsInv
<1>5. \A q \in Procs : Provided(q)' =>
         /\ me'[q].peer # NoPeer
         /\ rows'[me'[q].user].st = "none" => peers'[me'[q].user] = me'[q].peer
  <2>1. CASE Provided(p)' => Provides(l, m)
    <3>1. \A q \in Procs \ {p} : Provided(q)' <=> Provided(q)
      BY <1>1 DEF Provided
    <3> QED BY <1>1, <2>1, <3>1 DEF RowsInv
  <2> QED BY <1>1, <2>1 DEF Provided, Provides
<1>6. \A q \in Procs : \A b \in me'[q].added :
         /\ rows'[b.user].st = "none"
         /\ peers'[b.user] = [key |-> b.key, ip |-> b.ip] /\ peers'[b.user] # NoPeer
  <2> SUFFICES ASSUME NEW q \in Procs, NEW b \in me'[q].added
               PROVE  /\ rows'[b.user].st = "none"
                      /\ peers'[b.user] = [key |-> b.key, ip |-> b.ip] /\ peers'[b.user] # NoPeer
    OBVIOUS
  <2>1. CASE q = p
    BY <1>1, <2>1
  <2>2. CASE q # p
    <3>1. b \in me[q].added /\ rows'[b.user].st = "none" /\ peers'[b.user] = peers[b.user]
      BY <1>1, <2>2
    <3>2. peers[b.user] = [key |-> b.key, ip |-> b.ip] /\ peers[b.user] # NoPeer
      BY <3>1, AddedStand
    <3> QED BY <3>1, <3>2
  <2> QED BY <2>1, <2>2
<1>7. \A q, r \in Procs : q # r => \A b \in me'[q].added, c \in me'[r].added : b.user # c.user
  <2> SUFFICES ASSUME NEW q \in Procs, NEW r \in Procs, q # r,
                      NEW b \in me'[q].added, NEW c \in me'[r].added
               PROVE  b.user # c.user
    OBVIOUS
  <2>1. CASE q = p
    BY <1>1, <2>1
  <2>2. CASE r = p
    BY <1>1, <2>2
  <2>3. CASE q # p /\ r # p
    BY <1>1, <2>3 DEF RowsInv
  <2> QED BY <2>1, <2>2, <2>3
<1>8. \A u \in Users : rows'[u].st = "ok" =>
         /\ [key |-> rows'[u].key, ip |-> rows'[u].ip] # NoPeer
         /\ PeerOf(u)' \/ \E q \in Procs : Dropped(q, u)'
  <2> SUFFICES ASSUME NEW u \in Users, rows'[u].st = "ok",
                      peers'[u] # [key |-> rows'[u].key, ip |-> rows'[u].ip]
               PROVE  \E q \in Procs : Dropped(q, u)'
    BY DEF PeerOf
  <2>1. CASE Drops(l, m, u)
    BY <1>1, <2>1 DEF Drops, Dropped
  <2>2. CASE \E q \in Procs \ {p} : Dropped(q, u)
    BY <1>1, <2>2 DEF Dropped
  <2> QED BY <2>1, <2>2
<1> QED
  BY <1>3, <1>4, <1>5, <1>6, <1>7, <1>8 DEF RowsInv

\* The same, when neither rows nor peers change.
LEMMA RowsStay ==
  ASSUME ShapeInv, RowsInv, NEW p \in Procs, NEW l, NEW m, Goto(p, l, m),
         UNCHANGED <<peers, rows>>,
         ~ m.gone, l # "undo",
         m.route = "revoke" => rows[m.user].st # "none",
         Provides(l, m) => /\ m.peer # NoPeer
                           /\ rows[m.user].st = "none" => peers[m.user] = m.peer,
         m.added \subseteq me[p].added,
         \A u \in Users : Dropped(p, u) => Drops(l, m, u)
  PROVE  RowsInv'
<1>1. \A b \in m.added : \A q \in Procs \ {p} : \A c \in me[q].added : b.user # c.user
  BY DEF RowsInv
<1>2. \A q \in Procs : \A b \in me[q].added :
         /\ rows'[b.user].st = "none"
         /\ peers'[b.user] = [key |-> b.key, ip |-> b.ip] /\ peers'[b.user] # NoPeer
  BY DEF RowsInv
<1>3. \A u \in Users : rows'[u].st = "ok" =>
         /\ [key |-> rows'[u].key, ip |-> rows'[u].ip] # NoPeer
         /\ \/ peers'[u] = [key |-> rows'[u].key, ip |-> rows'[u].ip]
            \/ Drops(l, m, u)
            \/ \E q \in Procs \ {p} : Dropped(q, u)
  BY DEF RowsInv, PeerOf
<1>4. \A q \in Procs \ {p} : Provided(q) =>
         (rows'[me[q].user].st = "none" => peers'[me[q].user] = me[q].peer)
  BY DEF RowsInv
<1>5. /\ m.route = "revoke" => rows'[m.user].st # "none"
      /\ Provides(l, m) => /\ m.peer # NoPeer
                           /\ rows'[m.user].st = "none" => peers'[m.user] = m.peer
  OBVIOUS
<1>6. \A b \in m.added : /\ rows'[b.user].st = "none"
                         /\ peers'[b.user] = [key |-> b.key, ip |-> b.ip]
                         /\ peers'[b.user] # NoPeer
  BY <1>2
<1>7. \A q \in Procs \ {p} : \A b \in me[q].added :
         rows'[b.user].st = "none" /\ peers'[b.user] = peers[b.user]
  BY <1>2
<1>8. \A u \in Users : rows[u].st # "none" => rows'[u].st # "none"
  OBVIOUS
<1> QED BY <1>1, <1>3, <1>4, <1>5, <1>6, <1>7, <1>8, RowsStep

\* Fields of a process that goes on as it is.
LEMMA StayRows ==
  ASSUME ShapeInv, RowsInv, NEW p \in Procs, NEW l, Goto(p, l, me[p]), UNCHANGED <<peers, rows>>,
         l # "undo", Provides(l, me[p]) => Provided(p),
         \A u \in Users : Dropped(p, u) => Drops(l, me[p], u)
  PROVE  RowsInv'
<1>1. /\ ~ me[p].gone
      /\ me[p].route = "revoke" => rows[me[p].user].st # "none"
      /\ Provides(l, me[p]) => /\ me[p].peer # NoPeer
                               /\ rows[me[p].user].st = "none" => peers[me[p].user] = me[p].peer
  BY DEF RowsInv
<1> QED BY <1>1, RowsStay

\* An RPC ends: with success if its user has been provided or dropped.
LEMMA AnswerRows ==
  ASSUME ShapeInv, RowsInv, NEW p \in Procs, NEW ok, Answer(p, ok), UNCHANGED <<peers, rows>>,
         pc[p] \notin {"idle", "bulk"},
         ok /\ me[p].route # "revoke" => Provided(p),
         \A u \in Users : Dropped(p, u) => ok
  PROVE  RowsInv'
<1> DEFINE m == [me[p] EXCEPT !.ok = ok]
<1>1. /\ ~ me[p].gone
      /\ me[p].route = "revoke" => rows[me[p].user].st # "none"
      /\ Provided(p) => /\ me[p].peer # NoPeer
                        /\ rows[me[p].user].st = "none" => peers[me[p].user] = me[p].peer
  BY DEF RowsInv
<1>2. Goto(p, "answer", m)
  BY <1>1 DEF Answer
<1>3. DOMAIN me[p] = Fields
  BY DEF ShapeInv
<1>4. /\ m.route = me[p].route /\ m.user = me[p].user /\ m.peer = me[p].peer
      /\ m.added = me[p].added /\ m.gone = me[p].gone
  BY <1>3 DEF Fields
<1>5. m.ok = ok
  BY <1>3 DEF Fields
<1> HIDE DEF m
<1>6. Provides("answer", m) => /\ m.peer # NoPeer
                               /\ rows[m.user].st = "none" => peers[m.user] = m.peer
  BY <1>1, <1>4, <1>5 DEF Provides
<1>7. \A u \in Users : Dropped(p, u) => Drops("answer", m, u)
  BY <1>4, <1>5 DEF Dropped, Drops
<1> QED BY <1>1, <1>2, <1>4, <1>6, <1>7, RowsStay

\* A request that starts, or ends with the rows as they are.
LEMMA FreshRows ==
  ASSUME ShapeInv, RowsInv, NEW p \in Procs, NEW l, NEW m, Goto(p, l, m), UNCHANGED <<peers, rows>>,
         ~ m.gone, m.added = {}, l \in {"idle", "bulk", "get", "find"},
         m.route = "revoke" => rows[m.user].st # "none",
         \A u \in Users : ~ Dropped(p, u)
  PROVE  RowsInv'
<1>1. ~ Provides(l, m) /\ l # "undo"
  BY DEF Provides
<1> QED BY <1>1, RowsStay


\* The steps that change neither the rows nor the daemon's table.
LEMMA QuietRows ==
  ASSUME ShapeInv, RowsInv, NEW p \in Procs,
         \/ Download(p) \/ Bulk(p) \/ BulkNext(p) \/ Revoke(p)
         \/ Get(p) \/ LoadExisting(p) \/ Load(p)
         \/ AppendPeer(p) /\ happened' \subseteq {"wg", "down"}
         \/ LiveAdd(p)
         \/ WriteConf(p) /\ happened' \subseteq {"wg", "down"}
         \/ Rebuild(p) /\ happened' \subseteq {"wg", "down"}
         \/ FindPeer(p) \/ LiveRemove(p) \/ ReadHeader(p) \/ ListPeers(p)
         \/ Truncate(p) /\ happened' \subseteq {"wg", "down"}
         \/ Write(p) /\ happened' \subseteq {"wg", "down"}
         \/ Down(p)
  PROVE  RowsInv'
<1>1. /\ DOMAIN me[p] = Fields /\ Shape(pc[p], me[p])
      /\ ~ me[p].gone
      /\ me[p].route = "revoke" => rows[me[p].user].st # "none"
      /\ Provided(p) => /\ me[p].peer # NoPeer
                        /\ rows[me[p].user].st = "none" => peers[me[p].user] = me[p].peer
  BY ShapeParts DEF RowsInv, Shape
<1>2. happened' \subseteq {"wg", "down"} => ~ Fault("disk") /\ ~ Fault("firewall")
  BY DEF Fault
<1>3. CASE Download(p)
  <2>1. PICK u \in Users : Goto(p, "get", [NoMe EXCEPT !.route = "download", !.user = u])
    BY <1>3 DEF Download
  <2> DEFINE m == [NoMe EXCEPT !.route = "download", !.user = u]
  <2>2. ~ m.gone /\ m.added = {} /\ m.route = "download"
    BY DEF NoMe
  <2>3. UNCHANGED <<peers, rows>> /\ pc[p] = "idle" /\ Goto(p, "get", m)
    BY <1>3, <2>1 DEF Download, Enter
  <2> HIDE DEF m
  <2>4. \A v \in Users : ~ Dropped(p, v)
    BY <2>3 DEF Dropped
  <2> QED BY <2>2, <2>3, <2>4, FreshRows
<1>4. CASE Bulk(p)
  <2> DEFINE m == [NoMe EXCEPT !.route = "bulk", !.todo = {u \in Users : rows[u].st # "ok"}]
  <2>1. ~ m.gone /\ m.added = {} /\ m.route = "bulk"
    BY DEF NoMe
  <2>2. UNCHANGED <<peers, rows>> /\ pc[p] = "idle" /\ Goto(p, "bulk", m)
    BY <1>4 DEF Bulk, Enter
  <2> HIDE DEF m
  <2>3. \A v \in Users : ~ Dropped(p, v)
    BY <2>2 DEF Dropped
  <2> QED BY <2>1, <2>2, <2>3, FreshRows
<1>5. CASE BulkNext(p)
  <2> DEFINE m == [me[p] EXCEPT !.user = Min(me[p].todo), !.todo = @ \ {Min(@)}]
  <2>1. m.gone = me[p].gone /\ m.added = me[p].added /\ m.route = me[p].route
    BY <1>1 DEF Fields
  <2>2. UNCHANGED <<peers, rows>> /\ pc[p] = "bulk" /\ Goto(p, "get", m)
    BY <1>5 DEF BulkNext, Daemon
  <2>3. me[p].route = "bulk"
    BY <1>1, <2>2 DEF Shape
  <2> HIDE DEF m
  <2>4. ~ Provides("get", m) /\ \A u \in Users : ~ Dropped(p, u)
    BY <2>2, <2>3 DEF Provides, Dropped
  <2> QED BY <1>1, <2>1, <2>2, <2>3, <2>4, RowsStay
<1>6. CASE Revoke(p)
  <2>1. PICK u \in Users : rows[u].st = "ok" /\ Goto(p, "find", [NoMe EXCEPT !.route = "revoke", !.user = u])
    BY <1>6 DEF Revoke
  <2> DEFINE m == [NoMe EXCEPT !.route = "revoke", !.user = u]
  <2>2. ~ m.gone /\ m.added = {} /\ m.route = "revoke" /\ m.user = u
    BY DEF NoMe
  <2>3. UNCHANGED <<peers, rows>> /\ pc[p] = "idle" /\ Goto(p, "find", m)
    BY <1>6, <2>1 DEF Revoke, Enter
  <2> HIDE DEF m
  <2>4. \A v \in Users : ~ Dropped(p, v)
    BY <2>3 DEF Dropped
  <2> QED BY <2>1, <2>2, <2>3, <2>4, FreshRows
<1>7. CASE Get(p)
  <2> DEFINE x == peers[me[p].user]
             m == [me[p] EXCEPT !.peer = x]
             l == IF x = NoPeer THEN "load" ELSE "reload"
  <2>1. /\ m.gone = me[p].gone /\ m.added = me[p].added /\ m.route = me[p].route
        /\ m.user = me[p].user /\ m.peer = x
    BY <1>1 DEF Fields
  <2>2. UNCHANGED <<peers, rows>> /\ pc[p] = "get" /\ Goto(p, l, m)
    BY <1>7 DEF Get, Daemon
  <2> HIDE DEF m
  <2>3. Provides(l, m) => m.peer # NoPeer /\ peers[m.user] = m.peer
    BY <2>1 DEF Provides
  <2>4. l # "undo" /\ \A u \in Users : ~ Dropped(p, u)
    BY <2>2 DEF Dropped
  <2> QED BY <1>1, <2>1, <2>2, <2>3, <2>4, RowsStay
<1>8. CASE LoadExisting(p) \/ Load(p)
  <2>1. UNCHANGED <<peers, rows>> /\ pc[p] \in {"reload", "load"}
    BY <1>8 DEF LoadExisting, Load, Daemon
  <2>2. \A u \in Users : ~ Dropped(p, u)
    BY <2>1 DEF Dropped
  <2>3. CASE Answer(p, FALSE)
    BY <2>1, <2>2, <2>3, AnswerRows
  <2>4. CASE Load(p) /\ Goto(p, "alloc", me[p])
    BY <2>1, <2>2, <2>4, StayRows DEF Provides
  <2>5. CASE LoadExisting(p) /\ Answer(p, file.hdr)
    <3>1. me[p].route # "revoke" => Provided(p)
      BY <2>5 DEF LoadExisting, Provided
    <3> QED BY <2>1, <2>2, <2>5, <3>1, AnswerRows
  <2> QED BY <1>8, <2>3, <2>4, <2>5 DEF Load, LoadExisting
<1>9. CASE \/ AppendPeer(p) /\ happened' \subseteq {"wg", "down"}
           \/ LiveAdd(p)
           \/ WriteConf(p) /\ happened' \subseteq {"wg", "down"}
  <2>1. UNCHANGED <<peers, rows>> /\ pc[p] \in {"append", "live", "conf"}
    BY <1>9 DEF AppendPeer, LiveAdd, WriteConf, Step, Daemon
  <2>2. PICK l \in {"live", "conf", "fw"} : Goto(p, l, me[p])
    BY <1>9, <1>2 DEF AppendPeer, LiveAdd, WriteConf, Step
  <2>3. me[p].route # "revoke"
    BY <1>1, <2>1 DEF Shape, Provision
  <2>4. Provided(p) /\ (\A u \in Users : ~ Dropped(p, u)) /\ l # "undo"
    BY <2>1, <2>3 DEF Provided, Dropped
  <2> QED BY <2>1, <2>2, <2>4, StayRows
<1>10. CASE Rebuild(p) /\ happened' \subseteq {"wg", "down"}
  <2>1. UNCHANGED <<peers, rows>> /\ pc[p] = "fw" /\ Answer(p, TRUE)
    BY <1>10, <1>2 DEF Rebuild, Daemon
  <2>2. me[p].route # "revoke" => Provided(p)
    BY <2>1 DEF Provided
  <2> QED BY <2>1, <2>2, AnswerRows
<1>11. CASE FindPeer(p)
  <2>1. UNCHANGED <<peers, rows>> /\ pc[p] = "find" /\ me[p].route = "revoke"
    BY <1>1, <1>11 DEF FindPeer, Daemon, Shape, Removal
  <2>2. \A u \in Users : ~ Dropped(p, u)
    BY <2>1 DEF Dropped
  <2>3. CASE Answer(p, TRUE)
    BY <2>1, <2>2, <2>3, AnswerRows
  <2>4. CASE Goto(p, "wgdel", [me[p] EXCEPT !.peer = peers[me[p].user]])
    <3> DEFINE m == [me[p] EXCEPT !.peer = peers[me[p].user]]
    <3>1. /\ m.gone = me[p].gone /\ m.added = me[p].added /\ m.route = me[p].route
          /\ m.user = me[p].user
      BY <1>1 DEF Fields
    <3>2. Goto(p, "wgdel", m)
      BY <2>4
    <3> HIDE DEF m
    <3>3. ~ Provides("wgdel", m)
      BY DEF Provides
    <3> QED BY <1>1, <2>1, <2>2, <3>1, <3>2, <3>3, RowsStay
  <2> QED BY <1>11, <2>3, <2>4 DEF FindPeer
<1>12. CASE \/ LiveRemove(p)
            \/ (Truncate(p) \/ Write(p)) /\ happened' \subseteq {"wg", "down"}
  <2>1. UNCHANGED <<peers, rows>> /\ pc[p] \in {"wgdel", "write", "open"}
    BY <1>12 DEF LiveRemove, Write, Truncate, Step
  <2>2. PICK l \in {"read", "drop", "write"} : Goto(p, l, me[p])
    BY <1>12, <1>2 DEF LiveRemove, Write, Truncate, Step
  <2>3. ~ Provides(l, me[p]) /\ (\A u \in Users : ~ Dropped(p, u)) /\ l # "undo"
    BY <2>1 DEF Provides, Dropped
  <2> QED BY <2>1, <2>2, <2>3, StayRows
<1>13. CASE ReadHeader(p) \/ ListPeers(p)
  <2>1. UNCHANGED <<peers, rows>> /\ pc[p] \in {"read", "list"}
    BY <1>13 DEF ReadHeader, ListPeers, Daemon
  <2>2. \A u \in Users : ~ Dropped(p, u)
    BY <2>1 DEF Dropped
  <2>3. PICK l \in {"list", "open"}, x \in {file.hdr, BlocksOf(Users \ {me[p].user})} :
           Goto(p, l, [me[p] EXCEPT !.hdr = x]) \/ Goto(p, l, [me[p] EXCEPT !.list = x])
    BY <1>13 DEF ReadHeader, ListPeers
  <2> DEFINE m == [me[p] EXCEPT !.hdr = x]
             n == [me[p] EXCEPT !.list = x]
  <2>4. /\ m.gone = me[p].gone /\ m.added = me[p].added /\ m.route = me[p].route
        /\ m.user = me[p].user
    BY <1>1 DEF Fields
  <2>5. /\ n.gone = me[p].gone /\ n.added = me[p].added /\ n.route = me[p].route
        /\ n.user = me[p].user
    BY <1>1 DEF Fields
  <2>6. Goto(p, l, m) \/ Goto(p, l, n)
    BY <2>3
  <2> HIDE DEF m, n
  <2>7. ~ Provides(l, m) /\ ~ Provides(l, n) /\ l # "undo"
    BY DEF Provides
  <2>8. CASE Goto(p, l, m)
    BY <1>1, <2>1, <2>2, <2>4, <2>7, <2>8, RowsStay
  <2>9. CASE Goto(p, l, n)
    BY <1>1, <2>1, <2>2, <2>5, <2>7, <2>9, RowsStay
  <2> QED BY <2>6, <2>8, <2>9
<1>14. CASE Down(p)
  <2>1. UNCHANGED <<peers, rows>> /\ pc[p] \in {"get", "find"} /\ Answer(p, FALSE)
    BY <1>14 DEF Down, Daemon
  <2>2. \A u \in Users : ~ Dropped(p, u)
    BY <2>1 DEF Dropped
  <2> QED BY <2>1, <2>2, AnswerRows
<1> QED
  BY <1>3, <1>4, <1>5, <1>6, <1>7, <1>8, <1>9, <1>10, <1>11, <1>12, <1>13, <1>14

\* An INSERT of rows that nobody else has flushed and that stand for peers.
LEMMA InsertRows ==
  ASSUME ShapeInv, RowsInv, NEW p \in Procs, NEW bs \in SUBSET Blocks, Insert(bs), Return(p),
         UNCHANGED peers,
         \A b \in bs : peers[b.user] = [key |-> b.key, ip |-> b.ip] /\ peers[b.user] # NoPeer,
         \A b \in bs : \A q \in Procs \ {p} : \A c \in me[q].added : b.user # c.user,
         \A u \in Users : ~ Dropped(p, u)
  PROVE  RowsInv'
<1>1. \A u \in Users : ~ (\E b \in bs : b.user = u) => rows'[u] = rows[u]
  BY DEF Insert
<1>2. ASSUME NEW u \in Users, \E b \in bs : b.user = u
      PROVE  /\ rows'[u].st = "ok" /\ peers[u] # NoPeer
             /\ peers[u] = [key |-> rows'[u].key, ip |-> rows'[u].ip]
  <2> DEFINE b == CHOOSE b \in bs : b.user = u
  <2>1. b \in bs /\ b.user = u
    BY <1>2
  <2>2. rows'[u] = [key |-> b.key, ip |-> b.ip, st |-> "ok"]
    BY <1>2 DEF Insert
  <2> HIDE DEF b
  <2> QED BY <2>1, <2>2
<1>3. \A u \in Users : rows[u].st # "none" => rows'[u].st # "none"
  BY <1>1, <1>2
<1>4. \A q \in Procs \ {p} : Provided(q) =>
         (rows'[me[q].user].st = "none" => peers'[me[q].user] = me[q].peer)
  <2>1. \A q \in Procs : Provided(q) => me[q].user \in Users
    BY DEF Provided, ShapeInv
  <2> QED BY <1>3, <2>1 DEF RowsInv
<1>5. \A q \in Procs \ {p} : \A b \in me[q].added :
         rows'[b.user].st = "none" /\ peers'[b.user] = peers[b.user]
  <2> SUFFICES ASSUME NEW q \in Procs \ {p}, NEW c \in me[q].added
               PROVE  rows'[c.user].st = "none"
    OBVIOUS
  <2>1. c.user \in Users
    BY DEF ShapeInv, Blocks
  <2>2. ~ \E b \in bs : b.user = c.user
    OBVIOUS
  <2>3. rows[c.user].st = "none"
    BY DEF RowsInv
  <2> QED BY <1>1, <2>1, <2>2, <2>3
<1>6. ASSUME NEW u \in Users, rows'[u].st = "ok"
      PROVE  /\ [key |-> rows'[u].key, ip |-> rows'[u].ip] # NoPeer
             /\ \/ peers'[u] = [key |-> rows'[u].key, ip |-> rows'[u].ip]
                \/ \E q \in Procs \ {p} : Dropped(q, u)
  <2>1. CASE \E b \in bs : b.user = u
    BY <1>2, <2>1
  <2>2. CASE ~ \E b \in bs : b.user = u
    BY <1>1, <1>6, <2>2 DEF RowsInv, PeerOf
  <2> QED BY <2>1, <2>2
<1>7. ~ Provides("idle", NoMe)
  BY DEF Provides
<1> QED
  BY <1>3, <1>4, <1>5, <1>6, <1>7, NoMeShape, RowsStep DEF Return

\* The peer at hand of a process whose RPC has succeeded becomes its user's row.
LEMMA MineStands ==
  ASSUME ShapeInv, RowsInv, NEW p \in Procs, pc[p] = "answer", me[p].ok, me[p].route # "revoke",
         ~ Taken(Mine(p)), ~ Locked(p, Mine(p))
  PROVE  /\ Mine(p) \in Blocks /\ rows[Mine(p).user].st = "none"
         /\ peers[Mine(p).user] = [key |-> Mine(p).key, ip |-> Mine(p).ip]
         /\ peers[Mine(p).user] # NoPeer
         /\ \A q \in Procs \ {p} : \A c \in me[q].added : Mine(p).user # c.user
<1>1. me[p].user \in Users /\ me[p].peer \in Peers
  BY DEF ShapeInv
<1>2. Mine(p).user = me[p].user /\ Mine(p).key = me[p].peer.key /\ Mine(p).ip = me[p].peer.ip
  BY DEF Mine
<1>3. Mine(p) \in Blocks
  BY <1>1 DEF Mine, Blocks, Peers
<1>4. rows[me[p].user].st = "none"
  BY <1>1, <1>2 DEF Taken
<1>5. peers[me[p].user] = me[p].peer /\ me[p].peer # NoPeer
  BY <1>4 DEF RowsInv, Provided
<1>6. me[p].peer = [key |-> me[p].peer.key, ip |-> me[p].peer.ip]
  BY <1>1 DEF Peers
<1>7. \A q \in Procs \ {p} : \A c \in me[q].added : Mine(p).user # c.user
  BY DEF Locked
<1> QED BY <1>2, <1>3, <1>4, <1>5, <1>6, <1>7

LEMMA EndRows ==
  ASSUME ShapeInv, RowsInv, NEW p \in Procs,
         EndDownload(p) \/ BulkFlush(p) \/ BulkCommit(p) \/ EndRevoke(p)
  PROVE  RowsInv'
<1>1. CASE EndDownload(p)
  <2>1. pc[p] = "answer" /\ me[p].route = "download" /\ Return(p) /\ UNCHANGED peers
    BY <1>1 DEF EndDownload, Daemon
  <2>2. \A u \in Users : ~ Dropped(p, u)
    BY <2>1 DEF Dropped
  <2>3. CASE UNCHANGED rows
    BY <2>1, <2>2, <2>3, NoMeShape, FreshRows DEF Return
  <2>4. CASE me[p].ok /\ ~ Taken(Mine(p)) /\ ~ Locked(p, Mine(p)) /\ Insert({Mine(p)})
    <3>1. /\ Mine(p) \in Blocks
          /\ peers[Mine(p).user] = [key |-> Mine(p).key, ip |-> Mine(p).ip]
          /\ peers[Mine(p).user] # NoPeer
          /\ \A q \in Procs \ {p} : \A c \in me[q].added : Mine(p).user # c.user
      BY <2>1, <2>4, MineStands
    <3> QED BY <2>1, <2>2, <2>4, <3>1, InsertRows
  <2> QED BY <1>1, <2>3, <2>4 DEF EndDownload
<1>2. CASE BulkFlush(p)
  <2>1. pc[p] = "answer" /\ me[p].route = "bulk" /\ UNCHANGED <<peers, rows>>
    BY <1>2 DEF BulkFlush, Daemon
  <2>2. \A u \in Users : ~ Dropped(p, u)
    BY <2>1 DEF Dropped
  <2>3. CASE Goto(p, "bulk", me[p])
    BY <2>1, <2>2, <2>3, StayRows DEF Provides
  <2>4. CASE Return(p)
    BY <2>1, <2>2, <2>4, NoMeShape, FreshRows DEF Return
  <2>5. CASE /\ me[p].ok /\ ~ Taken(Mine(p)) /\ ~ Locked(p, Mine(p))
             /\ Goto(p, "bulk", [me[p] EXCEPT !.added = @ \cup {Mine(p)}])
    <3> DEFINE m == [me[p] EXCEPT !.added = @ \cup {Mine(p)}]
    <3>1. m.gone = me[p].gone /\ m.route = "bulk" /\ m.added = me[p].added \cup {Mine(p)}
      BY <2>1 DEF Fields, ShapeInv
    <3>2. Goto(p, "bulk", m)
      BY <2>5
    <3> HIDE DEF m
    <3>3. /\ rows[Mine(p).user].st = "none"
          /\ peers[Mine(p).user] = [key |-> Mine(p).key, ip |-> Mine(p).ip]
          /\ peers[Mine(p).user] # NoPeer
          /\ \A q \in Procs \ {p} : \A c \in me[q].added : Mine(p).user # c.user
      BY <2>1, <2>5, MineStands
    <3>4. \A q \in Procs : \A b \in me[q].added :
             /\ rows'[b.user].st = "none" /\ peers'[b.user] = peers[b.user]
             /\ peers'[b.user] = [key |-> b.key, ip |-> b.ip] /\ peers'[b.user] # NoPeer
      <4>1. \A q \in Procs : \A b \in me[q].added :
               /\ rows[b.user].st = "none"
               /\ peers[b.user] = [key |-> b.key, ip |-> b.ip] /\ peers[b.user] # NoPeer
        BY DEF RowsInv
      <4> QED BY <2>1, <4>1
    <3>5. \A b \in m.added : /\ rows'[b.user].st = "none"
                             /\ peers'[b.user] = [key |-> b.key, ip |-> b.ip]
                             /\ peers'[b.user] # NoPeer
      BY <2>1, <3>1, <3>3, <3>4
    <3>6. \A b \in m.added : \A q \in Procs \ {p} : \A c \in me[q].added : b.user # c.user
      BY <3>1, <3>3 DEF RowsInv
    <3>7. \A q \in Procs \ {p} : Provided(q) =>
             (rows'[me[q].user].st = "none" => peers'[me[q].user] = me[q].peer)
      BY <2>1 DEF RowsInv
    <3>8. \A u \in Users : rows'[u].st = "ok" =>
             /\ [key |-> rows'[u].key, ip |-> rows'[u].ip] # NoPeer
             /\ \/ peers'[u] = [key |-> rows'[u].key, ip |-> rows'[u].ip]
                \/ \E q \in Procs \ {p} : Dropped(q, u)
      BY <2>1, <2>2 DEF RowsInv, PeerOf
    <3>9. ~ m.gone /\ ~ Provides("bulk", m) /\ (\A u \in Users : rows[u].st # "none" => rows'[u].st # "none")
      BY <2>1, <3>1 DEF RowsInv, Provides
    <3>10. \A q \in Procs \ {p} : \A b \in me[q].added :
              rows'[b.user].st = "none" /\ peers'[b.user] = peers[b.user]
      BY <3>4
    <3>11. m.route # "revoke"
      BY <3>1
    <3> QED BY <3>2, <3>5, <3>6, <3>7, <3>8, <3>9, <3>10, <3>11, RowsStep
  <2> QED BY <1>2, <2>3, <2>4, <2>5 DEF BulkFlush
<1>3. CASE BulkCommit(p)
  <2>1. pc[p] = "bulk" /\ Insert(me[p].added) /\ Return(p) /\ UNCHANGED peers
    BY <1>3 DEF BulkCommit, Daemon
  <2>2. me[p].added \in SUBSET Blocks
    BY DEF ShapeInv
  <2>3. \A b \in me[p].added : peers[b.user] = [key |-> b.key, ip |-> b.ip] /\ peers[b.user] # NoPeer
    BY DEF RowsInv
  <2>4. \A b \in me[p].added : \A q \in Procs \ {p} : \A c \in me[q].added : b.user # c.user
    BY DEF RowsInv
  <2>5. \A u \in Users : ~ Dropped(p, u)
    BY <2>1 DEF Dropped
  <2> QED BY <2>1, <2>2, <2>3, <2>4, <2>5, InsertRows
<1>4. CASE EndRevoke(p)
  <2>1. pc[p] = "answer" /\ me[p].route = "revoke" /\ Goto(p, "idle", NoMe) /\ UNCHANGED peers
    BY <1>4 DEF EndRevoke, Daemon, Return
  <2>2. CASE ~ me[p].ok
    <3>1. UNCHANGED rows
      BY <1>4, <2>2 DEF EndRevoke
    <3>2. \A u \in Users : ~ Dropped(p, u)
      BY <2>1, <2>2 DEF Dropped
    <3> QED BY <2>1, <3>1, <3>2, NoMeShape, FreshRows
  <2>3. CASE me[p].ok
    <3>1. rows' = [rows EXCEPT ![me[p].user].st = "revoked"]
      BY <1>4, <2>3 DEF EndRevoke
    <3>2. me[p].user \in Users /\ rows \in [Users -> RowType] /\ rows[me[p].user].st # "none"
      BY <2>1 DEF ShapeInv, RowType, RowsInv
    <3>3. \A u \in Users : u # me[p].user => rows'[u] = rows[u]
      BY <3>1, <3>2
    <3>4. rows'[me[p].user].st = "revoked"
      BY <3>1, <3>2 DEF RowType
    <3>5. \A u \in Users : rows[u].st # "none" => rows'[u].st # "none"
      BY <3>3, <3>4
    <3>6. \A q \in Procs \ {p} : Provided(q) =>
             (rows'[me[q].user].st = "none" => peers'[me[q].user] = me[q].peer)
      <4>1. \A q \in Procs : Provided(q) => me[q].user \in Users
        BY DEF Provided, ShapeInv
      <4> QED BY <2>1, <3>5, <4>1 DEF RowsInv
    <3>7. \A q \in Procs \ {p} : \A b \in me[q].added :
             rows'[b.user].st = "none" /\ peers'[b.user] = peers[b.user]
      <4>1. \A q \in Procs : \A b \in me[q].added : b.user \in Users
        BY DEF ShapeInv, Blocks
      <4>2. \A q \in Procs : \A b \in me[q].added : rows[b.user].st = "none"
        BY DEF RowsInv
      <4> QED BY <2>1, <3>2, <3>3, <4>1, <4>2
    <3>8. \A u \in Users : rows'[u].st = "ok" =>
             /\ [key |-> rows'[u].key, ip |-> rows'[u].ip] # NoPeer
             /\ \/ peers'[u] = [key |-> rows'[u].key, ip |-> rows'[u].ip]
                \/ \E q \in Procs \ {p} : Dropped(q, u)
      <4>1. \A u \in Users : Dropped(p, u) => u = me[p].user
        BY DEF Dropped
      <4> QED BY <2>1, <3>3, <3>4, <4>1 DEF RowsInv, PeerOf
    <3>9. ~ Provides("idle", NoMe)
      BY DEF Provides
    <3> QED BY <2>1, <3>5, <3>6, <3>7, <3>8, <3>9, NoMeShape, RowsStep
  <2> QED BY <2>2, <2>3
<1> QED BY <1>1, <1>2, <1>3, <1>4

\* The daemon's table changes, at a user that waits for no row.
LEMMA TableRows ==
  ASSUME ShapeInv, RowsInv, NEW p \in Procs, Alloc(p) \/ Drop(p)
  PROVE  RowsInv'
<1>1. /\ peers \in [Users -> Peers] /\ keys \in Nat /\ me[p].user \in Users
      /\ DOMAIN me[p] = Fields /\ pc[p] \in {"alloc", "drop"} /\ UNCHANGED rows
  BY DEF ShapeInv, Alloc, Drop, Step
<1>2. \A u \in Users : ~ Dropped(p, u)
  BY <1>1 DEF Dropped
<1>3. \A q \in Procs : \A b \in me[q].added :
         /\ b.user \in Users /\ rows[b.user].st = "none"
         /\ peers[b.user] = [key |-> b.key, ip |-> b.ip] /\ peers[b.user] # NoPeer
  <2>1. \A q \in Procs : \A b \in me[q].added : b.user \in Users
    BY DEF ShapeInv, Blocks
  <2> QED BY <2>1 DEF RowsInv
<1>4. \A q \in Procs : Provided(q) =>
         /\ me[q].user \in Users /\ me[q].peer # NoPeer
         /\ rows[me[q].user].st = "none" => peers[me[q].user] = me[q].peer
  <2>1. \A q \in Procs : Provided(q) => me[q].user \in Users
    BY DEF Provided, ShapeInv
  <2> QED BY <2>1 DEF RowsInv
<1>5. ~ me[p].gone /\ (me[p].route = "revoke" => rows[me[p].user].st # "none")
  BY DEF RowsInv
<1>6. \A b \in me[p].added : \A q \in Procs \ {p} : \A c \in me[q].added : b.user # c.user
  BY DEF RowsInv
<1>7. \A u \in Users : rows[u].st = "ok" =>
         /\ [key |-> rows[u].key, ip |-> rows[u].ip] # NoPeer
         /\ \/ peers[u] = [key |-> rows[u].key, ip |-> rows[u].ip]
            \/ \E q \in Procs \ {p} : Dropped(q, u)
  BY <1>2 DEF RowsInv, PeerOf
<1>8. CASE Answer(p, FALSE) /\ UNCHANGED peers
  BY <1>1, <1>2, <1>8, AnswerRows
\* A peer for a user that had none.
<1>9. CASE /\ pc[p] = "alloc" /\ peers[me[p].user] = NoPeer /\ keys' = keys + 1
           /\ \E new : /\ new = [key |-> keys', ip |-> Min(FreeIps)]
                       /\ peers' = [peers EXCEPT ![me[p].user] = new]
                       /\ Goto(p, "append", [me[p] EXCEPT !.peer = new])
  <2>1. PICK new : /\ new = [key |-> keys', ip |-> Min(FreeIps)]
                   /\ peers' = [peers EXCEPT ![me[p].user] = new]
                   /\ Goto(p, "append", [me[p] EXCEPT !.peer = new])
    BY <1>9
  <2> DEFINE m == [me[p] EXCEPT !.peer = new]
  <2>2. /\ m.gone = me[p].gone /\ m.added = me[p].added /\ m.route = me[p].route
        /\ m.user = me[p].user /\ m.peer = new
    BY <1>1 DEF Fields
  <2>3. Goto(p, "append", m)
    BY <2>1
  <2> HIDE DEF m
  <2>4. new # NoPeer
    <3>1. new.key # 0
      BY <1>1, <1>9, <2>1
    <3> QED BY <3>1 DEF NoPeer
  <2>5. /\ \A u \in Users : u # me[p].user => peers'[u] = peers[u]
        /\ peers'[me[p].user] = new
    BY <1>1, <2>1
  <2>6. me[p].route # "revoke"
    BY <1>9 DEF ShapeInv, Provision
  <2>7. \A q \in Procs : \A b \in me[q].added : b.user # me[p].user
    BY <1>3, <1>9
  <2>8. \A q \in Procs \ {p} : \A b \in me[q].added :
           rows'[b.user].st = "none" /\ peers'[b.user] = peers[b.user]
    BY <1>1, <1>3, <2>5, <2>7
  <2>9. \A b \in m.added : /\ rows'[b.user].st = "none"
                           /\ peers'[b.user] = [key |-> b.key, ip |-> b.ip]
                           /\ peers'[b.user] # NoPeer
    <3> SUFFICES ASSUME NEW b \in me[p].added
                 PROVE  /\ rows'[b.user].st = "none"
                        /\ peers'[b.user] = [key |-> b.key, ip |-> b.ip]
                        /\ peers'[b.user] # NoPeer
      BY <2>2
    <3>1. rows'[b.user].st = "none" /\ peers'[b.user] = peers[b.user]
      BY <1>1, <1>3, <2>5, <2>7
    <3>2. peers[b.user] = [key |-> b.key, ip |-> b.ip] /\ peers[b.user] # NoPeer
      BY <1>3
    <3> QED BY <3>1, <3>2
  <2>10. \A q \in Procs \ {p} : Provided(q) =>
            (rows'[me[q].user].st = "none" => peers'[me[q].user] = me[q].peer)
    BY <1>1, <1>4, <1>9, <2>5
  <2>11. \A u \in Users : rows'[u].st = "ok" =>
            /\ [key |-> rows'[u].key, ip |-> rows'[u].ip] # NoPeer
            /\ \/ peers'[u] = [key |-> rows'[u].key, ip |-> rows'[u].ip]
               \/ \E q \in Procs \ {p} : Dropped(q, u)
    BY <1>1, <1>7, <1>9, <2>5
  <2>12. /\ \A b \in m.added : \A q \in Procs \ {p} : \A c \in me[q].added : b.user # c.user
         /\ ~ m.gone /\ m.route # "revoke" /\ m.peer # NoPeer /\ peers'[m.user] = m.peer
         /\ \A u \in Users : rows[u].st # "none" => rows'[u].st # "none"
    BY <1>1, <1>5, <1>6, <2>2, <2>4, <2>5, <2>6
  <2> QED BY <2>3, <2>8, <2>9, <2>10, <2>11, <2>12, RowsStep
\* The peer of a user that has a row.
<1>10. CASE Drop(p)
  <2>1. pc[p] = "drop" /\ Goto(p, "fw", me[p]) /\ peers' = [peers EXCEPT ![me[p].user] = NoPeer]
    BY <1>10 DEF Drop, Step
  <2>2. me[p].route = "revoke" /\ rows[me[p].user].st # "none"
    BY <1>5, <2>1 DEF ShapeInv, Removal
  <2>3. \A u \in Users : u # me[p].user => peers'[u] = peers[u]
    BY <1>1, <2>1
  <2>4. \A q \in Procs : \A b \in me[q].added :
           /\ rows'[b.user].st = "none" /\ peers'[b.user] = peers[b.user]
           /\ peers'[b.user] = [key |-> b.key, ip |-> b.ip] /\ peers'[b.user] # NoPeer
    <3> SUFFICES ASSUME NEW q \in Procs, NEW b \in me[q].added
                 PROVE  /\ rows'[b.user].st = "none" /\ peers'[b.user] = peers[b.user]
                        /\ peers'[b.user] = [key |-> b.key, ip |-> b.ip] /\ peers'[b.user] # NoPeer
      OBVIOUS
    <3>1. /\ b.user \in Users /\ rows[b.user].st = "none"
          /\ peers[b.user] = [key |-> b.key, ip |-> b.ip] /\ peers[b.user] # NoPeer
      BY <1>3
    <3>2. rows'[b.user].st = "none" /\ peers'[b.user] = peers[b.user]
      BY <1>1, <2>2, <2>3, <3>1
    <3> QED BY <3>1, <3>2
  <2>5. \A q \in Procs : Provided(q) =>
            (rows'[me[q].user].st = "none" => peers'[me[q].user] = me[q].peer)
    BY <1>1, <1>4, <2>2, <2>3
  <2>6. Drops("fw", me[p], me[p].user) /\ ~ Provides("fw", me[p])
    BY <2>2 DEF Drops, Provides
  <2>7. \A u \in Users : rows'[u].st = "ok" =>
            /\ [key |-> rows'[u].key, ip |-> rows'[u].ip] # NoPeer
            /\ \/ peers'[u] = [key |-> rows'[u].key, ip |-> rows'[u].ip]
               \/ Drops("fw", me[p], u)
               \/ \E q \in Procs \ {p} : Dropped(q, u)
    BY <1>1, <1>7, <2>3, <2>6
  <2>8. /\ rows'[me[p].user].st # "none"
        /\ \A u \in Users : rows[u].st # "none" => rows'[u].st # "none"
    BY <1>1, <2>2
  <2>9. \A q \in Procs \ {p} : \A b \in me[q].added :
            rows'[b.user].st = "none" /\ peers'[b.user] = peers[b.user]
    BY <2>4
  <2>10. \A b \in me[p].added : /\ rows'[b.user].st = "none"
                                /\ peers'[b.user] = [key |-> b.key, ip |-> b.ip]
                                /\ peers'[b.user] # NoPeer
    BY <2>4
  <2>11. \A q \in Procs \ {p} : Provided(q) =>
            (rows'[me[q].user].st = "none" => peers'[me[q].user] = me[q].peer)
    BY <2>5
  <2> QED BY <1>5, <1>6, <2>1, <2>6, <2>7, <2>8, <2>9, <2>10, <2>11, RowsStep
<1> QED
  <2>1. CASE Alloc(p)
    BY <1>8, <1>9, <2>1 DEF Alloc
  <2> QED BY <1>10, <2>1

LEMMA StepRows ==
  ASSUME ShapeInv, Harmless => RowsInv, Next, Harmless'
  PROVE  RowsInv'
<1>1. happened' \subseteq {"wg", "down"}
  BY DEF Harmless
<1>2. happened \subseteq happened'
  <2>1. ASSUME NEW p \in Procs, Handle(p) \/ Route(p) \/ Down(p) \/ Timeout(p)
        PROVE  happened \subseteq happened'
    <3>1. CASE Handle(p)
      BY <3>1 DEF Handle, Get, LoadExisting, Load, Alloc, AppendPeer, LiveAdd, WriteConf, Undo,
                  Rebuild, FindPeer, LiveRemove, ReadHeader, ListPeers, Truncate, Write, Drop,
                  Fault, NoFault
    <3>2. CASE Route(p)
      BY <3>2 DEF Route, Download, EndDownload, Bulk, BulkNext, BulkFlush, BulkCommit, Revoke,
                  EndRevoke, Enter
    <3> QED BY <2>1, <3>1, <3>2 DEF Down, Timeout, Fault
  <2> QED BY <2>1 DEF Next, Crash, Reboot, Fault
<1>3. RowsInv
  BY <1>1, <1>2 DEF Harmless
<1>4. ~ Fault("timeout") /\ ~ Fault("crash") /\ ~ Fault("reboot")
  BY <1>1 DEF Fault
<1>5. PICK p \in Procs : Handle(p) \/ Route(p) \/ Down(p)
  BY <1>4 DEF Next, Timeout, Crash, Reboot
<1>6. ~ Undo(p)
  BY <1>3 DEF RowsInv, Undo
<1> QED
  BY <1>1, <1>3, <1>5, <1>6, QuietRows, EndRows, TableRows DEF Handle, Route

-----------------------------------------------------------------------------
\* Behaviours.

\* The users of an initial state have each a number of their own.
LEMMA Ranks ==
  ASSUME NEW S \in SUBSET Users, Cardinality(S) <= Cardinality(Ips),
         NEW rank \in Bijection(S, 1..Cardinality(S))
  PROVE  /\ Cardinality(S) \in Nat
         /\ \A u \in S : rank[u] \in 1..Cardinality(S) /\ rank[u] \in Nat /\ rank[u] \in Ips
         /\ \A u, v \in S : rank[u] = rank[v] => u = v
<1>1. Cardinality(S) \in Nat /\ Cardinality(Ips) \in Nat
  BY PeersAssumption, FS_Subset, FS_CardinalityType
<1>2. rank \in [S -> 1..Cardinality(S)] /\ \A u, v \in S : rank[u] = rank[v] => u = v
  BY DEF Bijection, Injection, IsInjective
<1>3. \A n \in 1..Cardinality(S) : n \in Nat /\ n \in 1..Cardinality(Ips)
  BY <1>1
<1> QED BY <1>1, <1>2, <1>3, PeersAssumption

\* The stores of an initial state.
LEMMA InitialStores ==
  ASSUME NEW S \in SUBSET Users, Cardinality(S) <= Cardinality(Ips),
         NEW rank \in Bijection(S, 1..Cardinality(S)), Provisioned(S, rank)
  PROVE  /\ keys = Cardinality(S) /\ keys \in Nat
         /\ peers \in [Users -> Peers] /\ rows \in [Users -> RowType]
         /\ \A u \in Users \ S : peers[u] = NoPeer /\ rows[u].st = "none"
         /\ \A u \in S : /\ peers[u].key = rank[u] /\ peers[u].ip = rank[u] /\ peers[u] # NoPeer
                         /\ rows[u].key = rank[u] /\ rows[u].ip = rank[u] /\ rows[u].st = "ok"
                         /\ peers[u] = [key |-> rows[u].key, ip |-> rows[u].ip]
<1>1. \A u \in S : rank[u] \in 1..Cardinality(S) /\ rank[u] \in Nat /\ rank[u] # 0
  BY Ranks
<1>2. keys = Cardinality(S) /\ keys \in Nat
  BY Ranks DEF Provisioned
<1>3. peers = [u \in Users |-> IF u \in S THEN [key |-> rank[u], ip |-> rank[u]] ELSE NoPeer]
  BY DEF Provisioned
<1>4. rows = [u \in Users |-> IF u \in S THEN [key |-> rank[u], ip |-> rank[u], st |-> "ok"]
                             ELSE NoRow]
  BY DEF Provisioned
<1>5. peers \in [Users -> Peers]
  BY <1>1, <1>3 DEF NoPeer, Peers
<1>6. rows \in [Users -> RowType]
  BY <1>1, <1>4 DEF NoRow, RowType
<1>7. \A u \in Users \ S : peers[u] = NoPeer /\ rows[u].st = "none"
  BY <1>3, <1>4 DEF NoRow
<1>8. \A u \in S : peers[u] = [key |-> rank[u], ip |-> rank[u]]
  BY <1>3
<1>9. \A u \in S : rows[u] = [key |-> rank[u], ip |-> rank[u], st |-> "ok"]
  BY <1>4
<1>10. \A u \in S : [key |-> rank[u], ip |-> rank[u]] # NoPeer
  <2> SUFFICES ASSUME NEW u \in S PROVE [key |-> rank[u], ip |-> rank[u]].key # NoPeer.key
    OBVIOUS
  <2> QED BY <1>1 DEF NoPeer
<1>11. \A u \in S : peers[u].key = rank[u] /\ peers[u].ip = rank[u] /\ peers[u] # NoPeer
  <2> SUFFICES ASSUME NEW u \in S
               PROVE  peers[u].key = rank[u] /\ peers[u].ip = rank[u] /\ peers[u] # NoPeer
    OBVIOUS
  <2>1. PICK n : n = rank[u]
    OBVIOUS
  <2>2. peers[u] = [key |-> n, ip |-> n] /\ [key |-> n, ip |-> n] # NoPeer
    BY <1>8, <1>10, <2>1
  <2> QED BY ONLY <2>1, <2>2
<1>12. \A u \in S : /\ rows[u].key = rank[u] /\ rows[u].ip = rank[u] /\ rows[u].st = "ok"
                     /\ peers[u] = [key |-> rows[u].key, ip |-> rows[u].ip]
  <2> SUFFICES ASSUME NEW u \in S
               PROVE  /\ rows[u].key = rank[u] /\ rows[u].ip = rank[u] /\ rows[u].st = "ok"
                      /\ peers[u] = [key |-> rows[u].key, ip |-> rows[u].ip]
    OBVIOUS
  <2>1. PICK n : n = rank[u]
    OBVIOUS
  <2>2. peers[u] = [key |-> n, ip |-> n] /\ rows[u] = [key |-> n, ip |-> n, st |-> "ok"]
    BY <1>8, <1>9, <2>1
  <2>3. rows[u].key = n /\ rows[u].ip = n /\ rows[u].st = "ok"
    BY ONLY <2>2
  <2> QED BY ONLY <2>1, <2>2, <2>3
<1> QED BY <1>2, <1>5, <1>6, <1>7, <1>11, <1>12

LEMMA Initial == Init => IInv
<1> SUFFICES ASSUME Init PROVE IInv
  OBVIOUS
<1>1. PICK S \in SUBSET Users : /\ Cardinality(S) <= Cardinality(Ips)
                                /\ \E rank \in Bijection(S, 1..Cardinality(S)) : Provisioned(S, rank)
  BY DEF Init
<1>2. PICK rank \in Bijection(S, 1..Cardinality(S)) : Provisioned(S, rank)
  BY <1>1
<1>3. /\ peers \in [Users -> Peers] /\ rows \in [Users -> RowType] /\ keys \in Nat
      /\ \A u \in Users \ S : rows[u].st = "none"
      /\ \A u \in S : peers[u] # NoPeer /\ peers[u] = [key |-> rows[u].key, ip |-> rows[u].ip]
  BY <1>1, <1>2, InitialStores
<1>4. DOMAIN pc = Procs /\ DOMAIN me = Procs /\ \A p \in Procs : pc[p] = "idle" /\ me[p] = NoMe
  BY DEF Init
<1>5. ShapeInv
  BY <1>3, <1>4, NoMeShape, ShapeParts
<1>6. \A u \in Users : rows[u].st = "ok" =>
         [key |-> rows[u].key, ip |-> rows[u].ip] # NoPeer /\ PeerOf(u)
  BY <1>3 DEF PeerOf
<1>7. \A p \in Procs : ~ Provided(p)
  BY <1>4 DEF Provided
<1>8. RowsInv
  BY <1>4, <1>6, <1>7, NoMeShape DEF RowsInv
<1> QED BY <1>5, <1>8 DEF IInv

LEMMA Inductive == IInv /\ [Next]_vars => IInv'
<1> SUFFICES ASSUME IInv, [Next]_vars PROVE IInv'
  OBVIOUS
<1>1. CASE Next
  BY <1>1, StepShape, StepRows DEF IInv
<1>2. CASE UNCHANGED vars
  <2>1. ShapeInv' /\ (RowsInv => RowsInv') /\ (Harmless' <=> Harmless)
    BY <1>2 DEF IInv, vars, ShapeInv, RowsInv, Harmless, Provided, Dropped, PeerOf
  <2> QED BY <2>1 DEF IInv
<1> QED BY <1>1, <1>2

\* The invariant that carries the argument.
THEOREM InductiveInvariant == Spec => []IInv
<1> QED BY Initial, Inductive, PTL DEF Spec

\* A row that the plugin shows as a valid peer stands for the daemon's peer of
\* that user, or for one that an administrator is revoking: downloads, bulk
\* provisioning and revocations may interleave in any way, wg may fail and the
\* daemon may be down.  It ends where a handler is cut off (a timeout or a crash)
\* or a file write or the firewall fails.
THEOREM RowsStandForPeers == Spec => []RowsHavePeers
<1>1. IInv => RowsHavePeers
  BY DEF IInv, RowsInv, RowsHavePeers, Dropped, Revoking
<1> QED BY <1>1, InductiveInvariant, PTL

-----------------------------------------------------------------------------
\* Steps, field by field.

\* What p keeps of its local variables; what all of the stores keep.
Keeps(p) ==
    /\ me'[p].route = me[p].route /\ me'[p].user = me[p].user /\ me'[p].peer = me[p].peer
    /\ me'[p].hdr = me[p].hdr /\ me'[p].list = me[p].list /\ me'[p].added = me[p].added
Tables == <<peers, keys, rows>>
Stores == <<peers, keys, rows, file, live>>

Ended(p) == pc'[p] = "idle" /\ me'[p] = NoMe
Starts(p) ==
    /\ pc[p] = "idle" /\ me'[p].added = {} /\ me'[p].peer = NoPeer /\ me'[p].ok = FALSE /\ me'[p].hdr = FALSE
    /\ me'[p].route \in Routes
    /\ \/ pc'[p] = "get" /\ me'[p].route = "download"
       \/ pc'[p] = "bulk" /\ me'[p].route = "bulk"
       \/ /\ pc'[p] = "find" /\ me'[p].route = "revoke"
          /\ me'[p].user \in Users /\ rows[me'[p].user].st = "ok"
\* An RPC ends.
Answers(p) ==
    /\ \/ pc[p] \in {"reload", "load", "alloc", "get", "find", "fw"}
       \/ pc[p] \in {"open", "write"} /\ "disk" \in happened'
    /\ \/ Ended(p)
       \/ /\ pc'[p] = "answer" /\ Keeps(p) /\ me'[p].ok \in BOOLEAN
          /\ me'[p].ok => \/ pc[p] \in {"reload", "fw"}
                          \/ pc[p] = "find" /\ peers[me[p].user] = NoPeer
Passes(p) ==
    /\ Keeps(p) /\ me'[p].ok = me[p].ok
    /\ \/ pc'[p] = pc[p] /\ pc[p] # "idle"
       \/ pc[p] = "load" /\ pc'[p] = "alloc"
       \/ pc[p] = "conf" /\ pc'[p] = "fw"
       \/ pc[p] = "answer" /\ pc'[p] = "bulk"
       \/ pc[p] \in {"append", "conf"} /\ pc'[p] = "undo" /\ "disk" \in happened'
       \/ pc[p] = "live" /\ pc'[p] = "conf" /\ "wg" \in happened'
       \/ pc[p] = "wgdel" /\ pc'[p] = "read" /\ "wg" \in happened'
TakesNext(p) ==
    /\ pc[p] = "bulk" /\ pc'[p] = "get"
    /\ me'[p].route = "bulk" /\ me'[p].added = me[p].added
    /\ me'[p].ok = me[p].ok /\ me'[p].hdr = me[p].hdr
Flushes(p) ==
    /\ pc[p] = "answer" /\ pc'[p] = "bulk" /\ me[p].route = "bulk" /\ me[p].ok
    /\ ~ Taken(Mine(p)) /\ ~ Locked(p, Mine(p))
    /\ me'[p].route = "bulk" /\ me'[p].added = me[p].added \cup {Mine(p)}
    /\ me'[p].ok = me[p].ok /\ me'[p].hdr = me[p].hdr
Gets(p) ==
    /\ me'[p].route = me[p].route /\ me'[p].user = me[p].user /\ me'[p].added = me[p].added
    /\ me'[p].peer = peers[me[p].user] /\ me'[p].ok = me[p].ok /\ me'[p].hdr = me[p].hdr
    /\ \/ pc[p] = "get" /\ pc'[p] \in {"reload", "load"} /\ (pc'[p] = "reload" => me'[p].peer # NoPeer)
       \/ pc[p] = "find" /\ pc'[p] = "wgdel" /\ me'[p].peer # NoPeer
Reads(p) ==
    /\ me'[p].route = me[p].route /\ me'[p].user = me[p].user /\ me'[p].added = me[p].added
    /\ me'[p].peer = me[p].peer /\ me'[p].ok = me[p].ok
    /\ \/ pc[p] = "read" /\ pc'[p] = "list" /\ me'[p].hdr = file.hdr
       \/ /\ pc[p] = "list" /\ pc'[p] = "open" /\ me'[p].hdr = me[p].hdr
          /\ me'[p].list = BlocksOf(Users \ {me[p].user})

\* A step of p that changes no store.
StillStep(p) ==
    /\ UNCHANGED Stores
    /\ \/ Starts(p) \/ (Ended(p) /\ pc[p] = "answer") \/ Answers(p) \/ Passes(p)
       \/ TakesNext(p) \/ Flushes(p) \/ Gets(p) \/ Reads(p)

\* Steps of p that change the daemon's table.
Allocates(p) ==
    /\ pc[p] = "alloc" /\ pc'[p] = "append" /\ UNCHANGED <<rows, file, live>>
    /\ peers[me[p].user] = NoPeer
    /\ keys' = keys + 1 /\ me'[p].peer = [key |-> keys + 1, ip |-> Min(FreeIps)] /\ FreeIps # {}
    /\ peers' = [peers EXCEPT ![me[p].user] = me'[p].peer]
    /\ me'[p].route = me[p].route /\ me'[p].user = me[p].user /\ me'[p].added = me[p].added
    /\ me'[p].ok = me[p].ok /\ me'[p].hdr = me[p].hdr
Undoes(p) ==
    /\ pc[p] = "undo" /\ UNCHANGED <<keys, rows, file, live>>
    /\ peers' = [peers EXCEPT ![me[p].user] = NoPeer]
    /\ Ended(p) \/ (pc'[p] = "answer" /\ Keeps(p) /\ me'[p].ok = FALSE)
DropsPeer(p) ==
    /\ pc[p] = "drop" /\ pc'[p] = "fw" /\ Keeps(p) /\ me'[p].ok = me[p].ok
    /\ UNCHANGED <<keys, rows, file, live>>
    /\ peers' = [peers EXCEPT ![me[p].user] = NoPeer]
TableStep(p) == Allocates(p) \/ Undoes(p) \/ DropsPeer(p)

\* Steps of p that change the file or the interface.
StoreStep(p) ==
    /\ UNCHANGED Tables /\ Keeps(p) /\ me'[p].ok = me[p].ok
    /\ \/ /\ pc[p] = "append" /\ pc'[p] = "live" /\ Step(p, "append", "live") /\ UNCHANGED live
          /\ file' = [file EXCEPT !.blocks = @ \cup {Mine(p)},
                                  !.last[me[p].peer.ip] = me[p].peer.key]
       \/ /\ pc[p] = "live" /\ pc'[p] = "conf" /\ UNCHANGED file
          /\ live' = [live EXCEPT ![me[p].peer.ip] = me[p].peer.key]
       \/ /\ pc[p] = "wgdel" /\ pc'[p] = "read" /\ UNCHANGED file
          /\ live' = Without(live, me[p].peer.key)
       \/ /\ pc[p] = "open" /\ pc'[p] = "write" /\ UNCHANGED live /\ file' = Conf(FALSE, {})
       \/ /\ pc[p] = "write" /\ pc'[p] = "drop" /\ UNCHANGED live
          /\ file' = Conf(me[p].hdr, me[p].list)

\* Steps of p that change the plugin's rows, at the end of a request.
RowStep(p) ==
    /\ UNCHANGED <<peers, keys, file, live>> /\ Ended(p)
    /\ \/ /\ pc[p] = "answer" /\ me[p].route = "download" /\ me[p].ok
          /\ ~ Taken(Mine(p)) /\ ~ Locked(p, Mine(p)) /\ Insert({Mine(p)})
       \/ pc[p] = "bulk" /\ Insert(me[p].added)
       \/ /\ pc[p] = "answer" /\ me[p].route = "revoke" /\ me[p].ok
          /\ rows' = [rows EXCEPT ![me[p].user].st = "revoked"]

Moved(p) ==
    /\ \A q \in Procs \ {p} : pc'[q] = pc[q] /\ me'[q] = me[q]
    /\ StillStep(p) \/ TableStep(p) \/ StoreStep(p) \/ RowStep(p)

LEMMA AnswerMoves ==
  ASSUME ShapeInv, NEW p \in Procs, NEW ok \in BOOLEAN, Answer(p, ok)
  PROVE  Ended(p) \/ (pc'[p] = "answer" /\ Keeps(p) /\ me'[p].ok = ok)
<1> DEFINE m == [me[p] EXCEPT !.ok = ok]
<1>1. DOMAIN me[p] = Fields
  BY DEF ShapeInv
<1>2. /\ m.route = me[p].route /\ m.user = me[p].user /\ m.peer = me[p].peer /\ m.hdr = me[p].hdr
      /\ m.list = me[p].list /\ m.added = me[p].added /\ m.ok = ok
  BY <1>1 DEF Fields
<1>3. Goto(p, "idle", NoMe) \/ Goto(p, "answer", m)
  BY DEF Answer, Return
<1> HIDE DEF m
<1>4. CASE Goto(p, "idle", NoMe)
  BY <1>4, GotoOne DEF Ended
<1>5. CASE Goto(p, "answer", m)
  BY <1>2, <1>5, GotoOne DEF Keeps
<1> QED BY <1>3, <1>4, <1>5

LEMMA OthersStay ==
  ASSUME ShapeInv, NEW p \in Procs, Handle(p) \/ Route(p) \/ Down(p) \/ Timeout(p)
  PROVE  \A q \in Procs \ {p} : pc'[q] = pc[q] /\ me'[q] = me[q]
<1>1. \E l, m : Goto(p, l, m)
  <2>1. CASE Handle(p)
    BY <2>1 DEF Handle, Get, LoadExisting, Load, Alloc, AppendPeer, LiveAdd, WriteConf, Undo,
                Rebuild, FindPeer, LiveRemove, ReadHeader, ListPeers, Truncate, Write, Drop,
                Step, Answer, Return
  <2>2. CASE Route(p)
    BY <2>2 DEF Route, Download, EndDownload, Bulk, BulkNext, BulkFlush, BulkCommit, Revoke,
                EndRevoke, Return
  <2> QED BY <2>1, <2>2 DEF Down, Timeout, Answer, Return
<1> QED BY <1>1, GotoOne

LEMMA StoppedMoves ==
  ASSUME ShapeInv, NEW p \in Procs, NEW l, Goto(p, l, me[p])
  PROVE  pc'[p] = l /\ Keeps(p) /\ me'[p].ok = me[p].ok
BY GotoOne DEF Keeps

LEMMA NoMeFields == NoMe.added = {} /\ NoMe.peer = NoPeer /\ NoMe.ok = FALSE /\ NoMe.hdr = FALSE
BY DEF NoMe

\* A step of a route, field by field.
LEMMA RouteMoves ==
  ASSUME ShapeInv, NEW p \in Procs, Route(p)
  PROVE  StillStep(p) \/ RowStep(p)
<1>1. DOMAIN me[p] = Fields
  BY DEF ShapeInv
<1> USE NoMeFields DEF Daemon, Stores, StillStep
<1>2. CASE Download(p)
  <2>1. PICK u \in Users : Goto(p, "get", [NoMe EXCEPT !.route = "download", !.user = u])
    BY <1>2 DEF Download
  <2> DEFINE m == [NoMe EXCEPT !.route = "download", !.user = u]
  <2>2. m.added = {} /\ m.peer = NoPeer /\ m.ok = FALSE /\ m.hdr = FALSE /\ m.route = "download"
    BY DEF NoMe
  <2> HIDE DEF m
  <2>3. pc'[p] = "get" /\ me'[p] = m
    BY <2>1, GotoOne DEF m
  <2> QED BY <1>2, <2>2, <2>3 DEF Download, Enter, Starts
<1>3. CASE EndDownload(p)
  <2>1. Ended(p) /\ pc[p] = "answer" /\ UNCHANGED <<peers, keys, file, live>>
    BY <1>3, GotoOne DEF EndDownload, Return, Ended
  <2>2. CASE UNCHANGED rows
    BY <2>1, <2>2
  <2> QED BY <1>3, <2>1, <2>2 DEF EndDownload, RowStep
<1>4. CASE Bulk(p)
  <2> DEFINE m == [NoMe EXCEPT !.route = "bulk", !.todo = {u \in Users : rows[u].st # "ok"}]
  <2>1. m.added = {} /\ m.peer = NoPeer /\ m.ok = FALSE /\ m.hdr = FALSE /\ m.route = "bulk"
    BY DEF NoMe
  <2>2. Goto(p, "bulk", m)
    BY <1>4 DEF Bulk
  <2> HIDE DEF m
  <2>3. pc'[p] = "bulk" /\ me'[p] = m
    BY <2>2, GotoOne
  <2> QED BY <1>4, <2>1, <2>3 DEF Bulk, Enter, Starts
<1>5. CASE BulkNext(p)
  <2> DEFINE m == [me[p] EXCEPT !.user = Min(me[p].todo), !.todo = @ \ {Min(@)}]
  <2>1. m.added = me[p].added /\ m.ok = me[p].ok /\ m.hdr = me[p].hdr /\ m.route = me[p].route
    BY <1>1 DEF Fields
  <2>2. pc[p] = "bulk" /\ Goto(p, "get", m) /\ UNCHANGED Stores
    BY <1>5 DEF BulkNext
  <2>3. me[p].route = "bulk"
    BY <2>2 DEF ShapeInv
  <2> HIDE DEF m
  <2>4. pc'[p] = "get" /\ me'[p] = m
    BY <2>2, GotoOne
  <2> QED BY <2>1, <2>2, <2>3, <2>4 DEF TakesNext
<1>6. CASE BulkFlush(p)
  <2>1. pc[p] = "answer" /\ me[p].route = "bulk" /\ UNCHANGED Stores
    BY <1>6 DEF BulkFlush
  <2>2. CASE Goto(p, "bulk", me[p])
    BY <2>1, <2>2, StoppedMoves DEF Passes
  <2>3. CASE Return(p)
    BY <2>1, <2>3, GotoOne DEF Return, Ended
  <2>4. CASE /\ me[p].ok /\ ~ Taken(Mine(p)) /\ ~ Locked(p, Mine(p))
             /\ Goto(p, "bulk", [me[p] EXCEPT !.added = @ \cup {Mine(p)}])
    <3> DEFINE m == [me[p] EXCEPT !.added = @ \cup {Mine(p)}]
    <3>1. m.added = me[p].added \cup {Mine(p)} /\ m.ok = me[p].ok /\ m.hdr = me[p].hdr /\ m.route = me[p].route
      BY <1>1 DEF Fields
    <3> HIDE DEF m
    <3>2. pc'[p] = "bulk" /\ me'[p] = m
      BY <2>4, GotoOne DEF m
    <3> QED BY <2>1, <2>4, <3>1, <3>2 DEF Flushes
  <2> QED BY <1>6, <2>2, <2>3, <2>4 DEF BulkFlush
<1>7. CASE BulkCommit(p)
  <2>1. Ended(p) /\ pc[p] = "bulk" /\ UNCHANGED <<peers, keys, file, live>> /\ Insert(me[p].added)
    BY <1>7, GotoOne DEF BulkCommit, Return, Ended
  <2> QED BY <2>1 DEF RowStep
<1>8. CASE Revoke(p)
  <2>1. PICK u \in Users : rows[u].st = "ok" /\ Goto(p, "find", [NoMe EXCEPT !.route = "revoke", !.user = u])
    BY <1>8 DEF Revoke
  <2> DEFINE m == [NoMe EXCEPT !.route = "revoke", !.user = u]
  <2>2. m.added = {} /\ m.peer = NoPeer /\ m.ok = FALSE /\ m.hdr = FALSE /\ m.route = "revoke" /\ m.user = u
    BY DEF NoMe
  <2> HIDE DEF m
  <2>3. pc'[p] = "find" /\ me'[p] = m
    BY <2>1, GotoOne DEF m
  <2> QED BY <1>8, <2>1, <2>2, <2>3 DEF Revoke, Enter, Starts
<1>9. CASE EndRevoke(p)
  <2>1. Ended(p) /\ pc[p] = "answer" /\ me[p].route = "revoke" /\ UNCHANGED <<peers, keys, file, live>>
    BY <1>9, GotoOne DEF EndRevoke, Return, Ended
  <2>2. CASE me[p].ok
    BY <1>9, <2>1, <2>2 DEF EndRevoke, RowStep
  <2>3. CASE ~ me[p].ok
    BY <1>9, <2>1, <2>3 DEF EndRevoke
  <2> QED BY <2>2, <2>3
<1> QED BY <1>2, <1>3, <1>4, <1>5, <1>6, <1>7, <1>8, <1>9 DEF Route

\* A step of a handler, and the faults of one process.
LEMMA HandlerMoves ==
  ASSUME ShapeInv, file.hdr \in BOOLEAN, NEW p \in Procs, Handle(p) \/ Down(p) \/ Timeout(p)
  PROVE  StillStep(p) \/ TableStep(p) \/ StoreStep(p)
<1>1. DOMAIN me[p] = Fields
  BY DEF ShapeInv
<1> USE DEF Daemon, Stores, StillStep
<1>2. ASSUME NEW ok \in BOOLEAN, Answer(p, ok), UNCHANGED Stores,
             \/ pc[p] \in {"reload", "load", "alloc", "get", "find", "fw"}
             \/ pc[p] \in {"open", "write"} /\ "disk" \in happened',
             ok => \/ pc[p] \in {"reload", "fw"}
                   \/ pc[p] = "find" /\ peers[me[p].user] = NoPeer
      PROVE  StillStep(p)
  BY <1>2, AnswerMoves DEF Answers
<1>3. \A k : Fault(k) => k \in happened'
  BY DEF Fault
<1>4. CASE Get(p) \/ FindPeer(p)
  <2> DEFINE m == [me[p] EXCEPT !.peer = peers[me[p].user]]
  <2>1. /\ m.route = me[p].route /\ m.user = me[p].user /\ m.added = me[p].added
        /\ m.peer = peers[me[p].user] /\ m.ok = me[p].ok /\ m.hdr = me[p].hdr
    BY <1>1 DEF Fields
  <2>2. \/ Answer(p, TRUE) /\ pc[p] = "find" /\ peers[me[p].user] = NoPeer
        \/ /\ Goto(p, "wgdel", m) /\ pc[p] = "find" /\ peers[me[p].user] # NoPeer
        \/ /\ pc[p] = "get"
           /\ \/ Goto(p, "load", m)
              \/ Goto(p, "reload", m) /\ peers[me[p].user] # NoPeer
    BY <1>4 DEF Get, FindPeer
  <2>3. UNCHANGED Stores
    BY <1>4 DEF Get, FindPeer
  <2> HIDE DEF m
  <2>4. CASE Answer(p, TRUE) /\ pc[p] = "find" /\ peers[me[p].user] = NoPeer
    BY <1>2, <2>3, <2>4
  <2>5. ASSUME NEW l, Goto(p, l, m) PROVE pc'[p] = l /\ me'[p] = m
    BY <2>5, GotoOne
  <2>6. CASE Goto(p, "wgdel", m) /\ pc[p] = "find" /\ peers[me[p].user] # NoPeer
    BY <2>1, <2>3, <2>5, <2>6 DEF Gets
  <2>7. CASE pc[p] = "get" /\ Goto(p, "load", m)
    BY <2>1, <2>3, <2>5, <2>7 DEF Gets
  <2>8. CASE pc[p] = "get" /\ Goto(p, "reload", m) /\ peers[me[p].user] # NoPeer
    BY <2>1, <2>3, <2>5, <2>8 DEF Gets
  <2> QED BY <2>2, <2>4, <2>6, <2>7, <2>8
<1>5. CASE LoadExisting(p) \/ Load(p)
  <2>1. UNCHANGED Stores /\ pc[p] \in {"reload", "load"}
    BY <1>5 DEF LoadExisting, Load
  <2>2. \/ \E ok \in BOOLEAN : Answer(p, ok) /\ (ok => pc[p] = "reload")
        \/ pc[p] = "load" /\ Goto(p, "alloc", me[p])
    BY <1>5 DEF LoadExisting, Load
  <2> QED BY <1>2, <2>1, <2>2, StoppedMoves DEF Passes
<1>6. CASE Alloc(p)
  <2>1. CASE Answer(p, FALSE) /\ UNCHANGED <<peers, keys>>
    BY <1>2, <1>6, <2>1 DEF Alloc
  <2>2. CASE /\ peers[me[p].user] = NoPeer /\ FreeIps # {} /\ keys' = keys + 1
             /\ \E new : /\ new = [key |-> keys', ip |-> Min(FreeIps)]
                         /\ peers' = [peers EXCEPT ![me[p].user] = new]
                         /\ Goto(p, "append", [me[p] EXCEPT !.peer = new])
    <3>1. PICK new : /\ new = [key |-> keys', ip |-> Min(FreeIps)]
                     /\ peers' = [peers EXCEPT ![me[p].user] = new]
                     /\ Goto(p, "append", [me[p] EXCEPT !.peer = new])
      BY <2>2
    <3> DEFINE m == [me[p] EXCEPT !.peer = new]
    <3>2. /\ m.route = me[p].route /\ m.user = me[p].user /\ m.added = me[p].added
          /\ m.peer = new /\ m.ok = me[p].ok /\ m.hdr = me[p].hdr
      BY <1>1 DEF Fields
    <3> HIDE DEF m
    <3>3. pc'[p] = "append" /\ me'[p] = m
      BY <3>1, GotoOne DEF m
    <3>4. pc[p] = "alloc" /\ UNCHANGED <<rows, file, live>> /\ keys' = keys + 1
      BY <1>6, <2>2 DEF Alloc
    <3>5. new = [key |-> keys + 1, ip |-> Min(FreeIps)]
      BY <3>1, <3>4
    <3> QED BY <2>2, <3>1, <3>2, <3>3, <3>4, <3>5 DEF TableStep, Allocates
  <2> QED BY <1>6, <2>1, <2>2 DEF Alloc
<1>7. CASE AppendPeer(p)
  <2>1. CASE Step(p, "append", "undo") /\ Fault("disk") /\ UNCHANGED file
    BY <1>3, <1>7, <2>1, StoppedMoves DEF AppendPeer, Step, Passes
  <2>2. CASE ~ (Step(p, "append", "undo") /\ Fault("disk") /\ UNCHANGED file)
    BY <1>7, <2>2, StoppedMoves DEF AppendPeer, Step, StoreStep, Tables
  <2> QED BY <2>1, <2>2
<1>8. CASE LiveAdd(p)
  <2>1. Step(p, "live", "conf") /\ UNCHANGED <<peers, file, rows, keys>>
    BY <1>8 DEF LiveAdd
  <2>2. CASE Fault("wg") /\ UNCHANGED live
    BY <1>3, <2>1, <2>2, StoppedMoves DEF Step, Passes
  <2>3. CASE ~ (Fault("wg") /\ UNCHANGED live)
    BY <1>8, <2>1, <2>3, StoppedMoves DEF LiveAdd, Step, StoreStep, Tables
  <2> QED BY <2>2, <2>3
<1>9. CASE WriteConf(p)
  <2>1. UNCHANGED Stores /\ (Step(p, "conf", "fw") \/ (Step(p, "conf", "undo") /\ "disk" \in happened'))
    BY <1>3, <1>9 DEF WriteConf
  <2> QED BY <2>1, StoppedMoves DEF Step, Passes
<1>10. CASE Undo(p)
  <2>1. Ended(p) \/ (pc'[p] = "answer" /\ Keeps(p) /\ me'[p].ok = FALSE)
    BY <1>10, AnswerMoves DEF Undo
  <2> QED BY <1>10, <2>1 DEF Undo, TableStep, Undoes
<1>11. CASE Rebuild(p)
  BY <1>2, <1>11 DEF Rebuild
<1>12. CASE LiveRemove(p)
  <2>1. Step(p, "wgdel", "read") /\ UNCHANGED <<peers, file, rows, keys>>
    BY <1>12 DEF LiveRemove
  <2>2. CASE Fault("wg") /\ UNCHANGED live
    BY <1>3, <2>1, <2>2, StoppedMoves DEF Step, Passes
  <2>3. CASE ~ (Fault("wg") /\ UNCHANGED live)
    BY <1>12, <2>1, <2>3, StoppedMoves DEF LiveRemove, Step, StoreStep, Tables
  <2> QED BY <2>2, <2>3
<1>13. CASE ReadHeader(p)
  <2> DEFINE m == [me[p] EXCEPT !.hdr = file.hdr]
  <2>1. /\ m.route = me[p].route /\ m.user = me[p].user /\ m.added = me[p].added
        /\ m.peer = me[p].peer /\ m.ok = me[p].ok /\ m.hdr = file.hdr
    BY <1>1 DEF Fields
  <2>2. UNCHANGED Stores /\ pc[p] = "read" /\ Goto(p, "list", m)
    BY <1>13 DEF ReadHeader
  <2> HIDE DEF m
  <2>3. pc'[p] = "list" /\ me'[p] = m
    BY <2>2, GotoOne
  <2> QED BY <2>1, <2>2, <2>3 DEF Reads
<1>14. CASE ListPeers(p)
  <2> DEFINE x == BlocksOf(Users \ {me[p].user})
             m == [me[p] EXCEPT !.list = x]
  <2> HIDE DEF x
  <2>1. /\ m.route = me[p].route /\ m.user = me[p].user /\ m.added = me[p].added
        /\ m.peer = me[p].peer /\ m.ok = me[p].ok /\ m.hdr = me[p].hdr /\ m.list = x
    BY <1>1 DEF Fields
  <2>2. UNCHANGED Stores /\ pc[p] = "list" /\ Goto(p, "open", m)
    BY <1>14 DEF ListPeers, x
  <2> HIDE DEF m
  <2>3. pc'[p] = "open" /\ me'[p] = m
    BY <2>2, GotoOne
  <2> QED BY <2>1, <2>2, <2>3 DEF Reads, x
<1>15. CASE Truncate(p)
  <2>1. pc[p] = "open" /\ UNCHANGED <<peers, live, rows, keys>>
    BY <1>15 DEF Truncate
  <2>2. CASE Answer(p, FALSE) /\ Fault("disk") /\ UNCHANGED file
    BY <1>2, <1>3, <2>1, <2>2
  <2>3. CASE Goto(p, "write", me[p]) /\ file' = Conf(FALSE, {})
    BY <2>1, <2>3, StoppedMoves DEF StoreStep, Tables
  <2> QED BY <1>15, <2>2, <2>3 DEF Truncate
<1>16. CASE Write(p)
  <2>1. pc[p] = "write" /\ UNCHANGED <<peers, live, rows, keys>>
    BY <1>16 DEF Write, Step
  <2>2. CASE Answer(p, FALSE) /\ Fault("disk") /\ UNCHANGED file
    BY <1>2, <1>3, <2>1, <2>2
  <2>3. CASE Step(p, "write", "drop") /\ file' = Conf(me[p].hdr, me[p].list)
    BY <2>1, <2>3, StoppedMoves DEF Step, StoreStep, Tables
  <2> QED BY <1>16, <2>2, <2>3 DEF Write
<1>17. CASE Drop(p)
  BY <1>17, StoppedMoves DEF Drop, Step, TableStep, DropsPeer
<1>18. CASE Down(p)
  BY <1>2, <1>18 DEF Down
<1>19. CASE Timeout(p)
  <2> DEFINE m == [me[p] EXCEPT !.gone = TRUE]
  <2>1. /\ m.route = me[p].route /\ m.user = me[p].user /\ m.peer = me[p].peer /\ m.hdr = me[p].hdr
        /\ m.list = me[p].list /\ m.added = me[p].added /\ m.ok = me[p].ok
    BY <1>1 DEF Fields
  <2>2. UNCHANGED Stores /\ pc[p] # "idle" /\ Goto(p, pc[p], m)
    BY <1>19 DEF Timeout, InDaemon
  <2> HIDE DEF m
  <2>3. pc'[p] = pc[p] /\ me'[p] = m
    BY <2>2, GotoOne
  <2> QED BY <2>1, <2>2, <2>3 DEF Keeps, Passes
<1> QED
  BY <1>4, <1>5, <1>6, <1>7, <1>8, <1>9, <1>10, <1>11, <1>12, <1>13, <1>14, <1>15, <1>16, <1>17,
     <1>18, <1>19 DEF Handle

LEMMA NextMoves ==
  ASSUME ShapeInv, file.hdr \in BOOLEAN, Next
  PROVE  (\E p \in Procs : Moved(p)) \/ Crash \/ Reboot
BY RouteMoves, HandlerMoves, OthersStay DEF Next, Moved

-----------------------------------------------------------------------------
\* Keys.

LEMMA FreeIp ==
  ASSUME FreeIps # {}
  PROVE  /\ Min(FreeIps) \in Ips /\ Min(FreeIps) \in Nat
         /\ \A u \in Users : peers[u].ip # Min(FreeIps)
<1>1. FreeIps \in SUBSET Nat
  BY PeersAssumption, FS_CardinalityType DEF FreeIps
<1>2. Min(FreeIps) \in FreeIps
  BY <1>1, Least
<1> HIDE DEF Min
<1> QED BY <1>1, <1>2 DEF FreeIps

\* What a step does to the daemon's table.
TableChange ==
    \/ UNCHANGED <<peers, keys>>
    \/ \E u \in Users : /\ peers[u] = NoPeer /\ keys' = keys + 1
                        /\ \E i \in Ips : /\ \A v \in Users : peers[v].ip # i
                                          /\ peers' = [peers EXCEPT ![u] = [key |-> keys + 1, ip |-> i]]
    \/ \E u \in Users : keys' = keys /\ peers' = [peers EXCEPT ![u] = NoPeer]

LEMMA MovedTable ==
  ASSUME ShapeInv, NEW p \in Procs, Moved(p)
  PROVE  TableChange
<1>1. pc[p] \notin {"idle", "bulk"} => me[p].user \in Users
  BY DEF ShapeInv
<1>2. CASE Allocates(p)
  BY <1>1, <1>2, FreeIp DEF Allocates, TableChange
<1>3. CASE Undoes(p) \/ DropsPeer(p)
  BY <1>1, <1>3 DEF Undoes, DropsPeer, TableChange
<1>4. CASE StillStep(p) \/ StoreStep(p) \/ RowStep(p)
  BY <1>4 DEF StillStep, Stores, StoreStep, Tables, RowStep, TableChange
<1> QED BY <1>2, <1>3, <1>4 DEF Moved, TableStep

\* Keys and addresses in the table are of one user each; no key comes back.
LEMMA TableKeeps ==
  ASSUME ShapeInv, TableInv, TableChange
  PROVE  /\ TableInv'
         /\ \A k : \A u \in Users : Owned(k, u) => Owned(k, u)'
         /\ \A k : Gone(k) => Gone(k)'
         /\ keys \in Nat /\ keys' \in Nat /\ keys <= keys'
<1>1. keys \in Nat /\ peers \in [Users -> Peers] /\ NoPeer.key = 0 /\ NoPeer.ip = 0
  BY DEF ShapeInv, NoPeer
<1>2. CASE UNCHANGED <<peers, keys>>
  BY <1>1, <1>2 DEF TableInv, Owned, Gone
<1>3. ASSUME NEW u \in Users, peers[u] = NoPeer, keys' = keys + 1,
             NEW i \in Ips, \A v \in Users : peers[v].ip # i,
             peers' = [peers EXCEPT ![u] = [key |-> keys + 1, ip |-> i]]
      PROVE  /\ TableInv'
             /\ \A k : \A v \in Users : Owned(k, v) => Owned(k, v)'
             /\ \A k : Gone(k) => Gone(k)'
  <2>1. /\ peers'[u].key = keys + 1 /\ peers'[u].ip = i
        /\ \A v \in Users \ {u} : peers'[v] = peers[v]
    BY <1>1, <1>3
  <2>2. \A v \in Users : peers[v] # NoPeer => peers[v].key \in 1..keys
    BY DEF TableInv
  <2>3. \A v \in Users : peers[v].key \in 0..keys
    BY <1>1, <2>2
  <2>4. \A k \in 1..keys : k \in 1..keys' /\ k # keys + 1
    BY <1>1, <1>3
  <2>5. TableInv'
    <3>1. ASSUME NEW v \in Users, NEW w \in Users \ {v}, peers'[v] # NoPeer, peers'[w] # NoPeer
          PROVE  peers'[v].key # peers'[w].key /\ peers'[v].ip # peers'[w].ip
      <4>1. CASE v # u /\ w # u
        BY <2>1, <3>1, <4>1 DEF TableInv
      <4>2. CASE v = u
        BY <1>1, <1>3, <2>1, <2>3, <3>1, <4>2
      <4>3. CASE w = u
        BY <1>1, <1>3, <2>1, <2>3, <3>1, <4>3
      <4> QED BY <4>1, <4>2, <4>3
    <3>2. ASSUME NEW v \in Users, peers'[v] # NoPeer
          PROVE  peers'[v].key \in 1..keys' /\ peers'[v].ip \in Ips
      <4>1. CASE v = u
        BY <1>1, <1>3, <2>1, <4>1
      <4>2. CASE v # u
        BY <2>1, <2>4, <3>2, <4>2 DEF TableInv
      <4> QED BY <4>1, <4>2
    <3> QED BY <3>1, <3>2 DEF TableInv
  <2>6. \A k : \A v \in Users : Owned(k, v) => Owned(k, v)'
    BY <2>1, <2>4 DEF Owned
  <2>7. \A k : Gone(k) => Gone(k)'
    BY <2>1, <2>4 DEF Gone
  <2> QED BY <2>5, <2>6, <2>7
<1>4. ASSUME NEW u \in Users, keys' = keys, peers' = [peers EXCEPT ![u] = NoPeer]
      PROVE  /\ TableInv'
             /\ \A k : \A v \in Users : Owned(k, v) => Owned(k, v)'
             /\ \A k : Gone(k) => Gone(k)'
  <2>1. peers'[u] = NoPeer /\ \A v \in Users \ {u} : peers'[v] = peers[v]
    BY <1>1, <1>4
  <2>2. TableInv'
    BY <1>4, <2>1 DEF TableInv
  <2>3. \A k : Gone(k) => Gone(k)'
    BY <1>1, <1>4, <2>1 DEF Gone
  <2>4. \A k : \A v \in Users : Owned(k, v) => Owned(k, v)'
    BY <1>1, <1>4, <2>1 DEF Owned
  <2> QED BY <2>2, <2>3, <2>4
<1> QED BY <1>1, <1>2, <1>3, <1>4 DEF TableChange

\* The peer of a user has a key that is the user's.
LEMMA PeerOwned ==
  ASSUME ShapeInv, TableInv, NEW u \in Users
  PROVE  /\ peers[u] # NoPeer => Owned(peers[u].key, u)
         /\ peers[u] = NoPeer => \A k : Owned(k, u) => Gone(k)
         /\ peers[u].key \in 0..keys /\ peers[u].ip \in Ips \cup {0}
<1>1. keys \in Nat /\ NoPeer.key = 0 /\ NoPeer.ip = 0
  BY DEF ShapeInv, NoPeer
<1>2. \A v \in Users : peers[v] # NoPeer => peers[v].key \in 1..keys /\ peers[v].ip \in Ips
  BY DEF TableInv
<1>3. \A v \in Users : peers[v] = NoPeer => peers[v].key = 0 /\ peers[v].ip = 0
  BY <1>1
<1>4. ASSUME peers[u] # NoPeer PROVE Owned(peers[u].key, u)
  <2>1. peers[u].key \in 1..keys /\ peers[u].key # 0
    BY <1>1, <1>2, <1>4
  <2>2. ASSUME NEW v \in Users, peers[v].key = peers[u].key PROVE v = u
    BY <1>3, <1>4, <2>1, <2>2 DEF TableInv
  <2> QED BY <2>1, <2>2 DEF Owned
<1>5. ASSUME peers[u] = NoPeer, NEW k, Owned(k, u) PROVE Gone(k)
  BY <1>1, <1>3, <1>5 DEF Owned, Gone
<1>6. peers[u].key \in 0..keys /\ peers[u].ip \in Ips \cup {0}
  BY <1>1, <1>2, <1>3
<1> QED BY <1>4, <1>5, <1>6

\* p takes a step: what it owns now, and what the new rows are, is all there is to
\* show, for nobody else loses anything.
LEMMA OwnStep ==
  ASSUME ShapeInv, TableInv, OwnInv, TableChange, NEW p \in Procs,
         \A q \in Procs \ {p} : pc'[q] = pc[q] /\ me'[q] = me[q],
         OwnOf(p)',
         \A u \in Users : /\ rows[u].st # "none" => rows'[u].st # "none" /\ rows'[u].key = rows[u].key
                          /\ rows'[u].st # "none" => Owned(rows[u].key, u)'
                          /\ rows'[u].st = "revoked" => Gone(rows[u].key)',
         \A q \in Procs \ {p} : \A c \in me[q].added :
             /\ rows'[c.user].st = "none"
             /\ \A b \in me'[p].added : b.user # c.user
  PROVE  OwnInv'
<1>1. /\ \A k : \A u \in Users : Owned(k, u) => Owned(k, u)'
      /\ \A k : Gone(k) => Gone(k)'
      /\ keys \in Nat /\ keys' \in Nat /\ keys <= keys'
  BY TableKeeps
<1>2. ASSUME NEW q \in Procs \ {p} PROVE OwnOf(q)'
  <2>1. pc'[q] = pc[q] /\ me'[q] = me[q] /\ OwnOf(q)
    BY DEF OwnInv
  <2>2. /\ me[q].route = "revoke" => me[q].user \in Users
        /\ Provided(q) => me[q].user \in Users
        /\ \A b \in me[q].added : b.user \in Users
    BY NoMeShape DEF ShapeInv, Blocks, Provided
  <2>3. me'[q].route = "revoke" => rows'[me'[q].user].st # "none"
    BY <2>1, <2>2 DEF OwnOf
  <2>4. Provided(q)' => Owned(me[q].peer.key, me[q].user)'
    <3>1. Provided(q)' => Provided(q)
      BY <2>1 DEF Provided
    <3> QED BY <1>1, <2>1, <2>2, <3>1 DEF OwnOf
  <2>5. Adding(q)' => me'[q].peer.ip \in Ips
    BY <2>1 DEF OwnOf, Adding
  <2>6. pc'[q] \in {"open", "write"} => \A b \in me'[q].list : b.key \in 0..keys' /\ b.ip \in Ips
    <3>1. 0..keys \subseteq 0..keys'
      BY <1>1
    <3> QED BY <2>1, <3>1 DEF OwnOf
  <2>7. \A u \in Users : Dropped(q, u)' => Gone(rows[u].key)'
    <3>1. \A u \in Users : Dropped(q, u)' => Dropped(q, u) /\ me[q].route = "revoke" /\ me[q].user = u
      BY <2>1 DEF Dropped
    <3> QED BY <1>1, <2>1, <3>1 DEF OwnOf
  <2>8. \A b \in me'[q].added : rows'[b.user].st = "none" /\ Owned(b.key, b.user)'
    BY <1>1, <2>1, <2>2 DEF OwnOf
  <2> QED BY <2>3, <2>4, <2>5, <2>6, <2>7, <2>8 DEF OwnOf
<1>3. \A q \in Procs : OwnOf(q)'
  BY <1>2
<1>4. \A q \in Procs : \A r \in Procs \ {q} :
         \A b \in me'[q].added, c \in me'[r].added : b.user # c.user
  <2> SUFFICES ASSUME NEW q \in Procs, NEW r \in Procs \ {q},
                      NEW b \in me'[q].added, NEW c \in me'[r].added
               PROVE  b.user # c.user
    OBVIOUS
  <2>1. CASE q = p
    BY <2>1
  <2>2. CASE r = p
    BY <2>2
  <2>3. CASE q # p /\ r # p
    BY <2>3 DEF OwnInv
  <2> QED BY <2>1, <2>2, <2>3
<1> QED BY <1>3, <1>4 DEF OwnInv

\* The rows stay as they are.
LEMMA OwnStay ==
  ASSUME ShapeInv, TableInv, OwnInv, TableChange, NEW p \in Procs, UNCHANGED rows,
         \A q \in Procs \ {p} : pc'[q] = pc[q] /\ me'[q] = me[q],
         OwnOf(p)',
         \A q \in Procs \ {p} : \A c \in me[q].added :
             \A b \in me'[p].added \ me[p].added : b.user # c.user
  PROVE  OwnInv'
<1>1. \A u \in Users : /\ rows[u].st # "none" => Owned(rows[u].key, u)'
                       /\ rows[u].st = "revoked" => Gone(rows[u].key)'
  BY TableKeeps DEF OwnInv
<1>2. \A q \in Procs \ {p} : \A c \in me[q].added :
         /\ rows[c.user].st = "none"
         /\ \A b \in me'[p].added : b.user # c.user
  BY DEF OwnInv, OwnOf
<1> QED BY <1>1, <1>2, OwnStep

\* A process that holds nothing owns nothing.
LEMMA OwnNothing ==
  ASSUME NEW p \in Procs, me'[p].added = {}, me'[p].route # "revoke",
         pc'[p] \in {"idle", "bulk", "get"}
  PROVE  OwnOf(p)'
BY DEF OwnOf, Provided, Adding, Dropped

LEMMA StillOwn ==
  ASSUME ShapeInv, TableInv, OwnInv, NEW p \in Procs, StillStep(p),
         \A q \in Procs \ {p} : pc'[q] = pc[q] /\ me'[q] = me[q]
  PROVE  OwnInv'
<1>1. UNCHANGED <<peers, keys, rows>> /\ TableChange
  BY DEF StillStep, Stores, TableChange
<1>2. OwnOf(p) /\ Shape(pc[p], me[p])
  BY ShapeParts DEF OwnInv
<1>3. \A k, u : Owned(k, u)' = Owned(k, u) /\ Gone(k)' = Gone(k)
  BY <1>1 DEF Owned, Gone
<1>4. ASSUME OwnOf(p)', me'[p].added \subseteq me[p].added PROVE OwnInv'
  BY <1>1, <1>4, OwnStay
<1>5. CASE Starts(p)
  <2>1. OwnOf(p)'
    BY <1>1, <1>5 DEF Starts, OwnOf, Provided, Adding, Dropped
  <2> QED BY <1>4, <1>5, <2>1 DEF Starts
<1>6. CASE Ended(p)
  BY <1>4, <1>6, NoMeShape, OwnNothing DEF Ended
<1>7. CASE Answers(p) /\ ~ Ended(p)
  <2>1. pc'[p] = "answer" /\ Keeps(p) /\ me'[p].ok \in BOOLEAN
    BY <1>7 DEF Answers
  <2>2. me'[p].ok /\ me[p].route # "revoke" => Provided(p)
    BY <1>2, <1>7, <2>1 DEF Answers, Ended, Provided, Shape, Removal
  <2>3. me'[p].ok /\ me[p].route = "revoke" =>
          \/ Dropped(p, me[p].user)
          \/ pc[p] = "find" /\ peers[me[p].user] = NoPeer
    BY <1>2, <1>7, <2>1 DEF Answers, Ended, Dropped, Shape, Provision
  <2>4. me'[p].ok /\ me[p].route = "revoke" => Gone(rows[me[p].user].key)
    <3>1. me[p].user \in Users
      BY <1>2, <1>7 DEF Answers, Shape
    <3>2. me[p].route = "revoke" => Owned(rows[me[p].user].key, me[p].user)
      BY <1>2, <3>1 DEF OwnInv, OwnOf
    <3> QED BY <1>2, <2>3, <3>1, <3>2, PeerOwned DEF OwnOf
  <2>5. Provided(p)' => Owned(me[p].peer.key, me[p].user)'
    BY <1>2, <1>3, <2>1, <2>2 DEF Provided, Keeps, OwnOf
  <2>6. \A u \in Users : Dropped(p, u)' => Gone(rows[u].key)'
    BY <1>1, <1>3, <2>1, <2>4 DEF Dropped, Keeps
  <2>7. OwnOf(p)'
    BY <1>1, <1>2, <1>3, <2>1, <2>5, <2>6 DEF OwnOf, Keeps, Adding
  <2> QED BY <1>4, <2>1, <2>7 DEF Keeps
<1>8. CASE Passes(p)
  <2>1. Provided(p)' => Provided(p)
    BY <1>2, <1>8 DEF Passes, Keeps, Provided, Shape
  <2>2. \A u \in Users : Dropped(p, u)' => Dropped(p, u)
    BY <1>2, <1>8 DEF Passes, Keeps, Dropped, Shape, Provision
  <2>3. Adding(p)' => Adding(p)
    BY <1>8 DEF Passes, Adding
  <2>4. pc'[p] \in {"open", "write"} => pc[p] \in {"open", "write"}
    BY <1>8 DEF Passes
  <2>5. Keeps(p)
    BY <1>8 DEF Passes
  <2>6. OwnOf(p)'
    BY <1>1, <1>2, <1>3, <2>1, <2>2, <2>3, <2>4, <2>5 DEF OwnOf, Keeps
  <2> QED BY <1>4, <2>5, <2>6 DEF Keeps
<1>9. CASE TakesNext(p)
  <2>1. OwnOf(p)'
    BY <1>1, <1>2, <1>3, <1>9 DEF TakesNext, OwnOf, Provided, Adding, Dropped
  <2> QED BY <1>4, <1>9, <2>1 DEF TakesNext
<1>10. CASE Flushes(p)
  <2> DEFINE b0 == Mine(p)
  <2>1. Provided(p)
    BY <1>10 DEF Flushes, Provided
  <2>2. b0.user = me[p].user /\ b0.key = me[p].peer.key /\ b0.ip = me[p].peer.ip
    BY DEF Mine
  <2>3. b0.user \in Users /\ Owned(b0.key, b0.user)
    BY <1>2, <1>10, <2>1, <2>2 DEF OwnOf, Flushes, Shape
  <2>4. rows[b0.user].st = "none"
    BY <1>10, <2>3 DEF Flushes, Taken
  <2>5. \A q \in Procs \ {p} : \A c \in me[q].added : b0.user # c.user
    BY <1>10 DEF Flushes, Locked
  <2>6. me'[p].added = me[p].added \cup {b0} /\ me'[p].route = "bulk" /\ pc'[p] = "bulk"
    BY <1>10 DEF Flushes
  <2> HIDE DEF b0
  <2>7. OwnOf(p)'
    BY <1>1, <1>2, <1>3, <2>3, <2>4, <2>6 DEF OwnOf, Provided, Adding, Dropped
  <2> QED BY <1>1, <2>5, <2>6, <2>7, OwnStay
<1>11. CASE Gets(p)
  <2>1. /\ me'[p].route = me[p].route /\ me'[p].user = me[p].user /\ me'[p].added = me[p].added
        /\ me'[p].peer = peers[me[p].user] /\ pc'[p] \in {"reload", "load", "wgdel"}
        /\ pc'[p] # "load" => me'[p].peer # NoPeer
        /\ me[p].user \in Users
    BY <1>2, <1>11 DEF Gets, Shape
  <2>2. Provided(p)' => Owned(me[p].peer.key, me[p].user)'
    BY <1>3, <2>1, PeerOwned DEF Provided
  <2>3. OwnOf(p)'
    BY <1>1, <1>2, <1>3, <2>1, <2>2 DEF OwnOf, Adding, Dropped
  <2> QED BY <1>4, <2>1, <2>3
<1>12. CASE Reads(p)
  <2>1. /\ me'[p].route = me[p].route /\ me'[p].user = me[p].user /\ me'[p].added = me[p].added
        /\ pc'[p] \in {"list", "open"}
        /\ pc'[p] = "open" => me'[p].list = BlocksOf(Users \ {me[p].user})
    BY <1>12 DEF Reads
  <2>2. \A b \in BlocksOf(Users \ {me[p].user}) : b.key \in 0..keys /\ b.ip \in Ips
    BY PeerOwned DEF BlocksOf, TableInv
  <2>3. OwnOf(p)'
    BY <1>1, <1>2, <1>3, <2>1, <2>2 DEF OwnOf, Provided, Adding, Dropped
  <2> QED BY <1>4, <2>1, <2>3
<1> QED
  BY <1>5, <1>6, <1>7, <1>8, <1>9, <1>10, <1>11, <1>12 DEF StillStep

LEMMA TableOwn ==
  ASSUME ShapeInv, TableInv, OwnInv, NEW p \in Procs, TableStep(p), Moved(p)
  PROVE  OwnInv'
<1>1. /\ UNCHANGED rows /\ TableChange /\ TableInv'
      /\ \A k : \A u \in Users : Owned(k, u) => Owned(k, u)'
      /\ \A k : Gone(k) => Gone(k)'
  BY MovedTable, TableKeeps DEF TableStep, Allocates, Undoes, DropsPeer
<1>2. /\ OwnOf(p) /\ Shape(pc[p], me[p])
      /\ \A q \in Procs \ {p} : pc'[q] = pc[q] /\ me'[q] = me[q]
  BY ShapeParts DEF OwnInv, Moved
<1>3. /\ pc[p] \in {"alloc", "undo", "drop"} /\ me[p].user \in Users
      /\ me[p].route = "revoke" => pc[p] = "drop"
      /\ me[p].route # "revoke" => pc[p] # "drop"
  BY <1>2 DEF TableStep, Allocates, Undoes, DropsPeer, Shape, Provision, Removal
<1>4. ASSUME OwnOf(p)', me'[p].added \subseteq me[p].added PROVE OwnInv'
  BY <1>1, <1>2, <1>4, OwnStay
<1>5. \A b \in me[p].added : rows'[b.user].st = "none" /\ Owned(b.key, b.user)'
  <2>1. \A b \in me[p].added : b.user \in Users
    BY <1>2 DEF Shape, Blocks
  <2> QED BY <1>1, <1>2, <2>1 DEF OwnOf
<1>6. CASE Allocates(p)
  <2> DEFINE n == keys + 1
  <2>1. /\ me'[p].peer.key = n /\ me'[p].peer.ip \in Ips /\ me'[p].peer.key # 0
        /\ peers'[me[p].user] = me'[p].peer
    BY <1>3, <1>6, FreeIp DEF Allocates, ShapeInv
  <2>2. peers'[me[p].user] # NoPeer
    <3>1. me'[p].peer # NoPeer
      BY <2>1 DEF NoPeer
    <3> QED BY <2>1, <3>1
  <2>3. TableInv' /\ peers' \in [Users -> Peers] /\ keys' \in Nat
    <3>1. me'[p].peer \in Peers
      BY <1>6, FreeIp DEF Allocates, ShapeInv, Peers
    <3> QED BY <1>1, <1>6, <3>1 DEF Allocates, ShapeInv
  <2>4. Owned(peers[me[p].user].key, me[p].user)'
    <3>1. me'[p].user = me[p].user
      BY <1>6 DEF Allocates
    <3>2. peers'[me[p].user].key \in 1..keys' /\ NoPeer.key = 0
      BY <1>3, <2>2, <2>3 DEF TableInv, NoPeer
    <3>3. \A v \in Users : peers'[v].key = peers'[me[p].user].key => v = me[p].user
      BY <1>3, <2>2, <2>3, <3>2 DEF TableInv
    <3> QED BY <3>1, <3>2, <3>3 DEF Owned
  <2>5. /\ pc'[p] = "append" /\ me'[p].route = me[p].route /\ me'[p].user = me[p].user
        /\ me'[p].added = me[p].added
    BY <1>6 DEF Allocates
  <2>6. OwnOf(p)'
    BY <1>3, <1>5, <1>6, <2>1, <2>4, <2>5 DEF OwnOf, Dropped, Allocates
  <2> QED BY <1>4, <2>5, <2>6
<1>7. CASE Undoes(p) /\ Ended(p)
  BY <1>4, <1>7, NoMeShape, OwnNothing DEF Ended
<1>8. CASE Undoes(p) /\ ~ Ended(p)
  <2>1. pc'[p] = "answer" /\ Keeps(p) /\ ~ me'[p].ok
    BY <1>8 DEF Undoes
  <2>2. OwnOf(p)'
    BY <1>3, <1>5, <1>8, <2>1 DEF OwnOf, Provided, Adding, Dropped, Keeps, Undoes
  <2> QED BY <1>4, <2>1, <2>2 DEF Keeps
<1>9. CASE DropsPeer(p)
  <2>1. pc'[p] = "fw" /\ Keeps(p) /\ me[p].route = "revoke" /\ peers'[me[p].user] = NoPeer
    BY <1>2, <1>3, <1>9 DEF DropsPeer, ShapeInv
  <2>2. rows[me[p].user].st # "none" /\ Owned(rows[me[p].user].key, me[p].user)
    BY <1>2, <1>3, <2>1 DEF OwnInv, OwnOf
  <2>3. Gone(rows[me[p].user].key)'
    <3>1. PICK k, u : k = rows[me[p].user].key /\ u = me[p].user
      OBVIOUS
    <3>2. Owned(k, u)'
      BY <1>1, <1>3, <2>2, <3>1
    <3>3. keys \in Nat /\ keys' = keys /\ NoPeer.key = 0 /\ peers'[u] = NoPeer
      BY <1>9, <2>1, <3>1 DEF DropsPeer, ShapeInv, NoPeer
    <3>4. Gone(k)'
      BY <3>2, <3>3 DEF Owned, Gone
    <3>5. rows'[me'[p].user].key = k
      BY <1>1, <2>1, <3>1 DEF Keeps
    <3> QED BY <3>4, <3>5 DEF Gone
  <2>4. OwnOf(p)'
    BY <1>1, <1>3, <1>5, <2>1, <2>2, <2>3 DEF OwnOf, Provided, Adding, Dropped, Keeps
  <2> QED BY <1>4, <2>1, <2>4 DEF Keeps
<1> QED BY <1>6, <1>7, <1>8, <1>9 DEF TableStep

LEMMA StoreOwn ==
  ASSUME ShapeInv, TableInv, OwnInv, NEW p \in Procs, StoreStep(p),
         \A q \in Procs \ {p} : pc'[q] = pc[q] /\ me'[q] = me[q]
  PROVE  OwnInv'
<1>1. UNCHANGED <<peers, keys, rows>> /\ TableChange /\ Keeps(p)
  BY DEF StoreStep, Tables, TableChange
<1>2. OwnOf(p) /\ Shape(pc[p], me[p])
  BY ShapeParts DEF OwnInv
<1>3. \A k, u : Owned(k, u)' = Owned(k, u) /\ Gone(k)' = Gone(k)
  BY <1>1 DEF Owned, Gone
<1>4. /\ Provided(p)' => Provided(p)
      /\ \A u \in Users : ~ Dropped(p, u)'
      /\ Adding(p)' => Adding(p)
      /\ pc'[p] \in {"open", "write"} => pc[p] \in {"open", "write"}
  BY <1>2 DEF StoreStep, Keeps, Provided, Dropped, Adding, Shape, Removal
<1>5. OwnOf(p)'
  BY <1>1, <1>2, <1>3, <1>4 DEF OwnOf, Keeps
<1> QED BY <1>1, <1>5, OwnStay DEF Keeps

\* Rows are inserted for users that had none, each with a key of its own.
LEMMA InsertOwn ==
  ASSUME ShapeInv, OwnInv, NEW bs \in SUBSET Blocks, Insert(bs),
         \A b \in bs : rows[b.user].st = "none" /\ Owned(b.key, b.user)
  PROVE  \A u \in Users : \/ rows'[u] = rows[u]
                          \/ /\ rows[u].st = "none" /\ rows'[u].st = "ok" /\ Owned(rows'[u].key, u)
                             /\ \E b \in bs : b.user = u
<1> SUFFICES ASSUME NEW u \in Users, \E b \in bs : b.user = u
             PROVE  rows[u].st = "none" /\ rows'[u].st = "ok" /\ Owned(rows'[u].key, u)
  BY DEF Insert
<1> DEFINE b0 == CHOOSE b \in bs : b.user = u
<1>1. b0 \in bs /\ b0.user = u
  OBVIOUS
<1>2. rows'[u] = [key |-> b0.key, ip |-> b0.ip, st |-> "ok"]
  BY DEF Insert
<1> HIDE DEF b0
<1> QED BY <1>1, <1>2

LEMMA RowOwn ==
  ASSUME ShapeInv, TableInv, OwnInv, NEW p \in Procs, RowStep(p),
         \A q \in Procs \ {p} : pc'[q] = pc[q] /\ me'[q] = me[q]
  PROVE  OwnInv'
<1>1. UNCHANGED <<peers, keys>> /\ TableChange /\ Ended(p)
  BY DEF RowStep, TableChange
<1>2. OwnOf(p) /\ Shape(pc[p], me[p])
  BY ShapeParts DEF OwnInv
<1>3. \A k, u : Owned(k, u)' = Owned(k, u) /\ Gone(k)' = Gone(k)
  BY <1>1 DEF Owned, Gone
<1>4. OwnOf(p)' /\ me'[p].added = {}
  BY <1>1, NoMeShape, OwnNothing DEF Ended
<1>5. \A q \in Procs : \A c \in me[q].added : c.user \in Users /\ rows[c.user].st = "none"
  BY DEF ShapeInv, Blocks, OwnInv, OwnOf
<1>6. ASSUME NEW bs \in SUBSET Blocks, Insert(bs),
             \A b \in bs : rows[b.user].st = "none" /\ Owned(b.key, b.user),
             \A q \in Procs \ {p} : \A c \in me[q].added : \A b \in bs : b.user # c.user
      PROVE  OwnInv'
  <2>1. \A u \in Users : \/ rows'[u] = rows[u]
                         \/ /\ rows[u].st = "none" /\ rows'[u].st = "ok" /\ Owned(rows'[u].key, u)
                            /\ \E b \in bs : b.user = u
    BY <1>6, InsertOwn
  <2>2. \A u \in Users : /\ rows[u].st # "none" => rows'[u].st # "none" /\ rows'[u].key = rows[u].key
                         /\ rows'[u].st # "none" => Owned(rows[u].key, u)'
                         /\ rows'[u].st = "revoked" => Gone(rows[u].key)'
    <3> SUFFICES ASSUME NEW u \in Users
                 PROVE  /\ rows[u].st # "none" => rows'[u].st # "none" /\ rows'[u].key = rows[u].key
                        /\ rows'[u].st # "none" => Owned(rows[u].key, u)'
                        /\ rows'[u].st = "revoked" => Gone(rows[u].key)'
      OBVIOUS
    <3>1. CASE rows'[u] = rows[u]
      BY <1>1, <3>1 DEF OwnInv, Owned, Gone
    <3>2. CASE /\ rows[u].st = "none" /\ rows'[u].st = "ok" /\ Owned(rows'[u].key, u)
      BY <1>1, <3>2 DEF Owned
    <3> QED BY <2>1, <3>1, <3>2
  <2>3. \A q \in Procs \ {p} : \A c \in me[q].added : rows'[c.user].st = "none"
    BY <1>5, <1>6, <2>1
  <2> QED BY <1>1, <1>4, <2>2, <2>3, OwnStep
<1>7. CASE /\ pc[p] = "answer" /\ me[p].route = "download" /\ me[p].ok
           /\ ~ Taken(Mine(p)) /\ ~ Locked(p, Mine(p)) /\ Insert({Mine(p)})
  <2> DEFINE b0 == Mine(p)
  <2>1. b0.user = me[p].user /\ b0.key = me[p].peer.key /\ b0 \in Blocks
    BY <1>2, <1>7 DEF Mine, Blocks, Shape, Peers
  <2>2. Owned(b0.key, b0.user)
    BY <1>2, <1>7, <2>1 DEF OwnOf, Provided
  <2>3. rows[b0.user].st = "none"
    BY <1>7, <2>1 DEF Taken, Blocks
  <2>4. \A q \in Procs \ {p} : \A c \in me[q].added : b0.user # c.user
    BY <1>7 DEF Locked
  <2> HIDE DEF b0
  <2>5. Insert({b0})
    BY <1>7 DEF b0
  <2> QED BY <1>6, <2>1, <2>2, <2>3, <2>4, <2>5
<1>8. CASE pc[p] = "bulk" /\ Insert(me[p].added)
  BY <1>2, <1>6, <1>8 DEF OwnInv, OwnOf, Shape
<1>9. CASE /\ pc[p] = "answer" /\ me[p].route = "revoke" /\ me[p].ok
           /\ rows' = [rows EXCEPT ![me[p].user].st = "revoked"]
  <2>1. me[p].user \in Users /\ Gone(rows[me[p].user].key) /\ rows[me[p].user].st # "none"
    BY <1>2, <1>9 DEF OwnOf, Dropped, Shape
  <2>2. \A u \in Users : /\ u # me[p].user => rows'[u] = rows[u]
                         /\ rows'[u].key = rows[u].key
    BY <1>9, <2>1 DEF ShapeInv
  <2>3. rows'[me[p].user].st = "revoked"
    BY <1>9, <2>1 DEF ShapeInv
  <2>4. \A u \in Users : /\ rows[u].st # "none" => rows'[u].st # "none" /\ rows'[u].key = rows[u].key
                         /\ rows'[u].st # "none" => Owned(rows[u].key, u)'
                         /\ rows'[u].st = "revoked" => Gone(rows[u].key)'
    BY <1>1, <2>1, <2>2, <2>3 DEF OwnInv, Owned, Gone
  <2>5. \A q \in Procs \ {p} : \A c \in me[q].added : rows'[c.user].st = "none"
    BY <1>5, <2>1, <2>2
  <2> QED BY <1>1, <1>4, <2>4, <2>5, OwnStep
<1> QED BY <1>7, <1>8, <1>9 DEF RowStep

\* A death of the daemon or of the host: processes lose what they hold.
LEMMA CutOff ==
  ASSUME ShapeInv, Crash \/ Reboot
  PROVE  /\ UNCHANGED <<peers, keys, rows, file>> /\ TableChange
         /\ \A p \in Procs : \/ pc'[p] = pc[p] /\ me'[p] = me[p] /\ ~ InDaemon(p)
                             \/ Ended(p)
                             \/ pc'[p] = "answer" /\ Keeps(p) /\ me'[p].ok = FALSE
<1>1. UNCHANGED <<peers, keys, rows, file>> /\ TableChange
  BY DEF Crash, Reboot, Daemon, TableChange
<1>2. ASSUME NEW p \in Procs
      PROVE  \/ pc'[p] = pc[p] /\ me'[p] = me[p] /\ ~ InDaemon(p)
             \/ Ended(p)
             \/ pc'[p] = "answer" /\ Keeps(p) /\ me'[p].ok = FALSE
  <2>1. CASE Reboot
    BY <2>1 DEF Reboot, Ended
  <2>2. CASE Crash /\ (~ InDaemon(p) \/ me[p].gone)
    BY <2>2 DEF Crash, Ended
  <2>3. CASE Crash /\ InDaemon(p) /\ ~ me[p].gone
    <3> DEFINE m == [me[p] EXCEPT !.ok = FALSE]
    <3>1. DOMAIN me[p] = Fields
      BY DEF ShapeInv
    <3>2. /\ m.route = me[p].route /\ m.user = me[p].user /\ m.peer = me[p].peer /\ m.hdr = me[p].hdr
          /\ m.list = me[p].list /\ m.added = me[p].added /\ m.ok = FALSE
      BY <3>1 DEF Fields
    <3>3. pc'[p] = "answer" /\ me'[p] = m
      BY <2>3 DEF Crash
    <3> HIDE DEF m
    <3> QED BY <3>2, <3>3 DEF Keeps
  <2> QED BY <2>1, <2>2, <2>3
<1> QED BY <1>1, <1>2

LEMMA CutOffOwn ==
  ASSUME ShapeInv, OwnInv, Crash \/ Reboot
  PROVE  OwnInv'
<1>1. UNCHANGED <<peers, keys, rows>>
  BY CutOff
<1>2. \A k, u : Owned(k, u)' = Owned(k, u) /\ Gone(k)' = Gone(k)
  BY <1>1 DEF Owned, Gone
<1>3. ASSUME NEW p \in Procs PROVE OwnOf(p)' /\ me'[p].added \subseteq me[p].added
  <2>0. OwnOf(p)
    BY DEF OwnInv
  <2>1. CASE pc'[p] = pc[p] /\ me'[p] = me[p]
    BY <1>1, <1>2, <2>0, <2>1 DEF OwnOf, Provided, Adding, Dropped
  <2>2. CASE Ended(p)
    BY <2>2, NoMeShape, OwnNothing DEF Ended
  <2>3. CASE pc'[p] = "answer" /\ Keeps(p) /\ ~ me'[p].ok
    BY <1>1, <1>2, <2>0, <2>3 DEF OwnOf, Provided, Adding, Dropped, Keeps
  <2> QED BY <2>1, <2>2, <2>3, CutOff
<1> QED BY <1>1, <1>2, <1>3 DEF OwnInv

LEMMA NextOwn ==
  ASSUME ShapeInv, file.hdr \in BOOLEAN, TableInv, OwnInv, Next
  PROVE  TableInv' /\ OwnInv'
<1>1. CASE Crash \/ Reboot
  BY <1>1, CutOff, CutOffOwn, TableKeeps
<1>2. ASSUME NEW p \in Procs, Moved(p) PROVE TableInv' /\ OwnInv'
  <2>1. \A q \in Procs \ {p} : pc'[q] = pc[q] /\ me'[q] = me[q]
    BY <1>2 DEF Moved
  <2>2. TableInv'
    BY <1>2, MovedTable, TableKeeps
  <2>3. OwnInv'
    BY <1>2, <2>1, StillOwn, TableOwn, StoreOwn, RowOwn DEF Moved
  <2> QED BY <2>2, <2>3
<1> QED BY <1>1, <1>2, NextMoves

-----------------------------------------------------------------------------
\* Types.

LEMMA FaultsGrow ==
  ASSUME Next
  PROVE  /\ happened \subseteq happened'
         /\ happened \subseteq FaultKinds => happened' \subseteq FaultKinds
<1>1. ASSUME NEW p \in Procs, Handle(p) \/ Route(p) \/ Down(p) \/ Timeout(p)
      PROVE  happened' = happened \/ \E k : Fault(k)
  <2>1. CASE Handle(p)
    BY <2>1 DEF Handle, Get, LoadExisting, Load, Alloc, AppendPeer, LiveAdd, WriteConf, Undo,
                Rebuild, FindPeer, LiveRemove, ReadHeader, ListPeers, Truncate, Write, Drop, NoFault
  <2>2. CASE Route(p)
    BY <2>2 DEF Route, Download, EndDownload, Bulk, BulkNext, BulkFlush, BulkCommit, Revoke,
                EndRevoke, Enter
  <2> QED BY <1>1, <2>1, <2>2 DEF Down, Timeout
<1>2. happened' = happened \/ \E k : Fault(k)
  BY <1>1 DEF Next, Crash, Reboot
<1> QED BY <1>2 DEF Fault

\* The file as a rewrite makes it.
LEMMA ConfType ==
  ASSUME NEW h, NEW bs, NEW n \in Nat,
         \A b \in bs : b.key \in 0..n /\ b.ip \in Ips
  PROVE  /\ Conf(h, bs).hdr = h /\ Conf(h, bs).blocks = bs
         /\ Conf(h, bs).last \in [Ips -> 0..n]
         /\ \A i \in Ips : Conf(h, bs).last[i] # 0 =>
               \E b \in bs : b.key = Conf(h, bs).last[i] /\ b.ip = i
<1> DEFINE f == [i \in Ips |-> IF \E b \in bs : b.ip = i THEN (CHOOSE b \in bs : b.ip = i).key
                            ELSE 0]
<1>1. ASSUME NEW i \in Ips
      PROVE  f[i] \in 0..n /\ (f[i] # 0 => \E b \in bs : b.key = f[i] /\ b.ip = i)
  <2>1. CASE \E b \in bs : b.ip = i
    <3> DEFINE b0 == CHOOSE b \in bs : b.ip = i
    <3>1. b0 \in bs /\ b0.ip = i
      BY <2>1
    <3>2. f[i] = b0.key
      BY <2>1
    <3> HIDE DEF b0, f
    <3> QED BY <3>1, <3>2
  <2>2. CASE ~ \E b \in bs : b.ip = i
    BY <2>2
  <2> QED BY <2>1, <2>2
<1>2. Conf(h, bs) = [hdr |-> h, blocks |-> bs, last |-> f]
  BY DEF Conf
<1>3. f \in [Ips -> 0..n]
  BY <1>1
<1> HIDE DEF f
<1> QED BY <1>1, <1>2, <1>3

LEMMA StepTypes ==
  ASSUME TypeOK, ShapeInv, TableInv, OwnInv, Next
  PROVE  TypeOK'
<1>1. ShapeInv' /\ TableInv' /\ keys \in Nat /\ keys' \in Nat /\ file.hdr \in BOOLEAN
  BY StepShape, NextOwn DEF ShapeInv, TypeOK
<1>2. peers' \in [Users -> PeerType]'
  <2>1. peers' \in [Users -> Peers] /\ NoPeer.key = 0 /\ NoPeer.ip = 0
    BY <1>1 DEF ShapeInv, NoPeer
  <2>2. \A u \in Users : peers'[u].key \in 0..keys' /\ peers'[u].ip \in Ips \cup {0}
    BY <1>1, <2>1 DEF TableInv
  <2> QED BY <2>1, <2>2 DEF PeerType, Peers
<1>3. \A u \in Users : rows'[u].st \in {"none", "ok", "revoked"}
  BY <1>1 DEF ShapeInv
<1>4. happened' \subseteq FaultKinds /\ overlapped' \in BOOLEAN
  BY FaultsGrow DEF TypeOK, Next
<1>5. keys <= keys'
  <2>1. CASE Crash \/ Reboot
    BY <1>1, <2>1 DEF Crash, Reboot, Daemon
  <2>2. CASE \E p \in Procs : Moved(p)
    BY <2>2, MovedTable, TableKeeps
  <2> QED BY <1>1, <2>1, <2>2, NextMoves
<1>6. \A p \in Procs : me'[p].route \in Routes \cup {"none"} /\ me'[p].ok \in BOOLEAN
                       /\ me'[p].hdr \in BOOLEAN
  <2>0. \A p \in Procs : /\ me[p].route \in Routes \cup {"none"}
                         /\ me[p].ok \in BOOLEAN /\ me[p].hdr \in BOOLEAN
    BY DEF TypeOK
  <2>1. CASE Crash \/ Reboot
    BY <2>0, <2>1, CutOff, NoMeFields, NoMeShape DEF Ended, Keeps
  <2>2. ASSUME NEW p \in Procs, Moved(p)
        PROVE  me'[p].route \in Routes \cup {"none"} /\ me'[p].ok \in BOOLEAN /\ me'[p].hdr \in BOOLEAN
    <3>1. CASE Ended(p)
      BY <3>1, NoMeFields, NoMeShape DEF Ended
    <3>2. CASE StillStep(p) /\ ~ Ended(p)
      <4>1. CASE Starts(p)
        BY <4>1 DEF Starts
      <4>2. CASE Answers(p) \/ Passes(p)
        BY <2>0, <3>2, <4>2 DEF Answers, Passes, Keeps
      <4>3. CASE TakesNext(p) \/ Flushes(p) \/ Gets(p) \/ Reads(p)
        <5>1. /\ me'[p].ok = me[p].ok /\ me'[p].hdr \in {me[p].hdr, file.hdr}
              /\ me'[p].route = me[p].route
          <6>1. pc[p] = "bulk" => me[p].route = "bulk"
            BY DEF ShapeInv
          <6> QED BY <4>3, <6>1 DEF TakesNext, Flushes, Gets, Reads
        <5> QED BY <1>1, <2>0, <5>1
      <4> QED BY <3>2, <4>1, <4>2, <4>3 DEF StillStep
    <3>3. CASE (TableStep(p) \/ StoreStep(p)) /\ ~ Ended(p)
      BY <2>0, <3>3 DEF TableStep, Allocates, Undoes, DropsPeer, StoreStep, Keeps
    <3> QED BY <2>2, <3>1, <3>2, <3>3 DEF Moved, RowStep
  <2>3. ASSUME NEW p \in Procs, Moved(p), NEW q \in Procs
        PROVE  me'[q].route \in Routes \cup {"none"} /\ me'[q].ok \in BOOLEAN /\ me'[q].hdr \in BOOLEAN
    <3>1. CASE q = p
      BY <2>2, <2>3, <3>1
    <3>2. CASE q # p
      BY <2>0, <2>3, <3>2 DEF Moved
    <3> QED BY <3>1, <3>2
  <2> QED BY <1>1, <2>1, <2>3, NextMoves
<1>7. /\ file.hdr \in BOOLEAN /\ file.last \in [Ips -> 0..keys'] /\ live \in [Ips -> 0..keys']
      /\ \A b \in file.blocks : b.ip \in Ips
  <2>1. 0..keys \subseteq 0..keys'
    BY <1>1, <1>5
  <2> QED BY <2>1 DEF TypeOK
<1> DEFINE Good == /\ file'.hdr \in BOOLEAN /\ file'.last \in [Ips -> 0..keys']
                   /\ live' \in [Ips -> 0..keys'] /\ \A b \in file'.blocks : b.ip \in Ips
<1>8. CASE Crash \/ Reboot
  <2>1. UNCHANGED file /\ (UNCHANGED live \/ live' = Loaded)
    BY <1>8 DEF Crash, Reboot, Daemon
  <2>2. Loaded \in [Ips -> 0..keys']
    BY <1>1, <1>7 DEF Loaded
  <2>3. Good
    BY <1>7, <2>1, <2>2
  <2> QED BY <1>2, <1>3, <1>4, <1>6, <2>3 DEF TypeOK
<1>9. ASSUME NEW p \in Procs, Moved(p) PROVE Good
  <2>1. CASE StillStep(p) \/ TableStep(p) \/ RowStep(p)
    BY <1>7, <2>1 DEF StillStep, Stores, TableStep, Allocates, Undoes, DropsPeer, RowStep
  <2>2. CASE StoreStep(p)
    <3>1. OwnOf(p) /\ Shape(pc[p], me[p]) /\ keys' = keys
      BY <2>2, ShapeParts DEF OwnInv, StoreStep, Tables
    <3>2. pc[p] \in {"append", "live"} => me[p].peer.key \in 0..keys' /\ me[p].peer.ip \in Ips
      BY <1>1, <3>1 DEF OwnOf, Adding, Provided, Owned, Shape, Provision
    <3>3. CASE pc[p] = "append"
      <4>1. /\ file' = [file EXCEPT !.blocks = @ \cup {Mine(p)}, !.last[me[p].peer.ip] = me[p].peer.key]
            /\ UNCHANGED live
        BY <2>2, <3>3 DEF StoreStep
      <4>2. Mine(p).ip \in Ips
        BY <3>2, <3>3 DEF Mine
      <4> QED BY <1>7, <3>2, <3>3, <4>1, <4>2
    <3>4. CASE pc[p] = "live"
      BY <1>7, <2>2, <3>2, <3>4 DEF StoreStep
    <3>5. CASE pc[p] = "wgdel"
      BY <1>1, <1>7, <2>2, <3>5 DEF StoreStep, Without
    <3>6. CASE pc[p] = "open"
      <4>1. file' = Conf(FALSE, {}) /\ UNCHANGED live
        BY <2>2, <3>6 DEF StoreStep
      <4> DEFINE h == FALSE
                 bs == {}
      <4>2. h \in BOOLEAN /\ \A b \in bs : b.key \in 0..keys' /\ b.ip \in Ips
        OBVIOUS
      <4> HIDE DEF h, bs
      <4>3. /\ Conf(h, bs).hdr \in BOOLEAN /\ Conf(h, bs).blocks = bs
            /\ Conf(h, bs).last \in [Ips -> 0..keys']
        BY <1>1, <4>2, ConfType
      <4> QED BY <1>7, <4>1, <4>2, <4>3 DEF h, bs
    <3>7. CASE pc[p] = "write"
      <4>1. file' = Conf(me[p].hdr, me[p].list) /\ UNCHANGED live
        BY <2>2, <3>7 DEF StoreStep
      <4>2. me[p].hdr \in BOOLEAN /\ \A b \in me[p].list : b.key \in 0..keys' /\ b.ip \in Ips
        BY <3>1, <3>7 DEF TypeOK, OwnOf
      <4> QED BY <1>1, <1>7, <4>1, <4>2, ConfType
    <3> QED BY <2>2, <3>3, <3>4, <3>5, <3>6, <3>7 DEF StoreStep
  <2> QED BY <1>9, <2>1, <2>2 DEF Moved
<1>10. CASE \E p \in Procs : Moved(p)
  BY <1>2, <1>3, <1>4, <1>6, <1>9, <1>10 DEF TypeOK
<1> QED BY <1>1, <1>8, <1>10, NextMoves

-----------------------------------------------------------------------------
\* What the stores name.

\* A tracked peer as a block, and what a block of a tracked peer is.
LEMMA BlockFields ==
  ASSUME NEW b \in BlocksOf(Users)
  PROVE  /\ b.user \in Users /\ peers[b.user] # NoPeer
         /\ b.key = peers[b.user].key /\ b.ip = peers[b.user].ip
BY DEF BlocksOf

LEMMA BlockThere ==
  ASSUME NEW u \in Users, peers[u] # NoPeer
  PROVE  [user |-> u, key |-> peers[u].key, ip |-> peers[u].ip] \in BlocksOf(Users)
BY DEF BlocksOf

LEMMA BlockOne ==
  ASSUME NEW b \in BlocksOf(Users), NEW c \in BlocksOf(Users), b.user = c.user
  PROVE  b = c
BY DEF BlocksOf

\* Tracked peers stay tracked but for the one that is dropped.
LEMMA BlocksStay ==
  ASSUME NEW w, \A u \in Users : u # w => peers'[u] = peers[u],
         NEW b \in BlocksOf(Users), b.user # w
  PROVE  b \in BlocksOf(Users)'
<1>1. PICK u \in Users : /\ peers[u] # NoPeer
                         /\ b = [user |-> u, key |-> peers[u].key, ip |-> peers[u].ip]
  BY DEF BlocksOf
<1>2. peers'[u] = peers[u]
  BY <1>1
<1> QED BY <1>1, <1>2 DEF BlocksOf

\* A step without a fault that would make the stores diverge.
LEMMA SoundStep ==
  ASSUME Next, Sound'
  PROVE  /\ Sound /\ "wg" \notin happened' /\ "disk" \notin happened'
         /\ \A p \in Procs : \A q \in Procs \ {p} : Apart(p, q)'
         /\ \A p, q \in Procs : ~ (Step(p, "append", "live") /\ pc[q] \in {"open", "write"})
<1>1. ~ overlapped /\ ~ Overlap
  BY DEF Next, Sound
<1>2. happened \cap {"wg", "disk"} = {} /\ happened' \cap {"wg", "disk"} = {}
  BY FaultsGrow DEF Sound
<1>3. \A p \in Procs : \A q \in Procs \ {p} : Apart(p, q)'
  BY <1>1 DEF Overlap, Apart
<1>4. \A p, q \in Procs : ~ (Step(p, "append", "live") /\ pc[q] \in {"open", "write"})
  BY <1>1 DEF Overlap
<1> QED BY <1>1, <1>2, <1>3, <1>4 DEF Sound

\* A process keeps its part when the peer, the blocks and the routes it goes by
\* stay.
LEMMA StoreOfStays ==
  ASSUME NEW q \in Procs, StoreOf(q), pc'[q] = pc[q], me'[q] = me[q],
         Removing(q) \/ Adding(q) => peers'[me[q].user] = peers[me[q].user],
         pc[q] \in {"open", "write"} => \A b \in me[q].list : b \in BlocksOf(Users)',
         pc[q] = "drop" => \A b \in file'.blocks : b.user # me[q].user,
         pc[q] \in {"read", "list", "open", "write", "drop"} =>
             \A i \in Ips : live'[i] # me[q].peer.key
  PROVE  StoreOf(q)'
<1>1. pc'[q] # "undo"
  BY DEF StoreOf
<1>2. Removing(q)' \/ Adding(q)' => me'[q].peer = peers'[me'[q].user] /\ me'[q].peer # NoPeer
  BY DEF StoreOf, Removing, Adding
<1>3. pc'[q] \in {"open", "write"} =>
         \A b \in me'[q].list : b \in BlocksOf(Users)' /\ b.user # me'[q].user
  BY DEF StoreOf
<1> QED BY <1>1, <1>2, <1>3 DEF StoreOf

\* Steps that change neither the table, nor the file, nor the interface.
LEMMA StillStore ==
  ASSUME ShapeInv, TableInv, StoreInv, NEW p \in Procs, UNCHANGED <<peers, file, live>>,
         \A q \in Procs \ {p} : pc'[q] = pc[q] /\ me'[q] = me[q],
         StillStep(p) \/ RowStep(p), "wg" \notin happened', "disk" \notin happened'
  PROVE  (\A q \in Procs : StoreOf(q)') /\ StandInv'
<1>1. StandInv' /\ BlocksOf(Users)' = BlocksOf(Users)
  BY DEF StoreInv, StandInv, BlocksOf
<1>2. ASSUME NEW q \in Procs \ {p} PROVE StoreOf(q)'
  <2>1. StoreOf(q)
    BY DEF StoreInv
  <2> QED BY <1>1, <2>1, StoreOfStays DEF StoreOf
<1>3. StoreOf(p) /\ Shape(pc[p], me[p])
  BY ShapeParts DEF StoreInv
<1>4. ASSUME pc'[p] \in {"idle", "get", "bulk", "find", "answer", "reload", "load", "alloc", "fw"}
      PROVE  StoreOf(p)'
  BY <1>4 DEF StoreOf, Removing, Adding
<1>5. ASSUME Starts(p) \/ Ended(p) \/ Answers(p) \/ TakesNext(p) \/ Flushes(p)
      PROVE  StoreOf(p)'
  BY <1>4, <1>5 DEF Starts, Ended, Answers, TakesNext, Flushes
<1>6. ASSUME Passes(p) PROVE StoreOf(p)'
  <2>1. CASE pc'[p] = pc[p]
    BY <1>1, <1>3, <1>6, <2>1 DEF Passes, Keeps, StoreOf, Removing, Adding
  <2> QED BY <1>4, <1>6, <2>1 DEF Passes
<1>7. ASSUME Gets(p) PROVE StoreOf(p)'
  <2>1. CASE pc[p] = "find"
    <3>1. /\ pc'[p] = "wgdel" /\ me'[p].peer = peers'[me'[p].user] /\ me'[p].peer # NoPeer
      BY <1>7, <2>1 DEF Gets
    <3> QED BY <3>1 DEF StoreOf
  <2> QED BY <1>4, <1>7, <2>1 DEF Gets
<1>8. ASSUME Reads(p) PROVE StoreOf(p)'
  <2>1. /\ me'[p].peer = me[p].peer /\ me'[p].user = me[p].user /\ pc'[p] \in {"list", "open"}
        /\ me[p].peer = peers[me[p].user] /\ me[p].peer # NoPeer
        /\ \A i \in Ips : live[i] # me[p].peer.key
    BY <1>3, <1>8 DEF Reads, StoreOf, Removing
  <2>2. pc'[p] = "open" => \A b \in me'[p].list : b \in BlocksOf(Users) /\ b.user # me[p].user
    BY <1>8 DEF Reads, BlocksOf
  <2> QED BY <1>1, <2>1, <2>2 DEF StoreOf
<1>9. StoreOf(p)'
  BY <1>5, <1>6, <1>7, <1>8 DEF StillStep, RowStep
<1> QED BY <1>1, <1>2, <1>9

LEMMA TableStore ==
  ASSUME ShapeInv, TableInv, StoreInv, NEW p \in Procs, TableStep(p), Moved(p)
  PROVE  (\A q \in Procs : StoreOf(q)') /\ StandInv'
<1>1. /\ UNCHANGED <<file, live>> /\ me[p].user \in Users /\ peers \in [Users -> Peers]
      /\ StoreOf(p) /\ ~ Undoes(p)
      /\ \A q \in Procs \ {p} : pc'[q] = pc[q] /\ me'[q] = me[q]
  BY DEF TableStep, Allocates, Undoes, DropsPeer, Moved, ShapeInv, StoreInv, StoreOf
<1>2. \A u \in Users : u # me[p].user => peers'[u] = peers[u]
  BY <1>1 DEF TableStep, Allocates, Undoes, DropsPeer
<1>3. \A q \in Procs : Removing(q) \/ Adding(q) => me[q].user \in Users
  BY DEF ShapeInv, Removing, Adding
<1>4. \A b \in BlocksOf(Users) : b.user # me[p].user => b \in BlocksOf(Users)'
  BY <1>1, <1>2, BlocksStay
<1>5. CASE Allocates(p)
  <2>1. peers[me[p].user] = NoPeer
    BY <1>5 DEF Allocates
  <2>2. \A b \in BlocksOf(Users) : b.user # me[p].user
    BY <2>1, BlockFields
  <2>3. StandInv'
    BY <1>1, <1>4, <2>2 DEF StoreInv, StandInv
  <2>4. ASSUME NEW q \in Procs \ {p} PROVE StoreOf(q)'
    <3>1. StoreOf(q)
      BY DEF StoreInv
    <3>2. Removing(q) \/ Adding(q) => peers'[me[q].user] = peers[me[q].user]
      BY <1>2, <1>3, <2>1, <3>1 DEF StoreOf
    <3>3. pc[q] \in {"open", "write"} => \A b \in me[q].list : b \in BlocksOf(Users)'
      BY <1>4, <2>2, <3>1 DEF StoreOf
    <3>4. /\ pc[q] = "drop" => \A b \in file'.blocks : b.user # me[q].user
          /\ pc[q] \in {"read", "list", "open", "write", "drop"} =>
               \A i \in Ips : live'[i] # me[q].peer.key
      BY <1>1, <3>1 DEF StoreOf
    <3> QED BY <1>1, <3>1, <3>2, <3>3, <3>4, StoreOfStays
  <2>5. StoreOf(p)'
    <3>1. pc'[p] = "append" /\ me'[p].user = me[p].user /\ peers'[me[p].user] = me'[p].peer
      BY <1>1, <1>5 DEF Allocates
    <3>2. me'[p].peer # NoPeer
      <4>1. me'[p].peer.key # 0
        BY <1>5 DEF Allocates, ShapeInv
      <4> QED BY <4>1 DEF NoPeer
    <3> QED BY <3>1, <3>2 DEF StoreOf
  <2> QED BY <2>3, <2>4, <2>5
<1>6. CASE DropsPeer(p)
  <2>1. /\ pc[p] = "drop" /\ pc'[p] = "fw" /\ peers'[me[p].user] = NoPeer
        /\ me[p].peer = peers[me[p].user]
        /\ \A b \in file.blocks : b.user # me[p].user
        /\ \A i \in Ips : live[i] # me[p].peer.key
    BY <1>1, <1>6 DEF DropsPeer, StoreOf, Removing
  <2>2. \A q \in Procs \ {p} : ~ Removing(q) /\ ~ (Adding(q) /\ me[q].user = me[p].user)
    BY <2>1 DEF StoreInv, Apart, Removing
  <2>3. StandInv'
    <3>1. file'.blocks \subseteq BlocksOf(Users)'
      BY <1>1, <1>4, <2>1 DEF StoreInv, StandInv
    <3>2. ASSUME NEW i \in Ips, live'[i] # 0
          PROVE  \E b \in BlocksOf(Users)' : b.key = live'[i] /\ b.ip = i
      <4>1. PICK b \in BlocksOf(Users) : b.key = live[i] /\ b.ip = i
        BY <1>1, <3>2 DEF StoreInv, StandInv
      <4>2. b.user # me[p].user
        BY <2>1, <4>1, BlockFields
      <4> QED BY <1>1, <1>4, <4>1, <4>2
    <3>3. \A i \in Ips : file'.last[i] # 0 => \E b \in file'.blocks : b.key = file'.last[i] /\ b.ip = i
      BY <1>1 DEF StoreInv, StandInv
    <3> QED BY <3>1, <3>2, <3>3 DEF StandInv
  <2>4. ASSUME NEW q \in Procs \ {p} PROVE StoreOf(q)'
    <3>1. StoreOf(q) /\ ~ Removing(q) /\ ~ (Adding(q) /\ me[q].user = me[p].user)
      BY <2>2 DEF StoreInv
    <3>2. Adding(q) => peers'[me[q].user] = peers[me[q].user]
      BY <1>2, <1>3, <3>1
    <3>3. pc[q] \notin {"read", "list", "open", "write", "drop"}
      BY <3>1 DEF Removing
    <3> QED BY <1>1, <3>1, <3>2, <3>3, StoreOfStays
  <2>5. StoreOf(p)'
    BY <2>1 DEF StoreOf, Removing, Adding
  <2> QED BY <2>3, <2>4, <2>5
<1> QED BY <1>1, <1>5, <1>6 DEF TableStep

LEMMA ConfLast ==
  ASSUME NEW hdr, NEW bs, NEW i \in Ips, Conf(hdr, bs).last[i] # 0
  PROVE  \E b \in bs : b.key = Conf(hdr, bs).last[i] /\ b.ip = i
<1>1. \E b \in bs : b.ip = i
  BY DEF Conf
<1>2. Conf(hdr, bs).last[i] = (CHOOSE b \in bs : b.ip = i).key
  BY <1>1 DEF Conf
<1> QED BY <1>1, <1>2

\* Steps that change the file or the interface.
LEMMA StoreStore ==
  ASSUME TypeOK, ShapeInv, TableInv, StoreInv, NEW p \in Procs, StoreStep(p), Moved(p),
         \A q \in Procs : ~ (Step(p, "append", "live") /\ pc[q] \in {"open", "write"})
  PROVE  (\A q \in Procs : StoreOf(q)') /\ StandInv'
<1>1. /\ UNCHANGED peers /\ Keeps(p) /\ me[p].user \in Users /\ StoreOf(p)
      /\ \A q \in Procs \ {p} : pc'[q] = pc[q] /\ me'[q] = me[q]
  BY DEF StoreStep, Tables, Moved, ShapeInv, StoreInv
<1>2. BlocksOf(Users)' = BlocksOf(Users)
  BY <1>1 DEF BlocksOf
<1>3. StandInv
  BY DEF StoreInv
<1>4. ASSUME NEW q \in Procs \ {p},
             pc[q] = "drop" => \A b \in file'.blocks : b.user # me[q].user,
             pc[q] \in {"read", "list", "open", "write", "drop"} =>
               \A i \in Ips : live'[i] # me[q].peer.key
      PROVE  StoreOf(q)'
  <2>1. StoreOf(q)
    BY DEF StoreInv
  <2>2. Removing(q) \/ Adding(q) => peers'[me[q].user] = peers[me[q].user]
    BY <1>1
  <2>3. pc[q] \in {"open", "write"} => \A b \in me[q].list : b \in BlocksOf(Users)'
    BY <1>2, <2>1 DEF StoreOf
  <2> QED BY <1>1, <1>4, <2>1, <2>2, <2>3, StoreOfStays
<1>5. ASSUME Adding(p)
      PROVE  /\ Mine(p) \in BlocksOf(Users) /\ Mine(p).key = me[p].peer.key /\ Mine(p).ip = me[p].peer.ip
             /\ \A q \in Procs \ {p} : Removing(q) => me[q].user # me[p].user
  <2>1. me[p].peer = peers[me[p].user] /\ me[p].peer # NoPeer
    BY <1>1, <1>5 DEF StoreOf
  <2>2. Mine(p) \in BlocksOf(Users)
    BY <1>1, <2>1, BlockThere DEF Mine
  <2>3. \A q \in Procs \ {p} : Removing(q) => me[q].user # me[p].user
    BY <1>5 DEF StoreInv, Apart
  <2> QED BY <2>2, <2>3 DEF Mine
<1>6. CASE pc[p] = "append"
  <2>1. /\ UNCHANGED live /\ Step(p, "append", "live") /\ pc'[p] = "live"
        /\ file' = [file EXCEPT !.blocks = @ \cup {Mine(p)}, !.last[me[p].peer.ip] = me[p].peer.key]
    BY <1>6 DEF StoreStep
  <2>2. file'.blocks = file.blocks \cup {Mine(p)}
    BY <2>1
  <2>3. ASSUME NEW i \in Ips PROVE file'.last[i] = IF i = me[p].peer.ip THEN me[p].peer.key ELSE file.last[i]
    BY <2>1 DEF TypeOK
  <2>4. Adding(p)
    BY <1>6 DEF Adding
  <2>5. StandInv'
    <3>1. file'.blocks \subseteq BlocksOf(Users)'
      BY <1>2, <1>3, <1>5, <2>2, <2>4 DEF StandInv
    <3>2. \A i \in Ips : live'[i] # 0 => \E b \in BlocksOf(Users)' : b.key = live'[i] /\ b.ip = i
      BY <1>2, <1>3, <2>1 DEF StandInv
    <3>3. ASSUME NEW i \in Ips, file'.last[i] # 0
          PROVE  \E b \in file'.blocks : b.key = file'.last[i] /\ b.ip = i
      <4>1. CASE i = me[p].peer.ip
        BY <1>5, <2>2, <2>3, <2>4, <4>1
      <4>2. CASE i # me[p].peer.ip
        BY <1>3, <2>2, <2>3, <3>3, <4>2 DEF StandInv
      <4> QED BY <4>1, <4>2
    <3> QED BY <3>1, <3>2, <3>3 DEF StandInv
  <2>6. ASSUME NEW q \in Procs \ {p} PROVE StoreOf(q)'
    <3>1. StoreOf(q)
      BY DEF StoreInv
    <3>2. pc[q] = "drop" => \A b \in file'.blocks : b.user # me[q].user
      BY <1>5, <2>2, <2>4, <3>1 DEF StoreOf, Mine, Removing
    <3>3. pc[q] \in {"read", "list", "open", "write", "drop"} => \A i \in Ips : live'[i] # me[q].peer.key
      BY <2>1, <3>1 DEF StoreOf
    <3> QED BY <1>4, <3>2, <3>3
  <2>7. StoreOf(p)'
    BY <1>1, <2>1, <2>4 DEF StoreOf, Keeps, Removing, Adding
  <2> QED BY <2>5, <2>6, <2>7
<1>7. CASE pc[p] = "live"
  <2>1. UNCHANGED file /\ pc'[p] = "conf" /\ live' = [live EXCEPT ![me[p].peer.ip] = me[p].peer.key]
    BY <1>7 DEF StoreStep
  <2>2. \A i \in Ips : live'[i] = IF i = me[p].peer.ip THEN me[p].peer.key ELSE live[i]
    BY <2>1 DEF TypeOK
  <2>3. Adding(p)
    BY <1>7 DEF Adding
  <2>4. StandInv'
    <3>1. ASSUME NEW i \in Ips, live'[i] # 0
          PROVE  \E b \in BlocksOf(Users)' : b.key = live'[i] /\ b.ip = i
      <4>1. CASE i = me[p].peer.ip
        BY <1>2, <1>5, <2>2, <2>3, <4>1
      <4>2. CASE i # me[p].peer.ip
        BY <1>2, <1>3, <2>2, <3>1, <4>2 DEF StandInv
      <4> QED BY <4>1, <4>2
    <3> QED BY <1>2, <1>3, <2>1, <3>1 DEF StandInv
  <2>5. ASSUME NEW q \in Procs \ {p} PROVE StoreOf(q)'
    <3>1. StoreOf(q)
      BY DEF StoreInv
    <3>2. ASSUME Removing(q) PROVE me[q].peer.key # me[p].peer.key
      <4>1. me[q].user \in Users /\ me[q].user # me[p].user
        BY <1>5, <2>3, <3>2 DEF ShapeInv, Removing
      <4>2. /\ me[q].peer = peers[me[q].user] /\ me[q].peer # NoPeer
            /\ me[p].peer = peers[me[p].user] /\ me[p].peer # NoPeer
        BY <1>1, <2>3, <3>1, <3>2 DEF StoreOf
      <4> QED BY <1>1, <4>1, <4>2 DEF TableInv
    <3>3. pc[q] \in {"read", "list", "open", "write", "drop"} => \A i \in Ips : live'[i] # me[q].peer.key
      BY <2>2, <3>1, <3>2 DEF StoreOf, Removing
    <3>4. pc[q] = "drop" => \A b \in file'.blocks : b.user # me[q].user
      BY <2>1, <3>1 DEF StoreOf
    <3> QED BY <1>4, <3>3, <3>4
  <2>6. StoreOf(p)'
    BY <1>1, <2>1, <2>3 DEF StoreOf, Keeps, Removing, Adding
  <2> QED BY <2>4, <2>5, <2>6
<1>8. ASSUME Removing(p), NEW q \in Procs \ {p} PROVE StoreOf(q)'
  <2>1. ~ Removing(q)
    BY <1>8 DEF StoreInv, Apart
  <2> QED BY <1>4, <2>1 DEF Removing
<1>9. CASE pc[p] = "wgdel"
  <2>1. UNCHANGED file /\ pc'[p] = "read" /\ live' = Without(live, me[p].peer.key)
    BY <1>9 DEF StoreStep
  <2>2. \A i \in Ips : live'[i] = IF live[i] = me[p].peer.key THEN 0 ELSE live[i]
    BY <2>1 DEF Without
  <2>3. StandInv'
    <3>1. \A i \in Ips : live'[i] # 0 => \E b \in BlocksOf(Users)' : b.key = live'[i] /\ b.ip = i
      BY <1>2, <1>3, <2>2 DEF StandInv
    <3> QED BY <1>2, <1>3, <2>1, <3>1 DEF StandInv
  <2>4. StoreOf(p)'
    <3>1. me[p].peer = peers[me[p].user] /\ me[p].peer # NoPeer
      BY <1>1, <1>9 DEF StoreOf, Removing
    <3>2. me[p].peer.key # 0
      BY <1>1, <3>1 DEF TableInv
    <3>3. \A i \in Ips : live'[i] # me[p].peer.key
      BY <2>2, <3>2
    <3> QED BY <1>1, <2>1, <3>1, <3>3 DEF StoreOf, Keeps
  <2>5. \A q \in Procs \ {p} : StoreOf(q)'
    BY <1>8, <1>9 DEF Removing
  <2> QED BY <2>3, <2>4, <2>5
<1>10. CASE pc[p] = "open"
  <2>1. UNCHANGED live /\ pc'[p] = "write" /\ file' = Conf(FALSE, {})
    BY <1>10 DEF StoreStep
  <2>2. file'.blocks = {}
    BY <2>1 DEF Conf
  <2>3. \A i \in Ips : file'.last[i] = 0
    BY <2>1 DEF Conf
  <2>4. StandInv'
    <3>1. \A i \in Ips : live'[i] # 0 => \E b \in BlocksOf(Users)' : b.key = live'[i] /\ b.ip = i
      BY <1>2, <1>3, <2>1 DEF StandInv
    <3>2. file'.blocks \subseteq BlocksOf(Users)'
      BY <2>2
    <3> QED BY <2>3, <3>1, <3>2 DEF StandInv
  <2>5. StoreOf(p)'
    BY <1>1, <1>2, <1>10, <2>1 DEF StoreOf, Keeps, Removing
  <2>6. \A q \in Procs \ {p} : StoreOf(q)'
    BY <1>8, <1>10 DEF Removing
  <2> QED BY <2>4, <2>5, <2>6
<1>11. CASE pc[p] = "write"
  <2>1. UNCHANGED live /\ pc'[p] = "drop" /\ file' = Conf(me[p].hdr, me[p].list)
    BY <1>11 DEF StoreStep
  <2>2. file'.blocks = me[p].list
    BY <2>1 DEF Conf
  <2>3. \A b \in me[p].list : b \in BlocksOf(Users) /\ b.user # me[p].user
    BY <1>1, <1>11 DEF StoreOf
  <2>4. StandInv'
    <3>1. \A i \in Ips : file'.last[i] # 0 => \E b \in file'.blocks : b.key = file'.last[i] /\ b.ip = i
      BY <2>1, <2>2, ConfLast
    <3>2. file'.blocks \subseteq BlocksOf(Users)'
      BY <1>2, <2>2, <2>3
    <3> QED BY <1>2, <1>3, <2>1, <3>1, <3>2 DEF StandInv
  <2>5. StoreOf(p)'
    <3>1. /\ me[p].peer = peers[me[p].user] /\ me[p].peer # NoPeer
          /\ \A i \in Ips : live[i] # me[p].peer.key
      BY <1>1, <1>11 DEF StoreOf, Removing
    <3> QED BY <1>1, <2>1, <2>2, <2>3, <3>1 DEF StoreOf, Keeps
  <2>6. \A q \in Procs \ {p} : StoreOf(q)'
    BY <1>8, <1>11 DEF Removing
  <2> QED BY <2>4, <2>5, <2>6
<1> QED BY <1>6, <1>7, <1>9, <1>10, <1>11 DEF StoreStep

\* The daemon dies, or the host does.
LEMMA CutOffStore ==
  ASSUME ShapeInv, StoreInv, Crash \/ Reboot
  PROVE  (\A q \in Procs : StoreOf(q)') /\ StandInv'
<1>1. BlocksOf(Users)' = BlocksOf(Users) /\ UNCHANGED file /\ StandInv
  BY DEF Crash, Reboot, Daemon, BlocksOf, StoreInv
<1>2. ASSUME NEW q \in Procs PROVE StoreOf(q)'
  <2>1. pc'[q] \in {"idle", "bulk", "answer"}
    BY DEF Crash, Reboot, InDaemon
  <2> QED BY <2>1 DEF StoreOf, Removing, Adding
<1>3. \A i \in Ips : live'[i] # 0 => live'[i] = live[i] \/ live'[i] = file.last[i]
  BY DEF Crash, Reboot, Daemon, Loaded
<1>4. \A i \in Ips : live'[i] # 0 => \E b \in BlocksOf(Users)' : b.key = live'[i] /\ b.ip = i
  BY <1>1, <1>3 DEF StandInv
<1>5. StandInv'
  BY <1>1, <1>4 DEF StandInv
<1> QED BY <1>2, <1>5

LEMMA NextStore ==
  ASSUME TypeOK, ShapeInv, TableInv, Sound => StoreInv, Next, Sound'
  PROVE  StoreInv'
<1>1. StoreInv /\ "wg" \notin happened' /\ "disk" \notin happened'
  BY SoundStep
<1>2. CASE Crash \/ Reboot
  BY <1>1, <1>2, CutOffStore, SoundStep DEF StoreInv
<1>3. ASSUME NEW p \in Procs, Moved(p) PROVE (\A q \in Procs : StoreOf(q)') /\ StandInv'
  <2>1. CASE StillStep(p) \/ RowStep(p)
    <3>1. UNCHANGED <<peers, file, live>>
      BY <2>1 DEF StillStep, Stores, RowStep
    <3>2. \A q \in Procs \ {p} : pc'[q] = pc[q] /\ me'[q] = me[q]
      BY <1>3 DEF Moved
    <3> QED BY <1>1, <2>1, <3>1, <3>2, StillStore
  <2>2. CASE TableStep(p)
    BY <1>1, <1>3, <2>2, TableStore
  <2>3. CASE StoreStep(p)
    BY <1>1, <1>3, <2>3, StoreStore, SoundStep
  <2> QED BY <1>3, <2>1, <2>2, <2>3 DEF Moved
<1>4. CASE \E p \in Procs : Moved(p)
  BY <1>3, <1>4, SoundStep DEF StoreInv
<1> QED BY <1>2, <1>4, NextMoves DEF TypeOK

-----------------------------------------------------------------------------
\* What the stores lack.

\* Who is where, after a step of p alone.
LEMMA AtStays ==
  ASSUME NEW p \in Procs, \A q \in Procs \ {p} : pc'[q] = pc[q] /\ me'[q] = me[q],
         NEW l, NEW u, At(l, u), pc[p] \in l /\ me[p].user = u => pc'[p] \in l /\ me'[p].user = u
  PROVE  At(l, u)'
<1>1. PICK q \in Procs : pc[q] \in l /\ me[q].user = u
  BY DEF At
<1>2. CASE q = p
  BY <1>1, <1>2 DEF At
<1>3. CASE q # p
  BY <1>1, <1>3 DEF At
<1> QED BY <1>2, <1>3

LEMMA AtNow ==
  ASSUME NEW p \in Procs, NEW l, NEW u, pc'[p] \in l, me'[p].user = u
  PROVE  At(l, u)'
BY DEF At

LEMMA WritingStays ==
  ASSUME NEW p \in Procs, \A q \in Procs \ {p} : pc'[q] = pc[q], Writing,
         pc[p] = "write" => pc'[p] = "write"
  PROVE  Writing'
<1>1. PICK q \in Procs : pc[q] = "write"
  BY DEF Writing
<1>2. CASE q = p
  BY <1>1, <1>2 DEF Writing
<1>3. CASE q # p
  BY <1>1, <1>3 DEF Writing
<1> QED BY <1>2, <1>3

LEMMA BlocksBefore ==
  ASSUME NEW w, \A u \in Users : u # w => peers'[u] = peers[u],
         NEW b \in BlocksOf(Users)', b.user # w
  PROVE  b \in BlocksOf(Users)
<1>1. PICK u \in Users : /\ peers'[u] # NoPeer
                         /\ b = [user |-> u, key |-> peers'[u].key, ip |-> peers'[u].ip]
  BY DEF BlocksOf
<1>2. peers'[u] = peers[u]
  BY <1>1
<1> QED BY <1>1, <1>2 DEF BlocksOf

\* Steps that change neither the table, nor the file, nor the interface.
LEMMA StillComplete ==
  ASSUME TypeOK, ShapeInv, StoreInv, CompleteInv, NEW p \in Procs, UNCHANGED <<peers, file, live>>,
         \A q \in Procs \ {p} : pc'[q] = pc[q] /\ me'[q] = me[q],
         StillStep(p) \/ RowStep(p), "wg" \notin happened', "disk" \notin happened'
  PROVE  CompleteInv'
<1> DEFINE Busy == {"append", "live", "read", "list", "open", "write", "drop"}
<1>1. BlocksOf(Users)' = BlocksOf(Users)
  BY DEF BlocksOf
<1>2. pc[p] \in Busy \/ pc'[p] \in Busy => (pc'[p] = pc[p] /\ Passes(p)) \/ Reads(p)
  BY DEF StillStep, RowStep, Starts, Ended, Answers, TakesNext, Flushes, Gets, Passes
<1>3. pc[p] \in Busy \/ pc'[p] \in Busy =>
         /\ me'[p].user = me[p].user
         /\ \/ pc'[p] = pc[p] /\ me'[p].hdr = me[p].hdr /\ me'[p].list = me[p].list
            \/ pc[p] = "read" /\ pc'[p] = "list" /\ me'[p].hdr = file.hdr
            \/ /\ pc[p] = "list" /\ pc'[p] = "open" /\ me'[p].hdr = me[p].hdr
               /\ me'[p].list = BlocksOf(Users \ {me[p].user})
  BY <1>2 DEF Passes, Keeps, Reads
<1>4. Writing => Writing'
  BY <1>3, WritingStays
<1>5. ASSUME NEW u
      PROVE  /\ At({"append"}, u) => At({"append"}, u)'
             /\ At({"append", "drop"}, u) => At({"append", "drop"}, u)'
             /\ At(Busy, u) => At(Busy, u)'
  BY <1>3, AtStays
<1>6. file'.hdr \/ Writing'
  BY <1>4 DEF CompleteInv
<1>7. ASSUME NEW q \in Procs, pc'[q] \in {"list", "open", "write"} PROVE me'[q].hdr
  <2>1. CASE q # p
    BY <1>7, <2>1 DEF CompleteInv
  <2>2. CASE q = p /\ pc[p] = "read"
    <3>1. \A r \in Procs : pc[r] # "write"
      BY <2>2 DEF StoreInv, Apart, Removing
    <3>2. file.hdr
      BY <3>1 DEF CompleteInv, Writing
    <3> QED BY <1>3, <1>7, <2>2, <3>2
  <2>3. CASE q = p /\ pc[p] # "read"
    BY <1>3, <1>7, <2>3 DEF CompleteInv
  <2> QED BY <2>1, <2>2, <2>3
<1>8. ASSUME NEW b \in BlocksOf(Users)
      PROVE  InFile(b)' /\ InLive(b)' /\ \A q \in Procs : pc'[q] \in {"open", "write"} => InList(q, b)'
  <2>1. InFile(b) /\ InLive(b) /\ \A q \in Procs : pc[q] \in {"open", "write"} => InList(q, b)
    BY DEF CompleteInv
  <2>2. InFile(b)'
    BY <1>4, <2>1, <1>5 DEF InFile
  <2>3. InLive(b)'
    BY <2>1, <1>5 DEF InLive
  <2>4. ASSUME NEW q \in Procs, pc'[q] \in {"open", "write"} PROVE InList(q, b)'
    <3>1. CASE pc[q] \in {"open", "write"} /\ me'[q].list = me[q].list /\ me'[q].user = me[q].user
      BY <2>1, <1>5, <3>1 DEF InList
    <3>2. CASE me'[q].list = BlocksOf(Users \ {me[q].user}) /\ me'[q].user = me[q].user
      <4>1. b \in BlocksOf(Users \ {me[q].user}) \/ b.user = me[q].user
        BY DEF BlocksOf
      <4> QED BY <3>2, <4>1 DEF InList
    <3> QED BY <1>3, <2>4, <3>1, <3>2
  <2> QED BY <2>2, <2>3, <2>4
<1> QED BY <1>1, <1>6, <1>7, <1>8 DEF CompleteInv

LEMMA TableComplete ==
  ASSUME ShapeInv, StoreInv, CompleteInv, NEW p \in Procs, TableStep(p), Moved(p)
  PROVE  CompleteInv'
<1> DEFINE Busy == {"append", "live", "read", "list", "open", "write", "drop"}
<1>1. /\ UNCHANGED <<file, live>> /\ me[p].user \in Users /\ me'[p].user = me[p].user
      /\ StoreOf(p) /\ peers \in [Users -> Peers]
      /\ \A q \in Procs \ {p} : pc'[q] = pc[q] /\ me'[q] = me[q]
      /\ (pc[p] = "alloc" /\ pc'[p] = "append" /\ Allocates(p)) \/ (pc[p] = "drop" /\ pc'[p] = "fw" /\ DropsPeer(p))
  BY DEF TableStep, Allocates, Undoes, DropsPeer, Keeps, Moved, ShapeInv, StoreInv, StoreOf
<1>2. \A u \in Users : u # me[p].user => peers'[u] = peers[u]
  BY <1>1 DEF Allocates, DropsPeer
<1>3. Writing => Writing'
  BY <1>1, WritingStays
<1>4. ASSUME NEW u, u # me[p].user
      PROVE  /\ At({"append"}, u) => At({"append"}, u)'
             /\ At({"append", "drop"}, u) => At({"append", "drop"}, u)'
             /\ At(Busy, u) => At(Busy, u)'
  BY <1>1, <1>4, AtStays
<1>5. file'.hdr \/ Writing'
  BY <1>1, <1>3 DEF CompleteInv
<1>6. \A q \in Procs : pc'[q] \in {"list", "open", "write"} => me'[q].hdr
  BY <1>1 DEF CompleteInv
<1>7. ASSUME NEW b \in BlocksOf(Users)', b.user # me[p].user
      PROVE  InFile(b)' /\ InLive(b)' /\ \A q \in Procs : pc'[q] \in {"open", "write"} => InList(q, b)'
  <2>1. b \in BlocksOf(Users)
    BY <1>2, <1>7, BlocksBefore
  <2>2. InFile(b) /\ InLive(b) /\ \A q \in Procs : pc[q] \in {"open", "write"} => InList(q, b)
    BY <2>1 DEF CompleteInv
  <2>3. InFile(b)' /\ InLive(b)'
    BY <1>1, <1>3, <1>4, <1>7, <2>2 DEF InFile, InLive
  <2>4. ASSUME NEW q \in Procs, pc'[q] \in {"open", "write"} PROVE InList(q, b)'
    BY <1>1, <1>4, <1>7, <2>2, <2>4 DEF InList
  <2> QED BY <2>3, <2>4
<1>8. ASSUME NEW b \in BlocksOf(Users)', b.user = me[p].user
      PROVE  InFile(b)' /\ InLive(b)' /\ \A q \in Procs : pc'[q] \in {"open", "write"} => InList(q, b)'
  <2>1. pc'[p] = "append"
    <3>1. peers'[b.user] # NoPeer
      BY <1>8 DEF BlocksOf
    <3> QED BY <1>1, <1>8, <3>1 DEF DropsPeer
  <2>2. At({"append"}, b.user)' /\ At({"append", "drop"}, b.user)' /\ At(Busy, b.user)'
    BY <1>1, <1>8, <2>1, AtNow
  <2> QED BY <2>2 DEF InFile, InLive, InList
<1> QED BY <1>5, <1>6, <1>7, <1>8 DEF CompleteInv

\* Steps that change the file or the interface.
LEMMA StoreComplete ==
  ASSUME TypeOK, ShapeInv, TableInv, StoreInv, CompleteInv, NEW p \in Procs, StoreStep(p), Moved(p),
         \A q \in Procs : ~ (Step(p, "append", "live") /\ pc[q] \in {"open", "write"})
  PROVE  CompleteInv'
<1> DEFINE Busy == {"append", "live", "read", "list", "open", "write", "drop"}
<1>1. /\ UNCHANGED peers /\ Keeps(p) /\ me[p].user \in Users /\ StoreOf(p)
      /\ \A q \in Procs \ {p} : pc'[q] = pc[q] /\ me'[q] = me[q]
      /\ me'[p].user = me[p].user /\ me'[p].hdr = me[p].hdr /\ me'[p].list = me[p].list
  BY DEF StoreStep, Tables, Moved, ShapeInv, StoreInv, Keeps
<1>2. BlocksOf(Users)' = BlocksOf(Users)
  BY <1>1 DEF BlocksOf
<1>3. /\ file.hdr \/ Writing
      /\ \A q \in Procs : pc[q] \in {"list", "open", "write"} => me[q].hdr
      /\ \A b \in BlocksOf(Users) :
           InFile(b) /\ InLive(b) /\ \A q \in Procs : pc[q] \in {"open", "write"} => InList(q, b)
  BY DEF CompleteInv
<1>4. ASSUME NEW b \in BlocksOf(Users), b.user = me[p].user, Removing(p) \/ Adding(p)
      PROVE  b.key = me[p].peer.key /\ b.ip = me[p].peer.ip /\ b = Mine(p)
  <2>1. me[p].peer = peers[me[p].user] /\ me[p].peer # NoPeer
    BY <1>1, <1>4 DEF StoreOf
  <2>2. Mine(p) \in BlocksOf(Users)
    BY <1>1, <2>1, BlockThere DEF Mine
  <2> QED BY <1>4, <2>2, BlockOne DEF Mine
<1>5. ASSUME NEW b \in BlocksOf(Users), b.user # me[p].user, Removing(p) \/ Adding(p)
      PROVE  b.key # me[p].peer.key /\ b.ip # me[p].peer.ip
  <2>1. me[p].peer = peers[me[p].user] /\ me[p].peer # NoPeer
    BY <1>1, <1>5 DEF StoreOf
  <2>2. b.user \in Users /\ peers[b.user] # NoPeer /\ b.key = peers[b.user].key /\ b.ip = peers[b.user].ip
    BY BlockFields
  <2> QED BY <1>1, <1>5, <2>1, <2>2 DEF TableInv
<1>6. ASSUME NEW b \in BlocksOf(Users) PROVE b.ip \in Ips
  BY BlockFields DEF TableInv
<1>7. CASE pc[p] = "append"
  <2>1. /\ UNCHANGED live /\ Step(p, "append", "live") /\ pc'[p] = "live"
        /\ file' = [file EXCEPT !.blocks = @ \cup {Mine(p)}, !.last[me[p].peer.ip] = me[p].peer.key]
    BY <1>7 DEF StoreStep
  <2>2. file'.blocks = file.blocks \cup {Mine(p)} /\ file'.hdr = file.hdr
    BY <2>1
  <2>3. Writing => Writing'
    BY <1>1, <1>7, WritingStays
  <2>4. \A q \in Procs : pc[q] \notin {"open", "write"} /\ pc'[q] \notin {"open", "write"}
    BY <1>1, <2>1
  <2>5. \A q \in Procs : pc'[q] \in {"list", "open", "write"} => me'[q].hdr
    BY <1>1, <1>3, <2>1
  <2>6. ASSUME NEW b \in BlocksOf(Users) PROVE InFile(b)' /\ InLive(b)'
    <3>1. InFile(b)'
      <4>1. CASE b.user = me[p].user
        BY <1>4, <1>7, <2>2, <4>1 DEF Adding, InFile
      <4>2. CASE b.user # me[p].user
        <5>1. At({"append", "drop"}, b.user) => At({"append", "drop"}, b.user)'
          BY <1>1, <4>2, AtStays
        <5> QED BY <1>3, <2>2, <2>3, <5>1 DEF InFile
      <4> QED BY <4>1, <4>2
    <3>2. At(Busy, b.user) => At(Busy, b.user)'
      BY <1>1, <2>1, AtStays
    <3>3. InLive(b)'
      BY <1>3, <2>1, <3>2 DEF InLive
    <3> QED BY <3>1, <3>3
  <2> QED BY <1>2, <1>3, <2>2, <2>3, <2>4, <2>5, <2>6 DEF CompleteInv
<1>8. ASSUME NEW b \in BlocksOf(Users), UNCHANGED file, pc[p] \in {"live", "wgdel"},
             pc'[p] \in {"conf", "read"}
      PROVE  InFile(b)' /\ \A q \in Procs : pc'[q] \in {"open", "write"} => InList(q, b)'
  <2>1. /\ At({"append", "drop"}, b.user) => At({"append", "drop"}, b.user)'
        /\ At({"append"}, b.user) => At({"append"}, b.user)'
    BY <1>1, <1>8, AtStays
  <2>2. Writing => Writing'
    BY <1>1, <1>8, WritingStays
  <2>3. InFile(b)'
    BY <1>3, <1>8, <2>1, <2>2 DEF InFile
  <2>4. ASSUME NEW q \in Procs, pc'[q] \in {"open", "write"} PROVE InList(q, b)'
    <3>1. InList(q, b) /\ me'[q].list = me[q].list /\ me'[q].user = me[q].user
      BY <1>1, <1>3, <1>8, <2>4
    <3> QED BY <2>1, <3>1 DEF InList
  <2> QED BY <2>3, <2>4
<1>9. ASSUME UNCHANGED file, pc[p] \in {"live", "wgdel"}, pc'[p] \in {"conf", "read"}
      PROVE  /\ file'.hdr \/ Writing'
             /\ \A q \in Procs : pc'[q] \in {"list", "open", "write"} => me'[q].hdr
  <2>1. Writing => Writing'
    BY <1>1, <1>9, WritingStays
  <2> QED BY <1>1, <1>3, <1>9, <2>1
<1>10. CASE pc[p] = "live"
  <2>1. UNCHANGED file /\ pc'[p] = "conf" /\ live' = [live EXCEPT ![me[p].peer.ip] = me[p].peer.key]
    BY <1>10 DEF StoreStep
  <2>2. \A i \in Ips : live'[i] = IF i = me[p].peer.ip THEN me[p].peer.key ELSE live[i]
    BY <2>1 DEF TypeOK
  <2>3. ASSUME NEW b \in BlocksOf(Users) PROVE InLive(b)'
    <3>1. CASE b.user = me[p].user
      <4>1. live'[b.ip] = b.key
        BY <1>4, <1>6, <1>10, <2>2, <3>1 DEF Adding
      <4> QED BY <4>1 DEF InLive
    <3>2. CASE b.user # me[p].user
      <4>1. live'[b.ip] = live[b.ip]
        BY <1>5, <1>6, <1>10, <2>2, <3>2 DEF Adding
      <4>2. At(Busy, b.user) => At(Busy, b.user)'
        BY <1>1, <3>2, AtStays
      <4> QED BY <1>3, <4>1, <4>2 DEF InLive
    <3> QED BY <3>1, <3>2
  <2> QED BY <1>2, <1>8, <1>9, <1>10, <2>1, <2>3 DEF CompleteInv
<1>11. CASE pc[p] = "wgdel"
  <2>1. UNCHANGED file /\ pc'[p] = "read" /\ live' = Without(live, me[p].peer.key)
    BY <1>11 DEF StoreStep
  <2>2. \A i \in Ips : live[i] # me[p].peer.key => live'[i] = live[i]
    BY <2>1 DEF Without
  <2>3. ASSUME NEW b \in BlocksOf(Users) PROVE InLive(b)'
    <3>1. CASE b.user = me[p].user
      <4>1. At(Busy, b.user)'
        BY <1>1, <2>1, <3>1, AtNow
      <4> QED BY <4>1 DEF InLive
    <3>2. CASE b.user # me[p].user
      <4>1. live[b.ip] = b.key => live'[b.ip] = b.key
        BY <1>5, <1>6, <1>11, <2>2, <3>2 DEF Removing
      <4>2. At(Busy, b.user) => At(Busy, b.user)'
        BY <1>1, <3>2, AtStays
      <4> QED BY <1>3, <4>1, <4>2 DEF InLive
    <3> QED BY <3>1, <3>2
  <2> QED BY <1>2, <1>8, <1>9, <1>11, <2>1, <2>3 DEF CompleteInv
<1>12. ASSUME NEW b \in BlocksOf(Users), UNCHANGED live, pc[p] \in {"open", "write"}, pc'[p] \in {"write", "drop"}
       PROVE  InLive(b)'
  <2>1. At(Busy, b.user) => At(Busy, b.user)'
    BY <1>1, <1>12, AtStays
  <2> QED BY <1>3, <1>12, <2>1 DEF InLive
<1>13. CASE pc[p] = "open"
  <2>1. UNCHANGED live /\ pc'[p] = "write" /\ file' = Conf(FALSE, {})
    BY <1>13 DEF StoreStep
  <2>2. Writing'
    BY <2>1 DEF Writing
  <2>3. \A q \in Procs : pc'[q] \in {"list", "open", "write"} => me'[q].hdr
    BY <1>1, <1>3, <1>13
  <2>4. ASSUME NEW b \in BlocksOf(Users), NEW q \in Procs, pc'[q] \in {"open", "write"} PROVE InList(q, b)'
    <3>1. InList(q, b) /\ me'[q].list = me[q].list /\ me'[q].user = me[q].user
      BY <1>1, <1>3, <1>13, <2>4
    <3>2. At({"append"}, b.user) => At({"append"}, b.user)'
      BY <1>1, <1>13, AtStays
    <3> QED BY <3>1, <3>2 DEF InList
  <2>5. ASSUME NEW b \in BlocksOf(Users) PROVE InFile(b)' /\ InLive(b)'
    BY <1>12, <1>13, <2>1, <2>2 DEF InFile
  <2> QED BY <1>2, <2>2, <2>3, <2>4, <2>5 DEF CompleteInv
<1>14. CASE pc[p] = "write"
  <2>1. UNCHANGED live /\ pc'[p] = "drop" /\ file' = Conf(me[p].hdr, me[p].list)
    BY <1>14 DEF StoreStep
  <2>2. file'.blocks = me[p].list /\ file'.hdr = me[p].hdr
    BY <2>1 DEF Conf
  <2>3. \A q \in Procs : pc'[q] \in {"list", "open", "write"} => me'[q].hdr
    BY <1>1, <1>3, <2>1
  <2>4. \A q \in Procs : pc'[q] \notin {"open", "write"}
    BY <1>1, <1>14, <2>1 DEF StoreInv, Apart, Removing
  <2>5. ASSUME NEW b \in BlocksOf(Users) PROVE InFile(b)'
    <3>1. CASE b.user = me[p].user
      <4>1. At({"append", "drop"}, b.user)'
        BY <1>1, <2>1, <3>1, AtNow
      <4> QED BY <4>1 DEF InFile
    <3>2. CASE At({"append"}, b.user)
      <4>1. At({"append"}, b.user)'
        BY <1>1, <1>14, <3>2, AtStays
      <4>2. At({"append", "drop"}, b.user)'
        BY <4>1 DEF At
      <4> QED BY <4>2 DEF InFile
    <3>3. CASE b \in me[p].list
      BY <2>2, <3>3 DEF InFile
    <3> QED BY <1>3, <1>14, <3>1, <3>2, <3>3 DEF InList
  <2>6. \A b \in BlocksOf(Users) : InLive(b)'
    BY <1>12, <1>14, <2>1
  <2>7. file'.hdr
    BY <1>3, <1>14, <2>2
  <2> QED BY <1>2, <2>3, <2>4, <2>5, <2>6, <2>7 DEF CompleteInv
<1> QED BY <1>7, <1>10, <1>11, <1>13, <1>14 DEF StoreStep

LEMMA NextComplete ==
  ASSUME TypeOK, ShapeInv, TableInv, Sound => StoreInv, Calm => CompleteInv, Next, Calm'
  PROVE  CompleteInv'
<1>1. /\ StoreInv /\ "wg" \notin happened' /\ "disk" \notin happened' /\ Sound
      /\ "crash" \notin happened' /\ "reboot" \notin happened'
  BY SoundStep DEF Calm
<1>2. CompleteInv /\ ~ Crash /\ ~ Reboot
  <2>1. happened \subseteq happened'
    BY FaultsGrow
  <2>2. ~ Crash /\ ~ Reboot
    BY <1>1 DEF Crash, Reboot, Fault
  <2> QED BY <1>1, <2>1, <2>2 DEF Calm
<1>3. PICK p \in Procs : Moved(p)
  BY <1>2, NextMoves DEF TypeOK
<1>4. CASE StillStep(p) \/ RowStep(p)
  <2>1. UNCHANGED <<peers, file, live>>
    BY <1>4 DEF StillStep, Stores, RowStep
  <2>2. \A q \in Procs \ {p} : pc'[q] = pc[q] /\ me'[q] = me[q]
    BY <1>3 DEF Moved
  <2> QED BY <1>1, <1>2, <1>4, <2>1, <2>2, StillComplete
<1>5. CASE TableStep(p)
  BY <1>1, <1>2, <1>3, <1>5, TableComplete
<1>6. CASE StoreStep(p)
  <2>1. \A q \in Procs : ~ (Step(p, "append", "live") /\ pc[q] \in {"open", "write"})
    BY SoundStep DEF Calm
  <2> QED BY <1>1, <1>2, <1>3, <1>6, <2>1, StoreComplete
<1> QED BY <1>3, <1>4, <1>5, <1>6 DEF Moved

-----------------------------------------------------------------------------
\* The daemon's stores.

\* The address of a tracked peer is its own.
LEMMA IpOne ==
  ASSUME TableInv, NEW b \in BlocksOf(Users), NEW c \in BlocksOf(Users), b.ip = c.ip
  PROVE  b = c
<1>1. /\ b.user \in Users /\ peers[b.user] # NoPeer /\ b.ip = peers[b.user].ip
      /\ c.user \in Users /\ peers[c.user] # NoPeer /\ c.ip = peers[c.user].ip
  BY BlockFields
<1>2. b.user = c.user
  BY <1>1 DEF TableInv
<1> QED BY <1>2, BlockOne

LEMMA ConfKey ==
  ASSUME TableInv, NEW hdr, NEW b \in BlocksOf(Users), b.ip \in Ips
  PROVE  Conf(hdr, BlocksOf(Users)).last[b.ip] = b.key
<1> DEFINE bs == BlocksOf(Users)
           c  == CHOOSE c \in bs : c.ip = b.ip
<1>1. c \in bs /\ c.ip = b.ip
  OBVIOUS
<1>2. c = b
  BY <1>1, IpOne
<1>3. Conf(hdr, bs).last[b.ip] = c.key
  BY DEF Conf
<1> QED BY <1>2, <1>3

LEMMA AgreeFirst == Init => AgreeInv
<1> SUFFICES ASSUME Init PROVE AgreeInv
  OBVIOUS
<1>1. PICK S \in SUBSET Users : /\ Cardinality(S) <= Cardinality(Ips)
                                /\ \E rank \in Bijection(S, 1..Cardinality(S)) : Provisioned(S, rank)
  BY DEF Init
<1>2. PICK rank \in Bijection(S, 1..Cardinality(S)) : Provisioned(S, rank)
  BY <1>1
<1>3. /\ DOMAIN pc = Procs /\ DOMAIN me = Procs /\ \A p \in Procs : pc[p] = "idle" /\ me[p] = NoMe
      /\ happened = {} /\ overlapped = FALSE
  BY DEF Init
<1>0. /\ keys = Cardinality(S) /\ keys \in Nat
      /\ peers \in [Users -> Peers] /\ rows \in [Users -> RowType]
      /\ \A u \in Users \ S : peers[u] = NoPeer /\ rows[u].st = "none"
      /\ \A u \in S : /\ peers[u].key = rank[u] /\ peers[u].ip = rank[u] /\ peers[u] # NoPeer
                      /\ rows[u].key = rank[u] /\ rows[u].ip = rank[u] /\ rows[u].st = "ok"
                      /\ peers[u] = [key |-> rows[u].key, ip |-> rows[u].ip]
  BY <1>1, <1>2, InitialStores
<1>4. /\ keys = Cardinality(S) /\ keys \in Nat
      /\ peers \in [Users -> Peers] /\ rows \in [Users -> RowType]
      /\ \A u \in Users \ S : peers[u] = NoPeer /\ rows[u].st = "none"
      /\ \A u \in S : /\ peers[u].key = rank[u] /\ peers[u].ip = rank[u] /\ peers[u] # NoPeer
                      /\ rows[u].key = rank[u] /\ rows[u].st = "ok"
  BY <1>0
<1>5. /\ \A u \in S : rank[u] \in 1..keys /\ rank[u] \in Ips
      /\ \A u, v \in S : rank[u] = rank[v] => u = v
  BY <1>1, <1>4, Ranks
<1>6. ShapeInv
  BY <1>3, <1>4, NoMeShape, ShapeParts
<1>7. NoPeer.key = 0 /\ NoPeer.ip = 0
  BY DEF NoPeer
<1>8. TableInv
  BY <1>4, <1>5 DEF TableInv
<1>9. OwnInv
  <2>1. ASSUME NEW u \in S PROVE Owned(rank[u], u)
    BY <1>4, <1>5, <1>7 DEF Owned
  <2>2. ASSUME NEW p \in Procs PROVE OwnOf(p) /\ me[p].added = {}
    BY <1>3, NoMeShape DEF OwnOf, Provided, Adding, Dropped
  <2>3. \A u \in Users : /\ rows[u].st # "none" => Owned(rows[u].key, u)
                         /\ rows[u].st # "revoked"
    BY <1>4, <2>1
  <2> QED BY <2>2, <2>3 DEF OwnInv
<1>10. \A b \in BlocksOf(Users) : b.key \in 0..keys /\ b.ip \in Ips
  <2> SUFFICES ASSUME NEW b \in BlocksOf(Users) PROVE b.key \in 0..keys /\ b.ip \in Ips
    OBVIOUS
  <2>1. b.user \in S /\ b.key = rank[b.user] /\ b.ip = rank[b.user]
    BY <1>4, BlockFields
  <2> QED BY <1>4, <1>5, <2>1
<1>11. file = Conf(TRUE, BlocksOf(Users)) /\ live = file.last
  BY <1>2 DEF Provisioned
<1>12. /\ file.hdr = TRUE /\ file.blocks = BlocksOf(Users) /\ file.last \in [Ips -> 0..keys]
       /\ \A i \in Ips : file.last[i] # 0 =>
            \E b \in BlocksOf(Users) : b.key = file.last[i] /\ b.ip = i
  <2> DEFINE bs == BlocksOf(Users)
             h  == TRUE
  <2>1. h \in BOOLEAN /\ keys \in Nat /\ \A b \in bs : b.key \in 0..keys /\ b.ip \in Ips
    BY <1>4, <1>10
  <2> HIDE DEF bs, h
  <2>2. /\ Conf(h, bs).hdr = h /\ Conf(h, bs).blocks = bs
        /\ Conf(h, bs).last \in [Ips -> 0..keys]
        /\ \A i \in Ips : Conf(h, bs).last[i] # 0 =>
             \E b \in bs : b.key = Conf(h, bs).last[i] /\ b.ip = i
    BY <2>1, ConfType
  <2> QED BY <1>11, <2>2 DEF bs, h
<1>13. TypeOK
  <2>1. peers \in [Users -> PeerType]
    <3> SUFFICES ASSUME NEW u \in Users PROVE peers[u] \in PeerType
      BY <1>4
    <3>1. peers[u] \in Peers /\ peers[u].key \in 0..keys /\ peers[u].ip \in Ips \cup {0}
      BY <1>4, <1>5, <1>7
    <3> QED BY <3>1 DEF Peers, PeerType
  <2>2. \A u \in Users : rows[u].st \in {"none", "ok", "revoked"}
    BY <1>4
  <2>3. \A p \in Procs : /\ me[p].route \in Routes \cup {"none"}
                         /\ me[p].ok \in BOOLEAN /\ me[p].hdr \in BOOLEAN
    BY <1>3, NoMeFields, NoMeShape
  <2>4. /\ file.hdr \in BOOLEAN /\ file.last \in [Ips -> 0..keys] /\ \A b \in file.blocks : b.ip \in Ips
        /\ live \in [Ips -> 0..keys]
    BY <1>10, <1>11, <1>12
  <2>5. happened \subseteq FaultKinds /\ overlapped \in BOOLEAN
    BY <1>3
  <2> QED BY <2>1, <2>2, <2>3, <2>4, <2>5 DEF TypeOK
<1>14. StoreInv
  <2>1. \A p \in Procs : StoreOf(p) /\ \A q \in Procs \ {p} : Apart(p, q)
    BY <1>3 DEF StoreOf, Removing, Adding, Apart
  <2>2. StandInv
    BY <1>11, <1>12 DEF StandInv
  <2> QED BY <2>1, <2>2 DEF StoreInv
<1>15. CompleteInv
  <2>1. ASSUME NEW b \in BlocksOf(Users) PROVE InFile(b) /\ InLive(b)
    <3>1. live[b.ip] = b.key
      BY <1>8, <1>10, <1>11, ConfKey
    <3> QED BY <1>12, <3>1 DEF InFile, InLive
  <2> QED BY <1>3, <1>12, <2>1 DEF CompleteInv
<1> QED BY <1>6, <1>8, <1>9, <1>13, <1>14, <1>15 DEF AgreeInv

LEMMA AgreeStep == AgreeInv /\ [Next]_vars => AgreeInv'
<1> SUFFICES ASSUME AgreeInv, [Next]_vars PROVE AgreeInv'
  OBVIOUS
<1>1. /\ TypeOK /\ ShapeInv /\ TableInv /\ OwnInv /\ (Sound => StoreInv) /\ (Calm => CompleteInv)
      /\ file.hdr \in BOOLEAN
  BY DEF AgreeInv, TypeOK
<1>2. CASE Next
  <2>1. TypeOK' /\ ShapeInv' /\ TableInv' /\ OwnInv'
    BY <1>1, <1>2, StepTypes, StepShape, NextOwn
  <2>2. Sound' => StoreInv'
    BY <1>1, <1>2, NextStore
  <2>3. Calm' => CompleteInv'
    BY <1>1, <1>2, NextComplete
  <2> QED BY <2>1, <2>2, <2>3 DEF AgreeInv
<1>3. CASE UNCHANGED vars
  <2>1. TypeOK'
    BY <1>1, <1>3 DEF vars, TypeOK, PeerType
  <2>2. ShapeInv'
    BY <1>1, <1>3 DEF vars, ShapeInv
  <2>3. TableInv' /\ OwnInv'
    BY <1>1, <1>3 DEF vars, TableInv, OwnInv, OwnOf, Owned, Gone, Provided, Adding, Dropped
  <2>4. BlocksOf(Users)' = BlocksOf(Users) /\ Sound' = Sound /\ Calm' = Calm
    BY <1>3 DEF vars, BlocksOf, Sound, Calm
  <2>5. StoreInv => StoreInv'
    <3>1. \A p \in Procs : StoreOf(p) => StoreOf(p)'
      BY <1>3, <2>4 DEF vars, StoreOf, Removing, Adding
    <3>2. \A p, q \in Procs : Apart(p, q) => Apart(p, q)'
      BY <1>3 DEF vars, Apart, Removing, Adding
    <3>3. StandInv => StandInv'
      BY <1>3, <2>4 DEF vars, StandInv
    <3> QED BY <3>1, <3>2, <3>3 DEF StoreInv
  <2>6. CompleteInv => CompleteInv'
    <3>1. \A l, u : At(l, u) => At(l, u)'
      BY <1>3 DEF vars, At
    <3>2. Writing => Writing'
      BY <1>3 DEF vars, Writing
    <3>3. ASSUME NEW b \in BlocksOf(Users)
          PROVE  /\ InFile(b) => InFile(b)'
                 /\ InLive(b) => InLive(b)'
                 /\ \A p \in Procs : InList(p, b) => InList(p, b)'
      BY <1>3, <3>1, <3>2 DEF vars, InFile, InLive, InList
    <3> QED BY <1>3, <2>4, <3>2, <3>3 DEF vars, CompleteInv
  <2> QED BY <1>1, <2>1, <2>2, <2>3, <2>4, <2>5, <2>6 DEF AgreeInv
<1> QED BY <1>2, <1>3

\* The invariant of the daemon's stores.
THEOREM AgreementInvariant == Spec => []AgreeInv
<1> QED BY AgreeFirst, AgreeStep, PTL DEF Spec

\* The daemon's and the plugin's state keeps its type, whatever is cut off or fails:
\* every key in the table, the file and the interface was handed out, and every
\* address is the subnet's.
THEOREM TypeCorrect == Spec => []TypeOK
<1>1. AgreeInv => TypeOK
  BY DEF AgreeInv
<1> QED BY <1>1, AgreementInvariant, PTL

\* A revoked key is gone from the daemon's table, the file and the interface, and
\* no later provisioning, timeout, crash or reboot brings it back: as long as no two
\* handlers meet that the daemon does not keep apart, and no file write and no wg
\* call fails.
THEOREM RevokedKeysGone == Spec => []RevokedGone
<1>1. AgreeInv => RevokedGone
  <2> SUFFICES ASSUME AgreeInv, Sound, NEW u \in Users, rows[u].st = "revoked"
               PROVE  ~ Known(rows[u].key)
    BY DEF RevokedGone, Sound
  <2> DEFINE k == rows[u].key
  <2>1. k \in 1..keys /\ (\A v \in Users : peers[v].key # k) /\ StandInv /\ keys \in Nat
    BY DEF AgreeInv, OwnInv, Gone, StoreInv, ShapeInv
  <2>2. \A b \in BlocksOf(Users) : b.key # k
    BY <2>1, BlockFields
  <2>3. k # 0
    BY <2>1
  <2>4. \A b \in file.blocks : b.key # k
    BY <2>1, <2>2 DEF StandInv
  <2>5. \A i \in Ips : live[i] # k
    BY <2>1, <2>2, <2>3 DEF StandInv
  <2> QED BY <2>1, <2>4, <2>5 DEF Known
<1> QED BY <1>1, AgreementInvariant, PTL

\* Once no handler is at work, the daemon's table, the file and the interface name
\* the same peers, whatever additions and removals have interleaved that the daemon
\* lets meet, if no file write and no wg call failed and no handler died.
THEOREM StoresAgree == Spec => []DaemonAgrees
<1>1. AgreeInv => DaemonAgrees
  <2> SUFFICES ASSUME AgreeInv, Settled, Calm
               PROVE  /\ file.hdr /\ Tracked = file.blocks
                      /\ \A i \in Ips : live[i] = IF \E t \in Tracked : t.ip = i
                                                THEN (CHOOSE t \in Tracked : t.ip = i).key ELSE 0
    BY DEF DaemonAgrees, Calm, Sound
  <2>1. StandInv /\ CompleteInv /\ TableInv
    BY DEF AgreeInv, Calm, StoreInv
  <2>2. ~ Writing
    BY DEF Settled, InDaemon, Writing
  <2>3. \A u : /\ ~ At({"append", "drop"}, u)
               /\ ~ At({"append", "live", "read", "list", "open", "write", "drop"}, u)
    BY DEF Settled, InDaemon, At
  <2>4. file.hdr /\ \A b \in BlocksOf(Users) : b \in file.blocks /\ live[b.ip] = b.key
    BY <2>1, <2>2, <2>3 DEF CompleteInv, InFile, InLive
  <2>5. Tracked = file.blocks
    BY <2>1, <2>4 DEF Tracked, StandInv
  <2>6. ASSUME NEW i \in Ips, \E t \in Tracked : t.ip = i
        PROVE  live[i] = (CHOOSE t \in Tracked : t.ip = i).key
    BY <2>4, <2>6 DEF Tracked
  <2>7. ASSUME NEW i \in Ips, ~ \E t \in Tracked : t.ip = i
        PROVE  live[i] = 0
    BY <2>1, <2>7 DEF Tracked, StandInv
  <2> QED BY <2>4, <2>5, <2>6, <2>7
<1> QED BY <1>1, AgreementInvariant, PTL
=============================================================================
