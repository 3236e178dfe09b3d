------------------------------ MODULE VpnPeers ------------------------------
(***************************************************************************)
(* WireGuard peers.  The daemon keeps a peer in four places with no common *)
(* transaction: its table, the server's configuration file, the live       *)
(* interface and the user's client file; the plugin has a row of its own   *)
(* (EdoPeer).  The module follows the routes that provision and revoke     *)
(* peers through the daemon's handlers, one file, database or wg call per  *)
(* step.  The client file is never read and is left out but for its errors; *)
(* wg.render_config is left out too: it changes nothing.                   *)
(*                                                                         *)
(* A process is one HTTP request together with the daemon's thread that    *)
(* serves its RPC.  After a timeout the request is over while the thread   *)
(* goes on (`gone').                                                       *)
(***************************************************************************)
EXTENDS Naturals, FiniteSets, FiniteSetsExt, Functions

CONSTANTS
    Users,       \* 1..n, in the order of their ids
    Ips,         \* the addresses of WG_SUBNET, in order
    Procs,
    Routes,      \* the routes a run uses
    MaxCalls,    \* bound: requests
    MaxFaults,   \* bound: kinds of fault in one behaviour
    FaultKinds

AllRoutes == {"download", "bulk", "revoke"}
AllFaultKinds == {"wg", "disk", "firewall", "timeout", "down", "crash", "reboot"}

ASSUME PeersAssumption ==
    /\ Users \subseteq Nat \ {0} /\ IsFiniteSet(Users)
    /\ IsFiniteSet(Ips) /\ Ips = 1..Cardinality(Ips)
    /\ Routes \subseteq AllRoutes /\ FaultKinds \subseteq AllFaultKinds
    /\ MaxCalls \in Nat /\ MaxFaults \in Nat

VARIABLES
    peers,      \* the daemon's table: user -> key and address
    file,       \* wg0.conf: its [Interface] section, its [Peer] blocks, and the key
                \* in the last block of each address
    live,       \* the interface: address -> the key it is routed to
    rows,       \* table edo_peers: user -> key, address and status
    pc, me,     \* each process's next step and local variables
    calls, keys,  \* requests so far; keys (and ids of peers) handed out
    happened,   \* the kinds of fault so far
    overlapped  \* ghost: see Overlap

vars == <<peers, file, live, rows, pc, me, calls, keys, happened, overlapped>>

NoPeer == [key |-> 0, ip |-> 0]
NoRow  == [key |-> 0, ip |-> 0, st |-> "none"]
\* peer: the peer at hand; ok: the RPC's answer; hdr, list: what the rewrite of
\* the file has read; todo, added: users still to do and rows flushed, of a bulk.
NoMe == [route |-> "none", user |-> 0, peer |-> NoPeer, ok |-> FALSE, gone |-> FALSE,
         hdr |-> FALSE, list |-> {}, todo |-> {}, added |-> {}]

\* The file with these blocks, one for an address at most.
Conf(hdr, bs) ==
    [hdr |-> hdr, blocks |-> bs,
     last |-> [i \in Ips |-> IF \E b \in bs : b.ip = i THEN (CHOOSE b \in bs : b.ip = i).key
                            ELSE 0]]
\* get_all_peers, for some users.
BlocksOf(us) == {[user |-> u, key |-> peers[u].key, ip |-> peers[u].ip] :
                    u \in {u \in us : peers[u] # NoPeer}}

\* Some users have downloaded their configuration, one after the other: the n-th
\* has key n and the n-th address, in each of the stores.
Provisioned(S, rank) ==
    /\ peers = [u \in Users |-> IF u \in S THEN [key |-> rank[u], ip |-> rank[u]] ELSE NoPeer]
    /\ file = Conf(TRUE, BlocksOf(Users))
    /\ live = file.last
    /\ rows = [u \in Users |-> IF u \in S THEN [key |-> rank[u], ip |-> rank[u], st |-> "ok"]
                              ELSE NoRow]
    /\ keys = Cardinality(S)

Init ==
    /\ \E S \in SUBSET Users :
         /\ Cardinality(S) <= Cardinality(Ips)
         /\ \E rank \in Bijection(S, 1..Cardinality(S)) : Provisioned(S, rank)
    /\ pc = [p \in Procs |-> "idle"]
    /\ me = [p \in Procs |-> NoMe]
    /\ calls = 0 /\ happened = {} /\ overlapped = FALSE

Goto(p, l, m) == pc' = [pc EXCEPT ![p] = l] /\ me' = [me EXCEPT ![p] = m]
Step(p, from, to) == pc[p] = from /\ Goto(p, to, me[p])
Return(p) == Goto(p, "idle", NoMe)
\* The answer of an RPC, if anyone still waits for it.
Answer(p, ok) ==
    IF me[p].gone THEN Return(p) ELSE Goto(p, "answer", [me[p] EXCEPT !.ok = ok])

Fault(kind) ==
    /\ kind \in FaultKinds
    /\ Cardinality(happened \cup {kind}) <= MaxFaults
    /\ happened' = happened \cup {kind}
NoFault == UNCHANGED happened

Daemon == <<peers, file, live, keys>>

-----------------------------------------------------------------------------
\* The plugin's rows.

\* user_id and assigned_ip are unique, of revoked rows too.
Taken(b) == \E u \in Users : rows[u].st # "none" /\ (u = b.user \/ rows[u].ip = b.ip)
\* Another transaction has flushed such a row: the INSERT waits for its end.
Locked(p, b) == \E q \in Procs \ {p} : \E c \in me[q].added : c.user = b.user \/ c.ip = b.ip
Insert(bs) == rows' = [u \in Users |->
    IF \E b \in bs : b.user = u
    THEN LET b == CHOOSE b \in bs : b.user = u IN [key |-> b.key, ip |-> b.ip, st |-> "ok"]
    ELSE rows[u]]
Mine(p) == [user |-> me[p].user, key |-> me[p].peer.key, ip |-> me[p].peer.ip]

-----------------------------------------------------------------------------
\* The routes.

Enter(p, route) ==
    /\ pc[p] = "idle" /\ route \in Routes /\ calls < MaxCalls
    /\ calls' = calls + 1
    /\ UNCHANGED <<peers, file, live, keys, rows, happened>>

\* download_wg_config: a user without an unrevoked row asks the daemon.
Download(p) ==
    /\ Enter(p, "download")
    /\ \E u \in Users : /\ rows[u].st # "ok"
                        /\ Goto(p, "get", [NoMe EXCEPT !.route = "download", !.user = u])

EndDownload(p) ==
    /\ pc[p] = "answer" /\ me[p].route = "download"
    /\ \/ (~ me[p].ok \/ Taken(Mine(p))) /\ UNCHANGED rows
       \/ me[p].ok /\ ~ Taken(Mine(p)) /\ ~ Locked(p, Mine(p)) /\ Insert({Mine(p)})
    /\ Return(p)
    /\ UNCHANGED <<Daemon, calls, happened>>

\* wg_bulk_generate: its transaction sees the rows as they were at its start.
Bulk(p) ==
    /\ Enter(p, "bulk")
    /\ Goto(p, "bulk", [NoMe EXCEPT !.route = "bulk", !.todo = {u \in Users : rows[u].st # "ok"}])

BulkNext(p) ==
    /\ pc[p] = "bulk" /\ me[p].todo # {}
    /\ Goto(p, "get", [me[p] EXCEPT !.user = Min(me[p].todo), !.todo = @ \ {Min(@)}])
    /\ UNCHANGED <<Daemon, rows, calls, happened>>

\* The new row is flushed by the next query or the commit; a unique key that is
\* taken fails the whole request.
BulkFlush(p) ==
    /\ pc[p] = "answer" /\ me[p].route = "bulk"
    /\ \/ ~ me[p].ok /\ Goto(p, "bulk", me[p])
       \/ me[p].ok /\ Taken(Mine(p)) /\ Return(p)
       \/ /\ me[p].ok /\ ~ Taken(Mine(p)) /\ ~ Locked(p, Mine(p))
          /\ Goto(p, "bulk", [me[p] EXCEPT !.added = @ \cup {Mine(p)}])
    /\ UNCHANGED <<Daemon, rows, calls, happened>>

BulkCommit(p) ==
    /\ pc[p] = "bulk" /\ me[p].todo = {}
    /\ Insert(me[p].added)
    /\ Return(p)
    /\ UNCHANGED <<Daemon, calls, happened>>

\* wg_revoke_peer.
Revoke(p) ==
    /\ Enter(p, "revoke")
    /\ \E u \in Users : /\ rows[u].st = "ok"
                        /\ Goto(p, "find", [NoMe EXCEPT !.route = "revoke", !.user = u])

\* Mutant: a failed removal revokes the row too.
EndRevokeAnyway(p) ==
    /\ pc[p] = "answer" /\ me[p].route = "revoke"
    /\ rows' = [rows EXCEPT ![me[p].user].st = "revoked"]
    /\ Return(p)
    /\ UNCHANGED <<Daemon, calls, happened>>

EndRevoke(p) ==
    /\ pc[p] = "answer" /\ me[p].route = "revoke"
    /\ rows' = IF me[p].ok THEN [rows EXCEPT ![me[p].user].st = "revoked"] ELSE rows
    /\ Return(p)
    /\ UNCHANGED <<Daemon, calls, happened>>

-----------------------------------------------------------------------------
\* wg.ensure_peer.

\* The user's peer if there is one, whatever its owner; then load_server_config,
\* which needs the [Interface] section and derives the server's public key by wg.
Get(p) ==
    /\ pc[p] = "get"
    /\ LET existing == peers[me[p].user] IN
         Goto(p, IF existing = NoPeer THEN "load" ELSE "reload", [me[p] EXCEPT !.peer = existing])
    /\ UNCHANGED <<Daemon, rows, calls, happened>>

LoadExisting(p) ==
    /\ pc[p] = "reload"
    /\ \/ Answer(p, file.hdr) /\ NoFault
       \/ Answer(p, FALSE) /\ Fault("wg")
    /\ UNCHANGED <<Daemon, rows, calls>>

Load(p) ==
    /\ pc[p] = "load"
    /\ \/ file.hdr /\ Goto(p, "alloc", me[p]) /\ NoFault
       \/ ~ file.hdr /\ Answer(p, FALSE) /\ NoFault
       \/ Answer(p, FALSE) /\ Fault("wg")
    /\ UNCHANGED <<Daemon, rows, calls>>

\* Mutant: the server's own address, 0, is not reserved.
FreeIpsServer == (Ips \cup {0}) \ {peers[u].ip : u \in {u \in Users : peers[u] # NoPeer}}

FreeIps == Ips \ {peers[u].ip : u \in Users}

\* Mutant: the user's own row does not stop the INSERT.
AllocAgain(p) ==
    /\ pc[p] = "alloc"
    /\ FreeIps # {}
    /\ keys' = keys + 1
    /\ LET new == [key |-> keys', ip |-> Min(FreeIps)] IN
         /\ peers' = [peers EXCEPT ![me[p].user] = new]
         /\ Goto(p, "append", [me[p] EXCEPT !.peer = new])
    /\ UNCHANGED <<file, live, rows, calls, happened>>

\* generate_keypair, by wg, and allocate_peer: the first free address; a user that
\* has a peer by now, or an exhausted subnet, is an error.
Alloc(p) ==
    /\ pc[p] = "alloc"
    /\ \/ /\ peers[me[p].user] = NoPeer /\ FreeIps # {}
          /\ keys' = keys + 1
          /\ LET new == [key |-> keys', ip |-> Min(FreeIps)] IN
               /\ peers' = [peers EXCEPT ![me[p].user] = new]
               /\ Goto(p, "append", [me[p] EXCEPT !.peer = new])
          /\ NoFault
       \/ /\ peers[me[p].user] # NoPeer \/ FreeIps = {}
          /\ Answer(p, FALSE) /\ NoFault
          /\ UNCHANGED <<peers, keys>>
       \/ /\ Answer(p, FALSE) /\ Fault("wg")
          /\ UNCHANGED <<peers, keys>>
    /\ UNCHANGED <<file, live, rows, calls>>

AppendPeer(p) ==
    /\ \/ /\ Step(p, "append", "live")
          /\ file' = [file EXCEPT !.blocks = @ \cup {Mine(p)},
                                 !.last[me[p].peer.ip] = me[p].peer.key]
          /\ NoFault
       \/ Step(p, "append", "undo") /\ Fault("disk") /\ UNCHANGED file
    /\ UNCHANGED <<peers, live, rows, calls, keys>>

\* wg moves an address to the peer it was last given to; its failure is logged.
LiveAdd(p) ==
    /\ Step(p, "live", "conf")
    /\ \/ live' = [live EXCEPT ![me[p].peer.ip] = me[p].peer.key] /\ NoFault
       \/ Fault("wg") /\ UNCHANGED live
    /\ UNCHANGED <<peers, file, rows, calls, keys>>

WriteConf(p) ==
    /\ \/ Step(p, "conf", "fw") /\ NoFault
       \/ Step(p, "conf", "undo") /\ Fault("disk")
    /\ UNCHANGED <<Daemon, rows, calls>>

\* add_peer's except clause.
Undo(p) ==
    /\ pc[p] = "undo"
    /\ peers' = [peers EXCEPT ![me[p].user] = NoPeer]
    /\ Answer(p, FALSE)
    /\ UNCHANGED <<file, live, rows, calls, keys, happened>>

\* How both handlers end: a removal unlinks the client file, which may fail, and
\* both call _rebuild_firewall.
Rebuild(p) ==
    /\ pc[p] = "fw"
    /\ \/ Answer(p, TRUE) /\ NoFault
       \/ Answer(p, FALSE) /\ Fault("firewall")
       \/ me[p].route = "revoke" /\ Answer(p, FALSE) /\ Fault("disk")
    /\ UNCHANGED <<Daemon, rows, calls>>

-----------------------------------------------------------------------------
\* wg.remove_peer.

FindPeer(p) ==
    /\ pc[p] = "find"
    /\ IF peers[me[p].user] = NoPeer THEN Answer(p, TRUE)
       ELSE Goto(p, "wgdel", [me[p] EXCEPT !.peer = peers[me[p].user]])
    /\ UNCHANGED <<Daemon, rows, calls, happened>>

Without(routes, k) == [i \in Ips |-> IF routes[i] = k THEN 0 ELSE routes[i]]

LiveRemove(p) ==
    /\ Step(p, "wgdel", "read")
    /\ \/ live' = Without(live, me[p].peer.key) /\ NoFault
       \/ Fault("wg") /\ UNCHANGED live
    /\ UNCHANGED <<peers, file, rows, calls, keys>>

\* _rewrite_server_config: the header as the file has it, the peers as the table
\* has them, then a file that is emptied and written.
ReadHeader(p) ==
    /\ pc[p] = "read"
    /\ Goto(p, "list", [me[p] EXCEPT !.hdr = file.hdr])
    /\ UNCHANGED <<Daemon, rows, calls, happened>>

\* Mutant: the peer that goes is written back.
ListAll(p) ==
    /\ pc[p] = "list"
    /\ Goto(p, "open", [me[p] EXCEPT !.list = BlocksOf(Users)])
    /\ UNCHANGED <<Daemon, rows, calls, happened>>

ListPeers(p) ==
    /\ pc[p] = "list"
    /\ Goto(p, "open", [me[p] EXCEPT !.list = BlocksOf(Users \ {me[p].user})])
    /\ UNCHANGED <<Daemon, rows, calls, happened>>

Truncate(p) ==
    /\ pc[p] = "open"
    /\ \/ /\ Goto(p, "write", me[p])
          /\ file' = Conf(FALSE, {})
          /\ NoFault
       \/ Answer(p, FALSE) /\ Fault("disk") /\ UNCHANGED file
    /\ UNCHANGED <<peers, live, rows, calls, keys>>

\* A write that fails leaves the file empty.
Write(p) ==
    /\ \/ /\ Step(p, "write", "drop")
          /\ file' = Conf(me[p].hdr, me[p].list)
          /\ NoFault
       \/ /\ pc[p] = "write" /\ Answer(p, FALSE)
          /\ Fault("disk") /\ UNCHANGED file
    /\ UNCHANGED <<peers, live, rows, calls, keys>>

\* db.remove_peer deletes by user name.
Drop(p) ==
    /\ Step(p, "drop", "fw")
    /\ peers' = [peers EXCEPT ![me[p].user] = NoPeer]
    /\ UNCHANGED <<file, live, rows, calls, keys, happened>>

-----------------------------------------------------------------------------
\* Faults around a handler.

InDaemon(p) == pc[p] \notin {"idle", "bulk", "answer"}

\* The daemon cannot be reached.
Down(p) ==
    /\ pc[p] \in {"get", "find"} /\ Fault("down")
    /\ Answer(p, FALSE)
    /\ UNCHANGED <<Daemon, rows, calls>>

\* DaemonTimeout: the request ends with an error, the handler goes on.
Timeout(p) ==
    /\ InDaemon(p) /\ ~ me[p].gone /\ me[p].route # "bulk" /\ Fault("timeout")
    /\ Goto(p, pc[p], [me[p] EXCEPT !.gone = TRUE])
    /\ UNCHANGED <<Daemon, rows, calls>>

\* The daemon dies and comes back; the interface stays up, bring_up returns.
Crash ==
    /\ Fault("crash")
    /\ \E p \in Procs : InDaemon(p)
    /\ pc' = [p \in Procs |-> IF ~ InDaemon(p) THEN pc[p]
                             ELSE IF me[p].gone THEN "idle" ELSE "answer"]
    /\ me' = [p \in Procs |-> IF ~ InDaemon(p) THEN me[p]
                             ELSE IF me[p].gone THEN NoMe ELSE [me[p] EXCEPT !.ok = FALSE]]
    /\ UNCHANGED <<Daemon, rows, calls>>

\* The host comes up again: wg-quick loads the file, where the last block of an
\* address counts.  Without its header init_server and bring_up fail.
Loaded == [i \in Ips |-> IF file.hdr THEN file.last[i] ELSE 0]

Reboot ==
    /\ Fault("reboot")
    /\ live' = Loaded
    /\ pc' = [p \in Procs |-> "idle"] /\ me' = [p \in Procs |-> NoMe]
    /\ UNCHANGED <<peers, file, rows, calls, keys>>

-----------------------------------------------------------------------------
Handle(p) ==
    \/ Get(p) \/ LoadExisting(p) \/ Load(p) \/ Alloc(p) \/ AppendPeer(p) \/ LiveAdd(p)
    \/ WriteConf(p) \/ Undo(p) \/ Rebuild(p)
    \/ FindPeer(p) \/ LiveRemove(p) \/ ReadHeader(p) \/ ListPeers(p) \/ Truncate(p)
    \/ Write(p) \/ Drop(p)

Route(p) ==
    \/ Download(p) \/ EndDownload(p) \/ Bulk(p) \/ BulkNext(p) \/ BulkFlush(p)
    \/ BulkCommit(p) \/ Revoke(p) \/ EndRevoke(p)

\* What the handlers do not guard against, for they share no lock: two removals
\* at work together, a removal of the very peer that is being added, and an
\* addition to the file that a removal is about to write.
Removing(p) == pc[p] \in {"wgdel", "read", "list", "open", "write", "drop"}
Adding(p)   == pc[p] \in {"append", "live", "conf", "undo"}
Overlap ==
    \/ \E p, q \in Procs : /\ p # q /\ Removing(p)'
                          /\ \/ Removing(q)'
                             \/ Adding(q)' /\ me'[q].user = me'[p].user
    \/ \E p, q \in Procs : Step(p, "append", "live") /\ pc[q] \in {"open", "write"}

Next ==
    /\ \/ \E p \in Procs : Handle(p) \/ Route(p) \/ Down(p) \/ Timeout(p)
       \/ Crash \/ Reboot
    /\ overlapped' = (overlapped \/ Overlap)

Spec == Init /\ [][Next]_vars

-----------------------------------------------------------------------------
\* Properties.

PeerType == [key : 0..keys, ip : Ips \cup {0}]
\* The types of the daemon's and the plugin's state.
TypeOK ==
    /\ peers \in [Users -> PeerType]
    /\ file.hdr \in BOOLEAN /\ file.last \in [Ips -> 0..keys] /\ \A b \in file.blocks : b.ip \in Ips
    /\ live \in [Ips -> 0..keys]
    /\ \A u \in Users : rows[u].st \in {"none", "ok", "revoked"}
    /\ \A p \in Procs : /\ me[p].route \in Routes \cup {"none"}
                        /\ me[p].ok \in BOOLEAN /\ me[p].hdr \in BOOLEAN
    /\ happened \subseteq FaultKinds /\ overlapped \in BOOLEAN

Settled == \A p \in Procs : ~ InDaemon(p)
Tracked == BlocksOf(Users)

\* Table, file and interface of the daemon name the same peers once no handler
\* is at work, whatever additions interleaved and however requests ended, as
\* long as no file write and no wg call failed and no handler died.
DaemonAgrees ==
    Settled /\ ~ overlapped /\ happened \cap {"wg", "disk", "crash", "reboot"} = {} =>
      /\ file.hdr /\ Tracked = file.blocks
      /\ \A i \in Ips : live[i] = IF \E t \in Tracked : t.ip = i
                                THEN (CHOOSE t \in Tracked : t.ip = i).key ELSE 0

\* A row that the plugin shows as a valid peer is the daemon's peer of that
\* user, or is being revoked: no config is handed out for a peer that is gone,
\* however the requests overlap, whatever wg does, and while the daemon is down.
Revoking(u) == \E p \in Procs : me[p].route = "revoke" /\ me[p].user = u
PeerOf(u) == peers[u] = [key |-> rows[u].key, ip |-> rows[u].ip]
Harmless == happened \subseteq {"wg", "down"}
RowsHavePeers ==
    Harmless => \A u \in Users : rows[u].st = "ok" => PeerOf(u) \/ Revoking(u)

\* A revoked key is gone from the table, the file and the interface, also when
\* the handler timed out or died on the way and the admin had to ask again.
Known(k) ==
    \/ \E u \in Users : peers[u].key = k
    \/ \E b \in file.blocks : b.key = k
    \/ \E i \in Ips : live[i] = k
RevokedGone ==
    ~ overlapped /\ happened \cap {"wg", "disk"} = {} =>
      \A u \in Users : rows[u].st = "revoked" => ~ Known(rows[u].key)

\* admin.py: bulk_generate makes "a WG peer for every active user that doesn't
\* already have one".
BulkProvides ==
    [][\A p \in Procs :
         me[p].route = "bulk" /\ pc'[p] = "idle" /\ happened' = {} =>
           \A u \in Users : rows'[u].st # "none"]_vars

\* Why RowsHavePeers holds.  Who provisions a user that has no row yet holds the
\* daemon's peer of that user, for only revocations drop peers, and they are of
\* users that have a row; and a bulk's transaction keeps its users' rows from others.
Fields == {"route", "user", "peer", "ok", "gone", "hdr", "list", "todo", "added"}
Peers  == [key : Nat, ip : Nat]
Blocks == [user : Users, key : Nat, ip : Nat]
Provision == {"get", "reload", "load", "alloc", "append", "live", "conf", "undo"}
Removal   == {"find", "wgdel", "read", "list", "open", "write", "drop"}
ShapeInv ==
    /\ peers \in [Users -> Peers] /\ keys \in Nat
    /\ rows \in [Users -> [key : Nat, ip : Nat, st : {"none", "ok", "revoked"}]]
    /\ DOMAIN pc = Procs /\ DOMAIN me = Procs
    /\ \A p \in Procs :
         /\ DOMAIN me[p] = Fields
         /\ me[p].peer \in Peers /\ me[p].todo \subseteq Users /\ me[p].added \subseteq Blocks
         /\ pc[p] \in Provision \cup Removal \cup {"idle", "bulk", "fw", "answer"}
         /\ pc[p] \notin {"idle", "bulk"} => me[p].user \in Users
         /\ pc[p] \in Provision => me[p].route \in {"download", "bulk"}
         /\ pc[p] \in Removal => me[p].route = "revoke"
         /\ pc[p] = "bulk" => me[p].route = "bulk"
         /\ me[p].route # "bulk" => me[p].added = {}
         /\ pc[p] = "idle" => me[p] = NoMe

\* p has the peer of its user, in time for a row.
Provided(p) ==
    /\ me[p].route # "revoke"
    /\ pc[p] \in {"reload", "append", "live", "conf", "fw"} \/ (pc[p] = "answer" /\ me[p].ok)
\* p has dropped the peer of u, or found none.
Dropped(p, u) ==
    /\ me[p].route = "revoke" /\ me[p].user = u
    /\ pc[p] = "fw" \/ (pc[p] = "answer" /\ me[p].ok)

RowsInv ==
    /\ \A p \in Procs : ~ me[p].gone /\ pc[p] # "undo"
    /\ \A p \in Procs : me[p].route = "revoke" => rows[me[p].user].st # "none"
    /\ \A p \in Procs : Provided(p) =>
         /\ me[p].peer # NoPeer
         /\ rows[me[p].user].st = "none" => peers[me[p].user] = me[p].peer
    /\ \A p \in Procs : \A b \in me[p].added :
         /\ rows[b.user].st = "none"
         /\ peers[b.user] = [key |-> b.key, ip |-> b.ip] /\ peers[b.user] # NoPeer
    /\ \A p, q \in Procs : p # q =>
         \A b \in me[p].added, c \in me[q].added : b.user # c.user
    /\ \A u \in Users : rows[u].st = "ok" =>
         /\ [key |-> rows[u].key, ip |-> rows[u].ip] # NoPeer
         /\ PeerOf(u) \/ \E p \in Procs : Dropped(p, u)

IInv == ShapeInv /\ (Harmless => RowsInv)

-----------------------------------------------------------------------------
\* Why the stores agree and a revoked key stays gone.  A key is handed out once, so
\* whoever has had it is the only user it can ever be the peer of, and a key that
\* has left the table never comes back.
Owned(k, u) == k \in 1..keys /\ \A v \in Users : peers[v].key = k => v = u
Gone(k)     == k \in 1..keys /\ \A v \in Users : peers[v].key # k

TableInv ==
    \A u \in Users : peers[u] # NoPeer =>
      /\ peers[u].key \in 1..keys /\ peers[u].ip \in Ips
      /\ \A v \in Users \ {u} : peers[v] # NoPeer =>
           peers[v].key # peers[u].key /\ peers[v].ip # peers[u].ip

OwnOf(p) ==
    /\ me[p].route = "revoke" => rows[me[p].user].st # "none"
    /\ Provided(p) => Owned(me[p].peer.key, me[p].user)
    /\ Adding(p) => me[p].peer.ip \in Ips
    /\ pc[p] \in {"open", "write"} => \A b \in me[p].list : b.key \in 0..keys /\ b.ip \in Ips
    /\ \A u \in Users : Dropped(p, u) => Gone(rows[u].key)
    /\ \A b \in me[p].added : rows[b.user].st = "none" /\ Owned(b.key, b.user)

OwnInv ==
    /\ \A u \in Users : /\ rows[u].st # "none" => Owned(rows[u].key, u)
                        /\ rows[u].st = "revoked" => Gone(rows[u].key)
    /\ \A p \in Procs : OwnOf(p)
    /\ \A p \in Procs : \A q \in Procs \ {p} :
         \A b \in me[p].added, c \in me[q].added : b.user # c.user

\* The stores name tracked peers only, and who adds or removes one works on what
\* the table says: no step outlives the row it works for.
Sound == ~ overlapped /\ happened \cap {"wg", "disk"} = {}
Apart(p, q) ==
    Removing(p) => ~ Removing(q) /\ ~ (Adding(q) /\ me[q].user = me[p].user)
StoreOf(p) ==
    /\ pc[p] # "undo"
    /\ Removing(p) \/ Adding(p) => me[p].peer = peers[me[p].user] /\ me[p].peer # NoPeer
    /\ pc[p] \in {"open", "write"} =>
         \A b \in me[p].list : b \in BlocksOf(Users) /\ b.user # me[p].user
    /\ pc[p] = "drop" => \A b \in file.blocks : b.user # me[p].user
    /\ pc[p] \in {"read", "list", "open", "write", "drop"} =>
         \A i \in Ips : live[i] # me[p].peer.key
StandInv ==
    /\ file.blocks \subseteq BlocksOf(Users)
    /\ \A i \in Ips : /\ live[i] # 0 => \E b \in BlocksOf(Users) : b.key = live[i] /\ b.ip = i
                      /\ file.last[i] # 0 => \E b \in file.blocks : b.key = file.last[i] /\ b.ip = i
StoreInv ==
    /\ \A p \in Procs : StoreOf(p) /\ \A q \in Procs \ {p} : Apart(p, q)
    /\ StandInv

\* They name all of them but those at hand.
Calm == Sound /\ happened \cap {"crash", "reboot"} = {}
At(l, u) == \E p \in Procs : pc[p] \in l /\ me[p].user = u
Writing  == \E p \in Procs : pc[p] = "write"
InFile(b) == b \in file.blocks \/ At({"append", "drop"}, b.user) \/ Writing
InList(p, b) == b \in me[p].list \/ b.user = me[p].user \/ At({"append"}, b.user)
InLive(b) ==
    \/ live[b.ip] = b.key
    \/ At({"append", "live", "read", "list", "open", "write", "drop"}, b.user)
CompleteInv ==
    /\ file.hdr \/ Writing
    /\ \A p \in Procs : pc[p] \in {"list", "open", "write"} => me[p].hdr
    /\ \A b \in BlocksOf(Users) :
         /\ InFile(b) /\ InLive(b)
         /\ \A p \in Procs : pc[p] \in {"open", "write"} => InList(p, b)

AgreeInv ==
    /\ TypeOK /\ ShapeInv /\ TableInv /\ OwnInv
    /\ Sound => StoreInv
    /\ Calm => CompleteInv
=============================================================================
