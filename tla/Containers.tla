----------------------------- MODULE Containers -----------------------------
(***************************************************************************)
(* The daemon's container service: daemon/edo_core/containers.py over the  *)
(* tables of daemon/edo_core/db.py and over Docker, driven by the request  *)
(* threads of daemon/edo_daemon.py.                                        *)
(*                                                                         *)
(* Every request runs in a thread of its own.  DatabaseManager._conn holds *)
(* one lock and one transaction for a whole method, so a database call is  *)
(* one step; a Docker call is one step; between two of them any other      *)
(* thread, Docker itself, or the death of the daemon may come in.  A get   *)
(* and the call on the object it returned are one step too: a get changes  *)
(* nothing, and all that can happen to the object before the call is that  *)
(* it is removed, after which the call answers NotFound as the get would   *)
(* have done then.                                                         *)
(*                                                                         *)
(* Docker (networks by name, containers by name and id, one address and    *)
(* one host port per running container) is external: it is modelled by the *)
(* answers and errors that containers.py distinguishes.                    *)
(***************************************************************************)
EXTENDS Naturals, FiniteSets

CONSTANTS
    Owners,       \* the (owner_type, owner_id) pairs
    Chals,        \* the challenge_ref values
    Public,       \* the challenges spawned with publish_ports=True
    Octets,       \* third octets of owner subnets (1..254 in the code)
    Hosts,        \* host addresses of one subnet, the gateway left out
    Ports,        \* PUBLIC_PORT_RANGE_START .. PUBLIC_PORT_RANGE_END
    HostPorts,    \* the ports of that range some other process listens on
    Threads,      \* request threads
    MaxSpawns,    \* EDO_MAX_CONCURRENT_SPAWNS
    Tries,        \* attempts of the create loop (8 in the code)
    OctetTries,   \* attempts of allocate_octet (254 in the code)
    Cids,         \* container ids; Docker never hands one out twice
    MaxCalls,     \* bound: requests accepted
    MaxFaults,    \* bound: faults of all kinds together
    FaultKinds,   \* the kinds of fault a run allows
    Main,         \* the daemon's main thread
    None

AllFaultKinds == {"build", "docker", "remove", "exit", "crash"}

ASSUME ConstantsAssumption ==
    /\ Octets \subseteq Nat \ {0}
    /\ Hosts \subseteq Nat \ {0}
    /\ Ports \subseteq Nat \ {0}
    /\ Public \subseteq Chals
    /\ HostPorts \subseteq Ports
    /\ MaxSpawns \in Nat \ {0} /\ Tries \in Nat /\ OctetTries \in Nat
    /\ MaxCalls \in Nat /\ MaxFaults \in Nat
    /\ FaultKinds \subseteq AllFaultKinds
    /\ Main \notin Threads
    /\ None \notin Cids /\ None \notin Owners \X Chals /\ None \notin Owners

Procs == Threads \cup {Main}
Keys  == Owners \X Chals

VARIABLES
    octetOf,    \* table owner_octets: owner -> octet, 0 for no row
    rows,       \* table instances: (owner, challenge) -> row, NoRow for none
    nets,       \* Docker networks by name (octet): the owner label, or None
    cts,        \* Docker containers by id
    pc, loc,    \* each thread's next step and its local variables
    calls, faults,  \* counters for the two bounds
    abandoned   \* ghost: containers a crash or an error of Docker left behind

vars == <<octetOf, rows, nets, cts, pc, loc, calls, faults, abandoned>>

NoRow == [cid |-> None, oct |-> 0, host |-> 0, port |-> 0, status |-> "none"]
NoLoc == [op |-> "none", key |-> None, oct |-> 0, host |-> 0, port |-> 0,
          triedHosts |-> {}, triedPorts |-> {}, left |-> 0, cid |-> None,
          conflict |-> FALSE, seen |-> "none", todo |-> {}]

\* The container states Docker reports; "gone" is a removed container.
LiveStates == {"created", "running", "exited", "restarting"}
Ops == {"none", "spawn", "release", "kill", "reconcile", "adopt"}

\* Program counters inside `with _SPAWN_SEMAPHORE`.
SpawnPcs == {"octet", "alloc", "net", "mknet", "build", "ip", "create", "start",
             "get", "clean", "live", "add", "undo"}
\* The steps at which a spawning thread may hold a container of its own.
HoldPcs == {"start", "get", "clean", "live", "add", "undo"}
Pcs == SpawnPcs \cup {"idle", "boot", "find", "next", "check", "sync", "adopt",
                      "rfind", "stop", "remove", "row", "count", "goct", "rmnet", "free"}

-----------------------------------------------------------------------------
\* What Docker and the tables hold.

Live(c) == cts[c].st \in LiveStates
LiveCids == {c \in Cids : Live(c)}
Tracked(c) == \E k \in Keys : rows[k].cid = c
OwnerRows(o) == {k \in Keys : k[1] = o /\ rows[k].cid # None}

\* get_active_instances: only rows whose status is 'running'.
ActiveRows == {k \in Keys : rows[k].cid # None /\ rows[k].status = "running"}

\* find_next_owner_ip: the addresses of the owner's running rows are blocked,
\* and nothing else is.
FreeHosts(o, n) ==
    Hosts \ {rows[k].host : k \in {k \in ActiveRows : k[1] = o /\ rows[k].oct = n}}

\* _allocate_public_ports: ports no row has published and no attempt has tried.
FreePorts(tried) == Ports \ (tried \cup {rows[k].port : k \in Keys})

IsLeast(n, S) == n \in S /\ \A m \in S : n <= m

-----------------------------------------------------------------------------
\* The moves of a thread.

Goto(t, p, l) == pc' = [pc EXCEPT ![t] = p] /\ loc' = [loc EXCEPT ![t] = l]
Move(t, p) == Goto(t, p, loc[t])
Return(t) == Goto(t, "idle", NoLoc)

Fault(kind) ==
    /\ kind \in FaultKinds
    /\ faults < MaxFaults
    /\ faults' = faults + 1

\* The owner of the key the thread works for.
Owner(t) == loc[t].key[1]

Init ==
    /\ octetOf = [o \in Owners |-> 0]
    /\ rows = [k \in Keys |-> NoRow]
    /\ nets = [n \in Octets |-> None]
    /\ cts = [c \in Cids |-> [key |-> None, oct |-> 0, host |-> 0, port |-> 0,
                              st |-> "unused"]]
    /\ pc = [t \in Procs |-> "idle"]
    /\ loc = [t \in Procs |-> NoLoc]
    /\ calls = 0 /\ faults = 0
    /\ abandoned = {}

-----------------------------------------------------------------------------
\* Requests.  Each connection is served by a new thread, once the main thread
\* has finished its start-up.

Accept(t) ==
    /\ pc[t] = "idle" /\ t \in Threads
    /\ pc[Main] = "idle"
    /\ calls < MaxCalls
    /\ calls' = calls + 1
    /\ UNCHANGED <<octetOf, rows, nets, cts, faults, abandoned>>

EnsureInstance(t) ==
    /\ Accept(t)
    /\ \E k \in Keys : Goto(t, "find", [NoLoc EXCEPT !.op = "spawn", !.key = k])

\* A caller knows the ids it was given: those of rows, now or earlier.
ReleaseInstance(t) ==
    /\ Accept(t)
    /\ \E c \in Cids : /\ Tracked(c) \/ cts[c].st = "gone"
                       /\ Goto(t, "rfind", [NoLoc EXCEPT !.op = "release", !.cid = c])

\* kill_switch and container.reconcile both walk a snapshot of the active rows.
ActiveTodo == {[cid |-> rows[k].cid, st |-> rows[k].status] : k \in ActiveRows}

KillSwitch(t) ==
    /\ Accept(t)
    /\ Goto(t, "next", [NoLoc EXCEPT !.op = "kill", !.todo = ActiveTodo])

Reconcile(t) ==
    /\ Accept(t)
    /\ Goto(t, "next", [NoLoc EXCEPT !.op = "reconcile", !.todo = ActiveTodo])

-----------------------------------------------------------------------------
\* spawn_instance.

\* Mutant: find_instance outside the semaphore.
FindUnguarded(t) ==
    /\ pc[t] = "find"
    /\ IF rows[loc[t].key].cid # None THEN Return(t) ELSE Move(t, "octet")
    /\ UNCHANGED <<octetOf, rows, nets, cts, calls, faults, abandoned>>

\* Mutant: no look-up of an existing instance.
FindNothing(t) ==
    /\ pc[t] = "find"
    /\ Cardinality({u \in Threads : pc[u] \in SpawnPcs}) < MaxSpawns
    /\ Move(t, "octet")
    /\ UNCHANGED <<octetOf, rows, nets, cts, calls, faults, abandoned>>

\* Take the semaphore, then find_instance: an existing row is the answer.
Find(t) ==
    /\ pc[t] = "find"
    /\ Cardinality({u \in Threads : pc[u] \in SpawnPcs}) < MaxSpawns
    /\ IF rows[loc[t].key].cid # None THEN Return(t) ELSE Move(t, "octet")
    /\ UNCHANGED <<octetOf, rows, nets, cts, calls, faults, abandoned>>

\* ensure_owner_network, allocate_octet: the owner's octet is read in one
\* transaction and, if there is none, inserted in another.
GetOctet(t) ==
    /\ pc[t] = "octet"
    /\ LET n == octetOf[Owner(t)] IN
       IF n # 0 THEN Goto(t, "net", [loc[t] EXCEPT !.oct = n])
                ELSE Goto(t, "alloc", [loc[t] EXCEPT !.left = OctetTries])
    /\ UNCHANGED <<octetOf, rows, nets, cts, calls, faults, abandoned>>

UsedOctets == {octetOf[o] : o \in Owners}

\* One attempt.  The insert fails on the owner's primary key as well as on the
\* octet's UNIQUE, and either failure is simply retried.
AllocOctet(t) ==
    /\ pc[t] = "alloc"
    /\ \/ /\ loc[t].left = 0 \/ Octets \subseteq UsedOctets
          /\ Return(t)
          /\ UNCHANGED octetOf
       \/ /\ loc[t].left > 0 /\ ~ (Octets \subseteq UsedOctets)
          /\ octetOf[Owner(t)] # 0
          /\ Goto(t, "alloc", [loc[t] EXCEPT !.left = @ - 1])
          /\ UNCHANGED octetOf
       \/ /\ loc[t].left > 0
          /\ octetOf[Owner(t)] = 0
          /\ \E n \in Octets :
               /\ IsLeast(n, Octets \ UsedOctets)
               /\ octetOf' = [octetOf EXCEPT ![Owner(t)] = n]
               /\ Goto(t, "net", [loc[t] EXCEPT !.oct = n, !.left = 0])
    /\ UNCHANGED <<rows, nets, cts, calls, faults, abandoned>>

\* Every network of such a name was made by MakeNet, and is routed.
GetNet(t) ==
    /\ pc[t] = "net"
    /\ \/ /\ Move(t, IF nets[loc[t].oct] = None THEN "mknet" ELSE "build")
          /\ UNCHANGED faults
       \/ Fault("docker") /\ Return(t)
    /\ UNCHANGED <<octetOf, rows, nets, cts, calls, abandoned>>

\* networks.create(check_duplicate=True); an APIError ends the spawn.
MakeNet(t) ==
    /\ pc[t] = "mknet"
    /\ \/ /\ nets[loc[t].oct] = None
          /\ nets' = [nets EXCEPT ![loc[t].oct] = Owner(t)]
          /\ Move(t, "build")
          /\ UNCHANGED faults
       \/ /\ nets[loc[t].oct] # None
          /\ Return(t) /\ UNCHANGED <<nets, faults>>
       \/ /\ Fault("docker")
          /\ Return(t) /\ UNCHANGED nets
    /\ UNCHANGED <<octetOf, rows, cts, calls, abandoned>>

Build(t) ==
    /\ pc[t] = "build"
    /\ \/ Goto(t, "ip", [loc[t] EXCEPT !.left = Tries]) /\ UNCHANGED faults
       \/ Fault("build") /\ Return(t)
    /\ UNCHANGED <<octetOf, rows, nets, cts, calls, abandoned>>

\* Mutant: the address already tried does not cost an attempt.
PickAddressForever(t) ==
    LET me == loc[t] free == FreeHosts(Owner(t), me.oct) IN
    /\ pc[t] = "ip"
    /\ \/ (me.left = 0 \/ free = {}) /\ Return(t)
       \/ /\ me.left > 0
          /\ \E h \in free : IsLeast(h, free) /\
               IF h \in me.triedHosts THEN Move(t, "ip")
                                     ELSE Goto(t, "create", [me EXCEPT !.host = h])
    /\ UNCHANGED <<octetOf, rows, nets, cts, calls, faults, abandoned>>

\* The head of the create loop: an address, and a port for a public challenge.
\* An address that already conflicted costs an attempt and nothing else.
PickAddress(t) ==
    LET me    == loc[t]
        free  == FreeHosts(Owner(t), me.oct)
        ports == FreePorts(me.triedPorts)
    IN
    /\ pc[t] = "ip"
    /\ \/ /\ me.left = 0 \/ free = {}
          /\ Return(t)
       \/ /\ me.left > 0
          /\ \E h \in me.triedHosts : IsLeast(h, free)
          /\ Goto(t, "ip", [me EXCEPT !.left = @ - 1])
       \/ /\ me.left > 0
          /\ \E h \in Hosts \ me.triedHosts :
               /\ IsLeast(h, free)
               /\ \/ /\ me.key[2] \notin Public
                     /\ Goto(t, "create", [me EXCEPT !.host = h, !.port = 0])
                  \/ /\ me.key[2] \in Public
                     /\ \E p \in Ports :
                          /\ IsLeast(p, ports)
                          /\ Goto(t, "create", [me EXCEPT !.host = h, !.port = p])
                  \/ /\ me.key[2] \in Public /\ ports = {}
                     /\ Return(t)
    /\ UNCHANGED <<octetOf, rows, nets, cts, calls, faults, abandoned>>

\* container_name_for gives one name per key, so at most one live container
\* can carry it: the one `containers.get(name)` finds.
Named(k) == {c \in LiveCids : cts[c].key = k}
FreshCid == CHOOSE c \in Cids : cts[c].st = "unused"

ToClean(t, conflict) == Goto(t, "clean", [loc[t] EXCEPT !.conflict = conflict])

\* api.create_container: "is already in use" for a taken name reads as a
\* resource conflict.
Create(t) ==
    LET me == loc[t] IN
    /\ pc[t] = "create"
    /\ \/ /\ Named(me.key) # {}
          /\ ToClean(t, TRUE)
          /\ UNCHANGED <<cts, faults>>
       \/ /\ Named(me.key) = {}
          /\ \E c \in Cids : cts[c].st = "unused"
          /\ cts' = [cts EXCEPT ![FreshCid] = [key |-> me.key, oct |-> me.oct,
                         host |-> me.host, port |-> me.port, st |-> "created"]]
          /\ Goto(t, "start", [me EXCEPT !.cid = FreshCid])
          /\ UNCHANGED faults
       \/ /\ Fault("docker") /\ ToClean(t, FALSE) /\ UNCHANGED cts
    /\ UNCHANGED <<octetOf, rows, nets, calls, abandoned>>

\* Docker refuses to start a container whose address or host port is taken.
AddressTaken(c) ==
    \/ cts[c].port \in HostPorts
    \/ \E d \in Cids \ {c} :
         /\ cts[d].st = "running"
         /\ \/ cts[d].oct = cts[c].oct /\ cts[d].host = cts[c].host
            \/ cts[d].port # 0 /\ cts[d].port = cts[c].port

\* api.start.  The container names its network; Docker looks the name up now.
Start(t) ==
    LET c == loc[t].cid IN
    /\ pc[t] = "start"
    /\ \/ /\ ~ Live(c) \/ nets[cts[c].oct] = None
          /\ ToClean(t, FALSE) /\ UNCHANGED <<cts, faults>>
       \/ /\ Live(c) /\ nets[cts[c].oct] # None /\ AddressTaken(c)
          /\ ToClean(t, TRUE) /\ UNCHANGED <<cts, faults>>
       \/ /\ Live(c) /\ nets[cts[c].oct] # None /\ ~ AddressTaken(c)
          /\ cts' = [cts EXCEPT ![c].st = "running"]
          /\ Move(t, "get") /\ UNCHANGED faults
       \/ /\ Fault("docker") /\ ToClean(t, FALSE) /\ UNCHANGED cts
    /\ UNCHANGED <<octetOf, rows, nets, calls, abandoned>>

\* containers.get(created["Id"]), still inside the try.
Get(t) ==
    /\ pc[t] = "get"
    /\ \/ Live(loc[t].cid) /\ Move(t, "live") /\ UNCHANGED faults
       \/ ~ Live(loc[t].cid) /\ ToClean(t, FALSE) /\ UNCHANGED faults
       \/ Fault("docker") /\ ToClean(t, FALSE)
    /\ UNCHANGED <<octetOf, rows, nets, cts, calls, abandoned>>

\* The except branch: whatever container has the name is removed, a failure to
\* remove it is swallowed, and a conflict goes on to the next attempt.
Clean(t) ==
    LET me == loc[t] IN
    /\ pc[t] = "clean"
    /\ \/ /\ cts' = [c \in Cids |-> IF c \in Named(me.key)
                                    THEN [cts[c] EXCEPT !.st = "gone"] ELSE cts[c]]
          /\ UNCHANGED <<faults, abandoned>>
       \/ /\ Named(me.key) # {} /\ Fault("docker")
          /\ abandoned' = abandoned \cup Named(me.key)
          /\ UNCHANGED cts
    /\ IF me.conflict
       THEN Goto(t, "ip", [me EXCEPT !.triedHosts = @ \cup {me.host}, !.cid = None,
                             !.triedPorts = @ \cup {me.port}, !.left = @ - 1,
                             !.conflict = FALSE])
       ELSE Return(t)
    /\ UNCHANGED <<octetOf, rows, nets, calls>>

\* _live_container_ip, then container.reload(), which nothing guards: when it
\* fails the request ends and the container stays.
Reload(t) ==
    LET c == loc[t].cid IN
    /\ pc[t] = "live"
    /\ \/ Live(c) /\ Move(t, "add") /\ UNCHANGED <<faults, abandoned>>
       \/ ~ Live(c) /\ Return(t) /\ UNCHANGED <<faults, abandoned>>
       \/ Live(c) /\ Fault("docker") /\ Return(t) /\ abandoned' = abandoned \cup {c}
    /\ UNCHANGED <<octetOf, rows, nets, cts, calls>>

RowOf(c, status) == [cid |-> c, oct |-> cts[c].oct, host |-> cts[c].host,
                     port |-> cts[c].port, status |-> status]

\* Mutant: a collision of the row leaves the container behind.
AddInstanceNoUndo(t) ==
    LET me == loc[t] IN
    /\ pc[t] = "add"
    /\ IF rows[me.key].cid = None
       THEN rows' = [rows EXCEPT ![me.key] = RowOf(me.cid, "running")]
       ELSE UNCHANGED rows
    /\ Return(t)
    /\ UNCHANGED <<octetOf, nets, cts, calls, faults, abandoned>>

\* Mutant: INSERT OR REPLACE.
AddInstanceReplace(t) ==
    LET me == loc[t] IN
    /\ pc[t] = "add"
    /\ rows' = [rows EXCEPT ![me.key] = RowOf(me.cid, "running")]
    /\ Return(t)
    /\ UNCHANGED <<octetOf, nets, cts, calls, faults, abandoned>>

\* add_instance: UNIQUE (owner_type, owner_id, challenge_ref).
AddInstance(t) ==
    LET me == loc[t] IN
    /\ pc[t] = "add"
    /\ IF rows[me.key].cid = None
       THEN rows' = [rows EXCEPT ![me.key] = RowOf(me.cid, "running")] /\ Return(t)
       ELSE UNCHANGED rows /\ Move(t, "undo")
    /\ UNCHANGED <<octetOf, nets, cts, calls, faults, abandoned>>

\* "DB logging failed, tearing down container", an APIError swallowed.
Undo(t) ==
    LET c == loc[t].cid IN
    /\ pc[t] = "undo"
    /\ \/ /\ cts' = [cts EXCEPT ![c].st = "gone"]
          /\ UNCHANGED <<faults, abandoned>>
       \/ /\ Live(c) /\ Fault("docker")
          /\ abandoned' = abandoned \cup {c}
          /\ UNCHANGED cts
    /\ Return(t)
    /\ UNCHANGED <<octetOf, rows, nets, calls>>

-----------------------------------------------------------------------------
\* release_instance, also the body of teardown_all, and
\* release_owner_network_if_idle, also called by reconcile.

\* The row the id has before anything is torn down, if it has one.
FindRow(t) ==
    LET c == loc[t].cid IN
    /\ pc[t] = "rfind"
    /\ \/ ~ Tracked(c) /\ Goto(t, "stop", [loc[t] EXCEPT !.key = None])
       \/ \E k \in Keys : rows[k].cid = c /\ Goto(t, "stop", [loc[t] EXCEPT !.key = k])
    /\ UNCHANGED <<octetOf, rows, nets, cts, calls, faults, abandoned>>

\* get and stop: NotFound goes on to the row, any other APIError answers False.
Stop(t) ==
    LET c == loc[t].cid IN
    /\ pc[t] = "stop"
    /\ \/ /\ ~ Live(c)
          /\ Move(t, "row") /\ UNCHANGED <<cts, faults>>
       \/ /\ Live(c)
          /\ cts' = [cts EXCEPT ![c].st = "exited"]
          /\ Move(t, "remove") /\ UNCHANGED faults
       \/ /\ Live(c) /\ Fault("docker")
          /\ Move(t, "next") /\ UNCHANGED cts
    /\ UNCHANGED <<octetOf, rows, nets, calls, abandoned>>

\* Mutant: an APIError clears the row like a NotFound.
RemoveAnyway(t) ==
    LET c == loc[t].cid IN
    /\ pc[t] = "remove"
    /\ \/ cts' = [cts EXCEPT ![c].st = "gone"] /\ UNCHANGED faults
       \/ Live(c) /\ Fault("docker") /\ UNCHANGED cts
    /\ Move(t, "row")
    /\ UNCHANGED <<octetOf, rows, nets, calls, abandoned>>

\* The remove after the stop, with the same errors.
Remove(t) ==
    LET c == loc[t].cid IN
    /\ pc[t] = "remove"
    /\ \/ /\ cts' = [cts EXCEPT ![c].st = "gone"]
          /\ Move(t, "row") /\ UNCHANGED faults
       \/ /\ Live(c) /\ Fault("docker")
          /\ Move(t, "next") /\ UNCHANGED cts
    /\ UNCHANGED <<octetOf, rows, nets, calls, abandoned>>

\* remove_instance.
RemoveRow(t) ==
    /\ pc[t] = "row"
    /\ rows' = [k \in Keys |-> IF rows[k].cid = loc[t].cid THEN NoRow ELSE rows[k]]
    /\ Move(t, IF loc[t].key = None THEN "next" ELSE "count")
    /\ UNCHANGED <<octetOf, nets, cts, calls, faults, abandoned>>

\* Mutant: an owner with one instance left counts as idle.
CountRowsOffByOne(t) ==
    /\ pc[t] = "count"
    /\ Move(t, IF Cardinality(OwnerRows(Owner(t))) > 1 THEN "next" ELSE "goct")
    /\ UNCHANGED <<octetOf, rows, nets, cts, calls, faults, abandoned>>

\* release_owner_network_if_idle: count, octet, network and free are four
\* separate calls.
CountRows(t) ==
    /\ pc[t] = "count"
    /\ Move(t, IF OwnerRows(Owner(t)) # {} THEN "next" ELSE "goct")
    /\ UNCHANGED <<octetOf, rows, nets, cts, calls, faults, abandoned>>

\* Mutant: the octet is freed without removing the network.
GetOctetToFreeKeepNet(t) ==
    /\ pc[t] = "goct"
    /\ LET n == octetOf[Owner(t)] IN
       IF n = 0 THEN Move(t, "next") ELSE Goto(t, "free", [loc[t] EXCEPT !.oct = n])
    /\ UNCHANGED <<octetOf, rows, nets, cts, calls, faults, abandoned>>

GetOctetToFree(t) ==
    /\ pc[t] = "goct"
    /\ LET n == octetOf[Owner(t)] IN
       IF n = 0 THEN Move(t, "next") ELSE Goto(t, "rmnet", [loc[t] EXCEPT !.oct = n])
    /\ UNCHANGED <<octetOf, rows, nets, cts, calls, faults, abandoned>>

Busy(n) == \E c \in Cids : cts[c].st = "running" /\ cts[c].oct = n

\* A network that is missing or still in use leaves the octet allocated.
RemoveNet(t) ==
    LET n == loc[t].oct IN
    /\ pc[t] = "rmnet"
    /\ \/ /\ nets[n] # None /\ ~ Busy(n)
          /\ nets' = [nets EXCEPT ![n] = None]
          /\ Move(t, "free") /\ UNCHANGED faults
       \/ /\ nets[n] = None \/ Busy(n)
          /\ Move(t, "next") /\ UNCHANGED <<nets, faults>>
       \/ /\ nets[n] # None /\ Fault("docker")
          /\ Move(t, "next") /\ UNCHANGED nets
    /\ UNCHANGED <<octetOf, rows, cts, calls, abandoned>>

FreeOctet(t) ==
    /\ pc[t] = "free"
    /\ octetOf' = [octetOf EXCEPT ![Owner(t)] = 0]
    /\ Move(t, "next")
    /\ UNCHANGED <<rows, nets, cts, calls, faults, abandoned>>

-----------------------------------------------------------------------------
\* The loops of teardown_all, reconcile and adopt_untracked.

LoopBody == [kill |-> "rfind", reconcile |-> "check", adopt |-> "adopt"]

NextItem(t) ==
    /\ pc[t] = "next"
    /\ \/ /\ loc[t].todo = {} /\ loc[t].op # "adopt"
          /\ Return(t)
       \/ \* main: adopt_untracked first, then reconcile, then accept
          /\ loc[t].todo = {} /\ loc[t].op = "adopt"
          /\ Goto(t, "next", [NoLoc EXCEPT !.op = "reconcile", !.todo = ActiveTodo])
       \/ \E i \in loc[t].todo :
            Goto(t, LoopBody[loc[t].op],
                 [loc[t] EXCEPT !.todo = @ \ {i}, !.cid = i.cid, !.key = None,
                                !.seen = i.st])
    /\ UNCHANGED <<octetOf, rows, nets, cts, calls, faults, abandoned>>

\* Mutant: the status of a missing container is written back.
CheckNoPrune(t) ==
    LET c == loc[t].cid IN
    /\ pc[t] = "check"
    /\ IF cts[c].st # loc[t].seen THEN Goto(t, "sync", [loc[t] EXCEPT !.seen = cts[c].st])
                                   ELSE Move(t, "next")
    /\ UNCHANGED <<octetOf, rows, nets, cts, calls, faults, abandoned>>

\* reconcile: a missing container loses its row, a changed status is written
\* back, an APIError skips the row.
Check(t) ==
    LET c == loc[t].cid IN
    /\ pc[t] = "check"
    /\ \/ /\ ~ Live(c)
          /\ Goto(t, "row", [loc[t] EXCEPT !.key = cts[c].key])
          /\ UNCHANGED faults
       \/ /\ Live(c) /\ cts[c].st # loc[t].seen
          /\ Goto(t, "sync", [loc[t] EXCEPT !.seen = cts[c].st])
          /\ UNCHANGED faults
       \/ /\ Live(c) /\ cts[c].st = loc[t].seen
          /\ Move(t, "next") /\ UNCHANGED faults
       \/ /\ Fault("docker") /\ Move(t, "next")
    /\ UNCHANGED <<octetOf, rows, nets, cts, calls, abandoned>>

\* update_instance_status, by container id.
SyncStatus(t) ==
    /\ pc[t] = "sync"
    /\ rows' = [k \in Keys |-> IF rows[k].cid = loc[t].cid
                               THEN [rows[k] EXCEPT !.status = loc[t].seen] ELSE rows[k]]
    /\ Move(t, "next")
    /\ UNCHANGED <<octetOf, nets, cts, calls, faults, abandoned>>

-----------------------------------------------------------------------------
\* The daemon dies and starts again.

\* Every thread dies with the process; what Docker and SQLite hold survives.
Crash ==
    /\ Fault("crash")
    /\ pc' = [t \in Procs |-> IF t = Main THEN "boot" ELSE "idle"]
    /\ loc' = [t \in Procs |-> NoLoc]
    /\ abandoned' = abandoned \cup {c \in LiveCids : ~ Tracked(c)}
    /\ UNCHANGED <<octetOf, rows, nets, cts, calls>>

\* Mutant: containers.list without all=True.
BootScanRunning ==
    /\ pc[Main] = "boot"
    /\ Goto(Main, "next", [NoLoc EXCEPT !.op = "adopt",
             !.todo = {[cid |-> c, st |-> "running"] :
                        c \in {c \in Cids : cts[c].st = "running" /\ ~ Tracked(c)}}])
    /\ UNCHANGED <<octetOf, rows, nets, cts, calls, faults, abandoned>>

\* adopt_untracked: the managed containers no row knows; if Docker cannot list
\* them, none; if there is no Docker, main goes on without reconcile too.
BootScan ==
    /\ pc[Main] = "boot"
    /\ \/ /\ Goto(Main, "next", [NoLoc EXCEPT !.op = "adopt",
                 !.todo = {[cid |-> c, st |-> cts[c].st] : c \in {c \in LiveCids : ~ Tracked(c)}}])
          /\ UNCHANGED faults
       \/ /\ Fault("docker")
          /\ \/ Goto(Main, "next", [NoLoc EXCEPT !.op = "adopt", !.todo = {}])
             \/ Return(Main)
    /\ UNCHANGED <<octetOf, rows, nets, cts, calls, abandoned>>

\* One container, its key taken from its labels and its address from Docker if
\* it is on its owner's network; one that does not run has neither address nor
\* ports.  A key that already has a row is skipped.
Adopt(t) ==
    LET c == loc[t].cid
        k == cts[c].key
        st == IF Live(c) THEN cts[c].st ELSE loc[t].seen
        known == cts[c].st = "running" /\ octetOf[k[1]] = cts[c].oct
        row == [RowOf(c, st) EXCEPT
                   !.oct = IF known THEN @ ELSE 0, !.host = IF known THEN @ ELSE 0,
                   !.port = IF st = "running" THEN @ ELSE 0]
    IN
    /\ pc[t] = "adopt"
    /\ IF rows[k].cid = None THEN rows' = [rows EXCEPT ![k] = row] ELSE UNCHANGED rows
    /\ Move(t, "next")
    /\ UNCHANGED <<octetOf, nets, cts, calls, faults, abandoned>>

-----------------------------------------------------------------------------
\* Docker on its own: a container is removed by hand, stops, or is restarted
\* under its restart policy.

DockerRemove ==
    /\ Fault("remove")
    /\ \E c \in LiveCids : cts' = [cts EXCEPT ![c].st = "gone"]
    /\ UNCHANGED <<octetOf, rows, nets, pc, loc, calls, abandoned>>

DockerExit ==
    /\ Fault("exit")
    /\ \E c \in Cids, s \in {"exited", "restarting"} :
         /\ cts[c].st = "running"
         /\ cts' = [cts EXCEPT ![c].st = s]
    /\ UNCHANGED <<octetOf, rows, nets, pc, loc, calls, abandoned>>

DockerRestart ==
    /\ \E c \in Cids :
         /\ cts[c].st = "restarting"
         /\ nets[cts[c].oct] # None /\ ~ AddressTaken(c)
         /\ cts' = [cts EXCEPT ![c].st = "running"]
    /\ UNCHANGED <<octetOf, rows, nets, pc, loc, calls, faults, abandoned>>

-----------------------------------------------------------------------------
SpawnStep(t) ==
    \/ Find(t) \/ GetOctet(t) \/ AllocOctet(t) \/ GetNet(t) \/ MakeNet(t)
    \/ Build(t) \/ PickAddress(t) \/ Create(t) \/ Start(t) \/ Get(t)
    \/ Clean(t) \/ Reload(t) \/ AddInstance(t) \/ Undo(t)

ReleaseStep(t) ==
    \/ FindRow(t) \/ Stop(t) \/ Remove(t) \/ RemoveRow(t) \/ CountRows(t)
    \/ GetOctetToFree(t) \/ RemoveNet(t) \/ FreeOctet(t)

LoopStep(t) == NextItem(t) \/ Check(t) \/ SyncStatus(t) \/ Adopt(t)

Request(t) == EnsureInstance(t) \/ ReleaseInstance(t) \/ KillSwitch(t) \/ Reconcile(t)

ThreadStep(t) == SpawnStep(t) \/ ReleaseStep(t) \/ LoopStep(t)

Environment == Crash \/ DockerRemove \/ DockerExit \/ DockerRestart

Next ==
    \/ \E t \in Threads : Request(t)
    \/ \E t \in Procs : ThreadStep(t)
    \/ BootScan
    \/ Environment

Spec == Init /\ [][Next]_vars

\* What a promise about subnets needs of the requests that meet, any number of
\* them.  The plugin reserves a row of its own per key before it asks for a spawn,
\* so that two spawns of a key do not meet unless that row is torn down meanwhile;
\* and no owner's subnet is let go while a spawn of that owner has read its octet,
\* which nothing in the code sees to.
NetPcs == SpawnPcs \ {"octet", "alloc"}
FreePcs == {"goct", "rmnet", "free"}
KeysApart ==
    \A t, u \in Procs : pc[t] \in SpawnPcs /\ pc[u] \in SpawnPcs /\ t # u
                            => loc[t].key # loc[u].key
SubnetsApart ==
    \A t, u \in Procs : pc[t] \in NetPcs /\ pc[u] \in FreePcs => Owner(t) # Owner(u)
Orderly == KeysApart /\ SubnetsApart

OrderlySpec == Init /\ [][Next /\ Orderly']_vars

\* The operating system runs every thread, and every Docker call returns.
FairSpec == Spec /\ (\A t \in Procs : WF_vars(ThreadStep(t))) /\ WF_vars(BootScan)

-----------------------------------------------------------------------------
\* Properties.

RowType == [cid : Cids \cup {None}, oct : Octets \cup {0}, host : Hosts \cup {0},
            port : Ports \cup {0}, status : LiveStates \cup {"none"}]
CtType  == [key : Keys \cup {None}, oct : Octets \cup {0}, host : Hosts \cup {0},
            port : Ports \cup {0}, st : LiveStates \cup {"unused", "gone"}]
TodoType == [cid : Cids, st : LiveStates]
LocType == [op : Ops, key : Keys \cup {None}, oct : Octets \cup {0},
            host : Hosts \cup {0}, port : Ports \cup {0},
            triedHosts : SUBSET (Hosts \cup {0}), triedPorts : SUBSET (Ports \cup {0}),
            left : Nat, cid : Cids \cup {None}, conflict : BOOLEAN,
            seen : LiveStates \cup {"none"}, todo : SUBSET TodoType]

\* The types of the tables, of Docker's objects and of the threads' locals.
TypeOK ==
    /\ octetOf \in [Owners -> Octets \cup {0}]
    /\ rows \in [Keys -> RowType]
    /\ nets \in [Octets -> Owners \cup {None}]
    /\ cts \in [Cids -> CtType]
    /\ pc \in [Procs -> Pcs]
    /\ loc \in [Procs -> LocType]
    /\ calls \in 0..MaxCalls /\ faults \in 0..MaxFaults
    /\ abandoned \subseteq Cids

\* A spawning thread still answers for the container it created.
InFlight(c) == \E t \in Procs : pc[t] \in HoldPcs /\ loc[t].cid = c

\* No container is forgotten: whatever the interleaving, a container Docker has
\* is in the instances table, or a spawn_instance that will add or remove it is
\* under way, or the daemon died or Docker failed it just then.
ContainersAccounted ==
    \A c \in LiveCids : Tracked(c) \/ InFlight(c) \/ c \in abandoned

\* release_instance, kill_switch and reconcile drop a row only when Docker no
\* longer has the container: an error answer of Docker keeps it.
RowsOutliveContainers ==
    [][\A k \in Keys : rows[k].cid # None /\ rows'[k].cid # rows[k].cid
                          => ~ Live(rows[k].cid)]_vars

\* A container that may have been left without a row by an error of Docker.
Stray(c) == c \in abandoned /\ "docker" \in FaultKinds

\* "Containers from different owners can never reach each other": a running
\* container is on the network that was made for its own owner.
OwnNetwork ==
    \A c \in Cids : cts[c].st = "running" => nets[cts[c].oct] = cts[c].key[1] \/ Stray(c)

\* An owner with instances keeps its octet, so the firewall rules built from
\* the tables still cover them, and a network that exists is its owner's.
OwnersKeepSubnet ==
    /\ \A k \in Keys : rows[k].cid # None => octetOf[k[1]] # 0 \/ Stray(rows[k].cid)
    /\ \A n \in Octets : nets[n] # None => octetOf[nets[n]] = n

\* What a thread at step p with locals me knows of its container, its key and
\* its octet.  Containers (ct) keep their key, and one that is gone stays gone,
\* so the steps of the other threads leave it true.
Issued(c, ct) == c \in Cids /\ ct[c].st # "unused"
ItemPcs == {"rfind", "stop", "remove", "row", "count", "goct", "rmnet", "free", "check",
            "sync", "adopt"}
LocOK(p, me, ct) ==
    /\ p \in SpawnPcs \cup {"find", "count", "goct", "rmnet", "free"}
         => me.key \in Keys
    /\ p \in SpawnPcs \cup {"find"} /\ me.cid # None
         => Issued(me.cid, ct) /\ ct[me.cid].key = me.key
    /\ p \in HoldPcs \ {"clean"} => me.cid # None
    /\ p \in (SpawnPcs \ {"octet", "alloc"}) \cup {"rmnet"} => me.oct \in Octets
    /\ p \in {"create", "start", "get", "clean"} => me.left > 0
    /\ p \in ItemPcs => Issued(me.cid, ct)
    /\ p = "row" => ct[me.cid].st \notin LiveStates
    /\ p \in {"sync", "adopt"} => me.seen \in LiveStates
    /\ \A i \in me.todo : Issued(i.cid, ct)
    /\ me.todo # {} => me.op \in {"kill", "reconcile", "adopt"}
ThreadsOK == \A t \in Procs : LocOK(pc[t], loc[t], cts)

\* The tables and Docker agree on keys, and a name is carried once.
KeysAgree ==
    /\ \A c \in Cids : cts[c].st # "unused" => cts[c].key \in Keys
    /\ \A k \in Keys : rows[k].cid # None
                            => Issued(rows[k].cid, cts) /\ cts[rows[k].cid].key = k
    /\ \A c, d \in LiveCids : cts[c].key = cts[d].key => c = d

\* The inductive invariant of the two properties above.
IInv == TypeOK /\ KeysAgree /\ ThreadsOK /\ ContainersAccounted

Quiet == \A t \in Procs : pc[t] = "idle"

\* Between requests every managed container is tracked, also after the daemon
\* died in the middle of one: start-up adopts what no row knows.
QuietTracked == Quiet => \A c \in LiveCids : Tracked(c) \/ Stray(c)

\* spawn_instance is idempotent: a container that is tracked is only ever torn
\* down by a request to release it.
OnlyReleaseRemoves ==
    [][\A c \in Cids : Tracked(c) /\ Live(c) /\ cts'[c].st = "gone"
                          => \E t \in Procs : pc[t] = "remove" /\ loc[t].cid = c]_vars

\* allocate_octet "Idempotently return[s] this owner's octet": it does not fail
\* for an owner that has one.
OctetIdempotent ==
    [][\A t \in Threads : pc[t] = "alloc" /\ pc'[t] = "idle"
                              => octetOf[Owner(t)] = 0]_vars

\* The create loop's "retry with a fresh IP": a spawn does not give up for want
\* of an address while its subnet has one that was never tried.
RetryIsFresh ==
    [][\A t \in Threads : pc[t] = "ip" /\ loc[t].left = 0 /\ pc'[t] = "idle"
          => FreeHosts(Owner(t), loc[t].oct) \subseteq loc[t].triedHosts]_vars

\* kill_switch "tears down every tracked container": when it answers, no
\* tracked container runs.
KillSwitchStopsAll ==
    [][\A t \in Threads : pc[t] = "next" /\ loc[t].op = "kill" /\ pc'[t] = "idle"
          => \A c \in Cids : Tracked(c) => cts[c].st # "running"]_vars

\* "keeps the firewall rule set free of stale owners": between requests only
\* owners with instances hold an octet.
NoStaleOctet ==
    Quiet => \A o \in Owners : octetOf[o] # 0 => OwnerRows(o) # {}

\* The service keeps what InstanceTable promises of instances, whatever its
\* threads, Docker and the process's deaths do in between.
Table == INSTANCE InstanceTable WITH table <- [k \in Keys |-> rows[k].cid],
                                     gone <- {c \in Cids : cts[c].st = "gone"}
ImplementsTable == Table!Spec

\* Every request is answered, and start-up ends.
RequestsReturn == \A t \in Procs : pc[t] # "idle" ~> pc[t] = "idle"
=============================================================================
