# A TLA+ model of the edo plugin

The repository is a CTFd plugin that gives every participant (or team, the
*owner*) a container of their own per challenge, reached over WireGuard. Two
programs share the work: the **plugin** inside CTFd (several gunicorn workers,
one SQL database) and a root **daemon** on the same host (one thread per RPC, one
SQLite file, Docker, iptables, WireGuard). They talk over a Unix socket, one
request and one answer per connection.

This directory models the parts of them where several actors meet, checks the
models with TLC and proves the most important facts with TLAPS.

## Inventory

| Part | State | Operations | What is hard | What makes it correct |
|---|---|---|---|---|
| Container service (`daemon/edo_core/containers.py`, `db.py`, `edo_daemon.py`) | tables `owner_octets`, `instances`; Docker networks and containers | spawn, release, kill switch, reconcile, start-up adoption | a thread per request, a lock only around each database call, a semaphore only around spawns; Docker fails at any call; the daemon dies | no container forgotten; rows outlive containers; an owner's containers stay on its own network; requests are answered |
| Plugin instances (`api/user.py`, `api/admin.py`, `scheduler.py`, `models.py`) | table `edo_instances` | spawn, teardown, extend, force teardown, kill switch, TTL sweep, reconciler | every RPC is a gap between two transactions; answers time out while the daemon goes on; workers die | the cap; one spawn of a key at a time; rows and daemon agree, or are brought to agree |
| Worker leases (`scheduler.py`) | table `edo_worker_leases` | acquire or renew, run the job | workers delayed between reading the clock and writing; jobs longer than the lease | one worker within its lease; takeover in bounded time |
| RPC (`daemon_client.py`, `edo_daemon.py`) | none | call, serve | timeouts, lost connections | a part of the plugin instances' model |
| Firewall (`network.py`, `edo_daemon.py`) | iptables chains | rebuild from the tables | concurrent rebuilds, tables read before the rules are applied | the rules of the last tables; isolation between owners |
| VPN peers (`wireguard.py`, `db.py`, `api/user.py`, `api/admin.py`) | table `peers`, `EdoPeer`, the server's configuration file, the interface | ensure, remove, bulk generation, revoke | several stores and no common transaction; a file rewritten without a lock | one address per user; revoked peers are off the interface |
| Flag progress (`challenge_type.py`, `api/user.py`, `api/admin.py`) | `EdoFlagSolve`, CTFd's `Solves` and `Fails` | submit, reset | teammates submitting at once, a worker dying between two commits | a complete set is a solve, once |
| Scoring (`challenge_type.py`, `api/admin.py`) | the challenge's columns, `EdoFlagWeight` | decay functions, partial credit, the admin's warning | rounding, boundaries, values that are not set | bounds and monotonicity; one total for admins and participants |
| Rate limiter (`decorators.py`) | a deque of times per key and process | check | the clock is read before the lock is taken; the window's edges | how many a window lets through; an honest `retry_after` |
| Owner resolution, settings, pages, set-up, deployment | - | - | no behaviour of their own | - |

Threads interact through the tables and Docker; plugin and daemon only through
RPCs; the workers only through the SQL database. No part calls back into
another.

## Modules

| Module | What it models |
|---|---|
| `Containers` | the container service, one Docker or database call per step |
| `ContainersProofs` | its theorems |
| `InstanceTable` | the abstract table of instances that `Containers` and `InstanceRows` both implement |
| `WorkerLease`, `WorkerLeaseProofs` | the leader election of the background jobs and its theorems |
| `InstanceRows`, `InstanceRowsProofs` | the plugin's instance rows and jobs over the daemon's RPCs, and theorems |
| `FlagProgress`, `FlagProgressProofs` | the flags an owner's members find, the solve they add up to, and its theorems |
| `Firewall`, `FirewallProofs` | the rule chain and its rebuilds, and theorems |
| `VpnPeers`, `VpnPeersProofs` | WireGuard peers in the daemon's table, file and interface, and the plugin's rows, and theorems |
| `RateLimit`, `RateLimitProofs` | the window of the requests one process lets through, and theorems |
| `Scoring`, `ScoringProofs` | decay and weights, as relations between inputs and values, and theorems |
| `MC*` | the symmetry sets of the runs; `MCFlagProgress` also evaluates `Scoring` over small inputs |

### Containers

`octetOf` and `rows` are the tables, keyed as their unique constraints are;
`nets` and `cts` are what Docker has; `pc` and `loc` are each thread's next step
and the local variables the code carries over a step. `DatabaseManager._conn`
holds one lock and one transaction for the length of a method, so a database call
is one step (`GetOctet` and `AllocOctet` are the two transactions of
`allocate_octet`); a Docker call is one step, and so are a `get` and the call on the
object it returned where the code has them next to each other (the clean-up at
`containers.py:514`, the network at 336): the `get` changes nothing, and what can happen
to the object before the call is that it goes, after which the call answers `NotFound` as
the `get` would have. `Stop` and `Remove` are two steps, as stopping takes up to ten
seconds. Between two steps any other thread,
Docker (`DockerRemove`, `DockerExit`, `DockerRestart`), or the end of the process
(`Crash`) may come. `Find` takes the semaphore: at most `MaxSpawns` threads are
between it and the end of the spawn.

Docker is external. It is modelled by the answers the code distinguishes: names
of live containers are unique, a network name denotes whatever network has it
*now*, a start fails while another running container has the address or the host
port, a network with a running container cannot be removed, and any call may fail
(`Fault("docker")`). An octet stands for its bridge name and its subnet, a host
number for an address, `port` for the host ports of a public challenge.

A request begins in `Accept`, once start-up (`BootScan`, `Adopt`, `Check`) is
over, and ends in `Return`. When Docker is away at start-up, adoption and reconciliation
are both skipped, as the `RuntimeError` of the first skips the second.

Two spawns of one key, and a spawn beside a release of its owner's subnet, break promises
of the code (below). `KeysApart` and `SubnetsApart` name exactly these overlaps, and
`OrderlySpec` is every other interleaving, of any number of threads. `SubnetsApart` is
about the steps at which a spawn has read its octet (`NetPcs`) and those at which a
release is past its count of rows (`FreePcs`). A container that an error of Docker left
without a row is a `Stray`; the properties about rows and networks excuse it, for it
stays untracked until the next start, and by then its owner's subnet may be another's.

### InstanceTable

What the plugin may rely on: which container stands for an owner's challenge, and
which containers are gone. A key takes a container only when it has none, and never
one that stands for another key; it lets go of it only when Docker no longer has the
container; what is gone stays gone. `Containers!Table` maps it to the daemon's table
`instances` and to Docker's containers, `InstanceRows!Table` to the table and the
containers its RPC outcomes change. `ImplementsTable` says of either that each of
its steps is a step of the abstract table or leaves it as it is.

`InstanceRows` does not run the threads of `Containers`; it lets an RPC have one of
a set of outcomes at once. The common abstraction is what ties the two: an outcome
that the container service cannot have, such as a key that changes its container
without losing the first, is a step of neither. It is a safety interface only: that
spawn returns the container the table has is in both modules but not in the
interface, and that the service answers at all is `RequestsReturn`.

### WorkerLease

One lease; both jobs use the same code on rows that never meet. `UpdateLease`,
`SelectLease` and `InsertLease` are the three statements of
`_try_acquire_lease`; the UPDATE evaluates its WHERE on the row as it is at that
moment, with the `now` the worker read at its tick. The scheduler's settings
(`coalesce`, `max_instances`, `misfire_grace_time`) are in `TickJob`. `last` and
`grant` are ghosts the properties use.

The comment at `scheduler.py:69-71` says that a new leader takes over "within one
lease window at most"; the worker has to tick as well, and `TakeoverBound` states
a lease and an interval.

### InstanceRows

`rows` is `edo_instances`; a request or a job is a process with the rows it read
(`Held`) and the RPC it waits for. `Serve` lets the daemon execute a waiting
request; `Timeout` lets the caller go on with an error while the request stays in
`late`, to be executed by `ServeLate` at any time after. What the daemon does with
a request is a set of outcomes (`Outcomes`): the effect on its table and on
Docker, the answer, and the fault it took. A `"firewall"` fault is the rebuild
that fails after the work was done, so that the answer is an error; a `"docker"`
fault is the `{"removed": False}` that counts as success.

SQLAlchemy's part is in `Present` and `Commit`: a delete of a row that is gone
only warns, an update of one fails and rolls the transaction back. `Refused` is a
container that Docker refuses to stop or, once stopped, to remove; `Pruned` a
reconciliation that skips one Docker does not answer for.

`KeysApart` says that no two requests or jobs work on one row (`Works`) at a time, and
`OrderlySpec` is every interleaving that keeps to it: requests for different challenges,
of one owner or several, and the sweep beside them. Nothing in the plugin sees to it;
what happens without it is in the table of broken promises.

### FlagProgress

One owner and one challenge: owners share no rows. `found`, `solved` and `fails`
are its rows of `EdoFlagSolve`, `Solves` and `Fails`. The database of
`docker/docker-compose.yml` is MariaDB 10.11, whose transactions read a snapshot
taken at their first read (REPEATABLE READ) while unique keys are checked against
the rows as they are. A step is therefore what one transaction reads, or one
commit: `Submit` is everything `submit_flag` reads before its first commit,
`Record` that commit, `Progress` what the next transaction reads (the count of the
set, and whether there is a solve), `InsertSolve` the last commit. `Native` and
`Credit` to `InsertSolve` are the same for CTFd's own route, which decides by
`attempt()` in one snapshot and then calls `solve()` or `fail()`; that it asks
first whether there is a solve is CTFd's and external. Two submissions that match
one flag, or two solves, meet in the unique keys; the loser's request fails.

### RateLimit

One key in one process. `log` is all that was let through, in the order of the
lock, and `head` how many of them the deque has dropped; `Call` reads the clock,
`Admit` or `Refuse` is what happens under the lock, and other threads may pass in
between. So the deque need not be sorted, and the loop that pops from its left may
stop at an entry behind which older ones hide. `Second` keeps the clock finer than
the whole seconds of `retry_after`. `submit_rate_limit` is at least 1, for 0 counts
as not set; a negative setting, which the settings page accepts, is not modelled
(the code then refuses from an empty deque and fails on its first entry). Two
workers count apart, as the README of the plugin says.

### Scoring

What a challenge is worth now and what part of it an owner has earned are functions
of a few columns, without state of their own. `DynamicValue` is `_dynamic_value`,
`PercentEarned` is `owner_progress`, `SumTo100` the admin's warning. The code
divides floats; the model takes the exact quotient and lets a half be rounded to
either side.

Both are shown to participants only. CTFd's scoreboard sums `Challenges.value`, as
the comment at `challenge_type.py:193` says, and nothing in the plugin writes the
decayed value there: a challenge with dynamic scoring pays the column `value`, the
same to the first and to the last that solves it. The comment at
`challenge_type.py:259`, by which the achieved value is computed "at rendering /
scoreboard time", is true of the rendering only.

### VpnPeers

A run begins with any set of users provisioned one after the other (`Provisioned`).
A peer lives in four places: `peers` (the daemon's table), `file` (`wg0.conf`: its
header, its blocks as a set, and the last key of each address, which is what counts
when the interface is loaded from it), `live` (which key an address is routed to) and
`rows` (the plugin's `EdoPeer`). A process is an HTTP request together with the daemon's thread that serves its RPC;
after `Timeout` the request is over and the thread goes on (`gone`). Keys are
numbers in the order of `peers.id`. `ReadHeader`, `ListPeers`, `Truncate` and
`Write` are the steps of `_rewrite_server_config`, since `write_text` empties the
file before it writes. `Locked` is MariaDB's: an INSERT waits for an uncommitted
row of the same unique key, as bulk generation holds many.

The daemon's handlers share no lock, and some interleavings lose a peer or write
one back: two removals at once, a removal of a peer that is still being added, an
append between the list and the write of a removal. `Overlap` names exactly these;
`DaemonAgrees` and `RevokedGone` hold up to them, and are refuted without that
exclusion. `RowsHavePeers` needs none of it: it holds under every interleaving, while
`wg` may fail and the daemon may be down, and ends where a handler is cut off or a
file write or the firewall fails (`Harmless`). Refuted, too, are
`DaemonAgrees` under write errors (the rollback of `add_peer` takes back the table
row only) and `RevokedGone` under a failing `wg` (it is logged and the peer stays).

A `wg` that fails to generate or derive a key (`Load`, `LoadExisting`, `Alloc`), a file
that cannot be opened, a write that fails after it emptied the file (`Write`) and a
client's file that cannot be unlinked once the row is gone (the last disjunct of
`Rebuild`) end the request with an error and leave what was done before.

### Firewall

A run begins with any tables the daemon may have kept and with an empty chain, as
after a start of the host, before the rebuild of `main`. `peers` and `octets` are the
daemon's tables as far as the rules depend on them, `chain` the rules of `EDO_FORWARD` in
order, `jumps` how often the host's chain jumps to it; of the two host chains
`_unhook_edo_from_all` looks at, the model has the one that is hooked. A handler changes a
table (what it does before is in `VpnPeers` and `Containers`), and then `ReadPeers`,
`ReadOctets`, `Start`, `Unhook` and `Delete`, `Hook`, `Flush`, `CheckRule` and
`AppendRule`, and `Clear` when a rule cannot be appended, are the database calls and
commands of `_rebuild_firewall`, each a step. `Rollback` and the second disjunct of
`RemovePeer` are the ways of changing `peers` without a rebuild. `BuildRules` is
`_build_chain_rules` and `Verdict` how iptables reads the chain.

`TableRule` is what the rules of `_build_chain_rules` come to, packet by packet, and
`ChainAgrees` compares the chain with that, not with what the header of `network.py` says
of it. The header (`network.py:11-14`) and the README of the plugin (24-25, 404-407) say
that a peer only reaches its own owner's subnet and that the daemon's rules see to it.
For a peer and another owner's subnet there is no rule in either direction, and the
packet is left to the host's own rules: `PeersConfined` states the promise, the run
`firewall_isolation` refutes it, and `ForeignOpen` states what the code does instead.

The docstring of `apply_firewall` calls the rules "impossible to drift out of sync
with the DB". `NoDrift` holds for handlers that follow one another and rebuild; a
reconciliation, a spawn that fails after taking an octet, a rolled back addition and a
removal that ends in an error do not rebuild. `ChainAgrees` holds also when they overlap,
as long as those who wrote to the chain since its last flush had read the tables as they
are.

## Runs

Every run sets `CHECK_DEADLOCK FALSE`: requests are bounded by `MaxCalls`, the
clock by `MaxTime`, and a model that has used them up stops.

`MaxCalls` bounds the requests, `MaxFaults` the faults of all kinds,
`FaultKinds` which kinds; `Cids` is as large as the containers that can be
created within them.

| Run | Bounds | Shows |
|---|---|---|
| `containers_orderly` | 2 threads, 2 owners, 2 challenges (one public), 1 subnet, 1 address, 1 port, 5 requests, 2 faults of 3 kinds, `OrderlySpec` | isolation, subnets kept, adoption, idempotence, under every interleaving but the two overlaps `OrderlySpec` names. One of everything makes every allocation contested; five requests are needed for a release to follow two spawns, a stop and a reconcile |
| `containers_races` | 3 threads and a semaphore of 2, 1 owner, 2 challenges (one public), 2 subnets, 2 addresses, 2 ports (one taken by the host), 3 requests, 1 fault of 5 kinds, fair | under every interleaving nothing is forgotten, rows outlive containers, requests return, and the service implements the abstract table. Three spawns at once make the third wait for the semaphore |
| `lease_exclusive` | 2 workers, interval 2, lease 6, no grace, clock to 13 | exclusion with arbitrary delays; two takeovers fit in the time |
| `lease_takeover` | 3 workers, interval 2, jobs up to 5, clock to 16 | bounded takeover; two leaders may die in turn |
| `rows_orderly` | 2 workers, a sweeper, a reconciler, 1 owner, 3 challenges, cap 1, 5 requests, 2 faults of 3 kinds, `OrderlySpec` | the cap is overshot by no more than the workers that counted together; rows and daemon agree whenever nobody is at work. Three challenges give two workers and a job a row each, and room for an overshoot |
| `rows_heal` | all routes, 2 workers, a sweeper, a reconciler, 1 owner and challenge, 2 requests beside the jobs, 1 of 8 kinds of fault (any number of times) | pending rows are accounted for and resolve, stale rows go, and what RPCs do are steps of the abstract table. Two requests are what a race takes; what the bounds leave out of the safety properties is in the proofs, which have none |
| `flags_team` | 3 members, 1 admin, 3 flags, `max_attempts` 2, 7 requests, 1 death | the complete set is a solve and nothing less is; failures stay near the limit. Three members make a count that two others overtake; seven requests are two beyond what completes the set with both failures. Before it starts, TLC evaluates `Scoring` over challenges with small values and flags with three weights |
| `firewall` | 2 owners, 1 peer address, 2 octets, 2 threads, from any tables, 2 requests and the rebuilds of the starts, 2 of 6 kinds of fault (any number of times) | the chain decides as the tables say; rebuilds leave it hooked; deaths and restarts heal. Because the tables may be full at the start, two requests are enough for two rebuilds that have read different tables. One address can be given to either owner; that any number of peers makes no difference is a theorem, `ChainDecides` |
| `peers` | 2 users, 2 addresses, 2 processes, all routes, 3 requests, from any provisioned set, 1 of 7 kinds of fault (any number of times) | the daemon's stores agree, rows stand for peers, revoked keys are gone. Three requests are a revocation that fails, its retry, and another request beside either |
| `rate_limit` | 3 threads, limit 1 or 2, a window of 2 ticks, 2 ticks to a second, clock to 6, 6 requests | a window lets at most one request per other thread through beyond the limit; `retry_after` is honest. The clock runs through three windows, and six requests fill two of them |

## Promises the code does not keep

Two runs end in a violation, a disagreement between the code and what its comments
promise about the system's main purpose, with the smallest instance that shows it:

| Run | Promise | What happens |
|---|---|---|
| `containers_isolation` | owners never reach each other | an octet read before the build is freed and given to another owner during it |
| `firewall_isolation` | the daemon's rules keep a peer from other owners' subnets | no rule is about that packet |

More of them are stated as properties in the modules. Their configurations are
kept here and show the counterexample when given to TLC by hand
(`tlc -config Containers_octetRace.cfg MCContainers`, and so on); they are not
part of the regular runs, which ask a question each that the code answers:

| Configuration | Promise | What happens |
|---|---|---|
| `Containers_octetRace.cfg` | `allocate_octet` is idempotent | the loser of two first spawns fails |
| `Containers_retry.cfg` | a fresh IP for each retry | the same address again |
| `Containers_sameKey.cfg` | spawns are idempotent | the loser of a name conflict removes the winner's container |
| `Containers_killSwitch.cfg` | every tracked container | those with another status are skipped |
| `Containers_octetLeak.cfg` | no stale owners in the firewall rules | a failed spawn keeps its octet |
| `Containers_adoption.cfg` | no container is orphaned | adoption before pruning skips one |
| `WorkerLease_oneWorker.cfg` | exactly one worker | a long job runs twice |
| `InstanceRows_cap.cfg` | cap per owner | two spawns count, then both insert |
| `InstanceRows_reserve.cfg` | the row closes the race | a pending row can be torn down |
| `InstanceRows_spawnFails.cfg` | nothing was created | the daemon was only slow |
| `InstanceRows_confirmed.cfg` | confirmed gone | the snapshot is older than the row |
| `InstanceRows_extended.cfg` | expired instances only | extended during the sweep |
| `InstanceRows_failedSweep.cfg` | failures are surfaced | `removed: False` is a success |
| `InstanceRows_stale.cfg` | no stale instance is taken for live | after the kill switch it is |
| `InstanceRows_drift.cfg` | the reconciler heals | it logs |
| `VpnPeers_bulk.cfg` | every user without a peer gets one | a revoked row still holds its unique user and address; its user's INSERT fails and takes the whole transaction along |
| `Firewall_drift.cfg` | the rules cannot drift from the tables | reconcile and failed spawns do not rebuild; of two rebuilds the one with older tables may write last |
| `RateLimit_exact.cfg` | a sliding window (the module's comment) | a thread that was overtaken between the clock and the lock is counted in a window that had let its limit through |
| `FlagProgress_award.cfg` | a solve is never made short of the full set | an admin's reset comes between a teammate's count and its solve |

One more configuration passes and is kept for the same reason:
`InstanceRows_clicks.cfg` (the unique row lets one spawn of a key through to the daemon).
That the retry loop removes nobody's container when spawns of one key do not overlap is a theorem, `OnlyReleases`.

## Fairness

`Containers!FairSpec`: weak fairness for each thread and for start-up. The
threads are operating-system threads, the database lock is held for one method,
and every Docker call returns (the SDK has a timeout). The image build is a subprocess
for which `containers.py:253` sets no timeout: fairness of `Build` supposes that it ends.
Nothing makes clients send
requests or Docker fail.

`InstanceRows!FairSpec`: weak fairness for what a process has begun, for the
daemon's answer and for the two jobs (interval jobs on some worker that holds the
lease, see `WorkerLease`). Requests are not fair, nor is the passing of a row's
TTL: `RowsHeal` and `PendingResolves` are about rows the jobs' queries select.

`WorkerLease!PromptSpec` is no fairness but timing: ticks come on time, the lease
statements take less than a unit of the clock and a job at most `JobMax`. It is
used for `TakeoverBound` only, in its run and in its theorem; `Spec`, without it, is
what exclusion is checked and proved for.

## Proofs

TLAPS checks the theorems for every value of the constants: any number of owners,
threads, containers, requests and faults. They rest on one assumption in each module
(`ConstantsAssumption`, `LeaseAssumption`, `RowsAssumption`, `FlagsAssumption`,
`FirewallAssumption`, `RateAssumption`, `PeersAssumption`), which says that the sets that are counted
are finite, that values which must differ do, and that bounds are numbers; TLC
evaluates them in the runs.

`ContainersProofs`. The claim that no container is forgotten is not inductive:
that the thread at `add` or `undo` still answers for its container depends on
which container it holds and on its key. `IInv` adds the types, the agreement of
rows, containers and names on keys (`KeysAgree`) and what each thread knows at each
of its steps (`LocOK`). All of what a thread knows is stable under the steps of
others because a container keeps its key and one that is gone stays gone
(`Monotone`, lemma `LocStable`), so that each step needs an argument about its own
thread only (lemma `StepPreserves`). `RowsOutlive` follows from `IInv`: at `row`
the thread knows that its container is gone. So does `Refinement`: `KeysAgree` makes
the table injective, and each database step is one of `InstanceTable`'s.

The other properties of the containers hold for any number of threads, interleaved call by
call, and need hypotheses on which requests meet; the counterexamples above are what
happens without them. `OnlyReleases` and `TrackedWhenQuiet` suppose that no two spawns of
one key overlap (`KeysApart`): two of them race for the name (`Containers_sameKey.cfg`),
and a death in the middle of that leaves a row start-up adopts nothing over
(`Containers_adoption.cfg`). `SpawnInv` says that the key a spawn works for has no row
until it inserts it, and that its container, like those that start-up has still to adopt,
has its name to itself, so that what the `except` branch removes by name is never tracked.
`BootInv` (no request is served before start-up ends) keeps spawns and adoption apart.
`AbandonedInv` follows a container through the death of the daemon: it is tracked, or
start-up is about to find it, or has still to adopt it (lemmas `AdoptingWas`,
`AdoptingEnds`); with `ContainersAccounted` nothing is then left between requests but what
an error of Docker left behind (`Stray`). `OnlyReleases` supposes besides that nobody
removes a container by hand.

`IsolatedOwners` and `SubnetsKept` are theorems of `OrderlySpec`: besides `KeysApart`, no
release is between its count of rows and the free of the octet while a spawn of the same
owner holds that octet (`SubnetsApart`), which is the one race that refutes them in the
instance of `containers_isolation`. Everything else may overlap, two releases of one owner
included, calls to Docker may fail, containers may be removed by hand, exit and restart,
and the daemon may die at any step. `SubnetInv` ties the three stores together: an octet is
one owner's (`OctetsApart`), a container is on its owner's octet (`OnOctet`), a network is
that of the octet's owner, a spawn past `ensure_owner_network` still holds its owner's
octet, and an owner that is being let go has neither row nor container (`Unused`, in
`OctetKnows`). The last is where the work lies: `release_owner_network_if_idle` counts rows
only, and that there is no container without one follows from `KeptInv` (lemma
`CountUnused`); that none comes while the release goes on, from `SubnetsApart` (lemma
`UnusedStays`). A container that starts or restarts then finds its own owner's network.

`WorkerLeaseProofs`. `LeaseExclusive` is not inductive either: `LeaseInv` adds that
the expiry in the row is at most what its holder's `now` allows, and that a worker
in the job either still holds the lease it won or has seen its expiry pass.
`LeaderSoon`, of `PromptSpec` and for jobs no longer than a lease, bounds what each
worker still waits for (`Waits`): its next tick is within an interval of the last win,
or of the expiry of the lease it met when it lost.

`FlagProgressProofs`. That a solve stands for the whole set says nothing of the
requests that are about to insert it: `OverInv` adds that whoever is past the check
of completeness, on either route, has a complete set behind it, which is stable
because without a reset finds are only added. `NoUnderAward` is inductive with the
types: the request that completes the set is the one that commits last, and its
count comes after its commit. For `max_attempts` the inductive fact counts the
failures recorded together with those under way (`AttemptsInv`): a request passes
the check only while fewer than `MaxAttempts` are recorded, and then at most every
other member is on its way to record one.

`InstanceRowsProofs`. A pending row has a request at work only if what that request
holds, and the step at which it holds it, agree with the row: `IInv` adds what each
process knows at each step (`ProcOK`), that identities are not used twice
(`RowsOK`), that requests in flight name keys (`ReqOK`), and that the daemon's table
names different containers for different keys (`TrackedOK`). `Refinement` needs the
last alone, over all outcomes of an RPC.

`CapWithinWorkers` is about the gap between the count and the insertion (`user.py:121`),
with any number of workers in it: a spawn that has counted found room, so that an owner's
active rows and the spawns that have counted but not inserted yet (`Inserting`) are
together fewer than the cap and the workers (`Room`, in `CapInv`). It needs no hypothesis
on faults or interleavings. That no row becomes active in another way is why `CapInv` also
follows identities: what a job remembers of a row with a container is neither a row to
come nor one that is pending (`Settled`). The cap itself is not kept
(`InstanceRows_cap.cfg`).

`AgreeWhenQuiet` supposes that no two requests or jobs work on one row at a time
(`KeysApart`) and that RPCs are answered (`Calm`: spawns may fail, containers may go or
exit), with any number of workers, sweepers and reconcilers on other rows. `OrderlyInv`
says that a row nobody works on agrees with the daemon's entry, and what each process knows
of those it works on (`Knows`): the row of a request is reserved, whole or emptied, and
what a sweep has still to do is as it found it (`Sweeping`). A step of one process is
`Tidy` if it disturbs no row but its own and leaves those it lets go in agreement; one
lemma per action says so, and `TidyPreserves` does the rest. A timeout breaks `QuietAgree`,
since the daemon goes on with what the plugin has given up. That the sweep takes expired
rows only has no theorem and no run: with an `extend` between its query and its commit it
is false (`InstanceRows_extended.cfg`), and without one it restates the query.

`RateLimitProofs`. `WindowBound` is not inductive, for the bound says nothing of the
threads that have read the clock and not yet got the lock. `IInv` counts them in: once
a check has used a later time than a window's end, the requests in that window and
the threads that may still add to it (`Overtaken`) are together at most the limit
and the other threads; and whatever was popped is older than the window of some
check. `RetryIsHonest` follows from what a refused client waits for: the oldest
entry, or one that is gone.

`FirewallProofs`. The chain is built by commands of several rebuilds in any order.
`RulesInv` forgets the order: unless the chain is stale, the rules it has and those
that rebuilds with current tables still have to append are together the rules of the
tables. That is enough since no two of these rules decide the same packet differently
(`Unambiguous`), so that the first match decides as any other would (`Decides`, with
`Least` for the existence of a first match). `JumpsInv` counts the jumps
together with the rebuilds that are about to add one, and says that where there is
none somebody has yet to add it. `SerialInv` says what one thread at work has read.
`ForeignUndecided` draws from `ChainDecides` what the chain says of a peer and a foreign
subnet, for any tables: nothing.

`VpnPeersProofs`. `RowsHavePeers` is about rows and the daemon's table, and neither the
file nor the interface takes part in it. What makes it inductive is who may change
the table under whom. A request that provisions a user without a row holds the
daemon's peer of that user (`Provided`), for only revocations drop peers, and they are
of users that have a row, in whatever state; an INSERT waits for the rows a bulk has
flushed (`Locked`), so that those are nobody else's; and a row whose peer is gone has
its revocation still to write the row (`Dropped`). `ShapeInv` is about the local
variables of a request and needs no such care.

`AgreeInv` is the invariant of the daemon's stores. Its first part holds whatever
fails: a key is handed out once, so that a user who has had it is the only one it can
ever belong to (`Owned`) and a key that has left the table never returns (`Gone`). Its
second part holds while no handlers meet that `Overlap` names and no `wg` call or write fails: the
file and the interface name tracked peers only (`StandInv`), and who adds or removes a
peer works on what the table says (`StoreOf`), for nobody else can be at work on the
same user. `RevokedGone` follows from these two, through deaths and reboots too, since
a reboot loads what the file names. Its third part, while no handler has died either,
is the converse: what file or interface lack, somebody is at work on (`CompleteInv`),
which leaves nothing to lack once no one is at work: `DaemonAgrees`. The proofs go by a
step's kind, not by the action: what it does to the table, the file and the interface
(`StillStep`, `TableStep`, `StoreStep`, `RowStep`; lemma `NextMoves`).

`ScoringProofs`. Not about behaviours but about the relation `DynamicValue`: a
rounded quotient stays between integers that bound the quotient (`NearestBetween`),
from which range, end points and monotonicity follow. They need
`minimum_value` to be at most the initial value, which nothing enforces: with a
greater minimum each solve makes the challenge dearer.

Only checked by TLC: everything about liveness, and the sums of `Scoring`. Liveness under
fairness and induction over data are beyond the prover. Every invariant and every action
property that a passing run checks is a theorem.

## Plan

1. *Done*: the container service, the worker leases, the plugin's instances, flag
   progress, the peers, the firewall, the rate limiter, the scoring; the abstract
   table of instances and its two refinements; proofs of the safety properties of
   the leases, the containers under races, the rows, the flags, the firewall, the
   rate limiter and the peers, of the rows with requests on different rows, and of the
   containers and subnets with requests that do not contest a key or a subnet.
2. A liveness interface between `Containers` and `InstanceRows`: an RPC that is
   served is answered by what the table has.
3. Timeouts inside bulk generation, edits of flags while members submit, a
   participant who changes teams.

## Not modelled

Framing, authentication of the socket's peer, HTML and JavaScript, the audit log,
image tags and labels, resource limits, installation and deployment: none of them
takes part in the state the properties are about.

Of the parts that are modelled: the chain `EDO_INPUT` and firewalld;
edits of flags while members submit; the decayed value is not a part of any state,
since nothing stores it; rendering of
client configurations, the client files, changes of teams, and timeouts inside bulk
generation.
