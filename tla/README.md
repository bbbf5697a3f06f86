# Wutong in TLA+

Wutong is a platform that builds applications and runs them on Kubernetes. A
user's request passes through four processes: the region API writes the database
and sends a task to the message queue (`mq`); a builder (`chaos`) takes build
tasks, builds an image in a pod and sends an upgrade; the worker (`worker`) takes
start, stop, restart, upgrade and scaling tasks and changes the cluster; the
gateway (`gateway`) turns the cluster's ingresses into nginx configuration. All
of them report through the event log client (`event`), and the worker's master
keeps components outside the platform up to date (third-party components). This
directory models that path, each part as a state machine that TLC checks on small
instances and whose main invariants TLAPS proves for all instances.

## 1. Inventory

The components, the state each keeps, its operations, and what is hard about it.

| component | state | operations | hard behaviour | must hold |
|---|---|---|---|---|
| task queue: `mq`, `util/etcd` | keys `<prefix>/<topic>/<UnixNano>` in etcd, their revisions; the locals of each running call | `Enqueue`, `Dequeue` over gRPC and REST, any number of replicas | two calls claim one key; tasks arrive between Get and Watch; answers get lost; a cancelled call waits on | at most once, FIFO, no sleep with work queued |
| build manager: `chaos/discover`, `chaos/exector` | token channel `e.tasks`, table `runningTask`, the goroutine of each task, `Do`'s task in hand | `Do`, `AddTask`, `runTask`, `RunTask`, `Stop`, `callback` | a full builder gives tasks back; `Stop` races `Do` and the goroutines; tokens are anonymous | tokens balanced, no task twice, none forgotten, every version announced |
| build jobs: `chaos/job`, `chaos/build` | `subJobStatus`, `jobContainerStatus`, rings of results, the log goroutine; in the cluster, pods | `ExecJob`, informer handlers, `getLogger`, `DeleteJob`, `waitingComplete` | events before the channel is stored; a newer build stops an older one's pod; pods of one name; late results | success only of a pod that exited with 0, no pod left behind, no needless wait for the 60 minute timer |
| worker runtime: `worker/handle`, `worker/discover`, `worker/appm/controller`, `worker/appm/store` | table of controllers, the `AppService` of each component, informer caches; in the cluster, Deployments and pods | `AnalystToExec`, start, stop, restart, upgrade and scaling controllers, `WaitReady`, `WaitStop`, informer handlers | controllers of one component run at once and read a store that lags behind the cluster and that they overwrite, with objects they read before | what is gone from the cluster leaves the store, unless a late write brings it back; the store converges, tasks end, the latest version is deployed |
| third-party components: `worker/master/controller/thirdcomponent` | the ThirdComponent resource and its cache, the pool of discover workers, prober workers and their results, the Endpoints of the service | `Reconcile`, `AddDiscover`, `RemoveDiscover`, the pool's goroutine, `Discover`, `doProbe` | statuses written late from stale objects; removal during a Reconcile; unbuffered channels between goroutines that end | ready only after a probe, status follows the probes, removed components leave the pool, probers stop |
| gateway: `gateway`, `util/ingress-nginx/task` | informer caches, `sslStore`, `secretIngressMap`, the ring and the task queue, `rcfg`, the files and pools nginx has | informer handlers, `syncSecret`, `loopUpdateIngress`, `syncGateway`, `Close` | a change during a sync; events skipped by time stamp and dropped by the ring; a refused file, a failed reload | no change is hidden from nginx, certificates follow secrets, it comes to rest |
| event log client: `event` | `handle`, loggers and the channel each writes to | `GetLogger`, `ReleaseLogger`, `HandleLog`, `getCacheChan`, GC, `Close` | several handles at once, `RemoveHandle` of the wrong one, a channel nobody reads | the current handle is alive, handles are bounded, accepted messages leave |
| event log server: `eventlog` | barrels of messages per event, subscriptions | insert, subscribe, GC, database write | GC against a late message, a slow subscriber | every message of an event is stored before its barrel goes |
| worker master: `worker/master` | leader lock, HelmApp resources | control loops | two leaders | one leader acts |
| node agent: `node` | services and their health, node registration | probes, restarts, registration | a restart during a probe | an unhealthy service is restarted |
| region API, `db` | relational database | CRUD, sending tasks | an operation begun while another runs (its guard, `middleware.go:418`, is commented out) | |
| monitor, mesh configuration, web terminal, command line, source parsing, registries | files, connections | I/O and translation | | |

Interaction: API, builders and worker share nothing but the queue and the
database. API to queue to builder (`builder` and `windows_builder` topics);
builder to queue to worker (`rolling_upgrade` after a build); API to queue to
worker. A builder or a worker that has no room puts the task back at the end of
the queue. Builder, worker, master and gateway read the cluster through informers
only.

`PROJECT.json` lists every component with its status, and the hazards at the
lines where they bite.

## 2. Plan

In order of importance; 1 to 6 are done.

1. `TaskQueue` (abstract) and `EtcdQueue`, the queue everything else trusts; the
   refinement between the two.
2. `BuildManager`, the builders over the queue `TaskQueue` promises.
3. `AppRuntime`, the worker's controllers, store and informers, with Kubernetes
   as its environment.
4. `BuildJob`: pods, results and log goroutine of a build.
5. `EventLogger` and `GatewaySync`.
6. `ThirdComponent`, for components with static endpoints.
7. The remaining controllers of `AppRuntime` (vertical scaling, rules, plugin
   configuration, service GC) and StatefulSets.
8. `HelmApp`, `EventStore`, then `NodeHealth`.
9. A composition of queue, builders and worker: a version that was built is
   deployed.

## 3. The modules and the code

`PROJECT.json` maps every definition to its lines; names are the source's where
TLA+ allows it. An operator `M_x` is a deliberately wrong form of `x`, used to see
that the properties notice it. Modules `MC_x` give the constants of `x` small
values for TLC, modules `xProofs` hold the proofs about `x`.

**TaskQueue** is what users of the queue may rely on: `Put`, `Take` of the oldest
task of a topic, `Settle` (delivered or lost). No redelivery.

**EtcdQueue** has one step per round trip to etcd. `kv`, `rev` and `puts` are
etcd's live keys, revision and history of PUT events; `pc`, `cand`, `more`, `hdr`
and `live` the place and locals of a Dequeue call. `Get` is the sorted read of one
key, `Claim` and `DeleteEvent` the compare-and-delete, `WatchEvent` and
`WatchTimeout` the wait from the revision of the last read. `Stamps` are clock
readings; a reading may repeat and go backwards. `Cancel`, `EtcdError`,
`CommitUnseen` and `Crash` are the failures, at most `MaxFaults` in all. etcd
itself is modelled from how `util/etcd` uses it.

**BuildManager** has a `Do` loop, a token count `slots`, goroutines `gor` and their
`work` per builder. `AddTask` takes a token or gives the task back; `Enter` stores
the task in the table, `Begin` starts it (and puts the token back if the kind is
not controlled), `Delete` and `Release` end it. `RunFails`, `RunSucceeds` and
`sendAction` are the end of a build: version written, then announced if the task's
`Action` is `upgrade` (another action sends nothing) and `Stop` has not yet closed the
client of the queue, after which sending fails for certain. `Stop`,
`RangeVisit`, `RangeEnd` and `Exit` are the shutdown; `callback` fails once the
context is cancelled. Kinds: source (keeps its token), image, slug (works in a
goroutine of its own), share (deploys nothing).

**BuildJob** models all builds of one component in one builder. A build stops the
jobs it lists, creates its pod or attaches to one of the same name, enters its
channel in `sub` (`subJobStatus`) and waits for the end of the container and of the
log. `pod` is the cluster, `watch` what the informer has still to see, `lister` its
cache and `notif` the updates its handlers have still to run for: each lags behind
the other by at most `MaxLag`. A pod may be evicted, its container restarted, and
calls may fail after they took effect. What the container does is its exit code.

**AppRuntime** models one component. `AnalystToExec` is the dispatch of a task:
full worker, refusal, or a controller with a copy (`snap`) of the AppService.
Controllers go `del_wl`, `del_dep`, `del_pods`, `wait_stop` (stop), `init`, `create`,
`wait_ready` (restart, start) or `patch`, `wait_upgrade`; the first two are the two
deletions of `stopOne`, of the workload the AppService remembers and of the
Deployment. `app` is the entry of the store. The informers and the handlers are
apart: `DeploymentSeen` and `PodSeen` change the caches `ldep` and `lpods` and leave a
note (`dnotes`, `pnotes`, at most `MaxLag` each), `DeploymentEvent` and `PodEvent` take
the notes later; `hdep` and `hpods` are what the handlers were last told. So is the
refresh of a wait (`UpdateGetAppService`): `RefreshRead` gets an object from the
lister and `RefreshWrite` sets or drops it in the AppService, with anything in
between; at most `MaxRead` objects are read so. The history variable `late` says that
such a write brought back an object whose deletion the handlers had handled.
`Kubernetes` creates, changes and removes pods. Abstractions: the workload is a
Deployment with one replica (what the code compares is whether the count is
reached); a pod is named by its Deployment and version; other resources are calls
that may fail; a wait is a sequence of rounds, each of which may look at the live
entry or refresh it first; a timeout may come at any round. A refresh whose
AppService is replaced in the store (`Register`) writes to one that nobody finds
any more and is forgotten; a wait whose AppService is replaced looks at the new one,
as the code's does from its third round on. The refresh that `GetAppServiceStatus`
makes for a status it does not know is left out: it gives every status a name. A
second task of the component may always arrive, because the API's guard is
commented out. Tasks are handled only after the informers have synchronised
(`cmd/worker/server/server.go` waits for the store), so `Init` has a store that agrees
with the cluster.

**EventLogger** models one `loggerManager`. A handle goes from `dial` through `run`
to `end` or, when it cannot connect, to `failed`, and is `gone` when `RemoveHandle`
has run; `cur` is `m.handle`, `loop` the goroutine of `Start`, which sets `cur` without
the lock. `getCacheChan` is a sequence of steps under `m.lock`: it makes a handle
(`MakeHandle`), starts its goroutine (`GoHandle`) and reads the channel (`GetChan`),
each time through `m.handle`; when the loop falls in between, the goroutine it starts
serves the loop's handle, which is what `serves` says. `todo` are the loggers that
`SetNewHandleCacheChan` has still to move, `by` the handle that has it run. `Late` are
the users that ask for a logger after Close. Messages are counted per channel; a
logger writes to the channel it was given and never waits. Close cancels the
context.

**GatewaySync** models one gateway. The caches `ing`, `sec` and `eps` change as the
API server does; a handler per informer runs after each change (`IngHandle`,
`SecHandle`, `EpHandle`), `IpHandle` and `IpNext` are `loopUpdateIngress`. `ring` is
`updateCh`, `queue` the elements of the task queue with their time stamps and
`lastSync` the start of the last sync; `Skips` is the test that drops an element
older than it. A sync lists the virtual services, lists the pools, pushes the pools,
and writes the files and reloads when the servers differ from `rcfg`. `Equals` is
`Config.Equals`: as many servers, and each of `rcfg`'s is found among the new ones,
but not the other way round; `Alike` is the comparison of two servers, in which a
stream server has nothing of its ingress. `Accepts` is nginx's own test; a stream
conflict is what it refuses, and `refused` remembers the configurations it did not
take. `syncSecret` is three steps: it reads the secret, deletes the certificate in
use, adds the one it read; the deletion always happens, since `SSLCert.Equals` tests
the common names the wrong way round, and for the same reason a server with a
certificate that was synchronised again may differ from itself in `Persist`. The
file that `getCertificatePem` writes is not told from the entry of `sslStore`.
`Boots` gives what the caches hold at the start and, for each such start, which
changes may follow and how many calls may fail. Templates and annotations are
formatting and left out, except for what makes two servers differ.

**ThirdComponent** models one component with static endpoints. `obj` is the
resource, `watch` and `seen` the informer's lag and cache. `Get`, `Add`, `Apply` and
`UpdateStatus` are Reconcile; the status it writes needs an up-to-date cache
(`RetryOnConflict`), else `UpdateFails`. `Gens` numbers the discover workers that
the pool has had for the component, with their contexts (`cancelled`), goroutines
(`dpc`) and the component object each goroutine keeps (`own`): while the goroutine
has not started, a Reconcile may replace the object it will take, and `shared`
says that it is the one Reconcile is working on. `Slots` are the prober workers an
address may have at a time. A probe is one step (`DoProbe`): the endpoint is asked
and the result recorded, and a result that is out of date when it is recorded is the
same as an endpoint that changes right after; a probe that ends in an error
(`ProbeError`) has no result. The lookups of `DiscoverOne` are one step. `Apply` writes
the addresses that are ready; `ApplyFails` leaves the Endpoints as they are, because
the write is refused or because the cached Endpoints, which may be behind, look as
they should. `Bounds` is a set of scenarios, each with its own bounds on flips, edits,
creations, deletions, failures, events and prober workers; a scenario with one
worker per address makes a new worker wait until the old one has ended, one with two
does not.

## 4. The runs

| run | instance | shows |
|---|---|---|
| `queue` | 2 tasks, one over REST, 2 gRPC calls, 2 clock readings, 2 failures | `TypeOK`, `OnePlace`, `NoMissedWakeup`, `LossNeedsFault`, `FIFO`, the refinement `ImplementsTaskQueue`, and `EventuallyTaken`: no task needs the 30 s resynchronisation |
| `build_stop` | 2 builders, 1 token each, a source and a slug build, 1 failure, one builder stopped | `TypeOK`, `SlotAccounting`, `StopRecycles`, `NoDuplicateRun`, `NothingForgotten` |
| `build_live` | 2 builders, 2 source builds of one service, 1 share | `EveryTaskFinishes`, `EveryVersionAnnounced` |
| `job_race` | 2 builds, 2 names, no failures, symmetry | `TypeOK`, `SuccessIsReal`, `NoStrayPods` |
| `job_live` | 1 build, 1 restart of the container, 2 failures | `ResultArrives`, `LoggerEnds` |
| `runtime_race` | restart and upgrade, both controllers at once, 1 refresh, no failure | `TypeOK`, `LatestDeployed` |
| `runtime_full` | start, scaling and stop, room for one controller, 1 refresh, 1 failing call or pod | `NoGhosts`, `EveryTaskEnds`, `StoreConverges` |
| `gateway` | 2 ingresses, 1 service; an https ingress or two streams on one port with 1 change and 1 failure, or a stream with 2 changes of ingresses; closed at any time | `TypeOK`, `NoLostUpdate`, `CertFollows`, `PoolBeforeServer`, `Settles` |
| `gateway_rcfg` | the same | violates `RunningConfiguration` |
| `logger` | 2 loggers, 4 handles, 2 messages, 1 failed connect, 1 broken stream | `TypeOK`, `CurrentIsLive`, `HandlesBounded`, `Drains` |
| `third` | 1 endpoint, 2 discover workers, thresholds 2 and 1, four scenarios: deletion with an edit or a failing call; a flip with a failing call; a change of the probe with two prober workers; deletion and new creation | `TypeOK`, `ReadyWasProbed`, `PoolIsLive`, `RemovalPending`, `StatusFollows`, `ProbersStop` |
| `third_ready` | 1 endpoint, 2 flips | violates `ReadyMeansPassed` |

Why these bounds are enough to be of interest. Two Dequeue calls are the least that
race; two clock readings order tasks against their arrival, and reuse a key. Two
builders with one token are the least that can hand a task to each other while both
are full. Two builds are the least of which one stops or takes over the other's pod,
with one name or two. Two controllers are the least that overlap, which is what
`runtime_race` is about: there `MaxTasks` is 1, and both of its controllers find
room. In `runtime_full` it is 0, so the table is full as soon as one controller is
in it: each further task goes back to the queue until that one has called back, and
`EveryTaskEnds` is about that. One refreshed object is enough for a refresh to be
overtaken by a handler; that several controllers at once, with any number of
refreshes, leave the store right is what `StoreHasNoGhosts` and `StoreAgreesAtRest`
prove. Two ingresses may conflict, and one change at any moment of a sync is the
least that a sync may miss; two changes lead from streams on one port, which nginx
refuses, to streams on two, which `Config.Equals` does not tell from them. The ring
holds one event, so that it drops some. With one failed connect three handles may be
alive at once (`HandlesBounded`); a fourth is one made after another has gone. Two
discover workers let a component be removed and added again; `ChanCap` is one, so
that the pool's channel fills. The bounds on failures allow one anywhere (two in the
queue and in `job_live`, so that a failure may hit the repair of another; none in
`job_race`, `build_live` and `runtime_race`, where failures of two builds or
controllers are left to the proofs). What is proved (section 5) does not depend on
the bounds.

Deadlock is checked in the queue, whose consumers call again for ever. The other
systems may come to rest when every task or event has been handled, so their
configurations say `CHECK_DEADLOCK FALSE`; that nothing rests too early is what the
liveness properties say.

Fairness. Queue: weak fairness of each call's steps, since a goroutine that can go
on does, etcd answers, and the `Do` loops call again after every answer or error;
not of the resynchronisation timer, which is thereby shown to be unnecessary, nor of
Enqueue. Builders: weak fairness of `Do`, of every task's goroutine (builds have a
timeout) and of the shutdown. Build jobs: weak fairness of the build's and the log's
goroutine, of the informer, its handlers and its resynchronisation, and of the
kubelet removing a pod it was told to remove; not of the 60 minute timer, which is
thereby shown to be unnecessary, nor of the container. Worker: weak fairness of the
dispatch of each task and of each controller (every wait has a timeout), of the
informers, the ten second resynchronisation and Kubernetes. Gateway: weak fairness
of its goroutines taken together, as each step of theirs brings the system nearer to
its rest. Logger: strong fairness of the goroutines of the handles taken together,
which wait for a lock that others take and release: Go's mutex hands itself to a
goroutine that has waited for a millisecond; weak fairness of whoever has the lock.
Third-party components: weak fairness of the informer, Reconcile, the pool, the
discover goroutines and every prober worker; strong fairness of a goroutine that
sees its context cancelled in a `select` (Go picks among ready cases at random, so
one that is ready again and again is taken), and of a worker that waits to send or
sees its stop channel, for the same reason and because senders blocked on a channel
are served in order. There is no fairness of submissions, changes, endpoints,
conflicts or failures.

`NoLostUpdate`, `Settles` and `StatusFollows` say what may be claimed after a
failure. `StatusFollows` leaves out components edited or created again and one
stale status; the reasons are in section 6.

## 5. The proofs

All theorems hold for every value of the constants that satisfies the named
assumption of the module: types of the constants, finite sets of tasks, calls,
keys and builds where cardinalities are counted, `None` distinct from real values
(also from the records and sets it stands beside), and at least one token, channel
slot or threshold where the code has one. One theorem, `UpgradeIsDeployed`, has a
hypothesis beyond that.

**EtcdQueueProofs.** The inductive invariant is `TypeOK` with four parts.
`HistoryInv`: revisions name entries, a task has one entry, a live key is one of the
history. `CandInv`: what a call holds is from the history, under its prefix.
`PlaceInv`: what left etcd is held by one call, delivered once or lost. `OrderInv`:
no live key under a call's prefix is older than the key it will delete or the
revision it watches from. `OnePlace` alone is not inductive because a call may hold
a key that was deleted, and created anew with the same stamp: it takes
`HistoryInv` to see that the revision tells the two apart. `FIFO` follows from
`OrderInv`, as new keys have greater revisions and keys only leave. For
`LossNeedsFault` the invariant also counts lost tasks against failures.
`QueueImplementsTaskQueue` maps a key's state and its place in the history to the
abstract queue; `Claim` and `DeleteEvent` are `Take`, answers and losses `Settle`,
and all other steps stutter. The theorems also hold for overlapping topics
(`Covers`).

**BuildManagerProofs.** `Unique` (a task is in the queues once), `OneOwner` (a queued
task is fresh in no builder, and fresh in at most one), `DoInv`, `TableInv` and
`Known` (a task not submitted is nowhere). A copy is *fresh* until `Stop` has given
it back; without that notion no-duplication is false during a stop, and with it
`Stop` and the goroutine that goes on may both be counted. `SlotsBalanced` needs
only that steps of one goroutine change the set of token holders and the count
together: no step looks at which token it took. `NoVersionLeftBehind` (`VersionOwed`)
is the safety half of `EveryVersionAnnounced`: until a call fails or a builder's
`Stop` is over, of what builds with the action `upgrade` wrote the last is announced or
such a build is about to announce it. It rests on `NotBegun`, that a goroutine calls
its build function once.

**AppRuntimeProofs.** `DepFollowed` and `PodsFollowed`: the events and notes on their
way lead from what the handlers know to the caches, and for the Deployment on to the
cluster. `Held`: what the store has, the handlers know or have a note of, unless a
refresh has put back what they had removed (`late`). A controller may put a deleted
object into the store from a lister that lags behind, but then its note is still to
come; it may also have read the object before the lister lost it, and then the note
may have been handled. `StoreHasNoGhosts` is therefore stated up to `late`, and shows
that this is the only way to a ghost, for any number of controllers and refreshes.
`OnlyKnownVersions`: whatever names a version names one that was written to the
database. `StoreAgreesAtRest` is the safety half of `StoreConverges`: with no event or
note left and nothing for the resync to put right, the store has all that is in the
cluster, as it is there, and, again up to `late`, nothing else. A resync only adds, so
the second half takes `Held`.

`UpgradeIsDeployed` proves `LatestDeployed` under the hypothesis `OneOfEach`: at most
one upgrade and at most one start, stop or restart, with any number of scalings,
failures and places in the table. `runtime_race` is such an instance. More than that
can lose an upgrade, and TLC finds how: two upgrades apply their patches in the wrong
order; or a restart that has read the old version creates its Deployment after a stop
has deleted the new one. `LatestDeployed` speaks of the end only; its strengthening
`LatestInv` has two parts. `SnapInv`: the upgrade is never refused (its patch is not
empty, since it sets a time), writes the version of the database, and a scaling
neither creates nor deletes. `AfterInv`: once the upgrade has written the new version, a
Deployment has that version, and the other controller, if it is still to create one,
creates the new one or finds the name taken. `QueueInv`: a task that was sent is
queued, handled or dropped.

**BuildJobProofs.** `ClusterInv`: whatever remembers a pod of a name as complete (the
cluster, the watch, the lister, a pending notification), a pod of that name did exit
with 0. `BuildInv`: a channel is entered under its build's name and holds nothing
else. `SuccessIsReal` says it of the build's result only, which is not inductive: a
result is as old as the notification it came from. `StrayPodsNeedFaults` follows the
deletion that a build defers. `NoResultLost` (`ResultOwed`) is the safety half of
`ResultArrives`. Its invariant has three parts: `Mirror` (what the informer has, or has
coming, ends with the state of the pod), `WaitInv` (a build that waits has a logger,
has not been told both ends, and of its logger's end it was told or will be) and
`StreamInv` (a log is streamed from a container that runs).

**GatewaySyncProofs.** `NoLostUpdate` speaks of a gateway at rest. Its strengthening
`SyncInv` says of each point of a sync that what it has read is current or an event
is *due*: in a handler, the ring or the queue with a time stamp that `Skips` does
not skip. `ClockInv` (stamps and `lastSync` are not in the future) makes an event
queued after the start of a sync due; `RcfgInv`: nginx runs what it accepts, and
`rcfg` is what it runs of the kinds it did not refuse, or was refused. With it
`OneWayIsEnough` shows what `Config.Equals` is worth: among servers that nginx
accepts no two streams are alike, so as many servers and one-way membership are a
match both ways. Only against a refused `rcfg` may it take a new configuration for
an old one, and `NoLostUpdate`, which `NoUpdateLost` proves for any rules, excepts
just that. `FiniteInv` (configurations are finite) is what the counting needs;
`KeyInv` and `SeenInv` type what the handlers and the sync have in hand.
`CertsFollow` has an invariant of its own, `CertInv`: a certificate is the secret's
content, or a handler that will read it again is on its way. `PoolsBeforeServers` is
an action property that follows from `SyncInv`. `RunningUnlessRefused` follows from
`RcfgInv`: what `gateway_rcfg` shows, a refusal by nginx, is the only way `rcfg`
ceases to be the running configuration. `GoodFilesStay` is an action property of
`writeFile`'s roll-back: it keeps files that nginx takes, once there is one of every
kind to go back to. A gateway that starts has none.

**EventLoggerProofs.** `HandlesBounded` is not inductive. `Budget` counts live
handles, the handles that failed and are still to be removed, and the two places
that may make one: together at most two and one for each failed connect. Removing a
failed handle clears `m.handle` and sends the loop back, so it counts twice.
`LockInv` says what `getCacheChan` may rely on while it has the lock although the loop
does not take it: there is one handle to start, and `m.handle` stays set.
`CurrentIsLive` holds for a handle that is served by a goroutine of its own; the proof
follows `serves` through the loop's assignment.

**ThirdComponentProofs.** `ProbedInv` says `ReadyWasProbed` of every status anywhere:
the versions in the watch and the cache, the objects of Reconcile and of the
discover goroutines, the channel, and the results. `LiveInv`: goroutines end only
when cancelled, and only numbers in use are cancelled, so that a new worker's
context is fresh. `GoneInv`: the last version on its way to the cache is the
resource's, and of a component the cache has seen go, the queue knows, or Reconcile
has heard of it and has no older version in hand. `RemovalPending` alone is lost in a
Reconcile that began before the removal. `StopIsToldToAll` (`StopReachesTable`) is the
safety half of `ProbersStop`: no worker enters the table of a removed discover worker
without having been told to stop.

Model-checked only: everything under fairness (`EventuallyTaken`,
`EveryTaskFinishes`, `EveryVersionAnnounced`, `EveryTaskEnds`, `StoreConverges`,
`ResultArrives`, `LoggerEnds`, `Settles`, `Drains`, `StatusFollows`, `ProbersStop`),
which is beyond the prover. Of `EveryVersionAnnounced`, `StoreConverges`,
`ResultArrives` and `ProbersStop` the safety half is proved (what is missing is on its
way, or nothing is missing at rest); that it arrives is left to TLC. `LatestDeployed`
without `OneOfEach` is false. Every invariant a passing run checks is proved.

## 6. Disagreements between the code and what it says of itself

With a run that shows them (details in `PROJECT.json`):

- The gateway's `rcfg`, the "running configuration", may be one that nginx refused
  (`gateway_rcfg`): `WriteServer` puts the old file back, its error is dropped, and
  later syncs find nothing to do.
- A third-party endpoint that is down may be Ready for ever (`third_ready`): the
  discover goroutine compares with the status of an object as old as itself.

Seen while modelling; the actions do what the code does, no run is spent on them.

Queue. A task enqueued over REST is lost to a gRPC consumer, which cannot decode it;
`LossNeedsFault` does not speak of such tasks. `queueKey` (`mq.go:130`) has no
trailing slash: a topic whose name extends another's is read by the other's
consumers.

Builders. A builder that is stopped loses the task in `Do`'s hands, and a task whose
goroutine has not reached the table. A full builder that fails to send a task back
has dropped it. A build that ends after `Stop` has closed the queue's client writes its
version and announces nothing. `callback` (`chaos/discover/discover.go:82`)
always uses the `builder` topic, so a full builder of `windows_builder` hands its
task to Linux builders. Image builds, slug builds and shares put their token back
before they start (`exector.go:203`), so more builds run at once than `max-tasks`
says; only source builds are bounded, which is what `SlotAccounting` states.

Build jobs. `DeleteJob` of a newer build removes the older build's channel right
after the API call (`job.go:230`): the "cancel" is dropped and the older build keeps
its token until the 60 minute timer. A pod cancelled before its container started
never gives "logcomplete". A container that completes after a failed first attempt
is reported as failed. A build may attach to a pod that is being deleted
(`job.go:161`), and two builds that list before either creates do not stop each
other. A `DeletedFinalStateUnknown` gives the delete handler a nil pod (`job.go:74`).

Worker. Two upgrades may apply their patches in the wrong order (`upgrade.go:174`;
the API's check is commented out): the older version stays although both succeed.
The second of two starts cleans up what the first created (`start.go:88`).
`WaitStop` (`status.go:112`) returns success as soon as the store's pods are
running, which they still are right after the deletion. `restartOne`
(`restart.go:68`) gives up when a pod is abnormal after the workload was deleted,
and leaves the component stopped. A refresh that has read a Deployment or a pod from
the lister, and sets it in the store after the handler of its deletion has run
(`store.go:857`), leaves it there for good: `late` in `NoGhosts`, `StoreConverges`
and the proofs. A later start is then refused although the component is down, until
a wait refreshes the entry again or the service is registered anew. `checkCount`
(`worker/handle/manager.go:76`) compares with `>`: one controller more than
`MaxTasks` runs. A worker at its limit puts a task behind those sent after it
(`worker/discover/manager.go:138`).

Gateway. The check that should drop the latter of two conflicting streams
(`store.go:571`) continues its inner loop only, so nginx refuses the stream file; at
the gateway's start there is no old file to put back, and the failing reload rolls
back the good http files too. A failed push or reload is not retried until the next
event. `Config.Equals` (`v1/model.go:100`) looks one way: after two streams on one
port, which nginx refused and which are in `rcfg` all the same, any two streams one
of which is on that port are taken for them and never written; the exception in
`NoLostUpdate`. `syncSecret` reads the cache and writes `sslStore` later, in two
goroutines: the older content may be written last, and `CertFollows` therefore
excepts secrets that changed in that window (`raced`). It deletes a certificate
before it adds it again (`store.go:1082`), even the same one (`ssl_cert.go:68`): a
sync in between configures the host without it, until the event that follows.
`getCertificatePem` writes its file before it has parsed the secret. A wall clock
that is set back has every event skipped until it has caught up (`queue.go:81`; the
model's clock does not go back). `secretIngressMap` is used by three goroutines
without a lock. Pools are looked up by service name without the namespace; the
Service informer has no handler; an empty list of pools is not pushed.
`handleEvent`'s `break` leaves the `select` only, so it spins after `Close`.

Event log client. `SetNewHandleCacheChan` (`manager.go:171`) moves loggers to the
channel they are leaving: those of a broken handle keep writing to a channel that
nobody reads, although the comments at `manager.go:219` and `234` say that they are
switched. When the loop sets `m.handle` in the middle of `getCacheChan`, `HandleLog`
runs twice on the loop's handle and never on the new one. Loggers that were
garbage-collected are not switched either. Messages of one event may arrive out of
order when they went through two channels.

Third-party components. The discover goroutine keeps its specification as well as
its status: after an edit each changed result writes the endpoints of the old
specification again, so `StatusFollows` speaks of components that are neither edited
nor created again. `removeWorker` (`prober_manager.go:119`) deletes the entry of the
address, which after a change of the probe is the new worker's: that one is then not
in the "map of active workers" (`prober_manager.go:46`) and nobody stops it (the
third scenario of `third` reaches it). `ProbersStop` therefore speaks of the workers
that were told to stop or are in the table. A prober worker that waits in `m.updates
<-` when its discover goroutine ends waits for ever, which `ProbersStop` excepts.
Endpoints without a probe stay NotReady. A refused write of the Endpoints is logged
and not repeated, and a write that the cached, older Endpoints show as done is
skipped (`controller.go:190`). When the last endpoint is removed, `NewDiscover`
fails before the Endpoints are written, and the old addresses stay. A source that
changes from kubernetes to static meets a nil prober manager (`worker.go:40`). A
kubernetes source whose service appears later is not tried again. `PeriodSeconds` of
0 makes `time.NewTicker` panic.

## 7. What is not modelled

Inside the modelled components: what a build does between its start and its
result; resources other than the Deployment and its pods; StatefulSets, jobs and
virtual machines; vertical scaling, rules, plugin configuration, HPA refresh,
exports and service GC of the worker; the gateway's annotations, templates, node
address leases and metrics, and certificates that do not parse; the kubernetes
source, ports, domains and phases of third-party components and a restart of the
master; data races on Go maps (`controller.go:202`, `secret_ingress_map.go:39`),
which are below the models' atomic tables; log messages.

The other components are listed in `PROJECT.json` with the reason: those of the plan
are waiting for their turn, the rest is I/O, formatting, or create-read-update-delete
without a protocol. Most of the repository's lines are of this last kind (the
region API's handlers, the database layer, generated clients and protocol
buffers), so the share of all lines that a model can stand for stays small.

## 8. Running

    tlc -workers 2 -config EtcdQueue.cfg MC_EtcdQueue
    tlapm EtcdQueueProofs.tla

and likewise for the other configurations and modules. Every run ends within three
minutes on two cores.
