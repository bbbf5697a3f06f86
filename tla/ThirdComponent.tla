--------------------------- MODULE ThirdComponent ---------------------------
(***************************************************************************)
(* The controller of third-party components in the worker's master         *)
(* (worker/master/controller/thirdcomponent), for one component with       *)
(* static endpoints.                                                       *)
(*                                                                         *)
(* A ThirdComponent resource lists the addresses of a service outside the  *)
(* platform and how to probe them.  Four kinds of goroutine work on it:    *)
(* Reconcile, which writes the status that the specification and the       *)
(* probes' results ask for; for each discover worker of the pool a         *)
(* goroutine that waits for changed results; a prober worker for every     *)
(* address; and the pool's own, which writes the statuses the discover     *)
(* goroutines send it.  They share the API server, whose objects           *)
(* Reconcile and the pool read from an informer's cache, the table of      *)
(* prober workers and the cache of their results.                          *)
(***************************************************************************)
EXTENDS Integers, Sequences

CONSTANTS
    Addrs,             \* the addresses of endpoints
    Probes,            \* the probes a specification may ask for
    None,              \* no probe, no discover worker
    Statuses,          \* the statuses the resource may have when the process starts
    FailureThreshold, SuccessThreshold,
    ChanCap,           \* the room in updateChan (1024 in the code)
    MaxGen,            \* bound: discover workers made in a behaviour
    MaxSlot,           \* bound: prober workers of an address at a time
    MaxLag,            \* bound: versions of the resource the informer is behind
    Bounds             \* bounds of a behaviour, one of these: see Bound

Gens == 1..MaxGen
Slots == 1..MaxSlot
EndpointStatus == {"absent", "NotReady", "Ready", "Unhealthy"}
Status == [Addrs -> EndpointStatus]
Spec_ == [eps : SUBSET Addrs, probe : Probes \cup {None}]
Component == [spec : Spec_, status : Status]

\* The specifications users write, the endpoints that answer at the start, the
\* prober workers of an address at a time, and how often endpoints go up or down,
\* the specification is changed, the resource is created again or deleted, and
\* calls fail; all but the deletions together are at most "events".
Bound == [specs : SUBSET Spec_, up : SUBSET SUBSET Addrs, slots : Nat, flips : Nat,
          edits : Nat, creates : Nat, deletes : Nat, faults : Nat, events : Nat]

ASSUME ConstantsAssumption ==
    /\ None \notin Probes \cup Gens
    /\ Bounds \subseteq Bound /\ Statuses \subseteq Status
    /\ FailureThreshold \in Nat \ {0} /\ SuccessThreshold \in Nat \ {0}
    /\ ChanCap \in Nat \ {0} /\ MaxGen \in Nat \ {0} /\ MaxSlot \in Nat /\ MaxLag \in Nat

VARIABLES
    obj,        \* the resource: does it exist, its specification, its status
    watch,      \* the versions of it the informer has not yet seen
    seen,       \* the version in the informer's cache
    online,     \* the ready addresses in the Endpoints of the component's service
    up,         \* the endpoints that answer a probe
    passed,     \* history: addresses of which a probe has succeeded
    bound, flips, edits, creates, faults,
    queued,     \* the component is in the controller's work queue
    rpc,        \* where Reconcile is
    comp,       \* the component Reconcile works on
    rgen,       \* the discover worker Reconcile's discover was given to
    shared,     \* the goroutine of rgen uses the object comp
    cur,        \* discoverWorker: the component's discover worker
    gens,       \* how many discover workers there have been
    cancelled,  \* for each discover worker: its context is cancelled
    dpc,        \* for each discover worker: where its goroutine is
    own,        \* for each discover worker: the component its goroutine works on
    dacc,       \* for each discover worker: the status it is going to send
    updateChan, \* the statuses on their way to the pool
    ppc, item,  \* where the pool's goroutine is, and the status it writes
    workers,    \* the probers' tables: for each discover worker and address, the slot
    results,    \* the probers' caches of results
    wk          \* the prober workers: for each address and slot

cluster == <<obj, watch, seen, online>>
outside == <<up, passed, flips, edits, creates, bound>>
reconciler == <<queued, rpc, comp, rgen, shared>>
discovers == <<cur, gens, cancelled, dpc, own, dacc>>
pool == <<updateChan, ppc, item>>
probers == <<workers, results, wk>>

vars == <<cluster, outside, faults, reconciler, discovers, pool, probers>>

Empty == [a \in Addrs |-> "absent"]
NoComponent == [spec |-> [eps |-> {}, probe |-> None], status |-> Empty]
Idle == [pc |-> "none", gen |-> 1, probe |-> None, stop |-> FALSE, last |-> "Success", run |-> 0]

\* The addresses a status lists, and the ones it calls ready.
Listed(st) == {a \in Addrs : st[a] # "absent"}
ReadyIn(st) == {a \in Addrs : st[a] = "Ready"}

\* The process starts, with the resource in its cache and in the work queue.
Init ==
    /\ bound \in Bounds
    /\ obj \in [exists : {TRUE}, spec : bound.specs, status : Statuses]
    /\ watch = <<>> /\ seen = obj
    /\ online = ReadyIn(obj.status)
    /\ up \in bound.up /\ passed = ReadyIn(obj.status)
    /\ flips = 0 /\ edits = 0 /\ creates = 0 /\ faults = 0
    /\ queued = TRUE /\ rpc = "idle" /\ comp = NoComponent
    /\ rgen = 1 /\ shared = FALSE
    /\ cur = None /\ gens = 0
    /\ cancelled = [g \in Gens |-> FALSE]
    /\ dpc = [g \in Gens |-> "none"]
    /\ own = [g \in Gens |-> NoComponent]
    /\ dacc = [g \in Gens |-> Empty]
    /\ updateChan = <<>> /\ ppc = "idle" /\ item = Empty
    /\ workers = [g \in Gens |-> [a \in Addrs |-> 0]]
    /\ results = [g \in Gens |-> [a \in Addrs |-> "none"]]
    /\ wk = [a \in Addrs |-> [k \in Slots |-> Idle]]

-----------------------------------------------------------------------------
\* The API server, its users and the endpoints.

Eventful == flips + edits + creates + faults < bound.events

\* A new version of the resource.
Change(o) == obj' = o /\ watch' = Append(watch, o)

\* A user adds, changes or removes endpoints, or changes the probe.
Edit ==
    /\ obj.exists /\ edits < bound.edits /\ Eventful /\ Len(watch) < MaxLag
    /\ \E s \in bound.specs \ {obj.spec} : Change([obj EXCEPT !.spec = s])
    /\ edits' = edits + 1
    /\ UNCHANGED <<seen, online, up, passed, flips, creates, bound, faults, reconciler, discovers,
                   pool, probers>>

Delete ==
    /\ obj.exists /\ creates < bound.deletes /\ Len(watch) < MaxLag
    /\ Change([obj EXCEPT !.exists = FALSE])
    /\ UNCHANGED <<seen, online, outside, faults, reconciler, discovers, pool, probers>>

\* The component is created again, under the same name.
Create ==
    /\ ~obj.exists /\ creates < bound.creates /\ Eventful /\ Len(watch) < MaxLag
    /\ Change([exists |-> TRUE, spec |-> obj.spec, status |-> Empty])
    /\ creates' = creates + 1
    /\ UNCHANGED <<seen, online, up, passed, flips, edits, bound, faults, reconciler, discovers,
                   pool, probers>>

\* An endpoint goes down or comes up; of a component that is gone nobody cares.
Flip(a) ==
    /\ flips < bound.flips /\ Eventful /\ obj.exists
    /\ flips' = flips + 1
    /\ up' = IF a \in up THEN up \ {a} ELSE up \cup {a}
    /\ UNCHANGED <<cluster, passed, edits, creates, bound, faults, reconciler, discovers, pool,
                   probers>>

\* The informer puts the next version into the cache and the component into the
\* work queue; nothing tells changes of the status from others.
Informer ==
    /\ watch # <<>>
    /\ seen' = Head(watch) /\ watch' = Tail(watch)
    /\ queued' = TRUE
    /\ UNCHANGED <<obj, online, outside, faults, rpc, comp, rgen, shared, discovers,
                   pool, probers>>

\* What an update from the cached version does: the cache is up to date and the
\* status is new, or there is nothing to change.
WriteStatus(st) ==
    /\ watch = <<>>
    /\ IF st = obj.status THEN UNCHANGED <<obj, watch>> ELSE Change([obj EXCEPT !.status = st])

-----------------------------------------------------------------------------
\* The prober's manager.

NeedProbe(spec) == spec.probe # None /\ spec.eps # {}

\* Mutant: stopping twice is not safe, the second stop takes the first back.
M_Stopped(g, A) ==
    [a \in Addrs |-> [k \in Slots |->
        IF a \in A /\ k = workers[g][a] THEN [wk[a][k] EXCEPT !.stop = ~@] ELSE wk[a][k]]]

\* worker.stop for the workers in the table of g whose address is in A.
Stopped(g, A) ==
    [a \in Addrs |-> [k \in Slots |->
        IF a \in A /\ k = workers[g][a] THEN [wk[a][k] EXCEPT !.stop = TRUE] ELSE wk[a][k]]]

\* A slot for a new worker.
Free(a, k) == wk[a][k].pc = "none" /\ k <= bound.slots
FreeSlot(a) == CHOOSE k \in Slots : Free(a, k)

\* The addresses whose worker in the table probes as spec says.
Kept(g, c) ==
    {a \in Listed(c.status) : workers[g][a] # 0 /\ wk[a][workers[g][a]].probe = c.spec.probe}

\* A worker for every address of the component's status, the ones at hand kept;
\* every other worker of the table is told to stop.
AddThirdComponent(g, c) ==
    LET keep == Kept(g, c)
        new == Listed(c.status) \ keep
        stopped == Stopped(g, Addrs \ keep)
        started(a) == [pc |-> "probe", gen |-> g, probe |-> c.spec.probe, stop |-> FALSE,
                       last |-> "Success", run |-> 0]
    IN  IF ~NeedProbe(c.spec) THEN UNCHANGED <<workers, wk>>
        ELSE /\ \A a \in new : \E k \in Slots : Free(a, k)
             /\ workers' = [workers EXCEPT ![g] = [a \in Addrs |->
                    IF a \in keep THEN workers[g][a] ELSE IF a \in new THEN FreeSlot(a) ELSE 0]]
             /\ wk' = [a \in Addrs |-> [k \in Slots |->
                    IF a \in new /\ k = FreeSlot(a) THEN started(a) ELSE stopped[a][k]]]

\* What DiscoverOne makes of an address: not ready without a result.
StatusOf(result) ==
    CASE result = "none" -> "NotReady" [] result = "Success" -> "Ready" [] OTHER -> "Unhealthy"

\* Mutant: without the test for a result, whose zero value is Success.
M_DiscoverOne(g, spec) ==
    [a \in Addrs |-> IF a \notin spec.eps THEN "absent"
                     ELSE IF results[g][a] = "Failure" THEN "Unhealthy" ELSE "Ready"]

\* The status of the component by the results of g.
DiscoverOne(g, spec) ==
    [a \in Addrs |-> IF a \notin spec.eps THEN "absent" ELSE StatusOf(results[g][a])]

-----------------------------------------------------------------------------
\* The pool of discover workers.

\* Mutant: the worker is stopped and stays in the pool.
M_RemoveDiscover ==
    IF cur = None THEN UNCHANGED <<cur, cancelled, wk>>
    ELSE /\ cancelled' = [cancelled EXCEPT ![cur] = TRUE]
         /\ wk' = Stopped(cur, Addrs)
         /\ UNCHANGED cur

RemoveDiscover ==
    IF cur = None THEN UNCHANGED <<cur, cancelled, wk>>
    ELSE /\ cancelled' = [cancelled EXCEPT ![cur] = TRUE]
         /\ wk' = Stopped(cur, Addrs)
         /\ cur' = None

\* The discover is handed to the component's worker, or to a new one with a
\* prober manager of its own.  The goroutine of a worker takes the discover it
\* finds when it starts and never another: only until then is it the object of
\* the Reconcile at hand.
AddDiscover(c) ==
    \/ /\ cur = None /\ gens < MaxGen
       /\ gens' = gens + 1 /\ cur' = gens + 1
       /\ rgen' = gens + 1 /\ shared' = TRUE
       /\ dpc' = [dpc EXCEPT ![gens + 1] = "new"]
       /\ AddThirdComponent(gens + 1, c)
    \/ /\ cur # None
       /\ rgen' = cur
       /\ shared' = (dpc[cur] \in {"new", "ended"})
       /\ dpc' = [dpc EXCEPT ![cur] = IF @ = "ended" THEN "new" ELSE @]
       /\ AddThirdComponent(cur, c)
       /\ UNCHANGED <<cur, gens>>

\* The pool takes a status; one that the cache already shows is skipped.
PoolTake ==
    /\ ppc = "idle" /\ updateChan # <<>>
    /\ updateChan' = Tail(updateChan)
    /\ IF Head(updateChan) = (IF seen.exists THEN seen.status ELSE Empty)
       THEN UNCHANGED <<ppc, item>>
       ELSE ppc' = "update" /\ item' = Head(updateChan)
    /\ UNCHANGED <<cluster, outside, faults, reconciler, discovers, probers>>

PoolDone == ppc' = "idle" /\ item' = Empty /\ UNCHANGED updateChan

\* It is written, unless the component is gone.
PoolUpdate ==
    /\ ppc = "update" /\ seen.exists /\ obj.exists
    /\ WriteStatus(item)
    /\ PoolDone
    /\ UNCHANGED <<seen, online, outside, faults, reconciler, discovers, probers>>

PoolNotFound ==
    /\ ppc = "update" /\ ~(seen.exists /\ obj.exists)
    /\ RemoveDiscover
    /\ PoolDone
    /\ UNCHANGED <<cluster, outside, faults, reconciler, gens, dpc, own, dacc, workers,
                   results>>

\* RetryOnConflict comes to an end while the cache is behind; the status is dropped.
PoolGivesUp ==
    /\ ppc = "update" /\ watch # <<>>
    /\ PoolDone
    /\ UNCHANGED <<cluster, outside, faults, reconciler, discovers, probers>>

-----------------------------------------------------------------------------
\* Reconcile.

ReconcileReturns ==
    /\ rpc' = "idle" /\ comp' = NoComponent /\ shared' = FALSE
    /\ UNCHANGED rgen

\* Mutant: a component that is gone is left to the pool's goroutine.
M_Get ==
    /\ rpc = "idle" /\ queued
    /\ queued' = FALSE
    /\ IF seen.exists THEN rpc' = "add" /\ comp' = [spec |-> seen.spec, status |-> seen.status]
                      ELSE UNCHANGED <<rpc, comp>>
    /\ UNCHANGED <<cluster, outside, faults, rgen, shared, discovers, pool, probers>>

\* The cached component; one that is gone leaves the pool.
Get ==
    /\ rpc = "idle" /\ queued
    /\ queued' = FALSE
    /\ IF seen.exists
       THEN /\ rpc' = "add" /\ comp' = [spec |-> seen.spec, status |-> seen.status]
            /\ UNCHANGED <<cur, cancelled, wk>>
       ELSE /\ RemoveDiscover
            /\ UNCHANGED <<rpc, comp>>
    /\ UNCHANGED <<cluster, outside, faults, rgen, shared, gens, dpc, own, dacc,
                   pool, workers, results>>

\* NewDiscover refuses a source without endpoints: the status becomes empty and
\* the pool keeps what it has.
NotSupported ==
    /\ rpc = "add" /\ comp.spec.eps = {}
    /\ rpc' = "update" /\ comp' = [comp EXCEPT !.status = Empty]
    /\ UNCHANGED <<cluster, outside, faults, queued, rgen, shared, discovers, pool,
                   probers>>

Add ==
    /\ rpc = "add" /\ comp.spec.eps # {}
    /\ AddDiscover(comp)
    /\ rpc' = "read"
    /\ UNCHANGED <<cluster, outside, faults, queued, comp, cancelled, own, dacc, pool,
                   results>>

Discovered ==
    /\ rpc = "read" /\ rpc' = "update"
    /\ comp' = [comp EXCEPT !.status = DiscoverOne(rgen, comp.spec)]
    /\ UNCHANGED <<obj, watch, seen, outside, queued, rgen, shared, discovers, pool, probers>>

\* DiscoverOne, and the Endpoints of the service get the ready addresses; nobody
\* else reads or writes them.
Apply ==
    /\ Discovered
    /\ online' = ReadyIn(DiscoverOne(rgen, comp.spec))
    /\ UNCHANGED faults

\* A call that fails is only logged.  Nor are the Endpoints written when the cache
\* is so far behind that it shows what is to be written.
ApplyFails ==
    /\ Discovered
    /\ faults < bound.faults /\ Eventful
    /\ faults' = faults + 1
    /\ UNCHANGED online

\* The goroutine that shares Reconcile's component keeps it as updateStatus left
\* it: the specification it read from the cache, if there is one, and the new status.
Handover ==
    own' = IF shared
           THEN [own EXCEPT ![rgen] = [spec |-> IF seen.exists THEN seen.spec ELSE comp.spec,
                                       status |-> comp.status]]
           ELSE own

UpdateStatus ==
    /\ rpc = "update" /\ seen.exists /\ obj.exists
    /\ WriteStatus(comp.status)
    /\ Handover /\ ReconcileReturns
    /\ UNCHANGED <<seen, online, outside, faults, queued, cur, gens, cancelled, dpc, dacc,
                   pool, probers>>

\* The component is gone or the cache stays behind: Reconcile runs again in five
\* seconds, but not after NewDiscover's refusal.
UpdateFails ==
    /\ rpc = "update"
    /\ ~(seen.exists /\ obj.exists) \/ watch # <<>>
    /\ queued' = (queued \/ comp.spec.eps # {})
    /\ Handover /\ ReconcileReturns
    /\ UNCHANGED <<cluster, outside, faults, cur, gens, cancelled, dpc, dacc, pool, probers>>

-----------------------------------------------------------------------------
\* The goroutine of a discover worker: Worker.Start and staticEndpoint.Discover.

\* The component it works on.
Own(g) == IF shared /\ rgen = g THEN comp ELSE own[g]

DiscoverStart(g) ==
    /\ dpc[g] = "new"
    /\ dpc' = [dpc EXCEPT ![g] = "recv"]
    /\ UNCHANGED <<cluster, outside, faults, reconciler, cur, gens, cancelled, own, dacc,
                   pool, probers>>

\* A prober worker hands over its update.
Updates(g, a, k) ==
    /\ dpc[g] = "recv" /\ wk[a][k].pc = "send" /\ wk[a][k].gen = g
    /\ wk' = [wk EXCEPT ![a][k].pc = "tick"]
    /\ dpc' = [dpc EXCEPT ![g] = "read"]
    /\ UNCHANGED <<cluster, outside, faults, reconciler, cur, gens, cancelled, own, dacc, pool,
                   workers, results>>

\* discoverOne: a status that differs from the one of its own component is to go
\* to the pool.
Look(g) ==
    LET st == DiscoverOne(g, Own(g).spec)
    IN  /\ dpc[g] = "read"
        /\ dacc' = [dacc EXCEPT ![g] = IF st = Own(g).status THEN Empty ELSE st]
        /\ dpc' = [dpc EXCEPT ![g] = IF st = Own(g).status THEN "recv" ELSE "push"]
        /\ UNCHANGED <<cluster, outside, faults, reconciler, cur, gens, cancelled, own, pool, probers>>

Push(g) ==
    /\ dpc[g] = "push" /\ Len(updateChan) < ChanCap
    /\ updateChan' = Append(updateChan, dacc[g])
    /\ dpc' = [dpc EXCEPT ![g] = "recv"]
    /\ dacc' = [dacc EXCEPT ![g] = Empty]
    /\ UNCHANGED <<cluster, outside, faults, reconciler, cur, gens, cancelled, own, ppc, item,
                   probers>>

\* The context is cancelled: the goroutine ends and stops the probers once more.
DiscoverEnds(g) ==
    /\ dpc[g] = "recv" /\ cancelled[g]
    /\ dpc' = [dpc EXCEPT ![g] = "ended"]
    /\ own' = [own EXCEPT ![g] = NoComponent]
    /\ wk' = Stopped(g, Addrs)
    /\ UNCHANGED <<cluster, outside, faults, reconciler, cur, gens, cancelled, dacc, pool,
                   workers, results>>

-----------------------------------------------------------------------------
\* A prober worker: run and doProbe.

\* How many results in a row are recorded, and how many there have been, counted
\* up to that number.
Threshold(result) == IF result = "Success" THEN SuccessThreshold ELSE FailureThreshold
Run(w, result) ==
    IF w.last # result THEN 1
    ELSE IF w.run < Threshold(result) THEN w.run + 1 ELSE Threshold(result)

\* Mutant: only a result that replaces another is announced.
M_DoProbe(a, k) ==
    LET w == wk[a][k]
        result == IF a \in up THEN "Success" ELSE "Failure"
        run == Run(w, result)
        recorded == run = Threshold(result)
    IN  /\ w.pc \in {"probe", "tick"}
        /\ results' = IF recorded THEN [results EXCEPT ![w.gen][a] = result] ELSE results
        /\ wk' = [wk EXCEPT ![a][k].last = result, ![a][k].run = run,
                            ![a][k].pc = IF recorded /\ results[w.gen][a] \notin {result, "none"}
                                         THEN "send" ELSE "tick"]
        /\ passed' = IF result = "Success" THEN passed \cup {a} ELSE passed
        /\ UNCHANGED <<cluster, up, flips, edits, creates, bound, faults, reconciler, discovers, pool,
                       workers>>

\* A probe, at the start or at a tick.  Below the threshold its result is not
\* recorded; a result that is new or has changed is announced.  (A result that is
\* out of date when it is recorded is one that an endpoint changes right after.)
DoProbe(a, k) ==
    LET w == wk[a][k]
        result == IF a \in up THEN "Success" ELSE "Failure"
        run == Run(w, result)
        recorded == run = Threshold(result)
    IN  /\ w.pc \in {"probe", "tick"}
        /\ results' = IF recorded THEN [results EXCEPT ![w.gen][a] = result] ELSE results
        /\ wk' = [wk EXCEPT ![a][k].last = result, ![a][k].run = run,
                            ![a][k].pc = IF recorded /\ results[w.gen][a] # result
                                         THEN "send" ELSE "tick"]
        /\ passed' = IF result = "Success" THEN passed \cup {a} ELSE passed
        /\ UNCHANGED <<cluster, up, flips, edits, creates, bound, faults, reconciler, discovers, pool,
                       workers>>

\* A probe that ends in an error has no result; the worker waits for the next tick.
ProbeError(a, k) ==
    /\ wk[a][k].pc = "probe" /\ faults < bound.faults /\ Eventful
    /\ faults' = faults + 1
    /\ wk' = [wk EXCEPT ![a][k].pc = "tick"]
    /\ UNCHANGED <<cluster, outside, reconciler, discovers, pool, workers, results>>

\* The worker sees that it is to stop and takes its result with it.
Stop(a, k) ==
    /\ wk[a][k].pc = "tick" /\ wk[a][k].stop
    /\ results' = [results EXCEPT ![wk[a][k].gen][a] = "none"]
    /\ wk' = [wk EXCEPT ![a][k].pc = "leave"]
    /\ UNCHANGED <<cluster, outside, faults, reconciler, discovers, pool, workers>>

\* Mutant: the worker does not remove itself.
M_RemoveWorker(a, k) ==
    /\ wk[a][k].pc = "leave"
    /\ wk' = [wk EXCEPT ![a][k] = Idle]
    /\ UNCHANGED <<cluster, outside, faults, reconciler, discovers, pool, workers, results>>

\* removeWorker: the table's entry for the address, whichever worker it is.
RemoveWorker(a, k) ==
    /\ wk[a][k].pc = "leave"
    /\ workers' = [workers EXCEPT ![wk[a][k].gen][a] = 0]
    /\ wk' = [wk EXCEPT ![a][k] = Idle]
    /\ UNCHANGED <<cluster, outside, faults, reconciler, discovers, pool, results>>

-----------------------------------------------------------------------------
ReconcileStep ==
    Get \/ NotSupported \/ Add \/ Apply \/ UpdateStatus \/ UpdateFails

PoolStep == PoolTake \/ PoolUpdate \/ PoolNotFound

DiscoverStep(g) == DiscoverStart(g) \/ Look(g) \/ Push(g)

WorkerStep(a, k) == DoProbe(a, k) \/ RemoveWorker(a, k)

Next ==
    \/ Edit \/ Delete \/ Create \/ Informer
    \/ ReconcileStep \/ ApplyFails \/ PoolStep \/ PoolGivesUp
    \/ \E a \in Addrs : Flip(a)
    \/ \E g \in Gens : DiscoverStep(g) \/ DiscoverEnds(g)
    \/ \E a \in Addrs, k \in Slots : \/ WorkerStep(a, k) \/ ProbeError(a, k) \/ Stop(a, k)
                                     \/ \E g \in Gens : Updates(g, a, k)

Spec == Init /\ [][Next]_vars

\* Goroutines run, the informer delivers, and calls answer.  A select whose
\* several cases stay ready picks each in time, and senders that wait on a
\* channel are served in their order.  Endpoints, users and conflicts are free.
FairSpec ==
    /\ Spec
    /\ WF_vars(Informer) /\ WF_vars(ReconcileStep) /\ WF_vars(PoolStep)
    /\ WF_vars(\E g \in Gens : DiscoverStep(g)) /\ SF_vars(\E g \in Gens : DiscoverEnds(g))
    /\ \A a \in Addrs, k \in Slots :
          /\ WF_vars(WorkerStep(a, k))
          /\ SF_vars(Stop(a, k) \/ \E g \in Gens : Updates(g, a, k))

-----------------------------------------------------------------------------
\* Properties.

Version == [exists : BOOLEAN, spec : Spec_, status : Status]
Prober == [pc : {"none", "probe", "send", "tick", "leave"}, gen : Gens,
           probe : Probes \cup {None}, stop : BOOLEAN, last : {"Success", "Failure"}, run : Nat]

\* A worker in the prober's table is one that runs.
TableRuns ==
    \A g \in Gens, a \in Addrs :
        workers[g][a] # 0 => /\ wk[a][workers[g][a]].pc # "none"
                             /\ wk[a][workers[g][a]].gen = g

\* The types of the variables, and the table of the prober workers.
TypeOK ==
    /\ obj \in Version /\ watch \in Seq(Version) /\ seen \in Version
    /\ online \subseteq Addrs /\ up \subseteq Addrs /\ passed \subseteq Addrs
    /\ bound \in Bounds
    /\ flips \in Nat /\ edits \in Nat /\ creates \in Nat /\ faults \in Nat
    /\ queued \in BOOLEAN /\ rpc \in {"idle", "add", "read", "update"}
    /\ comp \in Component
    /\ gens \in 0..MaxGen /\ cur \in (1..gens) \cup {None}
    /\ shared \in BOOLEAN /\ (shared \/ rpc = "read" => rgen \in 1..gens)
    /\ cancelled \in [Gens -> BOOLEAN]
    /\ dpc \in [Gens -> {"none", "new", "recv", "read", "push", "ended"}]
    /\ own \in [Gens -> Component]
    /\ dacc \in [Gens -> Status]
    /\ updateChan \in Seq(Status) /\ ppc \in {"idle", "update"} /\ item \in Status
    /\ workers \in [Gens -> [Addrs -> Slots \cup {0}]]
    /\ results \in [Gens -> [Addrs -> {"none", "Success", "Failure"}]]
    /\ wk \in [Addrs -> [Slots -> Prober]] /\ TableRuns

\* "EndpointReady: If a probe is configured, it means the probe has passed."
\* (third_component.go:315)  Neither the status nor the service's Endpoints call
\* an address ready that no probe has reached, whatever stale statuses the
\* discover goroutines and the pool write.
ReadyWasProbed == ReadyIn(obj.status) \cup online \subseteq passed

\* A discover worker in the pool is never one whose context is cancelled: the
\* components handed to it are watched.
PoolIsLive == cur # None => ~cancelled[cur] /\ dpc[cur] # "ended"

\* What the status should say.
Truth ==
    [a \in Addrs |-> IF a \notin obj.spec.eps THEN "absent"
                     ELSE IF a \in up THEN "Ready" ELSE "Unhealthy"]

\* The status and the Endpoints come to say what the probes say, although the
\* pool drops and skips statuses and reads from a cache that is behind; except for
\* the status that the component of the discover goroutine has itself.  This is
\* so for a component that is neither edited nor created again: the goroutine
\* never takes a new specification (staticendpoint.go:94).  Endpoints that are
\* refused, or that a cache that is behind shows as they should be, are not
\* written again.
StatusFollows ==
    []<>(obj.exists /\ NeedProbe(obj.spec) /\ edits + creates = 0 =>
            \/ obj.status = Truth /\ (faults = 0 => online = ReadyIn(Truth))
            \/ cur # None /\ own[cur].status = Truth)

\* "EndpointReady: If a probe is configured, it means the probe has passed."
\* (third_component.go:315)  An endpoint that stays down does not stay ready.
ReadyMeansPassed ==
    \A a \in Addrs : ~<>[](obj.exists /\ obj.status[a] = "Ready" /\ a \notin up)

\* A component that is gone and still in the pool is on its way out, also when
\* Reconcile adds it while the pool's goroutine removes it: the informer or the
\* work queue has still to tell Reconcile.
RemovalPending == ~obj.exists /\ cur # None => watch # <<>> \/ queued

\* "stop stops the probe worker ... It is safe to call stop multiple times."
\* (prober/worker.go:126)  When a discover worker has been removed, the prober
\* workers in its table and the ones dropped from it end, wherever the stops found
\* them, except for one that nobody takes an update from.
ProbersStop ==
    \A a \in Addrs, k \in Slots :
        ~<>[](LET w == wk[a][k]
              IN  /\ cancelled[w.gen] /\ (w.stop \/ workers[w.gen][a] = k)
                  /\ w.pc \notin {"none", "send"})
=============================================================================
