------------------------ MODULE ThirdComponentProofs ------------------------
(***************************************************************************)
(* Proofs about ThirdComponent for any addresses, probes, thresholds,      *)
(* channel sizes and bounds.                                               *)
(***************************************************************************)
EXTENDS ThirdComponent, TLAPS

-----------------------------------------------------------------------------
\* Facts about the operators.

\* The empty status and component, and a prober worker that is not there.
LEMMA Constants ==
    /\ Empty \in Status /\ NoComponent \in Component /\ Idle \in Prober
    /\ ReadyIn(Empty) = {}
<1>1. Empty \in Status
  BY DEF Empty, Status, EndpointStatus
<1>2. NoComponent \in Component
  BY <1>1 DEF NoComponent, Component, Spec_
<1>3. 1 \in Gens
  BY ConstantsAssumption DEF Gens
<1>4. Idle \in Prober
  BY <1>3 DEF Idle, Prober
<1>5. ReadyIn(Empty) = {}
  BY DEF ReadyIn, Empty
<1> QED BY <1>1, <1>2, <1>4, <1>5

\* What DiscoverOne returns is a status.
LEMMA DiscoverOneType ==
    ASSUME TypeOK, NEW g \in Gens, NEW s \in Spec_
    PROVE  DiscoverOne(g, s) \in Status
BY DEF TypeOK, DiscoverOne, StatusOf, Status, EndpointStatus

\* A discover worker of the pool is one of Gens.
LEMMA CurType ==
    ASSUME TypeOK
    PROVE  /\ 1..gens \subseteq Gens
           /\ cur # None => cur \in Gens
           /\ (shared \/ rpc = "read") => rgen \in Gens
BY ConstantsAssumption DEF TypeOK, Gens

\* Telling workers to stop changes no more than their stop.
LEMMA StoppedType ==
    ASSUME TypeOK, NEW g \in Gens, NEW A
    PROVE  /\ Stopped(g, A) \in [Addrs -> [Slots -> Prober]]
           /\ \A a \in Addrs, k \in Slots :
                 /\ Stopped(g, A)[a][k].pc = wk[a][k].pc
                 /\ Stopped(g, A)[a][k].gen = wk[a][k].gen
<1>1. ASSUME NEW w \in Prober
      PROVE  /\ [w EXCEPT !.stop = TRUE] \in Prober
             /\ [w EXCEPT !.stop = TRUE].pc = w.pc /\ [w EXCEPT !.stop = TRUE].gen = w.gen
  BY DEF Prober
<1>2. \A a \in Addrs, k \in Slots : wk[a][k] \in Prober
  BY DEF TypeOK
<1> QED BY <1>1, <1>2 DEF Stopped

\* So the table stays in order.
LEMMA StoppedTable ==
    ASSUME TypeOK, NEW g \in Gens, NEW A, wk' = Stopped(g, A), UNCHANGED workers
    PROVE  wk' \in [Addrs -> [Slots -> Prober]] /\ TableRuns'
<1>1. \A h \in Gens, a \in Addrs : workers[h][a] \in Slots \cup {0}
  BY DEF TypeOK
<1>2. TableRuns
  BY DEF TypeOK
<1> QED BY <1>1, <1>2, StoppedType DEF TableRuns

\* A step of the worker in slot k of address a that goes on keeps it in order.
LEMMA WorkerMoves ==
    ASSUME TypeOK, NEW a \in Addrs, NEW k \in Slots, NEW w \in Prober,
           w.pc # "none", w.gen = wk[a][k].gen,
           wk' = [wk EXCEPT ![a][k] = w], UNCHANGED workers
    PROVE  wk' \in [Addrs -> [Slots -> Prober]] /\ TableRuns'
<1>1. \A h \in Gens, b \in Addrs : workers[h][b] \in Slots \cup {0}
  BY DEF TypeOK
<1>2. TableRuns /\ wk \in [Addrs -> [Slots -> Prober]]
  BY DEF TypeOK
<1>3. wk' \in [Addrs -> [Slots -> Prober]]
  BY <1>2
<1>4. \A b \in Addrs, j \in Slots : wk'[b][j] = IF b = a /\ j = k THEN w ELSE wk[b][j]
  BY <1>2
<1> QED BY <1>1, <1>2, <1>3, <1>4 DEF TableRuns

\* A free slot, where there is one.
LEMMA FreeSlotIsFree ==
    ASSUME NEW a \in Addrs, \E k \in Slots : Free(a, k)
    PROVE  FreeSlot(a) \in Slots /\ Free(a, FreeSlot(a))
BY DEF FreeSlot

\* AddThirdComponent fills the table with workers that run.
LEMMA AddType ==
    ASSUME TypeOK, NEW g \in Gens, NEW c \in Component, AddThirdComponent(g, c)
    PROVE  /\ workers' \in [Gens -> [Addrs -> Slots \cup {0}]]
           /\ wk' \in [Addrs -> [Slots -> Prober]]
           /\ TableRuns'
<1>1. CASE ~NeedProbe(c.spec)
  BY <1>1 DEF TypeOK, AddThirdComponent, TableRuns
<1>2. CASE NeedProbe(c.spec)
  <2> DEFINE keep == Kept(g, c)
             new == Listed(c.status) \ keep
             stopped == Stopped(g, Addrs \ keep)
             started == [pc |-> "probe", gen |-> g, probe |-> c.spec.probe, stop |-> FALSE,
                         last |-> "Success", run |-> 0]
  <2>1. started \in Prober
    BY DEF Prober, Component, Spec_
  <2>2. /\ \A a \in new : \E k \in Slots : Free(a, k)
        /\ workers' = [workers EXCEPT ![g] = [a \in Addrs |->
              IF a \in keep THEN workers[g][a] ELSE IF a \in new THEN FreeSlot(a) ELSE 0]]
        /\ wk' = [a \in Addrs |-> [k \in Slots |->
              IF a \in new /\ k = FreeSlot(a) THEN started ELSE stopped[a][k]]]
    BY <1>2 DEF AddThirdComponent
  <2>3. /\ stopped \in [Addrs -> [Slots -> Prober]]
        /\ \A a \in Addrs, k \in Slots : /\ stopped[a][k].pc = wk[a][k].pc
                                         /\ stopped[a][k].gen = wk[a][k].gen
    BY StoppedType
  <2>4. \A a \in new : a \in Addrs /\ FreeSlot(a) \in Slots /\ wk[a][FreeSlot(a)].pc = "none"
    BY <2>2, FreeSlotIsFree DEF Listed, Free
  <2>5. /\ \A h \in Gens, a \in Addrs : workers[h][a] \in Slots \cup {0}
        /\ workers \in [Gens -> [Addrs -> Slots \cup {0}]] /\ TableRuns
        /\ 0 \notin Slots
    BY DEF TypeOK, Slots
  <2> HIDE DEF keep, new, stopped, started
  <2>6. workers' \in [Gens -> [Addrs -> Slots \cup {0}]]
    BY <2>2, <2>4, <2>5
  <2>7. wk' \in [Addrs -> [Slots -> Prober]]
    BY <2>1, <2>2, <2>3
  <2>8. ASSUME NEW h \in Gens, NEW a \in Addrs, workers'[h][a] # 0
        PROVE  wk'[a][workers'[h][a]].pc # "none" /\ wk'[a][workers'[h][a]].gen = h
    <3>1. started.pc = "probe" /\ started.gen = g
      BY DEF started
    <3>2. CASE h = g /\ a \in new /\ a \notin keep
      <4>1. workers'[h][a] = FreeSlot(a)
        BY <3>2, <2>2, <2>5
      <4>2. wk'[a][FreeSlot(a)] = started
        BY <3>2, <2>2, <2>4
      <4> QED BY <3>1, <3>2, <4>1, <4>2
    <3>3. CASE ~(h = g /\ a \in new /\ a \notin keep)
      <4>1. workers'[h][a] = workers[h][a] /\ workers[h][a] \in Slots
        BY <3>3, <2>2, <2>5, <2>8
      <4>2. wk[a][workers[h][a]].pc # "none" /\ wk[a][workers[h][a]].gen = h
        BY <4>1, <2>5 DEF TableRuns
      <4>3. ~(a \in new /\ workers[h][a] = FreeSlot(a))
        BY <4>2, <2>4
      <4>4. wk'[a][workers[h][a]] = stopped[a][workers[h][a]]
        BY <4>1, <4>3, <2>2
      <4> QED BY <4>1, <4>2, <4>4, <2>3
    <3> QED BY <3>2, <3>3
  <2> QED BY <2>6, <2>7, <2>8 DEF TableRuns
<1> QED BY <1>1, <1>2

-----------------------------------------------------------------------------
\* Types.

LEMMA InitType == Init => TypeOK
<1> SUFFICES ASSUME Init PROVE TypeOK
  OBVIOUS
<1>b. bound \in Bounds /\ bound.specs \subseteq Spec_ /\ bound.up \subseteq SUBSET Addrs
  BY ConstantsAssumption DEF Init, Bound
<1>1. obj \in Version /\ seen \in Version
  BY <1>b, ConstantsAssumption DEF Init, Version
<1>2. watch \in Seq(Version) /\ updateChan \in Seq(Status)
  BY DEF Init
<1>3. online \subseteq Addrs /\ up \subseteq Addrs /\ passed \subseteq Addrs
  BY <1>b DEF Init, ReadyIn
<1>4. /\ flips \in Nat /\ edits \in Nat /\ creates \in Nat /\ faults \in Nat
      /\ gens \in 0..MaxGen
  BY ConstantsAssumption DEF Init
<1>5. /\ workers \in [Gens -> [Addrs -> Slots \cup {0}]] /\ TableRuns
      /\ results \in [Gens -> [Addrs -> {"none", "Success", "Failure"}]]
  BY DEF Init, TableRuns
<1>6. wk \in [Addrs -> [Slots -> Prober]]
  BY Constants DEF Init
<1>7. /\ comp \in Component /\ item \in Status
      /\ own \in [Gens -> Component] /\ dacc \in [Gens -> Status]
  BY Constants DEF Init
<1>8. /\ cancelled \in [Gens -> BOOLEAN]
      /\ dpc \in [Gens -> {"none", "new", "recv", "read", "push", "ended"}]
  BY DEF Init
<1>9. /\ queued \in BOOLEAN /\ rpc = "idle" /\ shared = FALSE /\ cur = None /\ ppc = "idle"
  BY DEF Init
<1> QED BY <1>b, <1>1, <1>2, <1>3, <1>4, <1>5, <1>6, <1>7, <1>8, <1>9 DEF TypeOK

\* A write of the resource keeps its type.
LEMMA ChangeType ==
    ASSUME TypeOK, NEW o \in Version, Change(o)
    PROVE  obj' \in Version /\ watch' \in Seq(Version)
BY DEF TypeOK, Change

LEMMA StatusWriteType ==
    ASSUME TypeOK, NEW st \in Status, WriteStatus(st)
    PROVE  obj' \in Version /\ watch' \in Seq(Version)
<1>1. [obj EXCEPT !.status = st] \in Version
  BY DEF TypeOK, Version
<1> QED BY <1>1, ChangeType DEF TypeOK, WriteStatus

\* The specifications of a bound.
LEMMA BoundType == ASSUME TypeOK PROVE bound.specs \subseteq Spec_
BY ConstantsAssumption DEF TypeOK, Bound

\* The API server, its users, the endpoints and the informer.
LEMMA ClusterType ==
    ASSUME TypeOK, Edit \/ Delete \/ Create \/ Informer \/ (\E a \in Addrs : Flip(a))
    PROVE  TypeOK'
<1>1. CASE Edit
  <2>1. PICK s \in Spec_ : Change([obj EXCEPT !.spec = s])
    BY <1>1, BoundType DEF Edit
  <2>2. [obj EXCEPT !.spec = s] \in Version
    BY ConstantsAssumption DEF TypeOK, Version
  <2>3. obj' \in Version /\ watch' \in Seq(Version)
    BY <2>1, <2>2, ChangeType
  <2>4. edits' \in Nat
    BY <1>1 DEF TypeOK, Edit
  <2> QED BY <1>1, <2>3, <2>4
       DEF TypeOK, TableRuns, Edit, reconciler, discovers, pool, probers
<1>2. CASE Delete
  <2>1. [obj EXCEPT !.exists = FALSE] \in Version
    BY DEF TypeOK, Version
  <2>2. obj' \in Version /\ watch' \in Seq(Version)
    BY <1>2, <2>1, ChangeType DEF Delete
  <2> QED BY <1>2, <2>2 DEF TypeOK, TableRuns, Delete, outside, reconciler, discovers, pool, probers
<1>3. CASE Create
  <2>1. [exists |-> TRUE, spec |-> obj.spec, status |-> Empty] \in Version
    BY Constants DEF TypeOK, Version
  <2>2. obj' \in Version /\ watch' \in Seq(Version)
    BY <1>3, <2>1, ChangeType DEF Create
  <2>3. creates' \in Nat
    BY <1>3 DEF TypeOK, Create
  <2> QED BY <1>3, <2>2, <2>3 DEF TypeOK, TableRuns, Create, reconciler, discovers, pool, probers
<1>4. CASE Informer
  <2>1. seen' \in Version /\ watch' \in Seq(Version)
    BY <1>4 DEF TypeOK, Informer
  <2> QED BY <1>4, <2>1 DEF TypeOK, TableRuns, Informer, outside, discovers, pool, probers
<1>5. ASSUME NEW a \in Addrs, Flip(a) PROVE TypeOK'
  <2>1. up' \subseteq Addrs
    BY <1>5 DEF TypeOK, Flip
  <2>2. flips' \in Nat
    BY <1>5 DEF TypeOK, Flip
  <2> QED BY <1>5, <2>1, <2>2
       DEF TypeOK, TableRuns, Flip, cluster, reconciler, discovers, pool, probers
<1> QED BY <1>1, <1>2, <1>3, <1>4, <1>5

\* The pool's goroutine.
LEMMA RemoveDiscoverType ==
    ASSUME TypeOK, RemoveDiscover, UNCHANGED <<workers, gens>>
    PROVE  /\ wk' \in [Addrs -> [Slots -> Prober]] /\ TableRuns'
           /\ cancelled' \in [Gens -> BOOLEAN]
           /\ cur' \in (1..gens) \cup {None}
<1>1. CASE cur = None
  BY <1>1 DEF TypeOK, TableRuns, RemoveDiscover
<1>2. CASE cur # None
  <2>1. cur \in Gens
    BY <1>2, CurType
  <2>2. wk' \in [Addrs -> [Slots -> Prober]] /\ TableRuns'
    BY <1>2, <2>1, StoppedTable DEF RemoveDiscover
  <2> QED BY <1>2, <2>1, <2>2 DEF TypeOK, RemoveDiscover
<1> QED BY <1>1, <1>2

LEMMA PoolType ==
    ASSUME TypeOK, PoolStep \/ PoolGivesUp
    PROVE  TypeOK'
<1>0. item \in Status /\ Empty \in Status
  BY Constants DEF TypeOK
<1>1. CASE PoolTake
  <2>1. updateChan' \in Seq(Status) /\ ppc' \in {"idle", "update"} /\ item' \in Status
    <3>1. updateChan # <<>> /\ Head(updateChan) \in Status
      BY <1>1 DEF PoolTake, TypeOK
    <3>2. updateChan' \in Seq(Status)
      BY <1>1, <3>1 DEF PoolTake, TypeOK
    <3>3. ppc \in {"idle", "update"} /\ item \in Status
      BY DEF TypeOK
    <3> QED BY <1>1, <3>1, <3>2, <3>3 DEF PoolTake
  <2> QED BY <1>1, <2>1
       DEF TypeOK, TableRuns, PoolTake, cluster, outside, reconciler, discovers, probers
<1>2. CASE PoolUpdate
  <2>1. obj' \in Version /\ watch' \in Seq(Version)
    BY <1>0, <1>2, StatusWriteType DEF PoolUpdate
  <2> QED BY <1>0, <1>2, <2>1
       DEF TypeOK, TableRuns, PoolUpdate, PoolDone, outside, reconciler, discovers, probers
<1>3. CASE PoolNotFound
  <2>1. /\ wk' \in [Addrs -> [Slots -> Prober]] /\ TableRuns'
        /\ cancelled' \in [Gens -> BOOLEAN]
        /\ cur' \in (1..gens) \cup {None}
    BY <1>3, RemoveDiscoverType DEF PoolNotFound
  <2> QED BY <1>0, <1>3, <2>1
       DEF TypeOK, PoolNotFound, PoolDone, cluster, outside, reconciler
<1>4. CASE PoolGivesUp
  BY <1>0, <1>4
  DEF TypeOK, TableRuns, PoolGivesUp, PoolDone, cluster, outside, reconciler, discovers, probers
<1> QED BY <1>1, <1>2, <1>3, <1>4 DEF PoolStep

\* Reconcile.
LEMMA HandoverType ==
    ASSUME TypeOK, Handover
    PROVE  own' \in [Gens -> Component]
<1>1. [spec |-> IF seen.exists THEN seen.spec ELSE comp.spec, status |-> comp.status] \in Component
  BY DEF TypeOK, Version, Component
<1> QED BY <1>1, CurType DEF TypeOK, Handover

LEMMA AddStepType ==
    ASSUME TypeOK, Add
    PROVE  TypeOK'
<1>0. comp \in Component /\ gens \in Nat /\ MaxGen \in Nat
  BY ConstantsAssumption DEF TypeOK
<1>1. CASE cur = None
  <2>1. /\ gens < MaxGen /\ gens' = gens + 1 /\ cur' = gens + 1
        /\ rgen' = gens + 1 /\ shared' = TRUE
        /\ dpc' = [dpc EXCEPT ![gens + 1] = "new"]
        /\ AddThirdComponent(gens + 1, comp)
    BY <1>1 DEF Add, AddDiscover
  <2>2. gens + 1 \in Gens /\ gens + 1 \in 1..(gens + 1) /\ gens + 1 \in 0..MaxGen
    BY <1>0, <2>1 DEF Gens
  <2>3. /\ workers' \in [Gens -> [Addrs -> Slots \cup {0}]]
        /\ wk' \in [Addrs -> [Slots -> Prober]]
        /\ TableRuns'
    BY <1>0, <2>1, <2>2, AddType
  <2>4. /\ gens' \in 0..MaxGen /\ cur' \in (1..gens') \cup {None} /\ rgen' \in 1..gens'
        /\ shared' \in BOOLEAN
        /\ dpc' \in [Gens -> {"none", "new", "recv", "read", "push", "ended"}]
    BY <2>1, <2>2 DEF TypeOK
  <2> QED BY <2>3, <2>4 DEF TypeOK, Add, cluster, outside, pool
<1>2. CASE cur # None
  <2>1. /\ rgen' = cur /\ gens' = gens /\ cur' = cur
        /\ shared' = (dpc[cur] \in {"new", "ended"})
        /\ dpc' = [dpc EXCEPT ![cur] = IF @ = "ended" THEN "new" ELSE @]
        /\ AddThirdComponent(cur, comp)
    BY <1>2 DEF Add, AddDiscover
  <2>2. cur \in Gens /\ cur \in 1..gens
    BY <1>2, CurType DEF TypeOK
  <2>3. /\ workers' \in [Gens -> [Addrs -> Slots \cup {0}]]
        /\ wk' \in [Addrs -> [Slots -> Prober]]
        /\ TableRuns'
    BY <1>0, <2>1, <2>2, AddType
  <2>4. /\ gens' \in 0..MaxGen /\ cur' \in (1..gens') \cup {None} /\ rgen' \in 1..gens'
        /\ shared' \in BOOLEAN
        /\ dpc' \in [Gens -> {"none", "new", "recv", "read", "push", "ended"}]
    BY <2>1, <2>2 DEF TypeOK
  <2> QED BY <2>3, <2>4 DEF TypeOK, Add, cluster, outside, pool
<1> QED BY <1>1, <1>2

LEMMA DiscoveredType ==
    ASSUME TypeOK, Discovered
    PROVE  comp' \in Component
<1>1. comp \in Component /\ comp.spec \in Spec_ /\ rgen \in Gens
  BY CurType DEF TypeOK, Component, Discovered
<1>2. DiscoverOne(rgen, comp.spec) \in Status
  BY <1>1, DiscoverOneType
<1>3. \A st \in Status : [comp EXCEPT !.status = st] \in Component
  BY <1>1 DEF Component
<1> QED BY <1>2, <1>3 DEF Discovered

LEMMA ReconcileType ==
    ASSUME TypeOK, ReconcileStep \/ ApplyFails
    PROVE  TypeOK'
<1>0. NoComponent \in Component /\ comp \in Component /\ comp.status \in Status
  BY Constants DEF TypeOK, Component
<1>1. CASE Get
  <2>1. comp' \in Component /\ rpc' \in {"idle", "add"}
    BY <1>0, <1>1 DEF Get, TypeOK, Version, Component
  <2>2. /\ wk' \in [Addrs -> [Slots -> Prober]] /\ TableRuns'
        /\ cancelled' \in [Gens -> BOOLEAN]
        /\ cur' \in (1..gens) \cup {None}
    <3>1. CASE seen.exists
      BY <1>1, <3>1 DEF Get, TypeOK, TableRuns
    <3>2. CASE ~seen.exists
      BY <1>1, <3>2, RemoveDiscoverType DEF Get
    <3> QED BY <3>1, <3>2
  <2> QED BY <1>1, <2>1, <2>2 DEF TypeOK, Get, cluster, outside, pool
<1>2. CASE NotSupported
  <2>1. comp' \in Component
    BY <1>0, <1>2, Constants DEF NotSupported, Component
  <2> QED BY <1>2, <2>1
       DEF TypeOK, TableRuns, NotSupported, cluster, outside, discovers, pool, probers
<1>3. CASE Add
  BY <1>3, AddStepType
<1>4. CASE Apply
  <2>1. comp' \in Component /\ online' \subseteq Addrs
    BY <1>4, DiscoveredType DEF Apply, ReadyIn
  <2> QED BY <1>4, <2>1
       DEF TypeOK, TableRuns, Apply, Discovered, outside, discovers, pool, probers
<1>5. CASE ApplyFails
  <2>1. comp' \in Component
    BY <1>5, DiscoveredType DEF ApplyFails
  <2>2. faults' \in Nat
    BY <1>5 DEF TypeOK, ApplyFails
  <2> QED BY <1>5, <2>1, <2>2
       DEF TypeOK, TableRuns, ApplyFails, Discovered, outside, discovers, pool, probers
<1>6. CASE UpdateStatus
  <2>1. obj' \in Version /\ watch' \in Seq(Version) /\ own' \in [Gens -> Component]
    BY <1>0, <1>6, StatusWriteType, HandoverType DEF UpdateStatus
  <2> QED BY <1>0, <1>6, <2>1
       DEF TypeOK, TableRuns, UpdateStatus, ReconcileReturns, outside, pool, probers
<1>7. CASE UpdateFails
  <2>1. own' \in [Gens -> Component]
    BY <1>7, HandoverType DEF UpdateFails
  <2> QED BY <1>0, <1>7, <2>1
       DEF TypeOK, TableRuns, UpdateFails, ReconcileReturns, cluster, outside, pool, probers
<1> QED BY <1>1, <1>2, <1>3, <1>4, <1>5, <1>6, <1>7 DEF ReconcileStep

\* The goroutine of a discover worker.
LEMMA OwnType == ASSUME TypeOK, NEW g \in Gens PROVE Own(g) \in Component
BY DEF TypeOK, Own

LEMMA DiscoverType ==
    ASSUME TypeOK, NEW g \in Gens, DiscoverStep(g) \/ DiscoverEnds(g)
    PROVE  TypeOK'
<1>1. CASE DiscoverStart(g)
  BY <1>1 DEF TypeOK, TableRuns, DiscoverStart, cluster, outside, reconciler, pool, probers
<1>2. CASE Look(g)
  <2>1. DiscoverOne(g, Own(g).spec) \in Status
    BY OwnType, DiscoverOneType DEF Component
  <2>2. dacc' \in [Gens -> Status]
    BY <1>2, <2>1, Constants DEF Look, TypeOK
  <2>3. dpc' \in [Gens -> {"none", "new", "recv", "read", "push", "ended"}]
    BY <1>2 DEF Look, TypeOK
  <2> QED BY <1>2, <2>2, <2>3
       DEF TypeOK, TableRuns, Look, cluster, outside, reconciler, pool, probers
<1>3. CASE Push(g)
  <2>1. updateChan' \in Seq(Status) /\ dacc' \in [Gens -> Status]
    BY <1>3, Constants DEF Push, TypeOK
  <2> QED BY <1>3, <2>1
       DEF TypeOK, TableRuns, Push, cluster, outside, reconciler, probers
<1>4. CASE DiscoverEnds(g)
  <2>1. wk' \in [Addrs -> [Slots -> Prober]] /\ TableRuns'
    BY <1>4, StoppedTable DEF DiscoverEnds
  <2>2. own' \in [Gens -> Component]
    BY <1>4, Constants DEF DiscoverEnds, TypeOK
  <2> QED BY <1>4, <2>1, <2>2 DEF TypeOK, DiscoverEnds, cluster, outside, reconciler, pool
<1> QED BY <1>1, <1>2, <1>3, <1>4 DEF DiscoverStep

\* A prober worker.
LEMMA RunType ==
    ASSUME NEW w \in Prober, NEW result \in {"Success", "Failure"}
    PROVE  Run(w, result) \in Nat
BY ConstantsAssumption DEF Run, Threshold, Prober

LEMMA WorkerType ==
    ASSUME TypeOK, NEW a \in Addrs, NEW k \in Slots,
           WorkerStep(a, k) \/ ProbeError(a, k) \/ Stop(a, k) \/ (\E g \in Gens : Updates(g, a, k))
    PROVE  TypeOK'
<1> DEFINE w == wk[a][k]
<1>0. w \in Prober /\ w.gen \in Gens /\ wk \in [Addrs -> [Slots -> Prober]]
  BY DEF TypeOK, Prober
<1>1. CASE DoProbe(a, k)
  <2> DEFINE result == IF a \in up THEN "Success" ELSE "Failure"
             run == Run(w, result)
             recorded == run = Threshold(result)
             pc == IF recorded /\ results[w.gen][a] # result THEN "send" ELSE "tick"
             w2 == [w EXCEPT !.last = result, !.run = run, !.pc = pc]
  <2>1. run \in Nat
    BY <1>0, RunType
  <2>2. wk' = [wk EXCEPT ![a][k].last = result, ![a][k].run = run, ![a][k].pc = pc]
    BY <1>1 DEF DoProbe
  <2>3. /\ UNCHANGED workers
        /\ results' = IF recorded THEN [results EXCEPT ![w.gen][a] = result] ELSE results
        /\ passed' = IF result = "Success" THEN passed \cup {a} ELSE passed
    BY <1>1 DEF DoProbe
  <2>4. pc \in {"send", "tick"} /\ result \in {"Success", "Failure"}
    OBVIOUS
  <2> HIDE DEF run, recorded, pc, result
  <2>5. w2 \in Prober /\ w2.pc # "none" /\ w2.gen = w.gen
    BY <1>0, <2>1, <2>4 DEF Prober
  <2>6. wk' = [wk EXCEPT ![a][k] = w2]
    BY <1>0, <2>2
  <2>7. wk' \in [Addrs -> [Slots -> Prober]] /\ TableRuns'
    <3> HIDE DEF w2
    <3> QED BY <2>3, <2>5, <2>6, WorkerMoves
  <2>8. results' \in [Gens -> [Addrs -> {"none", "Success", "Failure"}]]
    BY <1>0, <2>3, <2>4 DEF TypeOK
  <2>9. passed' \subseteq Addrs
    BY <2>3 DEF TypeOK
  <2> QED BY <1>1, <2>7, <2>8, <2>9
       DEF TypeOK, DoProbe, cluster, reconciler, discovers, pool
<1>2. CASE Stop(a, k)
  <2> DEFINE w2 == [w EXCEPT !.pc = "leave"]
  <2>1. w2 \in Prober /\ w2.pc # "none" /\ w2.gen = w.gen
    BY <1>0 DEF Prober
  <2>2. wk' = [wk EXCEPT ![a][k] = w2] /\ UNCHANGED workers
    BY <1>2 DEF Stop
  <2>3. wk' \in [Addrs -> [Slots -> Prober]] /\ TableRuns'
    <3> HIDE DEF w2
    <3> QED BY <2>1, <2>2, WorkerMoves
  <2>4. results' \in [Gens -> [Addrs -> {"none", "Success", "Failure"}]]
    BY <1>0, <1>2 DEF TypeOK, Stop
  <2> QED BY <1>2, <2>3, <2>4
       DEF TypeOK, Stop, cluster, outside, reconciler, discovers, pool
<1>3. ASSUME NEW g \in Gens, Updates(g, a, k) PROVE TypeOK'
  <2> DEFINE w2 == [w EXCEPT !.pc = "tick"]
  <2>1. w2 \in Prober /\ w2.pc # "none" /\ w2.gen = w.gen
    BY <1>0 DEF Prober
  <2>2. wk' = [wk EXCEPT ![a][k] = w2] /\ UNCHANGED workers
    BY <1>3 DEF Updates
  <2>3. wk' \in [Addrs -> [Slots -> Prober]] /\ TableRuns'
    <3> HIDE DEF w2
    <3> QED BY <2>1, <2>2, WorkerMoves
  <2> QED BY <1>3, <2>3
       DEF TypeOK, Updates, cluster, outside, reconciler, pool
<1>4. CASE RemoveWorker(a, k)
  <2>1. wk' = [wk EXCEPT ![a][k] = Idle] /\ workers' = [workers EXCEPT ![w.gen][a] = 0]
    BY <1>4 DEF RemoveWorker
  <2>2. /\ wk' \in [Addrs -> [Slots -> Prober]]
        /\ workers' \in [Gens -> [Addrs -> Slots \cup {0}]]
    BY <1>0, <2>1, Constants DEF TypeOK
  <2>3. ASSUME NEW h \in Gens, NEW b \in Addrs, workers'[h][b] # 0
        PROVE  wk'[b][workers'[h][b]].pc # "none" /\ wk'[b][workers'[h][b]].gen = h
    <3>1. /\ workers'[h][b] = workers[h][b] /\ ~(h = w.gen /\ b = a)
          /\ workers[h][b] \in Slots
      BY <1>0, <2>1, <2>3 DEF TypeOK
    <3>2. wk[b][workers[h][b]].pc # "none" /\ wk[b][workers[h][b]].gen = h
      BY <3>1, <2>3 DEF TypeOK, TableRuns
    <3>3. ~(b = a /\ workers[h][b] = k)
      BY <3>1, <3>2
    <3>4. wk'[b][workers[h][b]] = wk[b][workers[h][b]]
      BY <3>1, <3>3, <2>1, <1>0
    <3> QED BY <3>1, <3>2, <3>4
  <2>4. TableRuns'
    BY <2>3 DEF TableRuns
  <2> QED BY <1>4, <2>2, <2>4
       DEF TypeOK, RemoveWorker, cluster, outside, reconciler, discovers, pool
<1>5. CASE ProbeError(a, k)
  <2> DEFINE w2 == [w EXCEPT !.pc = "tick"]
  <2>1. w2 \in Prober /\ w2.pc # "none" /\ w2.gen = w.gen
    BY <1>0 DEF Prober
  <2>2. wk' = [wk EXCEPT ![a][k] = w2] /\ UNCHANGED workers /\ faults' = faults + 1
    BY <1>5 DEF ProbeError
  <2>3. wk' \in [Addrs -> [Slots -> Prober]] /\ TableRuns'
    <3> HIDE DEF w2
    <3> QED BY <2>1, <2>2, WorkerMoves
  <2> QED BY <1>5, <2>2, <2>3
       DEF TypeOK, ProbeError, cluster, outside, reconciler, discovers, pool
<1> QED BY <1>1, <1>2, <1>3, <1>4, <1>5 DEF WorkerStep

\* Every step keeps the types.
LEMMA TypeStep == ASSUME TypeOK, [Next]_vars PROVE TypeOK'
<1>1. CASE UNCHANGED vars
  BY <1>1 DEF TypeOK, TableRuns, vars, cluster, outside, reconciler, discovers, pool, probers
<1> QED BY <1>1, ClusterType, PoolType, ReconcileType, DiscoverType, WorkerType DEF Next

\* The types, and a table of prober workers in which every entry is a worker that
\* runs: AddThirdComponent and removeWorker keep it so although workers leave
\* whenever they like.
THEOREM TypeCorrect == Spec => []TypeOK
<1>1. Init => TypeOK
  BY InitType
<1>2. TypeOK /\ [Next]_vars => TypeOK'
  BY TypeStep
<1> QED BY <1>1, <1>2, PTL DEF Spec

-----------------------------------------------------------------------------
\* No status that is anywhere in the system calls an address ready that no probe
\* has reached, and no result says so.
Honest(st) == ReadyIn(st) \subseteq passed

ProbedInv ==
    /\ Honest(obj.status) /\ Honest(seen.status) /\ Honest(comp.status) /\ Honest(item)
    /\ \A i \in 1..Len(watch) : Honest(watch[i].status)
    /\ \A i \in 1..Len(updateChan) : Honest(updateChan[i])
    /\ \A g \in Gens : Honest(own[g].status) /\ Honest(dacc[g])
    /\ \A g \in Gens, a \in Addrs : results[g][a] = "Success" => a \in passed
    /\ online \subseteq passed

\* DiscoverOne adds none.
LEMMA DiscoverOneHonest ==
    ASSUME ProbedInv, NEW g \in Gens, NEW s
    PROVE  Honest(DiscoverOne(g, s))
BY DEF ProbedInv, Honest, ReadyIn, DiscoverOne, StatusOf

LEMMA EmptyHonest == Honest(Empty) /\ Honest(NoComponent.status)
BY Constants DEF Honest, NoComponent

\* A write of the resource.
LEMMA ChangeHonest ==
    ASSUME TypeOK, ProbedInv, NEW o \in Version, Honest(o.status), Change(o), UNCHANGED passed
    PROVE  Honest(obj.status)' /\ \A i \in 1..Len(watch') : Honest(watch[i].status)'
<1>1. watch' \in Seq(Version) /\ Len(watch') = Len(watch) + 1 /\ Len(watch) \in Nat
      /\ \A i \in 1..Len(watch') : watch'[i] = IF i = Len(watch) + 1 THEN o ELSE watch[i]
  BY DEF TypeOK, Change
<1> QED BY <1>1 DEF Change, ProbedInv, Honest

LEMMA StatusWriteHonest ==
    ASSUME TypeOK, ProbedInv, NEW st \in Status, Honest(st), WriteStatus(st), UNCHANGED passed
    PROVE  Honest(obj.status)' /\ \A i \in 1..Len(watch') : Honest(watch[i].status)'
<1>1. CASE st = obj.status
  BY <1>1 DEF WriteStatus, ProbedInv, Honest
<1>2. CASE st # obj.status
  <2>1. [obj EXCEPT !.status = st] \in Version /\ [obj EXCEPT !.status = st].status = st
    BY DEF TypeOK, Version
  <2> QED BY <1>2, <2>1, ChangeHonest DEF WriteStatus
<1> QED BY <1>1, <1>2

LEMMA HandoverHonest ==
    ASSUME TypeOK, ProbedInv, Handover, UNCHANGED passed
    PROVE  \A g \in Gens : Honest(own[g].status)'
BY CurType DEF TypeOK, ProbedInv, Handover, Honest

\* Every step keeps the statuses honest.
LEMMA ProbedStep == ASSUME TypeOK, ProbedInv, [Next]_vars PROVE ProbedInv'
<1>e. Honest(Empty) /\ Honest(NoComponent.status)
  BY EmptyHonest
<1>1. CASE Edit
  <2>1. PICK s \in Spec_ : Change([obj EXCEPT !.spec = s])
    BY <1>1, BoundType DEF Edit
  <2>2. [obj EXCEPT !.spec = s] \in Version /\ [obj EXCEPT !.spec = s].status = obj.status
    BY ConstantsAssumption DEF TypeOK, Version
  <2>3. UNCHANGED <<seen, online, passed, reconciler, discovers, pool, probers>>
    BY <1>1 DEF Edit
  <2>4. Honest(obj.status)' /\ \A i \in 1..Len(watch') : Honest(watch[i].status)'
    BY <2>1, <2>2, <2>3, ChangeHonest DEF ProbedInv
  <2> QED BY <2>3, <2>4 DEF ProbedInv, Honest, reconciler, discovers, pool, probers
<1>2. CASE Delete
  <2>1. [obj EXCEPT !.exists = FALSE] \in Version /\ [obj EXCEPT !.exists = FALSE].status = obj.status
    BY DEF TypeOK, Version
  <2>2. UNCHANGED <<seen, online, passed, reconciler, discovers, pool, probers>>
    BY <1>2 DEF Delete, outside
  <2>3. Honest(obj.status)' /\ \A i \in 1..Len(watch') : Honest(watch[i].status)'
    BY <1>2, <2>1, <2>2, ChangeHonest DEF ProbedInv, Delete
  <2> QED BY <2>2, <2>3 DEF ProbedInv, Honest, reconciler, discovers, pool, probers
<1>3. CASE Create
  <2> DEFINE o == [exists |-> TRUE, spec |-> obj.spec, status |-> Empty]
  <2>1. o \in Version /\ o.status = Empty
    BY Constants DEF TypeOK, Version
  <2>2. UNCHANGED <<seen, online, passed, reconciler, discovers, pool, probers>> /\ Change(o)
    BY <1>3 DEF Create
  <2>3. Honest(obj.status)' /\ \A i \in 1..Len(watch') : Honest(watch[i].status)'
    <3> HIDE DEF o
    <3> QED BY <1>e, <2>1, <2>2, ChangeHonest
  <2> QED BY <2>2, <2>3 DEF ProbedInv, Honest, reconciler, discovers, pool, probers
<1>4. CASE Informer
  <2>1. /\ watch \in Seq(Version) /\ watch # <<>>
        /\ seen' = Head(watch) /\ watch' = Tail(watch)
        /\ UNCHANGED <<obj, online, outside, comp, discovers, pool, probers>>
    BY <1>4 DEF Informer, TypeOK
  <2>2. /\ 1 \in 1..Len(watch) /\ seen' = watch[1]
        /\ \A i \in 1..Len(watch') : i + 1 \in 1..Len(watch) /\ watch'[i] = watch[i + 1]
    BY <2>1
  <2> QED BY <2>1, <2>2 DEF ProbedInv, Honest, outside, discovers, pool, probers
<1>5. ASSUME NEW a \in Addrs, Flip(a) PROVE ProbedInv'
  BY <1>5 DEF ProbedInv, Honest, Flip, cluster, reconciler, discovers, pool, probers
<1>6. CASE PoolTake
  <2>1. /\ updateChan \in Seq(Status) /\ updateChan # <<>> /\ updateChan' = Tail(updateChan)
        /\ item' = item \/ item' = Head(updateChan)
        /\ UNCHANGED <<cluster, outside, reconciler, discovers, probers>>
    BY <1>6 DEF PoolTake, TypeOK
  <2>2. /\ 1 \in 1..Len(updateChan) /\ Head(updateChan) = updateChan[1]
        /\ \A i \in 1..Len(updateChan') :
              i + 1 \in 1..Len(updateChan) /\ updateChan'[i] = updateChan[i + 1]
    BY <2>1
  <2> QED BY <2>1, <2>2 DEF ProbedInv, Honest, cluster, outside, reconciler, discovers, probers
<1>7. CASE PoolUpdate
  <2>1. item \in Status /\ Honest(item) /\ WriteStatus(item)
        /\ UNCHANGED <<seen, online, passed, reconciler, discovers, probers, updateChan>>
        /\ item' = Empty
    BY <1>7 DEF TypeOK, ProbedInv, PoolUpdate, PoolDone, outside
  <2>2. Honest(obj.status)' /\ \A i \in 1..Len(watch') : Honest(watch[i].status)'
    BY <2>1, StatusWriteHonest
  <2> QED BY <1>e, <2>1, <2>2 DEF ProbedInv, Honest, reconciler, discovers, probers
<1>8. CASE PoolNotFound
  BY <1>e, <1>8 DEF ProbedInv, Honest, PoolNotFound, PoolDone, cluster, outside, reconciler
<1>9. CASE PoolGivesUp
  BY <1>e, <1>9
  DEF ProbedInv, Honest, PoolGivesUp, PoolDone, cluster, outside, reconciler, discovers, probers
<1>10. CASE Get
  <2>1. comp' = comp \/ comp'.status = seen.status
    BY <1>10 DEF Get
  <2> QED BY <1>10, <2>1 DEF ProbedInv, Honest, Get, cluster, outside, pool
<1>11. CASE NotSupported
  <2>1. comp'.status = Empty
    BY <1>11 DEF NotSupported, TypeOK, Component
  <2> QED BY <1>e, <1>11, <2>1
       DEF ProbedInv, Honest, NotSupported, cluster, outside, discovers, pool, probers
<1>12. CASE Add
  BY <1>12 DEF ProbedInv, Honest, Add, cluster, outside, pool
<1>13. CASE Apply \/ ApplyFails
  <2> DEFINE st == DiscoverOne(rgen, comp.spec)
  <2>1. Discovered
    BY <1>13 DEF Apply, ApplyFails
  <2>2. rgen \in Gens
    BY <2>1, CurType DEF Discovered
  <2>3. Honest(st) /\ comp'.status = st
    BY <2>1, <2>2, DiscoverOneHonest DEF Discovered, TypeOK, Component
  <2>4. online' = online \/ online' = ReadyIn(st)
    BY <1>13 DEF Apply, ApplyFails
  <2> HIDE DEF st
  <2> QED BY <2>1, <2>3, <2>4
       DEF ProbedInv, Honest, Discovered, outside, discovers, pool, probers
<1>14. CASE UpdateStatus
  <2>1. comp.status \in Status /\ Honest(comp.status) /\ WriteStatus(comp.status) /\ Handover
        /\ UNCHANGED <<seen, online, passed, dacc, pool, probers>> /\ comp' = NoComponent
    BY <1>14 DEF TypeOK, Component, ProbedInv, UpdateStatus, ReconcileReturns, outside
  <2>2. Honest(obj.status)' /\ \A i \in 1..Len(watch') : Honest(watch[i].status)'
    BY <2>1, StatusWriteHonest
  <2>3. \A g \in Gens : Honest(own[g].status)'
    BY <2>1, HandoverHonest
  <2> QED BY <1>e, <2>1, <2>2, <2>3 DEF ProbedInv, Honest, pool, probers
<1>15. CASE UpdateFails
  <2>1. Handover /\ UNCHANGED <<cluster, outside, dacc, pool, probers>> /\ comp' = NoComponent
    BY <1>15 DEF UpdateFails, ReconcileReturns
  <2>2. \A g \in Gens : Honest(own[g].status)'
    BY <2>1, HandoverHonest DEF outside
  <2> QED BY <1>e, <2>1, <2>2 DEF ProbedInv, Honest, cluster, outside, pool, probers
<1>16. ASSUME NEW g \in Gens, DiscoverStart(g) PROVE ProbedInv'
  BY <1>16 DEF ProbedInv, Honest, DiscoverStart, cluster, outside, reconciler, pool, probers
<1>17. ASSUME NEW g \in Gens, Look(g) PROVE ProbedInv'
  <2>1. \A h \in Gens : \/ dacc'[h] = dacc[h] \/ dacc'[h] = Empty
                        \/ dacc'[h] = DiscoverOne(g, Own(g).spec)
    BY <1>17 DEF Look, TypeOK
  <2>2. Honest(DiscoverOne(g, Own(g).spec))
    BY DiscoverOneHonest
  <2> QED BY <1>e, <1>17, <2>1, <2>2
       DEF ProbedInv, Honest, Look, cluster, outside, reconciler, pool, probers
<1>18. ASSUME NEW g \in Gens, Push(g) PROVE ProbedInv'
  <2>1. /\ updateChan \in Seq(Status) /\ dacc \in [Gens -> Status] /\ dacc[g] \in Status
        /\ updateChan' = Append(updateChan, dacc[g]) /\ dacc' = [dacc EXCEPT ![g] = Empty]
        /\ UNCHANGED <<cluster, outside, reconciler, own, item, probers>>
    BY <1>18 DEF Push, TypeOK
  <2>2. /\ Len(updateChan') = Len(updateChan) + 1 /\ Len(updateChan) \in Nat
        /\ \A i \in 1..Len(updateChan') :
              updateChan'[i] = IF i = Len(updateChan) + 1 THEN dacc[g] ELSE updateChan[i]
    BY <2>1
  <2>3. \A h \in Gens : dacc'[h] = IF h = g THEN Empty ELSE dacc[h]
    BY <2>1
  <2> QED BY <1>e, <2>1, <2>2, <2>3 DEF ProbedInv, Honest, cluster, outside, reconciler, probers
<1>19. ASSUME NEW g \in Gens, DiscoverEnds(g) PROVE ProbedInv'
  <2>1. \A h \in Gens : own'[h] = IF h = g THEN NoComponent ELSE own[h]
    BY <1>19 DEF DiscoverEnds, TypeOK
  <2> QED BY <1>e, <1>19, <2>1
       DEF ProbedInv, Honest, DiscoverEnds, cluster, outside, reconciler, pool
<1>20. ASSUME NEW a \in Addrs, NEW k \in Slots, DoProbe(a, k) PROVE ProbedInv'
  <2>0. wk[a][k].gen \in Gens /\ results \in [Gens -> [Addrs -> {"none", "Success", "Failure"}]]
    BY DEF TypeOK, Prober
  <2>1. PICK result \in {"Success", "Failure"} :
           /\ results' = results \/ results' = [results EXCEPT ![wk[a][k].gen][a] = result]
           /\ passed' = IF result = "Success" THEN passed \cup {a} ELSE passed
    BY <1>20 DEF DoProbe
  <2>2. passed \subseteq passed' /\ (result = "Success" => a \in passed')
    BY <2>1
  <2>3. \A h \in Gens, b \in Addrs :
           \/ results'[h][b] = results[h][b]
           \/ b = a /\ results'[h][b] = result
    BY <2>0, <2>1
  <2>4. UNCHANGED <<cluster, reconciler, discovers, pool>>
    BY <1>20 DEF DoProbe
  <2>5. \A h \in Gens, b \in Addrs : results'[h][b] = "Success" => b \in passed'
    BY <2>2, <2>3 DEF ProbedInv
  <2> QED BY <2>2, <2>4, <2>5 DEF ProbedInv, Honest, cluster, reconciler, discovers, pool
<1>21. ASSUME NEW a \in Addrs, NEW k \in Slots, Stop(a, k) PROVE ProbedInv'
  <2>0. wk[a][k].gen \in Gens /\ results \in [Gens -> [Addrs -> {"none", "Success", "Failure"}]]
    BY DEF TypeOK, Prober
  <2>1. \A h \in Gens, b \in Addrs :
           results'[h][b] = results[h][b] \/ results'[h][b] = "none"
    BY <1>21, <2>0 DEF Stop
  <2>2. UNCHANGED <<cluster, outside, reconciler, discovers, pool>>
    BY <1>21 DEF Stop
  <2> QED BY <2>1, <2>2 DEF ProbedInv, Honest, cluster, outside, reconciler, discovers, pool
<1>22. ASSUME NEW a \in Addrs, NEW k \in Slots,
              RemoveWorker(a, k) \/ ProbeError(a, k) \/ (\E g \in Gens : Updates(g, a, k))
       PROVE ProbedInv'
  BY <1>22 DEF ProbedInv, Honest, RemoveWorker, ProbeError, Updates, cluster, outside, reconciler, discovers, pool
<1>23. CASE UNCHANGED vars
  BY <1>23 DEF ProbedInv, Honest, vars, cluster, outside, reconciler, discovers, pool, probers
<1> QED BY <1>1, <1>2, <1>3, <1>4, <1>5, <1>6, <1>7, <1>8, <1>9, <1>10, <1>11, <1>12, <1>13,
           <1>14, <1>15, <1>16, <1>17, <1>18, <1>19, <1>20, <1>21, <1>22, <1>23
     DEF Next, ReconcileStep, PoolStep, DiscoverStep, WorkerStep

LEMMA ProbedInit == Init => ProbedInv
<1> SUFFICES ASSUME Init PROVE ProbedInv
  OBVIOUS
<1>1. Honest(Empty) /\ Honest(NoComponent.status)
  BY EmptyHonest
<1>2. Len(watch) = 0 /\ Len(updateChan) = 0
  BY DEF Init
<1> QED BY <1>1, <1>2 DEF Init, ProbedInv, Honest

\* "EndpointReady: If a probe is configured, it means the probe has passed."
\* (third_component.go:315)  Whatever statuses are written late, dropped or
\* repeated, neither the resource nor the Endpoints call an address ready that no
\* probe has reached.
THEOREM ReadyIsProbed == Spec => []ReadyWasProbed
<1>1. Init => TypeOK /\ ProbedInv
  BY InitType, ProbedInit
<1>2. TypeOK /\ ProbedInv /\ [Next]_vars => (TypeOK /\ ProbedInv)'
  BY TypeStep, ProbedStep
<1>3. ProbedInv => ReadyWasProbed
  BY DEF ProbedInv, Honest, ReadyWasProbed
<1> QED BY <1>1, <1>2, <1>3, PTL DEF Spec

-----------------------------------------------------------------------------
\* A goroutine ends only when its discover worker is cancelled, and only workers
\* there have been are cancelled.
LiveInv ==
    /\ PoolIsLive
    /\ \A g \in Gens : /\ dpc[g] = "ended" => cancelled[g]
                       /\ cancelled[g] => g \in 1..gens

\* The informer has the last version of the resource still to come or has
\* delivered it; of a component that it has seen go, Reconcile will hear, or has
\* heard and has no older version of it in hand.
LastVersion == IF watch = <<>> THEN seen ELSE watch[Len(watch)]

GoneInv ==
    /\ LastVersion = obj
    /\ ~seen.exists => queued \/ (cur = None /\ rpc = "idle")

LEMMA LiveInit == Init => LiveInv /\ GoneInv
BY DEF Init, LiveInv, GoneInv, LastVersion, PoolIsLive

\* RemoveDiscover takes the cancelled worker out of the pool.
LEMMA RemoveLive ==
    ASSUME TypeOK, LiveInv, RemoveDiscover, UNCHANGED <<gens, dpc>>
    PROVE  LiveInv' /\ cur' = None
<1>1. CASE cur = None
  BY <1>1 DEF RemoveDiscover, LiveInv, PoolIsLive
<1>2. CASE cur # None
  <2>1. cur \in Gens /\ cur \in 1..gens
    BY <1>2, CurType DEF TypeOK
  <2>2. \A g \in Gens : cancelled'[g] = (cancelled[g] \/ g = cur)
    BY <1>2, <2>1 DEF RemoveDiscover, TypeOK
  <2>3. cur' = None
    BY <1>2 DEF RemoveDiscover
  <2> QED BY <2>1, <2>2, <2>3 DEF LiveInv, PoolIsLive
<1> QED BY <1>1, <1>2

\* Every step keeps the pool alive.
LEMMA LiveStep == ASSUME TypeOK, LiveInv, [Next]_vars PROVE LiveInv'
<1>1. CASE \/ Edit \/ Delete \/ Create \/ Informer \/ (\E a \in Addrs : Flip(a))
           \/ PoolTake \/ PoolUpdate \/ PoolGivesUp
           \/ NotSupported \/ Apply \/ ApplyFails \/ UpdateStatus \/ UpdateFails
  <2>1. UNCHANGED <<cur, gens, cancelled, dpc>>
    BY <1>1 DEF Edit, Delete, Create, Informer, Flip, PoolTake, PoolUpdate, PoolGivesUp,
       NotSupported, Apply, ApplyFails, Discovered, UpdateStatus, UpdateFails, discovers
  <2> QED BY <2>1 DEF LiveInv, PoolIsLive
<1>2. CASE PoolNotFound
  BY <1>2, RemoveLive DEF PoolNotFound
<1>3. CASE Get
  <2>1. CASE seen.exists
    BY <1>3, <2>1 DEF Get, LiveInv, PoolIsLive
  <2>2. CASE ~seen.exists
    BY <1>3, <2>2, RemoveLive DEF Get
  <2> QED BY <2>1, <2>2
<1>4. CASE Add
  <2>0. cancelled' = cancelled /\ gens \in Nat
    BY <1>4 DEF Add, TypeOK
  <2>1. CASE cur = None
    <3>1. /\ gens < MaxGen /\ gens' = gens + 1 /\ cur' = gens + 1
          /\ dpc' = [dpc EXCEPT ![gens + 1] = "new"]
      BY <1>4, <2>1 DEF Add, AddDiscover
    <3>2. gens + 1 \in Gens /\ ~cancelled[gens + 1] /\ 1..gens \subseteq 1..(gens + 1)
      BY <2>0, <3>1, ConstantsAssumption DEF LiveInv, Gens
    <3>3. \A g \in Gens : dpc'[g] = IF g = gens + 1 THEN "new" ELSE dpc[g]
      BY <3>1, <3>2 DEF TypeOK
    <3> QED BY <2>0, <3>1, <3>2, <3>3 DEF LiveInv, PoolIsLive
  <2>2. CASE cur # None
    <3>1. /\ gens' = gens /\ cur' = cur
          /\ dpc' = [dpc EXCEPT ![cur] = IF @ = "ended" THEN "new" ELSE @]
      BY <1>4, <2>2 DEF Add, AddDiscover
    <3>2. cur \in Gens
      BY <2>2, CurType
    <3>3. \A g \in Gens : dpc'[g] = IF g = cur /\ dpc[g] = "ended" THEN "new" ELSE dpc[g]
      BY <3>1, <3>2 DEF TypeOK
    <3> QED BY <2>0, <3>1, <3>2, <3>3 DEF LiveInv, PoolIsLive
  <2> QED BY <2>1, <2>2
<1>5. ASSUME NEW g \in Gens, DiscoverStart(g) \/ Look(g) \/ Push(g) PROVE LiveInv'
  <2>1. UNCHANGED <<cur, gens, cancelled>>
    BY <1>5 DEF DiscoverStart, Look, Push
  <2>2. \A h \in Gens : dpc'[h] = dpc[h] \/ dpc'[h] # "ended"
    BY <1>5 DEF DiscoverStart, Look, Push, TypeOK
  <2>3. cur # None => cur \in Gens
    BY CurType
  <2> QED BY <2>1, <2>2, <2>3 DEF LiveInv, PoolIsLive
<1>6. ASSUME NEW g \in Gens, DiscoverEnds(g) PROVE LiveInv'
  <2>1. UNCHANGED <<cur, gens, cancelled>> /\ cancelled[g]
    BY <1>6 DEF DiscoverEnds
  <2>2. \A h \in Gens : dpc'[h] = IF h = g THEN "ended" ELSE dpc[h]
    BY <1>6 DEF DiscoverEnds, TypeOK
  <2>3. cur # None => cur \in Gens
    BY CurType
  <2> QED BY <2>1, <2>2, <2>3 DEF LiveInv, PoolIsLive
<1>7. ASSUME NEW a \in Addrs, NEW k \in Slots,
             DoProbe(a, k) \/ ProbeError(a, k) \/ Stop(a, k) \/ RemoveWorker(a, k)
      PROVE  LiveInv'
  BY <1>7 DEF DoProbe, ProbeError, Stop, RemoveWorker, discovers, LiveInv, PoolIsLive
<1>8. ASSUME NEW a \in Addrs, NEW k \in Slots, NEW g \in Gens, Updates(g, a, k) PROVE LiveInv'
  <2>1. UNCHANGED <<cur, gens, cancelled>>
    BY <1>8 DEF Updates
  <2>2. \A h \in Gens : dpc'[h] = dpc[h] \/ dpc'[h] # "ended"
    BY <1>8 DEF Updates, TypeOK
  <2>3. cur # None => cur \in Gens
    BY CurType
  <2> QED BY <2>1, <2>2, <2>3 DEF LiveInv, PoolIsLive
<1>9. CASE UNCHANGED vars
  BY <1>9 DEF vars, discovers, LiveInv, PoolIsLive
<1> QED BY <1>1, <1>2, <1>3, <1>4, <1>5, <1>6, <1>7, <1>8, <1>9
     DEF Next, ReconcileStep, PoolStep, DiscoverStep, WorkerStep

\* A component handed to the pool is always watched: no interleaving of Reconcile
\* with the pool's goroutine leaves a cancelled discover worker, or one whose
\* goroutine has ended, in the table that AddDiscover looks up.
THEOREM PoolStaysLive == Spec => []PoolIsLive
<1>1. Init => TypeOK /\ LiveInv
  BY InitType, LiveInit
<1>2. TypeOK /\ LiveInv /\ [Next]_vars => (TypeOK /\ LiveInv)'
  BY TypeStep, LiveStep
<1>3. LiveInv => PoolIsLive
  BY DEF LiveInv
<1> QED BY <1>1, <1>2, <1>3, PTL DEF Spec

-----------------------------------------------------------------------------
\* A write is the last version.
LEMMA ChangeLast ==
    ASSUME TypeOK, NEW o \in Version, Change(o), UNCHANGED seen
    PROVE  (LastVersion = obj)'
<1>1. watch' = Append(watch, o) /\ obj' = o /\ watch \in Seq(Version)
  BY DEF Change, TypeOK
<1>2. watch' # <<>> /\ watch'[Len(watch')] = o
  BY <1>1
<1> QED BY <1>1, <1>2 DEF LastVersion

LEMMA StatusWriteLast ==
    ASSUME TypeOK, LastVersion = obj, NEW st \in Status, WriteStatus(st), UNCHANGED seen
    PROVE  (LastVersion = obj)'
<1>1. CASE st = obj.status
  BY <1>1 DEF WriteStatus, LastVersion
<1>2. CASE st # obj.status
  <2>1. [obj EXCEPT !.status = st] \in Version
    BY DEF TypeOK, Version
  <2> QED BY <1>2, <2>1, ChangeLast DEF WriteStatus
<1> QED BY <1>1, <1>2

\* Every step keeps the news of a removal on its way.
LEMMA GoneStep == ASSUME TypeOK, GoneInv, [Next]_vars PROVE GoneInv'
<1>1. CASE Edit
  <2>1. PICK s \in Spec_ : Change([obj EXCEPT !.spec = s])
    BY <1>1, BoundType DEF Edit
  <2>2. [obj EXCEPT !.spec = s] \in Version
    BY ConstantsAssumption DEF TypeOK, Version
  <2>3. (LastVersion = obj)'
    BY <1>1, <2>1, <2>2, ChangeLast DEF Edit
  <2> QED BY <1>1, <2>3 DEF Edit, GoneInv, reconciler, discovers
<1>2. CASE Delete
  <2>1. [obj EXCEPT !.exists = FALSE] \in Version
    BY DEF TypeOK, Version
  <2>2. (LastVersion = obj)'
    BY <1>2, <2>1, ChangeLast DEF Delete
  <2> QED BY <1>2, <2>2 DEF Delete, GoneInv, reconciler, discovers
<1>3. CASE Create
  <2>1. [exists |-> TRUE, spec |-> obj.spec, status |-> Empty] \in Version
    BY Constants DEF TypeOK, Version
  <2>2. (LastVersion = obj)'
    BY <1>3, <2>1, ChangeLast DEF Create
  <2> QED BY <1>3, <2>2 DEF Create, GoneInv, reconciler, discovers
<1>4. CASE Informer
  <2>1. /\ watch \in Seq(Version) /\ watch # <<>> /\ seen' = Head(watch) /\ watch' = Tail(watch)
        /\ obj' = obj /\ queued' = TRUE
    BY <1>4 DEF Informer, TypeOK
  <2>2. LastVersion' = LastVersion
    <3>1. CASE Len(watch) = 1
      BY <2>1, <3>1 DEF LastVersion
    <3>2. CASE Len(watch) > 1
      <4>1. Len(watch') = Len(watch) - 1 /\ Len(watch) \in Nat
        BY <2>1, <3>2
      <4>2. watch'[Len(watch) - 1] = watch[Len(watch)]
        BY <2>1, <3>2, <4>1
      <4>3. watch' # <<>>
        BY <3>2, <4>1
      <4> QED BY <2>1, <4>1, <4>2, <4>3 DEF LastVersion
    <3>3. Len(watch) \in Nat /\ Len(watch) # 0
      BY <2>1
    <3>4. \A n \in Nat : n = 0 \/ n = 1 \/ n > 1
      OBVIOUS
    <3>5. Len(watch) = 1 \/ Len(watch) > 1
      BY <3>3, <3>4, Zenon
    <3> QED BY <3>1, <3>2, <3>5
  <2> QED BY <2>1, <2>2 DEF GoneInv
<1>u. ASSUME UNCHANGED <<cluster, reconciler, cur>> PROVE GoneInv'
  BY <1>u DEF GoneInv, LastVersion, cluster, reconciler
<1>5. CASE (\E a \in Addrs : Flip(a)) \/ PoolTake \/ PoolGivesUp \/ UNCHANGED vars
  BY <1>5, <1>u DEF Flip, PoolTake, PoolGivesUp, vars, discovers
<1>d. ASSUME NEW g \in Gens, DiscoverStep(g) \/ DiscoverEnds(g) PROVE GoneInv'
  BY <1>d, <1>u DEF DiscoverStep, DiscoverStart, Look, Push, DiscoverEnds
<1>w. ASSUME NEW a \in Addrs, NEW k \in Slots,
             WorkerStep(a, k) \/ ProbeError(a, k) \/ Stop(a, k) \/ (\E g \in Gens : Updates(g, a, k))
      PROVE  GoneInv'
  BY <1>w, <1>u DEF WorkerStep, DoProbe, ProbeError, RemoveWorker, Stop, Updates, discovers
<1>6. CASE PoolUpdate
  <2>1. (LastVersion = obj)'
    BY <1>6, StatusWriteLast DEF PoolUpdate, GoneInv, TypeOK
  <2> QED BY <1>6, <2>1 DEF PoolUpdate, GoneInv, reconciler, discovers
<1>7. CASE PoolNotFound
  <2>1. cur' = cur \/ cur' = None
    BY <1>7 DEF PoolNotFound, RemoveDiscover
  <2> QED BY <1>7, <2>1 DEF PoolNotFound, GoneInv, LastVersion, cluster, reconciler
<1>8. CASE Get
  <2>1. CASE seen.exists
    BY <1>8, <2>1 DEF Get, GoneInv, LastVersion, cluster
  <2>2. CASE ~seen.exists
    <3>1. cur' = None /\ rpc' = "idle"
      BY <1>8, <2>2 DEF Get, RemoveDiscover
    <3> QED BY <1>8, <3>1 DEF Get, GoneInv, LastVersion, cluster
  <2> QED BY <2>1, <2>2
<1>9. CASE NotSupported \/ Add \/ Apply \/ ApplyFails
  <2>1. UNCHANGED <<obj, watch, seen, queued>> /\ rpc # "idle"
    BY <1>9 DEF NotSupported, Add, Apply, ApplyFails, Discovered, cluster
  <2> QED BY <2>1 DEF GoneInv, LastVersion
<1>10. CASE UpdateStatus
  <2>1. comp.status \in Status
    BY DEF TypeOK, Component
  <2>2. (LastVersion = obj)'
    BY <1>10, <2>1, StatusWriteLast DEF UpdateStatus, GoneInv
  <2> QED BY <1>10, <2>2 DEF UpdateStatus, GoneInv
<1>11. CASE UpdateFails
  <2>1. queued \/ seen.exists
    BY <1>11 DEF UpdateFails, GoneInv
  <2> QED BY <1>11, <2>1 DEF UpdateFails, GoneInv, LastVersion, cluster
<1> QED BY <1>1, <1>2, <1>3, <1>4, <1>5, <1>d, <1>w, <1>6, <1>7, <1>8, <1>9, <1>10, <1>11
     DEF Next, ReconcileStep, PoolStep

\* A component that is gone does not stay in the pool unnoticed: the Reconcile that
\* hands it to the pool from an older version, and the pool's goroutine that
\* removes it before, leave the news of its removal in the informer or the queue.
THEOREM GoneIsPending == Spec => []RemovalPending
<1>1. Init => TypeOK /\ GoneInv
  BY InitType, LiveInit
<1>2. TypeOK /\ GoneInv /\ [Next]_vars => (TypeOK /\ GoneInv)'
  BY TypeStep, GoneStep
<1>3. GoneInv => RemovalPending
  BY DEF GoneInv, LastVersion, RemovalPending
<1> QED BY <1>1, <1>2, <1>3, PTL DEF Spec
-----------------------------------------------------------------------------
\* Every prober worker in the table of a removed discover worker is told to stop.
StopReachesTable ==
    \A g \in Gens, a \in Addrs :
        cancelled[g] /\ workers[g][a] # 0 => wk[a][workers[g][a]].stop

\* What worker.stop does to the stop of each.
LEMMA StoppedStop ==
    ASSUME TypeOK, NEW g, NEW A, NEW a \in Addrs, NEW k \in Slots
    PROVE  Stopped(g, A)[a][k].stop = (wk[a][k].stop \/ (a \in A /\ k = workers[g][a]))
<1>1. wk[a][k] \in Prober
  BY DEF TypeOK
<1>2. Stopped(g, A)[a][k] =
         IF a \in A /\ k = workers[g][a] THEN [wk[a][k] EXCEPT !.stop = TRUE] ELSE wk[a][k]
  BY DEF Stopped
<1>3. [wk[a][k] EXCEPT !.stop = TRUE].stop = TRUE /\ wk[a][k].stop \in BOOLEAN
  BY <1>1 DEF Prober
<1> QED BY <1>2, <1>3

\* The workers of a table that is told to stop all are.
LEMMA StopAll ==
    ASSUME TypeOK, StopReachesTable, NEW g \in Gens, wk' = Stopped(g, Addrs), UNCHANGED workers,
           \A h \in Gens : cancelled'[h] => cancelled[h] \/ h = g
    PROVE  StopReachesTable'
<1>1. \A h \in Gens, a \in Addrs : workers[h][a] \in Slots \cup {0}
  BY DEF TypeOK
<1>2. \A a \in Addrs, k \in Slots : wk'[a][k].stop = (wk[a][k].stop \/ k = workers[g][a])
  BY StoppedStop
<1>3. SUFFICES ASSUME NEW h \in Gens, NEW a \in Addrs, cancelled'[h], workers[h][a] # 0
               PROVE  wk'[a][workers[h][a]].stop
  BY DEF StopReachesTable
<1>4. workers[h][a] \in Slots
  BY <1>1, <1>3
<1>5. CASE cancelled[h]
  BY <1>2, <1>3, <1>4, <1>5 DEF StopReachesTable
<1>6. CASE h = g
  BY <1>2, <1>4, <1>6
<1> QED BY <1>3, <1>5, <1>6

LEMMA StopStep == ASSUME TypeOK, LiveInv, StopReachesTable, [Next]_vars PROVE StopReachesTable'
<1>0. /\ wk \in [Addrs -> [Slots -> Prober]] /\ TableRuns
      /\ workers \in [Gens -> [Addrs -> Slots \cup {0}]] /\ 0 \notin Slots
      /\ cancelled \in [Gens -> BOOLEAN]
  BY DEF TypeOK, Slots
<1>1. ASSUME UNCHANGED <<cancelled, workers, wk>> PROVE StopReachesTable'
  BY <1>1 DEF StopReachesTable
<1>2. CASE \/ Edit \/ Delete \/ Create \/ Informer \/ (\E a \in Addrs : Flip(a))
           \/ PoolTake \/ PoolUpdate \/ PoolGivesUp
           \/ NotSupported \/ Apply \/ ApplyFails \/ UpdateStatus \/ UpdateFails
           \/ (\E g \in Gens : DiscoverStep(g)) \/ UNCHANGED vars
  <2>1. UNCHANGED <<cancelled, workers, wk>>
    BY <1>2 DEF Edit, Delete, Create, Informer, Flip, PoolTake, PoolUpdate, PoolGivesUp,
       NotSupported, Apply, ApplyFails, Discovered, UpdateStatus, UpdateFails, DiscoverStep,
       DiscoverStart, Look, Push, discovers, probers, vars
  <2> QED BY <1>1, <2>1
<1>3. ASSUME RemoveDiscover, UNCHANGED workers PROVE StopReachesTable'
  <2>1. CASE cur = None
    BY <1>1, <1>3, <2>1 DEF RemoveDiscover
  <2>2. CASE cur # None
    <3>1. cur \in Gens /\ wk' = Stopped(cur, Addrs) /\ \A h \in Gens : cancelled'[h] => cancelled[h] \/ h = cur
      BY <1>0, <1>3, <2>2, CurType DEF RemoveDiscover
    <3> QED BY <1>3, <3>1, StopAll
  <2> QED BY <2>1, <2>2
<1>4. CASE PoolNotFound
  BY <1>3, <1>4 DEF PoolNotFound
<1>5. CASE Get
  <2>1. CASE seen.exists
    BY <1>1, <1>5, <2>1 DEF Get
  <2>2. CASE ~seen.exists
    BY <1>3, <1>5, <2>2 DEF Get
  <2> QED BY <2>1, <2>2
<1>6. ASSUME NEW g \in Gens, DiscoverEnds(g) PROVE StopReachesTable'
  <2>1. wk' = Stopped(g, Addrs) /\ UNCHANGED <<workers, cancelled>>
    BY <1>6 DEF DiscoverEnds
  <2> QED BY <2>1, StopAll
<1>7. ASSUME NEW g \in Gens, ~cancelled[g], NEW c \in Component, AddThirdComponent(g, c), UNCHANGED cancelled
      PROVE  StopReachesTable'
  <2>1. CASE ~NeedProbe(c.spec)
    BY <1>1, <1>7, <2>1 DEF AddThirdComponent
  <2>2. CASE NeedProbe(c.spec)
    <3> DEFINE keep == Kept(g, c)
               new == Listed(c.status) \ keep
               stopped == Stopped(g, Addrs \ keep)
               started == [pc |-> "probe", gen |-> g, probe |-> c.spec.probe, stop |-> FALSE,
                           last |-> "Success", run |-> 0]
    <3>1. /\ \A a \in new : \E k \in Slots : Free(a, k)
          /\ workers' = [workers EXCEPT ![g] = [a \in Addrs |->
                IF a \in keep THEN workers[g][a] ELSE IF a \in new THEN FreeSlot(a) ELSE 0]]
          /\ wk' = [a \in Addrs |-> [k \in Slots |->
                IF a \in new /\ k = FreeSlot(a) THEN started ELSE stopped[a][k]]]
      BY <1>7, <2>2 DEF AddThirdComponent
    <3>2. \A a \in new : a \in Addrs /\ wk[a][FreeSlot(a)].pc = "none"
      BY <3>1, FreeSlotIsFree DEF Listed, Free
    <3>3. \A a \in Addrs, k \in Slots : wk[a][k].stop => stopped[a][k].stop
      BY StoppedStop
    <3> HIDE DEF keep, new, stopped, started
    <3>4. SUFFICES ASSUME NEW h \in Gens, NEW a \in Addrs, cancelled[h], workers'[h][a] # 0
                   PROVE  wk'[a][workers'[h][a]].stop
      BY <1>7 DEF StopReachesTable
    <3>5. h # g /\ workers'[h][a] = workers[h][a] /\ workers[h][a] \in Slots
      BY <1>0, <1>7, <3>1, <3>4
    <3>6. wk[a][workers[h][a]].pc # "none" /\ wk[a][workers[h][a]].stop
      BY <1>0, <3>4, <3>5 DEF TableRuns, StopReachesTable
    <3>7. wk'[a][workers[h][a]] = stopped[a][workers[h][a]]
      BY <3>1, <3>2, <3>5, <3>6
    <3> QED BY <3>3, <3>5, <3>6, <3>7
  <2> QED BY <2>1, <2>2
<1>8. CASE Add
  <2>1. comp \in Component /\ UNCHANGED cancelled /\ gens \in Nat
    BY <1>8 DEF Add, TypeOK
  <2>2. CASE cur = None
    <3>1. gens < MaxGen /\ AddThirdComponent(gens + 1, comp)
      BY <1>8, <2>2 DEF Add, AddDiscover
    <3>2. gens + 1 \in Gens /\ ~cancelled[gens + 1]
      BY <2>1, <3>1, ConstantsAssumption DEF LiveInv, Gens
    <3> QED BY <1>7, <2>1, <3>1, <3>2
  <2>3. CASE cur # None
    BY <1>7, <1>8, <2>1, <2>3, CurType DEF Add, AddDiscover, LiveInv, PoolIsLive
  <2> QED BY <2>2, <2>3
<1>9. ASSUME NEW a \in Addrs, NEW k \in Slots, NEW w \in Prober, w.stop = wk[a][k].stop,
             wk' = [wk EXCEPT ![a][k] = w], UNCHANGED <<cancelled, workers>>
      PROVE  StopReachesTable'
  <2>1. \A b \in Addrs, j \in Slots : wk'[b][j].stop = wk[b][j].stop
    BY <1>0, <1>9
  <2> QED BY <1>0, <1>9, <2>1 DEF StopReachesTable
<1>10. ASSUME NEW a \in Addrs, NEW k \in Slots,
              DoProbe(a, k) \/ ProbeError(a, k) \/ Stop(a, k) \/ \E g \in Gens : Updates(g, a, k)
       PROVE  StopReachesTable'
  <2>1. wk[a][k] \in Prober /\ UNCHANGED <<cancelled, workers>>
    BY <1>0, <1>10 DEF DoProbe, ProbeError, Stop, Updates, discovers
  <2>2. wk' \in [Addrs -> [Slots -> Prober]]
    BY TypeStep DEF TypeOK
  <2>3. wk'[a][k].stop = wk[a][k].stop /\ wk' = [wk EXCEPT ![a][k] = wk'[a][k]]
    BY <1>0, <1>10, <2>1 DEF DoProbe, ProbeError, Stop, Updates, Prober
  <2> QED BY <1>9, <2>1, <2>2, <2>3
<1>11. ASSUME NEW a \in Addrs, NEW k \in Slots, RemoveWorker(a, k) PROVE StopReachesTable'
  <2>1. /\ wk[a][k].gen \in Gens /\ UNCHANGED cancelled
        /\ workers' = [workers EXCEPT ![wk[a][k].gen][a] = 0]
        /\ wk' = [wk EXCEPT ![a][k] = Idle]
    BY <1>0, <1>11 DEF RemoveWorker, discovers, Prober
  <2>2. SUFFICES ASSUME NEW h \in Gens, NEW b \in Addrs, cancelled[h], workers'[h][b] # 0
                 PROVE  wk'[b][workers'[h][b]].stop
    BY <2>1 DEF StopReachesTable
  <2>3. workers'[h][b] = workers[h][b] /\ workers[h][b] \in Slots /\ ~(h = wk[a][k].gen /\ b = a)
    BY <1>0, <2>1, <2>2
  <2>4. ~(b = a /\ workers[h][b] = k)
    BY <1>0, <2>2, <2>3 DEF TableRuns
  <2>5. wk'[b][workers[h][b]] = wk[b][workers[h][b]]
    BY <1>0, <2>1, <2>3, <2>4
  <2> QED BY <2>2, <2>3, <2>5 DEF StopReachesTable
<1> QED BY <1>2, <1>4, <1>5, <1>6, <1>8, <1>10, <1>11 DEF Next, ReconcileStep, PoolStep, WorkerStep

\* "stop stops the probe worker" (prober/worker.go:126): no order of AddDiscover,
\* RemoveDiscover and the workers' own ends leaves a worker in the table of a
\* removed discover worker that was not told to stop (the safety half of
\* ProbersStop, for any number of workers of an address).
THEOREM StopIsToldToAll == Spec => []StopReachesTable
<1>1. Init => TypeOK /\ LiveInv /\ StopReachesTable
  BY InitType, LiveInit DEF Init, StopReachesTable
<1>2. TypeOK /\ LiveInv /\ StopReachesTable /\ [Next]_vars => (TypeOK /\ LiveInv /\ StopReachesTable)'
  BY TypeStep, LiveStep, StopStep
<1> QED BY <1>1, <1>2, PTL DEF Spec
=============================================================================
