--------------------------- MODULE AppRuntimeProofs ---------------------------
(***************************************************************************)
(* Proofs about AppRuntime for any set of tasks, any limit on controllers   *)
(* and any number of failing calls, re-reads and notes.  What keeps ghosts  *)
(* out of the store is that the notes of the informers lead the handlers    *)
(* from what they were last told to what the cluster has, so that whatever  *)
(* is put into the store before a deletion is handled is taken out by it.   *)
(***************************************************************************)
EXTENDS AppRuntime, FiniteSetTheorems, SequenceTheorems, TLAPS

Waits == {"wait_stop", "wait_ready", "wait_upgrade"}
Places == Active \cup Final

\* None is no object.
LEMMA NoneIsNothing ==
    /\ None \notin Tasks /\ None \notin Deployments /\ None \notin Pods
    /\ None \notin AppServices /\ None \notin Reads /\ None \notin [rv : BOOLEAN, ver : Versions]
<1> QED BY RuntimeAssumption DEF RuntimeAssumption

\* The operators that make an AppService return one, and leave alone what they do
\* not set.
LEMMA AppTypes ==
    ASSUME TypeOK
    PROVE  /\ NewApp \in AppServices /\ CacheApp \in AppServices
           /\ NewApp.dep = [rv |-> FALSE, ver |-> dbver] /\ NewApp.pods = {} /\ NewApp.ver = dbver
           /\ CacheApp.dep = None /\ CacheApp.pods = {} /\ CacheApp.ver = dbver
           /\ \A a \in AppServices, d \in Deployments :
                 /\ SetDeployment(a, d) \in AppServices
                 /\ SetDeployment(a, d).dep = [rv |-> TRUE, ver |-> d.ver]
                 /\ SetDeployment(a, d).pods = a.pods /\ SetDeployment(a, d).ver = d.ver
<1>1. dbver \in Nat
  BY DEF TypeOK, Versions
<1>2. NewApp \in AppServices /\ CacheApp \in AppServices
  BY <1>1 DEF NewApp, CacheApp, AppServices, Versions
<1>3. \A a \in AppServices, d \in Deployments :
         /\ SetDeployment(a, d) \in AppServices
         /\ SetDeployment(a, d).dep = [rv |-> TRUE, ver |-> d.ver]
         /\ SetDeployment(a, d).pods = a.pods /\ SetDeployment(a, d).ver = d.ver
  BY DEF SetDeployment, AppServices, Deployments
<1> QED BY <1>2, <1>3 DEF NewApp, CacheApp

LEMMA AppFields ==
    ASSUME NEW a \in AppServices
    PROVE  /\ a.ver \in Nat /\ a.pods \subseteq Pods /\ a.wl \in BOOLEAN
           /\ a.dep # None => a.dep.rv \in BOOLEAN /\ a.dep.ver \in Nat
           /\ [a EXCEPT !.dep = None] \in AppServices
           /\ [a EXCEPT !.dep = None].dep = None /\ [a EXCEPT !.dep = None].pods = a.pods
           /\ [a EXCEPT !.dep = None].ver = a.ver
           /\ \A v \in Nat : /\ [a EXCEPT !.ver = v] \in AppServices
                             /\ [a EXCEPT !.ver = v].dep = a.dep /\ [a EXCEPT !.ver = v].pods = a.pods
                             /\ [a EXCEPT !.ver = v].ver = v
           /\ \A p \in Pods :
                 /\ SetPods(a, p) \in AppServices /\ SetPods(a, p).pods = {p} \cup Others(a.pods, p)
                 /\ SetPods(a, p).dep = a.dep /\ SetPods(a, p).ver = a.ver
                 /\ DeletePods(a, p) \in AppServices /\ DeletePods(a, p).pods = Others(a.pods, p)
                 /\ DeletePods(a, p).dep = a.dep /\ DeletePods(a, p).ver = a.ver
<1>1. /\ a.ver \in Nat /\ a.pods \subseteq Pods /\ a.wl \in BOOLEAN
      /\ a.dep \in [rv : BOOLEAN, ver : Versions] \cup {None}
      /\ \A p : Others(a.pods, p) \subseteq Pods
  BY DEF AppServices, Versions, Others
<1>2. /\ [a EXCEPT !.dep = None] \in AppServices
      /\ [a EXCEPT !.dep = None].dep = None /\ [a EXCEPT !.dep = None].pods = a.pods
      /\ [a EXCEPT !.dep = None].ver = a.ver
  BY DEF AppServices
<1>3. \A v \in Nat : /\ [a EXCEPT !.ver = v] \in AppServices
                     /\ [a EXCEPT !.ver = v].dep = a.dep /\ [a EXCEPT !.ver = v].pods = a.pods
                     /\ [a EXCEPT !.ver = v].ver = v
  BY DEF AppServices, Versions
<1> DEFINE With(ps) == [a EXCEPT !.pods = ps]
<1>4. \A ps \in SUBSET Pods : With(ps) \in AppServices /\ With(ps).pods = ps
                              /\ With(ps).dep = a.dep /\ With(ps).ver = a.ver
  BY DEF AppServices
<1>5. \A p \in Pods : /\ {p} \cup Others(a.pods, p) \in SUBSET Pods /\ Others(a.pods, p) \in SUBSET Pods
                      /\ SetPods(a, p) = With({p} \cup Others(a.pods, p))
                      /\ DeletePods(a, p) = With(Others(a.pods, p))
  BY <1>1 DEF SetPods, DeletePods, AppServices
<1> HIDE DEF With
<1>6. ASSUME NEW p \in Pods
      PROVE  /\ SetPods(a, p) \in AppServices /\ SetPods(a, p).pods = {p} \cup Others(a.pods, p)
             /\ SetPods(a, p).dep = a.dep /\ SetPods(a, p).ver = a.ver
             /\ DeletePods(a, p) \in AppServices /\ DeletePods(a, p).pods = Others(a.pods, p)
             /\ DeletePods(a, p).dep = a.dep /\ DeletePods(a, p).ver = a.ver
  <2>1. PICK ps \in SUBSET Pods : ps = {p} \cup Others(a.pods, p) /\ SetPods(a, p) = With(ps)
    BY <1>5
  <2>2. PICK qs \in SUBSET Pods : qs = Others(a.pods, p) /\ DeletePods(a, p) = With(qs)
    BY <1>5
  <2> QED BY <1>4, <2>1, <2>2
<1>7. a.dep # None => a.dep.rv \in BOOLEAN /\ a.dep.ver \in Nat
  BY <1>1 DEF Versions
<1> QED BY <1>1, <1>2, <1>3, <1>6, <1>7

\* What the handlers write.
LEMMA HandlerTypes ==
    ASSUME TypeOK
    PROVE  /\ \A d \in Deployments : /\ OnAdd(d) \in AppServices
                                     /\ OnAdd(d).dep = [rv |-> TRUE, ver |-> d.ver]
                                     /\ OnAdd(d).pods = IF app = None THEN {} ELSE app.pods
                                     /\ OnAdd(d).ver = d.ver
           /\ \A p \in Pods : /\ OnAddPod(p) \in AppServices
                              /\ OnAddPod(p).dep = IF app = None THEN None ELSE app.dep
                              /\ OnAddPod(p).pods = {p} \cup Others(IF app = None THEN {} ELSE app.pods, p)
                              /\ OnAddPod(p).ver = IF app = None THEN dbver ELSE app.ver
           /\ app # None => /\ OnDeletes = [app EXCEPT !.dep = None]
                            /\ \A p : OnDeletePod(p) = DeletePods(app, p)
           /\ app = None => OnDeletes = None /\ \A p : OnDeletePod(p) = None
<1> DEFINE a == IF app = None THEN CacheApp ELSE app
<1>1. /\ a \in AppServices /\ a.dep = (IF app = None THEN None ELSE app.dep)
      /\ a.pods = (IF app = None THEN {} ELSE app.pods) /\ a.ver = IF app = None THEN dbver ELSE app.ver
  BY AppTypes DEF TypeOK
<1>2. \A d : OnAdd(d) = SetDeployment(a, d)
  BY DEF OnAdd
<1>3. \A p : OnAddPod(p) = SetPods(a, p)
  BY DEF OnAddPod
<1> HIDE DEF a
<1>4. \A p \in Pods : SetPods(a, p) \in AppServices /\ SetPods(a, p).pods = {p} \cup Others(a.pods, p)
                      /\ SetPods(a, p).dep = a.dep /\ SetPods(a, p).ver = a.ver
  BY <1>1, AppFields
<1> QED BY <1>1, <1>2, <1>3, <1>4, AppTypes DEF OnDeletes, OnDeletePod

\* What a refresh has read.
LEMMA ReadTypes ==
    ASSUME NEW r \in Reads
    PROVE  \/ r.kind = "dep" /\ r.obj \in Deployments \cup {None}
           \/ r.kind = "pod" /\ r.key \in Pods /\ r.obj \in Pods \cup {None}
<1> QED BY DEF Reads

\* A failure stays within its bound.
LEMMA FaultType == ASSUME TypeOK, Fault \/ UNCHANGED faults PROVE faults' \in 0..MaxFaults
<1>1. MaxFaults \in Nat
  BY RuntimeAssumption DEF RuntimeAssumption
<1> QED BY <1>1 DEF TypeOK, Fault
\* Where a controller goes when stopOne has returned, or startOne has failed.
LEMMA Returns ==
    ASSUME NEW t \in Tasks
    PROVE  /\ \A r \in {"ok", "failed", "timeout"} :
                StopReturns(t, r) => \E place \in {r, "init", "failed"} : Goto(t, place)
           /\ StartFails(t) => Goto(t, "failed") \/
                               (Goto(t, "del_wl") /\ TaskKind[t] \in {"start", "upgrade"})
           /\ {"ok", "failed", "timeout", "init", "del_wl", "del_dep", "del_pods", "wait_stop", "create",
               "wait_ready", "wait_upgrade"} \subseteq Places
<1>1. \A r \in {"ok", "failed", "timeout"} :
         StopReturns(t, r) => \E place \in {r, "init", "failed"} : Goto(t, place)
  BY DEF StopReturns, Goto
<1>2. StartFails(t) => Goto(t, "failed") \/ (Goto(t, "del_wl") /\ TaskKind[t] \in {"start", "upgrade"})
  BY DEF StartFails, Goto
<1> QED BY <1>1, <1>2 DEF Places, Active, Final

-----------------------------------------------------------------------------
\* Tasks in the queue: each once, and not yet handled; a task that was sent is in
\* the queue, handled or dropped.
InQueue(t) == \E i \in DOMAIN queue : queue[i] = t
QueueInv ==
    /\ \A i, j \in DOMAIN queue : queue[i] = queue[j] => i = j
    /\ \A t \in Tasks : InQueue(t) => t \in submitted /\ pc[t] = "none"
    /\ \A t \in submitted : pc[t] # "none" \/ t \in dropped \/ InQueue(t)
    /\ \A t \in Tasks : pc[t] # "none" => t \in submitted

\* Taking the head of a sequence without repetitions.
LEMMA TailOf ==
    ASSUME NEW S, NEW s \in Seq(S), s # <<>>, \A i, j \in DOMAIN s : s[i] = s[j] => i = j
    PROVE  /\ Tail(s) \in Seq(S) /\ Head(s) \in S
           /\ \A i, j \in DOMAIN Tail(s) : Tail(s)[i] = Tail(s)[j] => i = j
           /\ \A x : (\E i \in DOMAIN Tail(s) : Tail(s)[i] = x) <=>
                        x # Head(s) /\ \E i \in DOMAIN s : s[i] = x
           /\ \E i \in DOMAIN s : s[i] = Head(s)
<1>1. /\ Tail(s) \in Seq(S) /\ Head(s) \in S /\ Head(s) = s[1] /\ 1 \in DOMAIN s
      /\ DOMAIN s = 1..Len(s) /\ DOMAIN Tail(s) = 1..Len(Tail(s))
      /\ Len(s) \in Nat /\ Len(Tail(s)) = Len(s) - 1 /\ Len(s) > 0
  BY EmptySeq
<1>2. \A i \in DOMAIN Tail(s) : i + 1 \in DOMAIN s /\ Tail(s)[i] = s[i + 1] /\ i + 1 # 1
  BY <1>1
<1>3. \A i \in DOMAIN s : i # 1 => i - 1 \in DOMAIN Tail(s) /\ (i - 1) + 1 = i
  BY <1>1
<1>4. \A i, j \in DOMAIN Tail(s) : i + 1 = j + 1 => i = j
  BY <1>1
<1> QED BY <1>1, <1>2, <1>3, <1>4

\* Putting something new at the end of one.
LEMMA AppendOf ==
    ASSUME NEW S, NEW s \in Seq(S), NEW t \in S, \A i, j \in DOMAIN s : s[i] = s[j] => i = j,
           \A i \in DOMAIN s : s[i] # t
    PROVE  /\ \A i, j \in DOMAIN Append(s, t) : Append(s, t)[i] = Append(s, t)[j] => i = j
           /\ \A x : (\E i \in DOMAIN Append(s, t) : Append(s, t)[i] = x) <=>
                        x = t \/ \E i \in DOMAIN s : s[i] = x
<1>1. /\ DOMAIN s = 1..Len(s) /\ DOMAIN Append(s, t) = 1..(Len(s) + 1) /\ Len(s) \in Nat
      /\ Append(s, t)[Len(s) + 1] = t
      /\ \A i \in DOMAIN s : i \in DOMAIN Append(s, t) /\ Append(s, t)[i] = s[i]
      /\ \A i \in DOMAIN Append(s, t) : i \in DOMAIN s \/ i = Len(s) + 1
      /\ Len(s) + 1 \in DOMAIN Append(s, t)
  OBVIOUS
<1> QED BY <1>1

LEMMA QueueStep == ASSUME TypeOK, QueueInv, [Next]_vars PROVE QueueInv'
<1>0. queue \in Seq(Tasks) /\ submitted \subseteq Tasks /\ pc \in [Tasks -> Active \cup Final \cup {"none"}]
  BY DEF TypeOK
<1>1. ASSUME UNCHANGED <<queue, submitted, dropped>>,
             \A t \in Tasks : pc'[t] = pc[t] \/ (pc[t] # "none" /\ pc'[t] # "none")
      PROVE  QueueInv'
  <2>1. \A t : InQueue(t)' <=> InQueue(t)
    BY <1>1 DEF InQueue
  <2> QED BY <1>0, <1>1, <2>1 DEF QueueInv
<1>2. ASSUME NEW t \in Tasks, Submit(t) PROVE QueueInv'
  <2>1. /\ t \notin submitted /\ submitted' = submitted \cup {t} /\ queue' = Append(queue, t)
        /\ UNCHANGED <<pc, dropped>>
    BY <1>2 DEF Submit
  <2>2. ~InQueue(t) /\ pc[t] = "none"
    BY <2>1 DEF QueueInv
  <2>3. /\ \A i, j \in DOMAIN queue' : queue'[i] = queue'[j] => i = j
        /\ \A x : InQueue(x)' <=> x = t \/ InQueue(x)
    BY <1>0, <2>1, <2>2, AppendOf DEF InQueue, QueueInv
  <2> QED BY <1>0, <2>1, <2>2, <2>3 DEF QueueInv
<1>3. ASSUME NEW t \in Tasks, AnalystToExec(t) PROVE QueueInv'
  <2>1. queue # <<>> /\ t = Head(queue) /\ UNCHANGED submitted
    BY <1>3 DEF AnalystToExec, ErrCallback
  <2> DEFINE rest == Tail(queue)
             InRest(x) == \E i \in DOMAIN rest : rest[i] = x
  <2>2. /\ rest \in Seq(Tasks) /\ \A i, j \in DOMAIN rest : rest[i] = rest[j] => i = j
        /\ \A x : InRest(x) <=> x # t /\ InQueue(x)
        /\ InQueue(t)
    BY <1>0, <2>1, TailOf DEF QueueInv, InQueue
  <2>3. t \in submitted /\ pc[t] = "none"
    BY <2>2 DEF QueueInv
  <2>4. CASE queue' = Append(rest, t) /\ UNCHANGED <<dropped, pc>>
    <3>0. \A i \in DOMAIN rest : rest[i] # t
      BY <2>2
    <3> HIDE DEF rest
    <3>1. /\ \A i, j \in DOMAIN queue' : queue'[i] = queue'[j] => i = j
          /\ \A x : InQueue(x)' <=> x = t \/ InRest(x)
      BY <2>2, <2>4, <3>0, AppendOf DEF InQueue
    <3> QED BY <1>0, <2>1, <2>2, <2>3, <2>4, <3>1 DEF QueueInv
  <2>5. CASE queue' = rest /\ dropped' = dropped \cup {t} /\ UNCHANGED pc
    <3>1. \A x : InQueue(x)' <=> InRest(x)
      BY <2>5 DEF InQueue
    <3> QED BY <1>0, <2>1, <2>2, <2>5, <3>1 DEF QueueInv
  <2>6. CASE queue' = rest /\ UNCHANGED dropped /\ \E place \in Active \cup Final : pc' = [pc EXCEPT ![t] = place]
    <3>1. \A x : InQueue(x)' <=> InRest(x)
      BY <2>6 DEF InQueue
    <3>2. pc'[t] # "none" /\ \A u \in Tasks \ {t} : pc'[u] = pc[u]
      BY <1>0, <2>6 DEF Active, Final
    <3> HIDE DEF rest, InRest
    <3> QED BY <1>0, <2>1, <2>2, <2>3, <2>6, <3>1, <3>2 DEF QueueInv
  <2>7. CASE ErrCallback(t)
    BY <2>4, <2>5, <2>7 DEF ErrCallback
  <2>8. CASE ~ErrCallback(t)
    <3>1. queue' = rest /\ UNCHANGED dropped
      BY <1>3, <2>8 DEF AnalystToExec
    <3>2. {"refused", "failed", "create", "del_wl", "patch"} \subseteq Active \cup Final
      BY DEF Active, Final
    <3>3. \E place \in {"refused", "failed", "create", "del_wl", "patch"} : pc' = [pc EXCEPT ![t] = place]
      BY <1>3, <2>8 DEF AnalystToExec, startExec, stopExec, horizontalScalingExec, rollingUpgradeExec,
         InitFails, Refuse, StartController
    <3> QED BY <2>6, <3>1, <3>2, <3>3
  <2> QED BY <2>7, <2>8
<1>4. ASSUME NEW t \in Tasks, Controller(t) PROVE QueueInv'
  <2>1. UNCHANGED <<queue, submitted, dropped>>
    BY <1>4 DEF Controller, DeleteWorkload, DeleteDeployment, DeleteAllPods, WaitStop, RestartInit, Create, Patch,
       WaitReady, RefreshRead, RefreshWrite, callback, tasks
  <2>2. CASE callback(t)
    BY <1>1, <2>1, <2>2 DEF callback
  <2>3. CASE ~callback(t)
    <3>1. {"ok", "failed", "timeout", "init"} \subseteq Places
      BY DEF Places, Active, Final
    <3>2. UNCHANGED pc \/ \E place \in Places : Goto(t, place)
      BY <1>4, <2>3, <3>1, Returns DEF Controller, DeleteWorkload, DeleteDeployment, DeleteAllPods,
         WaitStop, RestartInit, Create, Patch, WaitReady, RefreshRead, RefreshWrite
    <3>3. pc[t] # "none"
      BY <1>4, <2>3 DEF Controller, DeleteWorkload, DeleteDeployment, DeleteAllPods, WaitStop, RestartInit,
         Create, Patch, WaitReady, RefreshRead, RefreshWrite, TypeOK
    <3>4. "none" \notin Places
      BY DEF Places, Active, Final
    <3>5. \A u \in Tasks : pc'[u] = pc[u] \/ (pc[u] # "none" /\ pc'[u] # "none")
      BY <1>0, <3>2, <3>3, <3>4 DEF Goto
    <3> QED BY <1>1, <2>1, <3>5
  <2> QED BY <2>2, <2>3
<1>5. CASE Informer \/ Resync \/ Kubernetes \/ UNCHANGED vars
  <2>1. UNCHANGED <<queue, submitted, dropped, pc>>
    BY <1>5 DEF Informer, DeploymentSeen, PodSeen, DeploymentEvent, PodEvent, Resync,
       Kubernetes, vars, tasks
  <2> QED BY <1>1, <2>1
<1> QED BY <1>2, <1>3, <1>4, <1>5 DEF Next
-----------------------------------------------------------------------------
\* Types.

\* A step of a controller: only its own place changes.
LEMMA ControllerTypes ==
    ASSUME TypeOK, NEW t \in Tasks, pc[t] \in Active, got[t] = None,
           \E place \in Places : Goto(t, place),
           dep' \in Deployments \cup {None}, dwatch' \in Seq(Deployments \cup {None}),
           app' \in AppServices, pods' \subseteq Pods,
           UNCHANGED got \/ got' = [u \in Tasks |-> None],
           snap' \in [Tasks -> AppServices], Fault \/ UNCHANGED faults,
           UNCHANGED <<tasks, informers, reads, late, controllers>>
    PROVE  TypeOK'
<1>1. faults' \in 0..MaxFaults
  BY FaultType
<1>2. /\ pc' \in [Tasks -> Active \cup Final \cup {"none"}]
      /\ \A u \in Tasks : pc'[u] \in Active => u \in controllers' /\ app' # None
  BY NoneIsNothing DEF TypeOK, Goto, Places
<1>3. /\ got' \in [Tasks -> Reads \cup {None}] /\ got'[t] = None
      /\ \A u \in Tasks : got'[u] # None => u # t /\ got[u] # None /\ pc'[u] = pc[u]
  BY DEF TypeOK, Goto
<1>4. UNCHANGED <<queue, submitted, dbver, dropped, ldep, lpods, dnotes, pnotes, hdep, hpods>>
  BY DEF tasks, informers
<1>5. app' \in AppServices \cup {None}
  OBVIOUS
<1> QED BY <1>1, <1>2, <1>3, <1>4, <1>5 DEF TypeOK

\* Every step of a controller but its refreshes and its callback.
LEMMA TypeController ==
    ASSUME TypeOK, NEW t \in Tasks,
           \/ DeleteWorkload(t) \/ DeleteDeployment(t) \/ DeleteAllPods(t) \/ WaitStop(t)
           \/ RestartInit(t) \/ Create(t) \/ Patch(t) \/ WaitReady(t)
    PROVE  TypeOK'
<1> USE DEF cluster, store
<1>1. /\ pc[t] \in Active /\ got[t] = None
      /\ UNCHANGED <<tasks, informers, reads, late, controllers>>
      /\ Fault \/ UNCHANGED faults
  <2>1. pc[t] \in Active
    BY DEF DeleteWorkload, DeleteDeployment, DeleteAllPods, WaitStop, RestartInit, Create, Patch,
       WaitReady, Active
  <2>2. got[t] = None
    BY DEF DeleteWorkload, DeleteDeployment, DeleteAllPods, WaitStop, RestartInit, Create, Patch,
       WaitReady, TypeOK
  <2>3. Fault \/ UNCHANGED faults
    BY DEF DeleteWorkload, DeleteDeployment, DeleteAllPods, WaitStop, RestartInit, Create, Patch,
       WaitReady
  <2>4. UNCHANGED <<tasks, informers, reads, late, controllers>>
    BY DEF DeleteWorkload, DeleteDeployment, DeleteAllPods, WaitStop, RestartInit, Create, Patch,
       WaitReady, Register
  <2> QED BY <2>1, <2>2, <2>3, <2>4
<1>2. app \in AppServices /\ app # None /\ snap \in [Tasks -> AppServices] /\ pods \subseteq Pods
      /\ dep \in Deployments \cup {None} /\ dwatch \in Seq(Deployments \cup {None})
      /\ snap[t] \in AppServices /\ snap[t].ver \in Versions /\ t \in Uids
  BY <1>1 DEF TypeOK, AppServices, Uids
<1>3. \E place \in Places : Goto(t, place)
  BY Returns DEF DeleteWorkload, DeleteDeployment, DeleteAllPods, WaitStop, RestartInit, Create,
     Patch, WaitReady
<1>4. snap' \in [Tasks -> AppServices]
  BY <1>2, AppTypes DEF DeleteWorkload, DeleteDeployment, DeleteAllPods, WaitStop, RestartInit, Create,
     Patch, WaitReady
<1>5. pods' \subseteq Pods
  BY <1>2 DEF DeleteWorkload, DeleteDeployment, DeleteAllPods, WaitStop, RestartInit, Create,
     Patch, WaitReady
<1>6. dep' \in Deployments \cup {None} /\ dwatch' \in Seq(Deployments \cup {None})
  <2>1. CASE DeleteAllPods(t) \/ WaitStop(t) \/ RestartInit(t) \/ WaitReady(t)
    BY <1>2, <2>1 DEF DeleteAllPods, WaitStop, RestartInit, WaitReady
  <2>2. CASE DeleteDeployment(t) \/ DeleteWorkload(t)
    BY <1>2, <2>2 DEF DeleteDeployment, DeleteWorkload, Deleted
  <2>3. CASE Create(t)
    BY <1>2, <2>3 DEF Create, Deployments
  <2>4. CASE Patch(t)
    BY <1>2, <2>4 DEF Patch, Deployments
  <2> QED BY <2>1, <2>2, <2>3, <2>4
<1>7. app' \in AppServices
  <2>1. app' \in {app, NewApp, OnDeletes}
    BY DEF DeleteWorkload, DeleteDeployment, DeleteAllPods, WaitStop, RestartInit, Create, Patch,
       WaitReady, Register
  <2>2. OnDeletes \in AppServices
    BY <1>2, HandlerTypes, AppFields
  <2> QED BY <1>2, <2>1, <2>2, AppTypes
<1>8. UNCHANGED got \/ got' = [u \in Tasks |-> None]
  BY DEF DeleteWorkload, DeleteDeployment, DeleteAllPods, WaitStop, RestartInit, Create, Patch,
     WaitReady, Register
<1> QED BY <1>1, <1>2, <1>3, <1>4, <1>5, <1>6, <1>7, <1>8, ControllerTypes

\* A refresh reads, and writes what it read.
LEMMA TypeRefreshRead == ASSUME TypeOK, NEW t \in Tasks, RefreshRead(t) PROVE TypeOK'
<1>1. /\ pc[t] \in Waits /\ reads' \in 0..MaxRead
      /\ UNCHANGED <<queue, submitted, dbver, dropped, dep, pods, dwatch, ldep, lpods, dnotes, pnotes,
                     hdep, hpods, app, late, controllers, pc, snap, faults>>
  <2>1. MaxRead \in Nat
    BY RuntimeAssumption DEF RuntimeAssumption
  <2> QED BY <2>1 DEF RefreshRead, tasks, cluster, informers, TypeOK, Waits
<1>2. app \in AppServices /\ ldep \in Deployments \cup {None} /\ lpods \subseteq Pods
      /\ got \in [Tasks -> Reads \cup {None}]
  BY <1>1 DEF TypeOK, Waits, Active
<1>3. \E r \in Reads : got' = [got EXCEPT ![t] = r]
  <2>1. [kind |-> "dep", obj |-> ldep] \in Reads
    BY <1>2 DEF Reads
  <2>2. ASSUME NEW p \in app.pods
        PROVE  [kind |-> "pod", key |-> p, obj |->
                  IF \E q \in lpods : SamePod(q, p) THEN CHOOSE q \in lpods : SamePod(q, p) ELSE None] \in Reads
    <3>1. (\E q \in lpods : SamePod(q, p)) => (CHOOSE q \in lpods : SamePod(q, p)) \in lpods
      OBVIOUS
    <3>2. p \in Pods
      BY <1>2, AppFields
    <3> QED BY <1>2, <3>1, <3>2 DEF Reads
  <2> QED BY <2>1, <2>2 DEF RefreshRead
<1>4. /\ got' \in [Tasks -> Reads \cup {None}]
      /\ \A u \in Tasks : got'[u] # None => pc'[u] \in Waits
  BY <1>1, <1>2, <1>3 DEF TypeOK, Waits
<1> QED BY <1>1, <1>4 DEF TypeOK, Waits

LEMMA TypeRefreshWrite == ASSUME TypeOK, NEW t \in Tasks, RefreshWrite(t) PROVE TypeOK' /\ app' # None
<1>1. /\ got[t] # None /\ got' = [got EXCEPT ![t] = None]
      /\ UNCHANGED <<queue, submitted, dbver, dropped, dep, pods, dwatch, ldep, lpods, dnotes, pnotes,
                     hdep, hpods, reads, controllers, pc, snap, faults>>
  BY DEF RefreshWrite, tasks, cluster, informers
<1>2. got[t] \in Reads /\ app \in AppServices /\ late' \in BOOLEAN
  BY <1>1 DEF TypeOK, Active, RefreshWrite
<1>3. app' \in AppServices
  BY <1>2, ReadTypes, AppTypes, AppFields DEF RefreshWrite
<1>4. app' # None /\ app' \in AppServices \cup {None}
  BY <1>3, NoneIsNothing
<1>5. /\ got' \in [Tasks -> Reads \cup {None}]
      /\ \A u \in Tasks : got'[u] # None => got[u] # None
  BY <1>1 DEF TypeOK
<1> QED BY <1>1, <1>2, <1>4, <1>5 DEF TypeOK

\* Taking a task: it is put back, refused or given to a new controller.
LEMMA TypeAnalyst == ASSUME TypeOK, QueueInv, NEW t \in Tasks, AnalystToExec(t) PROVE TypeOK'
<1>1. /\ UNCHANGED <<submitted, dbver, dep, pods, dwatch, ldep, lpods, dnotes, pnotes, hdep, hpods,
                     reads, late>>
      /\ queue' \in Seq(Tasks) /\ dropped' \subseteq Tasks
      /\ Fault \/ UNCHANGED faults
  <2>1. queue \in Seq(Tasks) /\ queue # <<>> /\ dropped \subseteq Tasks
    BY DEF AnalystToExec, TypeOK
  <2>2. Tail(queue) \in Seq(Tasks) /\ Append(Tail(queue), t) \in Seq(Tasks)
    BY <2>1
  <2>3. CASE ErrCallback(t)
    BY <2>1, <2>2, <2>3 DEF ErrCallback, cluster, informers, store
  <2>4. CASE /\ queue' = Tail(queue) /\ UNCHANGED <<submitted, dbver, dropped, cluster, informers>>
             /\ \/ startExec(t) \/ stopExec(t) \/ horizontalScalingExec(t) \/ rollingUpgradeExec(t)
                \/ InitFails(t)
    BY <2>1, <2>2, <2>4 DEF startExec, stopExec, horizontalScalingExec, rollingUpgradeExec, InitFails,
       cluster, informers, store, Refuse, Register
  <2> QED BY <2>3, <2>4 DEF AnalystToExec
<1>2. NewApp \in AppServices /\ dbver \in Nat /\ (app # None => app \in AppServices)
  BY AppTypes DEF TypeOK, Versions
<1>3. \/ UNCHANGED <<app, got, controllers, pc, snap>>
      \/ (\E place \in Final : pc' = [pc EXCEPT ![t] = place]) /\ UNCHANGED <<app, got, controllers, snap>>
      \/ \E a \in AppServices, place \in Active : StartController(t, a, place)
            /\ app' \in AppServices /\ (UNCHANGED got \/ got' = [u \in Tasks |-> None])
  <2>0. {"refused", "failed"} \subseteq Final /\ {"create", "del_wl", "patch"} \subseteq Active
    BY DEF Active, Final
  <2>1. CASE ErrCallback(t)
    BY <2>1 DEF ErrCallback, store
  <2>2. CASE InitFails(t)
    BY <2>0, <2>2 DEF InitFails, store
  <2>3. CASE startExec(t)
    BY <1>2, <2>0, <2>3 DEF startExec, Refuse, Register, store
  <2>4. CASE stopExec(t) \/ horizontalScalingExec(t)
    <3>1. ~Down => app # None
      BY DEF Down
    <3> QED BY <1>2, <2>0, <2>4, <3>1 DEF stopExec, horizontalScalingExec, Refuse, store
  <2>5. CASE rollingUpgradeExec(t)
    <3>1. ~Down => app # None
      BY DEF Down
    <3>2. app # None => [app EXCEPT !.ver = dbver] \in AppServices
      BY <1>2, AppFields
    <3>3. [NewApp EXCEPT !.dep = IF app.dep = None THEN None ELSE @] \in AppServices
      BY <1>2 DEF AppServices
    <3> QED BY <1>2, <2>0, <2>5, <3>1, <3>2, <3>3 DEF rollingUpgradeExec, Register, store
  <2> QED BY <2>1, <2>2, <2>3, <2>4, <2>5 DEF AnalystToExec
<1>4. faults' \in 0..MaxFaults
  BY <1>1, FaultType
<1>5. pc[t] = "none" /\ got[t] = None
  <2>1. queue \in Seq(Tasks) /\ queue # <<>> /\ t = Head(queue)
    BY DEF AnalystToExec, TypeOK
  <2>2. InQueue(t)
    BY <2>1, TailOf DEF QueueInv, InQueue
  <2>3. pc[t] = "none"
    BY <2>2 DEF QueueInv
  <2> QED BY <2>3 DEF TypeOK
<1> DEFINE Table ==
      /\ app' \in AppServices \cup {None} /\ got' \in [Tasks -> Reads \cup {None}]
      /\ controllers' \subseteq Tasks /\ snap' \in [Tasks -> AppServices]
      /\ pc' \in [Tasks -> Active \cup Final \cup {"none"}]
      /\ \A u \in Tasks : /\ pc'[u] \in Active => u \in controllers' /\ app' # None
                          /\ got'[u] # None => pc'[u] \in Waits
<1>6. Table
  <2>0. \A place \in Final : place \notin Active
    BY DEF Active, Final
  <2>1. CASE UNCHANGED <<app, got, controllers, pc, snap>>
    BY <2>1 DEF TypeOK, Waits
  <2>2. CASE (\E place \in Final : pc' = [pc EXCEPT ![t] = place]) /\ UNCHANGED <<app, got, controllers, snap>>
    BY <1>5, <2>0, <2>2 DEF TypeOK, Waits
  <2>3. ASSUME NEW a \in AppServices, NEW place \in Active, StartController(t, a, place),
               app' \in AppServices, UNCHANGED got \/ got' = [u \in Tasks |-> None]
        PROVE  Table
    <3>1. /\ app' \in AppServices \cup {None} /\ app' # None
          /\ controllers' = controllers \cup {t} /\ snap' = [snap EXCEPT ![t] = a]
          /\ pc' = [pc EXCEPT ![t] = place]
      BY <2>3, NoneIsNothing DEF StartController
    <3>2. /\ got' \in [Tasks -> Reads \cup {None}] /\ got'[t] = None
          /\ \A u \in Tasks : got'[u] # None => u # t /\ got[u] # None
      BY <1>5, <2>3 DEF TypeOK
    <3> QED BY <2>3, <3>1, <3>2 DEF TypeOK, Waits
  <2> QED BY <1>3, <2>1, <2>2, <2>3
<1> QED BY <1>1, <1>4, <1>6 DEF TypeOK, Waits

LEMMA TypeSubmit == ASSUME TypeOK, NEW t \in Tasks, Submit(t) PROVE TypeOK'
<1>1. /\ queue' \in Seq(Tasks) /\ submitted' \subseteq Tasks /\ dbver' \in Versions
      /\ UNCHANGED <<dropped, dep, pods, dwatch, ldep, lpods, dnotes, pnotes, hdep, hpods, app, got, reads,
                     late, controllers, pc, snap, faults>>
  BY DEF TypeOK, Submit, cluster, informers, store, Versions
<1> QED BY <1>1 DEF TypeOK

LEMMA TypeCallback == ASSUME TypeOK, NEW t \in Tasks, callback(t) PROVE TypeOK'
<1>1. /\ pc[t] \notin Active /\ controllers' = controllers \ {t}
      /\ UNCHANGED <<queue, submitted, dbver, dropped, dep, pods, dwatch, ldep, lpods, dnotes, pnotes,
                     hdep, hpods, app, got, reads, late, pc, snap, faults>>
  BY DEF callback, Active, tasks, cluster, informers, store
<1> QED BY <1>1 DEF TypeOK

\* An informer, a handler or Kubernetes leaves tasks and controllers alone.
LEMMA TypeOutside ==
    ASSUME TypeOK, Informer \/ Resync \/ Kubernetes \/ UNCHANGED vars
    PROVE  TypeOK' /\ (app # None => app' # None)
<1> DEFINE Rest == UNCHANGED <<queue, submitted, dbver, dropped, dep, got, reads, late, controllers, pc, snap>>
<1>0. /\ dwatch \in Seq(Deployments \cup {None}) /\ dnotes \in Seq(Deployments \cup {None})
      /\ pnotes \in Seq(Notes) /\ lpods \subseteq Pods /\ hpods \subseteq Pods /\ pods \subseteq Pods
      /\ app \in AppServices \cup {None} /\ hdep \in Deployments \cup {None}
      /\ dep \in Deployments \cup {None}
  BY DEF TypeOK
<1>1. CASE DeploymentSeen
  <2>1. /\ Rest /\ UNCHANGED <<app, pods, lpods, hpods, pnotes, hdep, faults>>
        /\ ldep' \in Deployments \cup {None} /\ dwatch' \in Seq(Deployments \cup {None})
        /\ dnotes' \in Seq(Deployments \cup {None})
    BY <1>0, <1>1 DEF DeploymentSeen, tasks, store
  <2> QED BY <2>1 DEF TypeOK
<1>2. ASSUME NEW p \in pods \cup lpods, PodSeen(p) PROVE TypeOK' /\ (app # None => app' # None)
  <2>1. Rest /\ UNCHANGED <<app, pods, hpods, ldep, dwatch, dnotes, hdep, faults>>
    BY <1>2 DEF PodSeen, tasks, cluster, store
  <2>2. lpods' \subseteq Pods
    BY <1>0, <1>2 DEF PodSeen, Others
  <2>3. pnotes' \in Seq(Notes)
    <3>1. [pod |-> p, gone |-> FALSE] \in Notes /\ [pod |-> p, gone |-> TRUE] \in Notes
      BY <1>0, <1>2 DEF Notes
    <3>2. \A n \in Notes : Append(pnotes, n) \in Seq(Notes)
      BY <1>0
    <3>3. \E n \in {[pod |-> p, gone |-> FALSE], [pod |-> p, gone |-> TRUE]} : pnotes' = Append(pnotes, n)
      BY <1>2 DEF PodSeen
    <3> QED BY <3>1, <3>2, <3>3
  <2> QED BY <2>1, <2>2, <2>3 DEF TypeOK
<1>3. CASE DeploymentEvent
  <2>1. /\ Rest /\ UNCHANGED <<pods, lpods, hpods, pnotes, ldep, dwatch, faults>>
        /\ hdep' \in Deployments \cup {None} /\ dnotes' \in Seq(Deployments \cup {None})
    BY <1>0, <1>3 DEF DeploymentEvent, tasks, cluster
  <2>2. app' \in AppServices \cup {None} /\ (app # None => app' # None)
    <3>1. app' = IF hdep' = None THEN OnDeletes ELSE OnAdd(hdep')
      BY <1>3 DEF DeploymentEvent
    <3>2. app # None => OnDeletes \in AppServices
      BY <1>0, HandlerTypes, AppFields
    <3> QED BY <2>1, <3>1, <3>2, HandlerTypes, NoneIsNothing
  <2> QED BY <2>1, <2>2 DEF TypeOK
<1>4. CASE PodEvent
  <2> DEFINE p == Head(pnotes).pod
  <2>1. /\ Rest /\ UNCHANGED <<pods, lpods, ldep, dwatch, dnotes, hdep, faults>>
        /\ pnotes # <<>> /\ pnotes' \in Seq(Notes)
    BY <1>0, <1>4 DEF PodEvent, tasks, cluster
  <2>2. p \in Pods
    <3>1. Head(pnotes) \in Notes
      BY <1>0, <2>1
    <3> QED BY <3>1 DEF Notes
  <2>3. /\ hpods' \in {{p} \cup Others(hpods, p), Others(hpods, p)}
        /\ app' \in {OnAddPod(p), OnDeletePod(p)}
    BY <1>4 DEF PodEvent
  <2> HIDE DEF p
  <2>4. hpods' \subseteq Pods
    BY <1>0, <2>2, <2>3 DEF Others
  <2>5. app' \in AppServices \cup {None} /\ (app # None => app' # None)
    <3>1. app # None => OnDeletePod(p) \in AppServices
      BY <1>0, <2>2, HandlerTypes, AppFields
    <3> QED BY <2>2, <2>3, <3>1, HandlerTypes, NoneIsNothing
  <2> QED BY <2>1, <2>4, <2>5 DEF TypeOK
<1>5. CASE Resync
  <2>1. Rest /\ UNCHANGED <<pods, dwatch, ldep, lpods, dnotes, pnotes, hdep, hpods, faults>>
    BY <1>5 DEF Resync, tasks, cluster, informers
  <2>2. app' \in AppServices
    BY <1>0, <1>5, HandlerTypes DEF Resync
  <2> QED BY <2>1, <2>2, NoneIsNothing DEF TypeOK
<1>6. CASE Kubernetes
  <2>1. Rest /\ UNCHANGED <<app, dwatch, ldep, lpods, dnotes, pnotes, hdep, hpods>>
    BY <1>6 DEF Kubernetes, tasks, informers, store
  <2>2. pods' \subseteq Pods /\ (Fault \/ UNCHANGED faults)
    <3>1. CASE PodCreated
      BY <1>0, <3>1 DEF PodCreated, Pods, Deployments
    <3>2. CASE \E p \in pods : PodChanges(p) \/ PodGone(p)
      BY <1>0, <3>2 DEF PodChanges, PodGone, Pods
    <3> QED BY <1>6, <3>1, <3>2 DEF Kubernetes
  <2>3. faults' \in 0..MaxFaults
    BY <2>2, FaultType
  <2> QED BY <2>1, <2>2, <2>3 DEF TypeOK
<1>7. CASE UNCHANGED vars
  BY <1>7 DEF vars, tasks, cluster, informers, store, TypeOK
<1> QED BY <1>1, <1>2, <1>3, <1>4, <1>5, <1>6, <1>7 DEF Informer

\* The initial state.
LEMMA InitTypes ==
    ASSUME Init
    PROVE  /\ TypeOK /\ QueueInv
           /\ Deployed => /\ app \in AppServices /\ app.pods = pods
                          /\ app.dep = [rv |-> TRUE, ver |-> 0] /\ app.ver = 0
<1> DEFINE d == [uid |-> None, ver |-> 0]
           p == [uid |-> None, ver |-> 0, st |-> "running"]
<1>0. /\ None \notin Deployments /\ MaxFaults \in Nat /\ MaxRead \in Nat /\ Deployed \in BOOLEAN
  BY RuntimeAssumption DEF RuntimeAssumption
<1>1. d \in Deployments /\ p \in Pods /\ d.ver = 0
  BY DEF Deployments, Pods, Uids, Versions
<1>2. CacheApp \in AppServices /\ CacheApp = [dep |-> None, wl |-> FALSE, pods |-> {}, ver |-> 0]
  BY DEF Init, CacheApp, AppServices, Versions
<1>3. /\ dep = (IF Deployed THEN d ELSE None) /\ pods = (IF Deployed THEN {p} ELSE {})
      /\ dwatch = <<>> /\ dnotes = <<>> /\ pnotes = <<>> /\ queue = <<>>
      /\ ldep = dep /\ hdep = dep /\ lpods = pods /\ hpods = pods
      /\ app = IF Deployed THEN SetDeployment([CacheApp EXCEPT !.pods = pods], d) ELSE None
  BY DEF Init
<1> HIDE DEF d, p
<1>4. Deployed => /\ app \in AppServices /\ app.pods = pods
                  /\ app.dep = [rv |-> TRUE, ver |-> 0] /\ app.ver = 0
  <2>1. Deployed => [CacheApp EXCEPT !.pods = pods] \in AppServices /\ [CacheApp EXCEPT !.pods = pods].pods = pods
    BY <1>1, <1>2, <1>3 DEF AppServices
  <2> QED BY <1>1, <1>3, <2>1 DEF SetDeployment, AppServices, Deployments, Versions
<1>5. TypeOK
  <2>1. /\ got \in [Tasks -> Reads \cup {None}] /\ snap \in [Tasks -> AppServices] /\ reads \in 0..MaxRead
        /\ \A t \in Tasks : got[t] = None /\ pc[t] = "none"
        /\ pc \in [Tasks -> Active \cup Final \cup {"none"}] /\ "none" \notin Active
    BY <1>0, <1>2 DEF Init, Active
  <2>2. app \in AppServices \cup {None} /\ dep \in Deployments \cup {None} /\ pods \subseteq Pods
    BY <1>0, <1>1, <1>3, <1>4
  <2>3. dbver = 0 /\ faults = 0 /\ late = FALSE /\ submitted = {} /\ dropped = {} /\ controllers = {}
    BY DEF Init
  <2>4. dbver \in Versions /\ faults \in 0..MaxFaults
    BY <1>0, <2>3 DEF Versions
  <2>5. late \in BOOLEAN
    BY <2>3
  <2> QED BY <1>3, <2>1, <2>2, <2>3, <2>4, <2>5 DEF TypeOK
<1>6. QueueInv
  BY <1>3 DEF Init, QueueInv, InQueue
<1> QED BY <1>4, <1>5, <1>6

\* Every step keeps the types and the queue in order.
LEMMA NextTypes == TypeOK /\ QueueInv /\ [Next]_vars => TypeOK' /\ QueueInv'
<1> SUFFICES ASSUME TypeOK, QueueInv, [Next]_vars PROVE TypeOK'
  BY QueueStep
<1>1. ASSUME NEW t \in Tasks, Controller(t) PROVE TypeOK'
  BY <1>1, TypeController, TypeRefreshRead, TypeRefreshWrite, TypeCallback DEF Controller
<1>2. ASSUME NEW t \in Tasks, Submit(t) \/ AnalystToExec(t) PROVE TypeOK'
  BY <1>2, TypeSubmit, TypeAnalyst
<1> QED BY <1>1, <1>2, TypeOutside DEF Next

\* Every variable keeps its type, and a controller at work is in the table and
\* finds its service in the store; what a refresh has read is its controller's.
THEOREM RuntimeTypeCorrect == Spec => []TypeOK
<1>1. Init => TypeOK /\ QueueInv
  BY InitTypes
<1> QED BY <1>1, NextTypes, PTL DEF Spec
-----------------------------------------------------------------------------
\* What the informers and the handlers know.

\* The last of the states s that follow the state x.
LastOf(x, s) == IF s = <<>> THEN x ELSE s[Len(s)]

\* The events of the Deployment lead from the lister to the cluster, and the notes
\* from what the handlers know to the lister.
DepFollowed == LastOf(ldep, dwatch) = dep /\ LastOf(hdep, dnotes) = ldep

\* The lister has a pod once.  A pod the handlers know, or a note reports, is in the
\* lister, or a (later) note reports it gone.  The last note of a pod in the lister
\* is of the pod as it is there; without one the handlers know it so.
NotePod(i) == pnotes[i].pod
OnePerPod == \A p, q \in lpods : SamePod(p, q) => p = q
HandledPods ==
    \A q \in hpods : \/ \E p \in lpods : SamePod(p, q)
                     \/ \E j \in DOMAIN pnotes : pnotes[j].gone /\ SamePod(NotePod(j), q)
NotedPods ==
    \A i \in DOMAIN pnotes :
        \/ pnotes[i].gone
        \/ \E p \in lpods : SamePod(p, NotePod(i))
        \/ \E j \in DOMAIN pnotes : j > i /\ pnotes[j].gone /\ SamePod(NotePod(j), NotePod(i))
LastNote(i, p) ==
    /\ ~pnotes[i].gone /\ NotePod(i) = p
    /\ \A j \in DOMAIN pnotes : j > i => ~SamePod(NotePod(j), p)
ListedPods ==
    \A p \in lpods : \/ p \in hpods /\ \A i \in DOMAIN pnotes : ~SamePod(NotePod(i), p)
                     \/ \E i \in DOMAIN pnotes : LastNote(i, p)
PodsFollowed == OnePerPod /\ HandledPods /\ NotedPods /\ ListedPods

\* What the store has, the handlers know or are still to be told of, unless a
\* refresh has put back what they had removed.
Held ==
    /\ \A t \in Tasks : got[t] # None /\ got[t].kind = "pod" /\ got[t].obj # None
                           => SamePod(got[t].obj, got[t].key)
    /\ app # None /\ ~late =>
         /\ app.dep # None /\ app.dep.rv => hdep # None \/ dnotes # <<>>
         /\ \A p \in app.pods :
               \/ \E q \in hpods : SamePod(q, p)
               \/ \E i \in DOMAIN pnotes : SamePod(NotePod(i), p)

IInv == TypeOK /\ QueueInv /\ DepFollowed /\ PodsFollowed /\ Held

LEMMA LastAppend ==
    ASSUME NEW S, NEW s \in Seq(S), NEW x, NEW y \in S
    PROVE  LastOf(x, Append(s, y)) = y
<1> QED BY DEF LastOf

LEMMA LastTail ==
    ASSUME NEW S, NEW s \in Seq(S), s # <<>>, NEW x
    PROVE  LastOf(Head(s), Tail(s)) = LastOf(x, s)
<1>1. /\ Len(s) \in Nat /\ Len(s) # 0 /\ Len(Tail(s)) = Len(s) - 1 /\ Tail(s) \in Seq(S)
      /\ Head(s) = s[1]
  BY EmptySeq
<1>2. CASE Len(s) = 1
  <2>1. Len(Tail(s)) = 0
    BY <1>1, <1>2
  <2>2. Tail(s) = <<>>
    BY <1>1, <2>1, EmptySeq
  <2> QED BY <1>1, <1>2, <2>2 DEF LastOf
<1>3. CASE Len(s) # 1
  <2>1. Len(Tail(s)) \in 1..Len(Tail(s)) /\ Len(Tail(s)) + 1 = Len(s) /\ Tail(s) # <<>>
    <3>1. \A n \in Nat : n # 0 /\ n # 1 => n - 1 \in 1..(n - 1) /\ (n - 1) + 1 = n
      OBVIOUS
    <3>2. Len(Tail(s)) \in 1..Len(Tail(s)) /\ Len(Tail(s)) + 1 = Len(s)
      BY <1>1, <1>3, <3>1
    <3>3. Len(Tail(s)) # 0
      BY <3>2
    <3> QED BY <1>1, <3>2, <3>3, EmptySeq
  <2>2. Tail(s)[Len(Tail(s))] = s[Len(Tail(s)) + 1]
    BY <2>1
  <2> QED BY <2>1, <2>2 DEF LastOf
<1> QED BY <1>2, <1>3

\* The last event, if there is one, is in the sequence.
LEMMA LastIn ==
    ASSUME NEW S, NEW s \in Seq(S), NEW x
    PROVE  (LastOf(x, s) = x /\ s = <<>>) \/ \E i \in DOMAIN s : s[i] = LastOf(x, s)
<1> QED BY EmptySeq DEF LastOf

\* Every step keeps the Deployment followed.
LEMMA DepStep == ASSUME TypeOK, DepFollowed, [Next]_vars PROVE DepFollowed'
<1>0. dwatch \in Seq(Deployments \cup {None}) /\ dnotes \in Seq(Deployments \cup {None})
      /\ dep \in Deployments \cup {None} /\ snap \in [Tasks -> AppServices]
  BY DEF TypeOK
<1>1. ASSUME UNCHANGED <<ldep, hdep, dnotes>>, dep' \in Deployments \cup {None},
             UNCHANGED <<dep, dwatch>> \/ dwatch' = Append(dwatch, dep')
      PROVE  DepFollowed'
  <2>1. CASE UNCHANGED <<dep, dwatch>>
    BY <1>1, <2>1 DEF DepFollowed
  <2>2. CASE dwatch' = Append(dwatch, dep')
    <3>1. LastOf(ldep', dwatch') = dep'
      BY <1>0, <1>1, <2>2, LastAppend
    <3> QED BY <1>1, <3>1 DEF DepFollowed
  <2> QED BY <1>1, <2>1, <2>2
<1>2. ASSUME NEW t \in Tasks, Controller(t) PROVE DepFollowed'
  <2>1. UNCHANGED <<ldep, hdep, dnotes>>
    BY <1>2 DEF Controller, DeleteWorkload, DeleteDeployment, DeleteAllPods, WaitStop, RestartInit, Create,
       Patch, WaitReady, RefreshRead, RefreshWrite, callback, informers
  <2>2. CASE DeleteWorkload(t) \/ DeleteDeployment(t)
    BY <1>1, <2>1, <2>2 DEF DeleteWorkload, DeleteDeployment, Deleted, TypeOK
  <2>3. CASE Create(t)
    <3>1. [uid |-> t, ver |-> snap[t].ver] \in Deployments
      BY <1>0 DEF Deployments, Uids, AppServices
    <3> QED BY <1>0, <1>1, <2>1, <2>3, <3>1 DEF Create
  <2>4. CASE Patch(t)
    <3>1. dep # None => [dep EXCEPT !.ver = snap[t].ver] \in Deployments
      BY <1>0 DEF Deployments, AppServices
    <3> QED BY <1>0, <1>1, <2>1, <2>4, <3>1 DEF Patch
  <2>5. CASE \/ DeleteAllPods(t) \/ WaitStop(t) \/ RestartInit(t) \/ WaitReady(t) \/ RefreshRead(t)
             \/ RefreshWrite(t) \/ callback(t)
    BY <1>0, <1>1, <2>1, <2>5 DEF DeleteAllPods, WaitStop, RestartInit, WaitReady, RefreshRead, RefreshWrite,
       callback, cluster
  <2> QED BY <1>2, <2>2, <2>3, <2>4, <2>5 DEF Controller
<1>3. ASSUME UNCHANGED <<dep, dwatch, ldep, hdep, dnotes>> PROVE DepFollowed'
  BY <1>3 DEF DepFollowed
<1>4. ASSUME NEW t \in Tasks, Submit(t) \/ AnalystToExec(t) PROVE DepFollowed'
  BY <1>3, <1>4 DEF Submit, AnalystToExec, ErrCallback, cluster, informers
<1>5. CASE DeploymentSeen
  <2>1. /\ dwatch # <<>> /\ ldep' = Head(dwatch) /\ dwatch' = Tail(dwatch) /\ dnotes' = Append(dnotes, ldep')
        /\ UNCHANGED <<dep, hdep>> /\ ldep' \in Deployments \cup {None}
    BY <1>0, <1>5 DEF DeploymentSeen
  <2> QED BY <1>0, <2>1, LastAppend, LastTail DEF DepFollowed
<1>6. CASE DeploymentEvent
  <2>1. /\ dnotes # <<>> /\ hdep' = Head(dnotes) /\ dnotes' = Tail(dnotes) /\ UNCHANGED <<dep, ldep, dwatch>>
    BY <1>6 DEF DeploymentEvent, cluster
  <2> QED BY <1>0, <2>1, LastTail DEF DepFollowed
<1>7. CASE (\E p \in pods \cup lpods : PodSeen(p)) \/ PodEvent \/ Resync \/ Kubernetes \/ UNCHANGED vars
  BY <1>3, <1>7 DEF PodSeen, PodEvent, Resync, Kubernetes, vars, cluster, informers
<1> QED BY <1>2, <1>4, <1>5, <1>6, <1>7 DEF Next, Informer

\* The informer sees a pod: its note is the last one.
LEMMA PodSeenStep == ASSUME TypeOK, PodsFollowed, NEW p, PodSeen(p) PROVE PodsFollowed'
<1>0. pnotes \in Seq(Notes) /\ UNCHANGED hpods
  BY DEF TypeOK, PodSeen
<1> DEFINE L == Len(pnotes)
<1>1. CASE /\ p \in pods \ lpods /\ lpods' = {p} \cup Others(lpods, p)
           /\ pnotes' = Append(pnotes, [pod |-> p, gone |-> FALSE])
  <2>1. /\ DOMAIN pnotes = 1..L /\ DOMAIN pnotes' = 1..(L + 1) /\ L \in Nat
        /\ \A i \in 1..L : pnotes'[i] = pnotes[i] /\ i \in 1..(L + 1) /\ L + 1 > i
        /\ \A i \in 1..(L + 1) : i \in 1..L \/ i = L + 1
        /\ \A i \in 1..(L + 1) : ~(i > L + 1)
        /\ pnotes'[L + 1].pod = p /\ ~pnotes'[L + 1].gone /\ L + 1 \in 1..(L + 1)
    <3>1. pnotes'[L + 1] = [pod |-> p, gone |-> FALSE] /\ DOMAIN pnotes = 1..L /\ L \in Nat
          /\ DOMAIN pnotes' = 1..(L + 1) /\ \A i \in 1..L : pnotes'[i] = pnotes[i]
      BY <1>0, <1>1
    <3> QED BY <3>1
  <2> HIDE DEF L
  <2>2. OnePerPod'
    BY <1>1 DEF OnePerPod, PodsFollowed, Others, SamePod
  <2>3. \A q : (\E r \in lpods : SamePod(r, q)) => \E r \in lpods' : SamePod(r, q)
    BY <1>1 DEF Others, SamePod
  <2>4. HandledPods'
    BY <1>0, <2>1, <2>3 DEF HandledPods, PodsFollowed, NotePod
  <2>5. NotedPods'
    <3> SUFFICES ASSUME NEW i \in 1..(L + 1)
                 PROVE  \/ pnotes'[i].gone
                        \/ \E r \in lpods' : SamePod(r, pnotes'[i].pod)
                        \/ \E j \in 1..(L + 1) : j > i /\ pnotes'[j].gone /\ SamePod(pnotes'[j].pod, pnotes'[i].pod)
      BY <2>1 DEF NotedPods, NotePod
    <3>1. CASE i = L + 1
      BY <1>1, <2>1, <3>1 DEF SamePod
    <3>2. CASE i \in 1..L
      BY <2>1, <2>3, <3>2 DEF NotedPods, PodsFollowed, NotePod
    <3> QED BY <2>1, <3>1, <3>2
  <2>6. ListedPods'
    <3> SUFFICES ASSUME NEW r \in lpods'
                 PROVE  \/ r \in hpods' /\ \A i \in DOMAIN pnotes' : ~SamePod(NotePod(i)', r)
                        \/ \E i \in DOMAIN pnotes' : LastNote(i, r)'
      BY DEF ListedPods
    <3>1. CASE r = p
      <4>1. PICK k \in 1..(L + 1) : k = L + 1
        BY <2>1
      <4>2. LastNote(k, r)'
        BY <2>1, <3>1, <4>1 DEF LastNote, NotePod
      <4> QED BY <2>1, <4>1, <4>2
    <3>2. CASE r \in lpods /\ ~SamePod(p, r)
      <4>0. ~SamePod(pnotes'[L + 1].pod, r)
        BY <2>1, <3>2
      <4>1. CASE r \in hpods /\ \A i \in DOMAIN pnotes : ~SamePod(NotePod(i), r)
        BY <1>0, <2>1, <4>0, <4>1 DEF NotePod
      <4>2. ASSUME NEW i \in DOMAIN pnotes, LastNote(i, r) PROVE i \in DOMAIN pnotes' /\ LastNote(i, r)'
        BY <2>1, <4>0, <4>2 DEF LastNote, NotePod
      <4> QED BY <3>2, <4>1, <4>2 DEF ListedPods, PodsFollowed
    <3> QED BY <1>1, <3>1, <3>2 DEF Others
  <2> QED BY <2>2, <2>4, <2>5, <2>6 DEF PodsFollowed
<1>2. CASE /\ p \in lpods /\ lpods' = lpods \ {p}
           /\ pnotes' = Append(pnotes, [pod |-> p, gone |-> TRUE])
  <2>1. /\ DOMAIN pnotes = 1..L /\ DOMAIN pnotes' = 1..(L + 1) /\ L \in Nat
        /\ \A i \in 1..L : pnotes'[i] = pnotes[i] /\ i \in 1..(L + 1) /\ L + 1 > i
        /\ \A i \in 1..(L + 1) : i \in 1..L \/ i = L + 1
        /\ pnotes'[L + 1].pod = p /\ pnotes'[L + 1].gone /\ L + 1 \in 1..(L + 1)
    <3>1. pnotes'[L + 1] = [pod |-> p, gone |-> TRUE] /\ DOMAIN pnotes = 1..L /\ L \in Nat
          /\ DOMAIN pnotes' = 1..(L + 1) /\ \A i \in 1..L : pnotes'[i] = pnotes[i]
      BY <1>0, <1>2
    <3> QED BY <3>1
  <2> HIDE DEF L
  <2>2. OnePerPod'
    BY <1>2 DEF OnePerPod, PodsFollowed
  <2>3. \A q : (\E r \in lpods : SamePod(r, q)) => (\E r \in lpods' : SamePod(r, q)) \/ SamePod(pnotes'[L + 1].pod, q)
    BY <1>2, <2>1
  <2>4. HandledPods'
    BY <1>0, <2>1, <2>3 DEF HandledPods, PodsFollowed, NotePod
  <2>5. NotedPods'
    <3> SUFFICES ASSUME NEW i \in 1..(L + 1)
                 PROVE  \/ pnotes'[i].gone
                        \/ \E r \in lpods' : SamePod(r, pnotes'[i].pod)
                        \/ \E j \in 1..(L + 1) : j > i /\ pnotes'[j].gone /\ SamePod(pnotes'[j].pod, pnotes'[i].pod)
      BY <2>1 DEF NotedPods, NotePod
    <3>1. CASE i = L + 1
      BY <2>1, <3>1
    <3>2. CASE i \in 1..L
      BY <2>1, <2>3, <3>2 DEF NotedPods, PodsFollowed, NotePod
    <3> QED BY <2>1, <3>1, <3>2
  <2>6. ListedPods'
    <3> SUFFICES ASSUME NEW r \in lpods'
                 PROVE  \/ r \in hpods' /\ \A i \in DOMAIN pnotes' : ~SamePod(NotePod(i)', r)
                        \/ \E i \in DOMAIN pnotes' : LastNote(i, r)'
      BY DEF ListedPods
    <3>0. r \in lpods /\ ~SamePod(pnotes'[L + 1].pod, r)
      BY <1>2, <2>1 DEF OnePerPod, PodsFollowed
    <3>1. CASE r \in hpods /\ \A i \in DOMAIN pnotes : ~SamePod(NotePod(i), r)
      BY <1>0, <2>1, <3>0, <3>1 DEF NotePod
    <3>2. ASSUME NEW i \in DOMAIN pnotes, LastNote(i, r) PROVE i \in DOMAIN pnotes' /\ LastNote(i, r)'
      BY <2>1, <3>0, <3>2 DEF LastNote, NotePod
    <3> QED BY <3>0, <3>1, <3>2 DEF ListedPods, PodsFollowed
  <2> QED BY <2>2, <2>4, <2>5, <2>6 DEF PodsFollowed
<1> QED BY <1>1, <1>2 DEF PodSeen

\* A handler takes the first note.
LEMMA PodEventStep == ASSUME TypeOK, PodsFollowed, PodEvent PROVE PodsFollowed'
<1> DEFINE L == Len(pnotes)
           p == NotePod(1)
<1>0. pnotes \in Seq(Notes) /\ UNCHANGED lpods /\ pnotes # <<>> /\ pnotes' = Tail(pnotes)
  BY DEF TypeOK, PodEvent
<1>1. /\ DOMAIN pnotes = 1..L /\ DOMAIN pnotes' = 1..(L - 1) /\ L \in Nat /\ 1 \in 1..L
      /\ \A i \in 1..(L - 1) : pnotes'[i] = pnotes[i + 1] /\ i + 1 \in 1..L /\ i + 1 > 1
      /\ Head(pnotes) = pnotes[1]
  BY <1>0, EmptySeq
<1>2. /\ \A i \in 1..L : i = 1 \/ (i - 1 \in 1..(L - 1) /\ (i - 1) + 1 = i)
      /\ \A i, j \in 1..(L - 1) : j > i <=> j + 1 > i + 1
  BY <1>1
<1>3. \/ ~pnotes[1].gone /\ hpods' = {p} \cup Others(hpods, p)
      \/ pnotes[1].gone /\ hpods' = Others(hpods, p)
  BY <1>1 DEF PodEvent, NotePod
<1> HIDE DEF L, p
\* A note after the first one keeps its place.
<1>4. \A q : (\E j \in 1..L : j > 1 /\ pnotes[j].gone /\ SamePod(NotePod(j), q))
                => \E j \in DOMAIN pnotes' : pnotes'[j].gone /\ SamePod(NotePod(j)', q)
  <2> SUFFICES ASSUME NEW q, NEW j \in 1..L, j > 1, pnotes[j].gone, SamePod(NotePod(j), q)
               PROVE  \E k \in DOMAIN pnotes' : pnotes'[k].gone /\ SamePod(NotePod(k)', q)
    BY <1>1
  <2>1. j - 1 \in DOMAIN pnotes' /\ pnotes'[j - 1] = pnotes[j]
    BY <1>1, <1>2
  <2> QED BY <2>1 DEF NotePod
<1>5. OnePerPod'
  BY <1>0 DEF OnePerPod, PodsFollowed
<1>6. HandledPods'
  <2> SUFFICES ASSUME NEW q \in hpods', ~\E r \in lpods : SamePod(r, q)
               PROVE  \E j \in DOMAIN pnotes' : pnotes'[j].gone /\ SamePod(NotePod(j)', q)
    BY <1>0 DEF HandledPods
  <2>1. CASE q = p /\ ~pnotes[1].gone
    BY <1>1, <1>4, <2>1 DEF NotedPods, PodsFollowed, p
  <2>2. CASE q \in hpods /\ ~SamePod(p, q)
    <3>1. PICK j \in 1..L : pnotes[j].gone /\ SamePod(NotePod(j), q)
      BY <1>1, <2>2 DEF HandledPods, PodsFollowed
    <3>2. j # 1
      BY <2>2, <3>1 DEF p
    <3>3. j > 1
      BY <1>1, <3>2
    <3> QED BY <1>4, <3>1, <3>3
  <2> QED BY <1>3, <2>1, <2>2 DEF Others
<1>7. NotedPods'
  <2> SUFFICES ASSUME NEW i \in 1..(L - 1), ~pnotes'[i].gone, ~\E r \in lpods : SamePod(r, pnotes'[i].pod)
               PROVE  \E j \in DOMAIN pnotes' : j > i /\ pnotes'[j].gone /\ SamePod(pnotes'[j].pod, pnotes'[i].pod)
    BY <1>0, <1>1 DEF NotedPods, NotePod
  <2>1. PICK j \in 1..L : j > i + 1 /\ pnotes[j].gone /\ SamePod(pnotes[j].pod, pnotes[i + 1].pod)
    BY <1>1 DEF NotedPods, PodsFollowed, NotePod
  <2>2. j - 1 \in 1..(L - 1) /\ j - 1 > i /\ pnotes'[j - 1] = pnotes[j]
    BY <1>1, <1>2, <2>1
  <2> QED BY <1>1, <2>1, <2>2
<1>8. ListedPods'
  <2> SUFFICES ASSUME NEW r \in lpods
               PROVE  \/ r \in hpods' /\ \A i \in DOMAIN pnotes' : ~SamePod(NotePod(i)', r)
                      \/ \E i \in DOMAIN pnotes' : LastNote(i, r)'
    BY <1>0 DEF ListedPods
  <2>1. CASE r \in hpods /\ \A i \in DOMAIN pnotes : ~SamePod(NotePod(i), r)
    <3>1. r \in hpods'
      BY <1>1, <1>3, <2>1 DEF Others, p
    <3> QED BY <1>1, <2>1, <3>1 DEF NotePod
  <2>2. ASSUME LastNote(1, r) PROVE r \in hpods' /\ \A i \in DOMAIN pnotes' : ~SamePod(NotePod(i)', r)
    BY <1>1, <1>3, <2>2 DEF LastNote, NotePod, p
  <2>3. ASSUME NEW i \in 1..L, i # 1, LastNote(i, r) PROVE i - 1 \in DOMAIN pnotes' /\ LastNote(i - 1, r)'
    <3>1. i - 1 \in 1..(L - 1) /\ pnotes'[i - 1] = pnotes[i]
      BY <1>1, <1>2, <2>3
    <3>2. ASSUME NEW j \in 1..(L - 1), j > i - 1 PROVE ~SamePod(pnotes'[j].pod, r)
      <4>1. j + 1 \in 1..L /\ j + 1 > i /\ pnotes'[j] = pnotes[j + 1]
        BY <1>1, <3>2
      <4> QED BY <1>1, <2>3, <4>1 DEF LastNote, NotePod
    <3> QED BY <1>1, <2>3, <3>1, <3>2 DEF LastNote, NotePod
  <2> QED BY <1>1, <2>1, <2>2, <2>3 DEF ListedPods, PodsFollowed
<1> QED BY <1>5, <1>6, <1>7, <1>8 DEF PodsFollowed

LEMMA PodsStep == ASSUME TypeOK, PodsFollowed, [Next]_vars PROVE PodsFollowed'
<1>1. ASSUME UNCHANGED <<lpods, hpods, pnotes>> PROVE PodsFollowed'
  BY <1>1 DEF PodsFollowed, OnePerPod, HandledPods, NotedPods, ListedPods, LastNote, NotePod
<1>2. ASSUME NEW t \in Tasks, Controller(t) PROVE PodsFollowed'
  BY <1>1, <1>2 DEF Controller, DeleteWorkload, DeleteDeployment, DeleteAllPods, WaitStop, RestartInit, Create,
     Patch, WaitReady, RefreshRead, RefreshWrite, callback, informers
<1>3. ASSUME NEW t \in Tasks, Submit(t) \/ AnalystToExec(t) PROVE PodsFollowed'
  BY <1>1, <1>3 DEF Submit, AnalystToExec, ErrCallback, informers
<1>4. CASE DeploymentSeen \/ DeploymentEvent \/ Resync \/ Kubernetes \/ UNCHANGED vars
  BY <1>1, <1>4 DEF DeploymentSeen, DeploymentEvent, Resync, Kubernetes, vars, informers
<1> QED BY <1>2, <1>3, <1>4, PodSeenStep, PodEventStep DEF Next, Informer

-----------------------------------------------------------------------------
\* What the store has.

\* What an AppService may have in the store.
DepHeld(a) == a.dep # None /\ a.dep.rv => hdep # None \/ dnotes # <<>>
PodHeld(p) == (\E q \in hpods : SamePod(q, p)) \/ \E i \in DOMAIN pnotes : SamePod(NotePod(i), p)
StoreHeld(a) == a # None => DepHeld(a) /\ \A p \in a.pods : PodHeld(p)

\* A step of the task manager or of a controller.
LEMMA HeldOwn ==
    ASSUME TypeOK, Held, UNCHANGED <<hdep, dnotes, hpods, pnotes>>, late => late',
           ~late /\ ~late' => StoreHeld(app'),
           \A t \in Tasks : got'[t] # None /\ got'[t].kind = "pod" /\ got'[t].obj # None
                               => SamePod(got'[t].obj, got'[t].key)
    PROVE  Held'
<1> QED BY DEF Held, StoreHeld, DepHeld, PodHeld, NotePod

LEMMA HeldNow == ASSUME Held, ~late PROVE StoreHeld(app)
<1> QED BY DEF Held, StoreHeld, DepHeld, PodHeld

LEMMA HeldController ==
    ASSUME TypeOK, Held, NEW t \in Tasks, Controller(t) \/ Submit(t) \/ AnalystToExec(t)
    PROVE  Held'
<1>0. UNCHANGED <<hdep, dnotes, hpods, pnotes>>
  BY DEF Controller, DeleteWorkload, DeleteDeployment, DeleteAllPods, WaitStop, RestartInit, Create,
     Patch, WaitReady, RefreshRead, RefreshWrite, callback, informers, Submit, AnalystToExec, ErrCallback
<1>1. /\ StoreHeld(NewApp)
      /\ app # None => app \in AppServices
      /\ app # None /\ ~late => StoreHeld([app EXCEPT !.dep = None]) /\ StoreHeld([app EXCEPT !.ver = dbver])
  <2>1. StoreHeld(NewApp)
    BY AppTypes DEF StoreHeld, DepHeld
  <2>2. app # None => app \in AppServices /\ dbver \in Nat
    BY DEF TypeOK, Versions
  <2> QED BY <2>1, <2>2, HeldNow, AppFields DEF StoreHeld, DepHeld
<1>2. ASSUME UNCHANGED <<got, late>> \/ (got' = [u \in Tasks |-> None] /\ UNCHANGED late),
             app' \in {app, NewApp} \/ (app # None /\ app' \in {[app EXCEPT !.dep = None], [app EXCEPT !.ver = dbver]})
      PROVE  Held'
  <2>1. \A u \in Tasks : got'[u] # None /\ got'[u].kind = "pod" /\ got'[u].obj # None
                            => SamePod(got'[u].obj, got'[u].key)
    BY <1>2 DEF Held
  <2>2. ~late => StoreHeld(app')
    BY <1>1, <1>2, HeldNow
  <2> QED BY <1>0, <1>2, <2>1, <2>2, HeldOwn
<1>3. CASE RefreshRead(t)
  <2>1. UNCHANGED <<app, late>> /\ got \in [Tasks -> Reads \cup {None}]
    BY <1>3 DEF RefreshRead, TypeOK
  <2>2. \/ got' = [got EXCEPT ![t] = [kind |-> "dep", obj |-> ldep]]
        \/ \E p : got' = [got EXCEPT ![t] = [kind |-> "pod", key |-> p, obj |->
                        IF \E q \in lpods : SamePod(q, p)
                        THEN CHOOSE q \in lpods : SamePod(q, p) ELSE None]]
    BY <1>3 DEF RefreshRead
  <2>3. got'[t].kind = "pod" /\ got'[t].obj # None => SamePod(got'[t].obj, got'[t].key)
    <3>1. CASE got' = [got EXCEPT ![t] = [kind |-> "dep", obj |-> ldep]]
      BY <2>1, <3>1
    <3>2. ASSUME NEW p, got' = [got EXCEPT ![t] = [kind |-> "pod", key |-> p, obj |->
                        IF \E q \in lpods : SamePod(q, p)
                        THEN CHOOSE q \in lpods : SamePod(q, p) ELSE None]], got'[t].obj # None
          PROVE  SamePod(got'[t].obj, got'[t].key)
      <4>1. /\ got'[t].key = p
            /\ got'[t].obj = IF \E q \in lpods : SamePod(q, p) THEN CHOOSE q \in lpods : SamePod(q, p) ELSE None
        BY <2>1, <3>2
      <4>2. (\E q \in lpods : SamePod(q, p)) => SamePod(CHOOSE q \in lpods : SamePod(q, p), p)
        OBVIOUS
      <4> QED BY <3>2, <4>1, <4>2
    <3> QED BY <2>2, <3>1, <3>2
  <2>4. \A u \in Tasks \ {t} : got'[u] = got[u]
    BY <2>1, <2>2
  <2>5. \A u \in Tasks : got'[u] # None /\ got'[u].kind = "pod" /\ got'[u].obj # None
                            => SamePod(got'[u].obj, got'[u].key)
    BY <2>3, <2>4 DEF Held
  <2>6. ~late => StoreHeld(app')
    BY <2>1, HeldNow
  <2> QED BY <1>0, <2>1, <2>5, <2>6, HeldOwn
<1>4. CASE RefreshWrite(t)
  <2> DEFINE r == got[t]
  <2>1. /\ got' = [got EXCEPT ![t] = None] /\ r # None
        /\ late' = (late \/ (r.obj # None /\ Removed(r)))
        /\ app' = CASE r.kind = "dep" /\ r.obj = None -> [app EXCEPT !.dep = None]
                    [] r.kind = "dep" /\ r.obj # None -> SetDeployment(app, r.obj)
                    [] r.kind = "pod" /\ r.obj = None -> DeletePods(app, r.key)
                    [] OTHER -> SetPods(app, r.obj)
    BY <1>4 DEF RefreshWrite
  <2>2. r \in Reads /\ app \in AppServices
    BY <2>1 DEF TypeOK, Active
  <2>3. r.kind = "pod" /\ r.obj # None => SamePod(r.obj, r.key)
    BY <2>1 DEF Held
  <2> HIDE DEF r
  <2>4. \A u \in Tasks : got'[u] # None => got'[u] = got[u]
    BY <2>1 DEF TypeOK
  <2>5. ASSUME ~late, ~late' PROVE StoreHeld(app')
    <3>0. (r.obj = None \/ ~Removed(r)) /\ StoreHeld(app) /\ app # None
      BY <2>1, <2>2, <2>5, HeldNow, NoneIsNothing
    <3>1. CASE r.kind = "dep" /\ r.obj = None
      BY <1>1, <2>1, <2>5, <3>0, <3>1
    <3>2. CASE r.kind = "dep" /\ r.obj # None /\ r.obj \in Deployments
      <4>1. hdep # None \/ dnotes # <<>>
        BY <3>0, <3>2 DEF Removed
      <4>2. app' = SetDeployment(app, r.obj) /\ app'.pods = app.pods
        BY <2>1, <2>2, <3>2, AppTypes
      <4> QED BY <3>0, <4>1, <4>2 DEF StoreHeld, DepHeld
    <3>3. CASE r.kind = "pod" /\ r.obj = None /\ r.key \in Pods
      <4>1. app' = DeletePods(app, r.key)
        BY <2>1, <3>3
      <4>2. app'.pods = Others(app.pods, r.key) /\ app'.dep = app.dep
        BY <2>2, <3>3, <4>1, AppFields
      <4> QED BY <3>0, <4>2 DEF StoreHeld, DepHeld, Others
    <3>4. CASE r.kind = "pod" /\ r.obj # None /\ r.obj \in Pods
      <4>1. app'.pods = {r.obj} \cup Others(app.pods, r.obj) /\ app'.dep = app.dep
        BY <2>1, <2>2, <3>4, AppFields
      <4>2. PodHeld(r.obj)
        BY <2>3, <3>0, <3>4 DEF PodHeld, Removed, SamePod, NotePod
      <4> QED BY <3>0, <4>1, <4>2 DEF StoreHeld, DepHeld, Others
    <3> QED BY <2>2, <3>1, <3>2, <3>3, <3>4, ReadTypes
  <2>6. late => late'
    BY <2>1
  <2>7. \A u \in Tasks : got'[u] # None /\ got'[u].kind = "pod" /\ got'[u].obj # None
                            => SamePod(got'[u].obj, got'[u].key)
    BY <2>4 DEF Held
  <2> QED BY <1>0, <2>5, <2>6, <2>7, HeldOwn
<1>5. CASE \/ DeleteWorkload(t) \/ DeleteAllPods(t) \/ WaitStop(t) \/ RestartInit(t) \/ Create(t) \/ Patch(t)
           \/ WaitReady(t) \/ callback(t) \/ Submit(t)
  BY <1>2, <1>5 DEF DeleteWorkload, DeleteAllPods, WaitStop, RestartInit, Create, Patch, WaitReady, callback,
     Submit, store, Register
<1>6. CASE DeleteDeployment(t)
  <2>1. app # None
    BY <1>6 DEF DeleteDeployment, TypeOK, Active
  <2> QED BY <1>2, <1>6, <2>1, HandlerTypes DEF DeleteDeployment
<1>7. CASE AnalystToExec(t)
  <2>1. ~Down => app # None
    BY DEF Down
  <2> QED BY <1>2, <1>7, <2>1 DEF AnalystToExec, ErrCallback, startExec, stopExec, horizontalScalingExec,
       rollingUpgradeExec, InitFails, Refuse, Register, store
<1> QED BY <1>3, <1>4, <1>5, <1>6, <1>7 DEF Controller

\* Informers, handlers and Kubernetes.
LEMMA HeldOutside ==
    ASSUME TypeOK, Held, Informer \/ Resync \/ Kubernetes \/ UNCHANGED vars
    PROVE  Held'
<1>0. /\ dnotes \in Seq(Deployments \cup {None}) /\ pnotes \in Seq(Notes)
      /\ app \in AppServices \cup {None} /\ hdep \in Deployments \cup {None} /\ hpods \subseteq Pods
      /\ UNCHANGED <<got, late>>
  BY DEF TypeOK, Informer, DeploymentSeen, PodSeen, DeploymentEvent, PodEvent, Resync, Kubernetes, vars, store
<1>1. ASSUME ~late =>
               /\ app' # None /\ app'.dep # None /\ app'.dep.rv => hdep' # None \/ dnotes' # <<>>
               /\ app' # None => \A p \in app'.pods : PodHeld(p)'
      PROVE  Held'
  BY <1>0, <1>1 DEF Held, PodHeld
<1>2. CASE DeploymentSeen
  <2>1. UNCHANGED <<app, hpods, pnotes>> /\ dnotes' # <<>>
    BY <1>0, <1>2 DEF DeploymentSeen, store
  <2> QED BY <1>1, <2>1, HeldNow DEF StoreHeld, PodHeld, NotePod
<1>3. ASSUME NEW p, PodSeen(p) PROVE Held'
  <2>1. UNCHANGED <<app, hpods, hdep, dnotes>> /\ \E n : pnotes' = Append(pnotes, n)
    BY <1>3 DEF PodSeen, store
  <2>2. \A i \in DOMAIN pnotes : i \in DOMAIN pnotes' /\ pnotes'[i] = pnotes[i]
    BY <1>0, <2>1
  <2> QED BY <1>1, <2>1, <2>2, HeldNow DEF StoreHeld, DepHeld, PodHeld, NotePod
<1>4. CASE DeploymentEvent
  <2>1. /\ UNCHANGED <<hpods, pnotes>> /\ hdep' \in Deployments \cup {None}
        /\ app' = IF hdep' = None THEN OnDeletes ELSE OnAdd(hdep')
    BY <1>0, <1>4 DEF DeploymentEvent
  <2>2. CASE hdep' = None
    <3>1. CASE app = None
      BY <1>1, <2>1, <2>2, <3>1, HandlerTypes
    <3>2. CASE app # None
      <4>0. app' = [app EXCEPT !.dep = None] /\ app \in AppServices
        BY <1>0, <2>1, <2>2, <3>2, HandlerTypes
      <4>1. app'.dep = None /\ app'.pods = app.pods
        BY <4>0, AppFields
      <4> QED BY <1>1, <2>1, <3>2, <4>1, HeldNow DEF StoreHeld, PodHeld, NotePod
    <3> QED BY <3>1, <3>2
  <2>3. CASE hdep' # None
    <3>1. app'.pods = IF app = None THEN {} ELSE app.pods
      BY <2>1, <2>3, HandlerTypes
    <3> QED BY <1>1, <2>1, <2>3, <3>1, HeldNow DEF StoreHeld, PodHeld, NotePod
  <2> QED BY <2>2, <2>3
<1>5. CASE PodEvent
  <2>0. UNCHANGED <<hdep, dnotes>> /\ pnotes # <<>> /\ pnotes' = Tail(pnotes)
    BY <1>5 DEF PodEvent
  <2>1. PICK p \in Pods : /\ p = Head(pnotes).pod
                          /\ \/ hpods' = {p} \cup Others(hpods, p) /\ app' = OnAddPod(p)
                             \/ hpods' = Others(hpods, p) /\ app' = OnDeletePod(p)
    <3>1. Head(pnotes) \in Notes
      BY <1>0, <2>0
    <3> QED BY <1>5, <3>1 DEF PodEvent, Notes
  <2>2. Head(pnotes) = pnotes[1] /\ \A i \in DOMAIN pnotes : i = 1 \/ (i - 1 \in DOMAIN pnotes' /\ pnotes'[i - 1] = pnotes[i])
    BY <1>0, <2>0
  <2>3. p = NotePod(1)
    BY <2>1, <2>2 DEF NotePod
  <2>4. ASSUME NEW q, PodHeld(q), ~SamePod(p, q) PROVE PodHeld(q)'
    <3>1. CASE \E r \in hpods : SamePod(r, q)
      <4>1. PICK r \in hpods : SamePod(r, q)
        BY <3>1
      <4>2. r \in hpods'
        BY <2>1, <2>4, <4>1 DEF Others, SamePod
      <4> QED BY <4>1, <4>2 DEF PodHeld
    <3>2. ASSUME NEW i \in DOMAIN pnotes, SamePod(NotePod(i), q) PROVE PodHeld(q)'
      <4>1. i # 1
        BY <2>3, <2>4, <3>2
      <4>2. i - 1 \in DOMAIN pnotes' /\ pnotes'[i - 1] = pnotes[i]
        BY <2>2, <4>1
      <4> QED BY <3>2, <4>2 DEF PodHeld, NotePod
    <3> QED BY <2>4, <3>1, <3>2 DEF PodHeld
  <2>5. CASE hpods' = {p} \cup Others(hpods, p) /\ app' = OnAddPod(p)
    <3>1. /\ app'.dep = (IF app = None THEN None ELSE app.dep)
          /\ app'.pods = {p} \cup Others(IF app = None THEN {} ELSE app.pods, p)
      BY <2>1, <2>5, HandlerTypes
    <3>2. PodHeld(p)'
      BY <2>5 DEF PodHeld, SamePod
    <3> QED BY <1>1, <2>0, <2>4, <3>1, <3>2, HeldNow DEF StoreHeld, DepHeld, Others
  <2>6. CASE app' = OnDeletePod(p) /\ app = None
    BY <1>1, <2>6, HandlerTypes
  <2>7. CASE app' = OnDeletePod(p) /\ app # None
    <3>1. app'.dep = app.dep /\ app'.pods = Others(app.pods, p)
      BY <1>0, <2>1, <2>7, HandlerTypes, AppFields
    <3> QED BY <1>1, <2>0, <2>4, <2>7, <3>1, HeldNow DEF StoreHeld, DepHeld, Others
  <2> QED BY <2>1, <2>5, <2>6, <2>7
<1>6. CASE Resync
  <2>1. UNCHANGED <<hdep, dnotes, hpods, pnotes>>
    BY <1>6 DEF Resync, informers
  <2>2. \A p : PodHeld(p)' <=> PodHeld(p)
    BY <2>1 DEF PodHeld, NotePod
  <2>3. CASE hdep # None /\ app' = OnAdd(hdep)
    <3>1. app'.pods = IF app = None THEN {} ELSE app.pods
      BY <1>0, <2>3, HandlerTypes
    <3> QED BY <1>1, <2>1, <2>2, <2>3, <3>1, HeldNow DEF StoreHeld
  <2>4. ASSUME NEW p \in hpods, app' = OnAddPod(p) PROVE Held'
    <3>1. /\ app'.dep = (IF app = None THEN None ELSE app.dep)
          /\ app'.pods = {p} \cup Others(IF app = None THEN {} ELSE app.pods, p)
      BY <1>0, <2>4, HandlerTypes
    <3>2. PodHeld(p)
      BY DEF PodHeld, SamePod
    <3> QED BY <1>1, <2>1, <2>2, <3>1, <3>2, HeldNow DEF StoreHeld, DepHeld, Others
  <2> QED BY <1>6, <2>3, <2>4 DEF Resync
<1>7. CASE Kubernetes \/ UNCHANGED vars
  <2>1. UNCHANGED <<app, hdep, dnotes, hpods, pnotes>>
    BY <1>7 DEF Kubernetes, vars, store, informers
  <2> QED BY <1>1, <2>1, HeldNow DEF StoreHeld, DepHeld, PodHeld, NotePod
<1> QED BY <1>2, <1>3, <1>4, <1>5, <1>6, <1>7 DEF Informer

\* The invariant holds in every behaviour.
LEMMA InitInv == Init => IInv
<1> SUFFICES ASSUME Init PROVE IInv
  OBVIOUS
<1>1. /\ TypeOK /\ QueueInv /\ \A t \in Tasks : got[t] = None
      /\ Deployed => app \in AppServices /\ app.pods = pods
  BY InitTypes DEF Init
<1>2. /\ dwatch = <<>> /\ dnotes = <<>> /\ pnotes = <<>> /\ ldep = dep /\ hdep = dep /\ lpods = pods /\ hpods = pods
      /\ app # None => Deployed
      /\ Deployed => pods = {[uid |-> None, ver |-> 0, st |-> "running"]} /\ dep = [uid |-> None, ver |-> 0]
      /\ ~Deployed => pods = {}
  BY DEF Init
<1>3. DepFollowed
  BY <1>2 DEF DepFollowed, LastOf
<1>4. PodsFollowed
  <2>1. \A p, q \in pods : p = q
    BY <1>2
  <2>2. DOMAIN pnotes = {}
    BY <1>2
  <2> QED BY <1>2, <2>1, <2>2 DEF PodsFollowed, OnePerPod, HandledPods, NotedPods, ListedPods, SamePod
<1>5. Held
  <2>1. Deployed => dep # None
    <3>1. [uid |-> None, ver |-> 0] \in Deployments
      BY DEF Deployments, Uids, Versions
    <3> QED BY <1>2, <3>1, NoneIsNothing
  <2>2. app # None => hdep # None /\ app.pods = hpods
    BY <1>1, <1>2, <2>1
  <2> QED BY <1>1, <2>2 DEF Held, SamePod
<1> QED BY <1>1, <1>3, <1>4, <1>5 DEF IInv

LEMMA NextInv == IInv /\ [Next]_vars => IInv'
<1> SUFFICES ASSUME IInv, [Next]_vars PROVE Held'
  BY NextTypes, DepStep, PodsStep DEF IInv
<1> QED BY HeldController, HeldOutside DEF Next, IInv

THEOREM RuntimeInvariant == Spec => []IInv
<1> QED BY InitInv, NextInv, PTL DEF Spec

\* What is in the store and gone from the cluster is still to be taken out of the
\* store, whatever any number of controllers write between the handlers' events;
\* only a refresh that was overtaken by the handling of a deletion can change that.
THEOREM StoreHasNoGhosts == Spec => []NoGhosts
<1>1. IInv => NoGhosts
  <2> SUFFICES ASSUME IInv, app # None, ~late
               PROVE  /\ app.dep # None /\ app.dep.rv /\ dep = None =>
                            \E i \in DOMAIN (dnotes \o dwatch) : (dnotes \o dwatch)[i] = None
                      /\ \A p \in app.pods :
                            \/ \E q \in lpods : SamePod(p, q)
                            \/ \E i \in DOMAIN pnotes : pnotes[i].gone /\ SamePod(pnotes[i].pod, p)
    BY DEF NoGhosts
  <2>0. dwatch \in Seq(Deployments \cup {None}) /\ dnotes \in Seq(Deployments \cup {None})
    BY DEF IInv, TypeOK
  <2>1. ASSUME app.dep # None, app.dep.rv, dep = None
        PROVE  \E i \in DOMAIN (dnotes \o dwatch) : (dnotes \o dwatch)[i] = None
    <3>0. /\ DOMAIN (dnotes \o dwatch) = 1..(Len(dnotes) + Len(dwatch))
          /\ \A i \in DOMAIN dnotes : i \in 1..(Len(dnotes) + Len(dwatch)) /\ (dnotes \o dwatch)[i] = dnotes[i]
          /\ \A i \in DOMAIN dwatch : /\ i + Len(dnotes) \in 1..(Len(dnotes) + Len(dwatch))
                                      /\ (dnotes \o dwatch)[i + Len(dnotes)] = dwatch[i]
      BY <2>0
    <3>1. hdep # None \/ dnotes # <<>>
      BY <2>1 DEF IInv, Held
    <3>2. CASE \E i \in DOMAIN dwatch : dwatch[i] = None
      BY <3>0, <3>2
    <3>3. CASE dwatch = <<>> /\ ldep = None
      <4>1. \E i \in DOMAIN dnotes : dnotes[i] = None
        BY <2>0, <3>1, <3>3, LastIn DEF IInv, DepFollowed
      <4> QED BY <3>0, <4>1
    <3> QED BY <2>0, <2>1, <3>2, <3>3, LastIn DEF IInv, DepFollowed
  <2>2. ASSUME NEW p \in app.pods
        PROVE  \/ \E q \in lpods : SamePod(p, q)
               \/ \E i \in DOMAIN pnotes : pnotes[i].gone /\ SamePod(pnotes[i].pod, p)
    <3>1. CASE \E q \in hpods : SamePod(q, p)
      BY <3>1 DEF IInv, PodsFollowed, HandledPods, SamePod, NotePod
    <3>2. CASE \E i \in DOMAIN pnotes : SamePod(NotePod(i), p)
      BY <3>2 DEF IInv, PodsFollowed, NotedPods, SamePod, NotePod
    <3> QED BY <3>1, <3>2 DEF IInv, Held
  <2> QED BY <2>1, <2>2
<1> QED BY <1>1, RuntimeInvariant, PTL

-----------------------------------------------------------------------------
\* The store at rest: the safety half of StoreConverges.

\* The informers have seen everything, the handlers have taken every note, and a
\* resync would change nothing.
AtRest ==
    /\ dwatch = <<>> /\ dnotes = <<>> /\ pnotes = <<>> /\ lpods = pods
    /\ hdep # None => OnAdd(hdep) = app
    /\ \A p \in hpods : OnAddPod(p) = app
RestAgrees == AtRest => Agrees

\* Whatever the controllers and the handlers wrote over each other: when no event
\* is left and the resync has nothing to put right, the store has the Deployment,
\* the version and the pods of the cluster as they are there, and nothing else
\* unless a refresh put back what had been removed.
THEOREM StoreAgreesAtRest == Spec => []RestAgrees
<1>1. IInv => RestAgrees
  <2> SUFFICES ASSUME IInv, AtRest PROVE Agrees
    BY DEF RestAgrees
  <2>0. TypeOK /\ hdep \in Deployments \cup {None} /\ hpods \subseteq Pods /\ app \in AppServices \cup {None}
    BY DEF IInv, TypeOK
  <2>1. hdep = dep /\ pods \subseteq hpods
    <3>1. hdep = dep
      BY DEF IInv, DepFollowed, LastOf, AtRest
    <3>2. DOMAIN pnotes = {}
      BY DEF AtRest
    <3> QED BY <3>1, <3>2 DEF IInv, PodsFollowed, ListedPods, AtRest
  <2>2. \A p \in hpods : /\ app # None /\ p \in app.pods
                         /\ \A q \in app.pods : SamePod(p, q) => q = p
    <3> SUFFICES ASSUME NEW p \in hpods
                 PROVE  app # None /\ p \in app.pods /\ \A q \in app.pods : SamePod(p, q) => q = p
      OBVIOUS
    <3>1. app = OnAddPod(p) /\ p \in Pods
      BY <2>0 DEF AtRest
    <3>2. app \in AppServices /\ app # None
      BY <2>0, <3>1, HandlerTypes, NoneIsNothing
    <3>3. app.pods = {p} \cup Others(app.pods, p)
      BY <2>0, <3>1, <3>2, HandlerTypes
    <3> QED BY <3>2, <3>3 DEF Others
  <2>3. ASSUME dep # None
        PROVE  app # None /\ app.dep = [rv |-> TRUE, ver |-> dep.ver] /\ app.ver = dep.ver
    BY <2>0, <2>1, <2>3, HandlerTypes, NoneIsNothing DEF AtRest
  <2>4. ASSUME app # None, ~late PROVE app.pods = pods /\ (dep = None => (app.dep # None => ~app.dep.rv))
    <3>1. DOMAIN pnotes = {}
      BY DEF AtRest
    <3>2. \A p \in app.pods : \E q \in hpods : SamePod(q, p)
      BY <2>4, <3>1 DEF IInv, Held
    <3>3. \A p \in hpods : \E q \in pods : SamePod(q, p)
      BY <3>1 DEF IInv, PodsFollowed, HandledPods, AtRest
    <3>4. app.pods \subseteq hpods /\ hpods \subseteq pods
      BY <2>1, <2>2, <3>2, <3>3
    <3>5. app.dep # None /\ app.dep.rv => dep # None
      BY <2>1, <2>4 DEF IInv, Held, AtRest
    <3> QED BY <2>1, <2>2, <3>4, <3>5
  <2> QED BY <2>1, <2>2, <2>3, <2>4 DEF Agrees
<1> QED BY <1>1, RuntimeInvariant, PTL

-----------------------------------------------------------------------------
\* Versions.

\* Every version in sight was written to the database.
Upto(d) == d # None => d.ver <= dbver
AppUpto(a) == a # None => a.ver <= dbver /\ Upto(a.dep)
KnownVersions ==
    /\ Upto(dep) /\ Upto(ldep) /\ Upto(hdep)
    /\ \A i \in DOMAIN dwatch : Upto(dwatch[i])
    /\ \A i \in DOMAIN dnotes : Upto(dnotes[i])
    /\ \A t \in Tasks : got[t] # None /\ got[t].kind = "dep" => Upto(got[t].obj)
    /\ AppUpto(app) /\ \A t \in Tasks : snap[t].ver <= dbver
    /\ \A p \in pods : p.ver <= dbver

\* The AppServices a step writes, by the versions they name.
LEMMA KnownApps ==
    ASSUME TypeOK, KnownVersions
    PROVE  /\ AppUpto(NewApp) /\ NewApp.ver <= dbver
           /\ \A a \in AppServices : AppUpto(a) =>
                 /\ AppUpto([a EXCEPT !.dep = None]) /\ AppUpto([a EXCEPT !.ver = dbver])
                 /\ \A d \in Deployments : Upto(d) => AppUpto(SetDeployment(a, d))
                 /\ \A p \in Pods : AppUpto(SetPods(a, p)) /\ AppUpto(DeletePods(a, p))
           /\ \A d \in Deployments : Upto(d) => AppUpto(OnAdd(d))
           /\ \A p \in Pods : AppUpto(OnAddPod(p))
<1>0. dbver \in Nat /\ (app # None => app \in AppServices)
  BY DEF TypeOK, Versions
<1>1. AppUpto(NewApp) /\ NewApp.ver <= dbver
  <2>1. NewApp.ver = dbver /\ NewApp.dep.ver = dbver
    BY AppTypes
  <2> QED BY <1>0, <2>1 DEF AppUpto, Upto
<1>2. ASSUME NEW a \in AppServices, AppUpto(a)
      PROVE  /\ AppUpto([a EXCEPT !.dep = None]) /\ AppUpto([a EXCEPT !.ver = dbver])
             /\ \A d \in Deployments : Upto(d) => AppUpto(SetDeployment(a, d))
             /\ \A p \in Pods : AppUpto(SetPods(a, p)) /\ AppUpto(DeletePods(a, p))
  <2>0. a.ver <= dbver /\ Upto(a.dep)
    BY <1>2, NoneIsNothing DEF AppUpto
  <2>1. AppUpto([a EXCEPT !.dep = None])
    BY <2>0, AppFields DEF AppUpto, Upto
  <2>2. AppUpto([a EXCEPT !.ver = dbver])
    BY <1>0, <2>0, AppFields DEF AppUpto
  <2>3. ASSUME NEW d \in Deployments, Upto(d) PROVE AppUpto(SetDeployment(a, d))
    <3>1. SetDeployment(a, d).ver = d.ver /\ SetDeployment(a, d).dep = [rv |-> TRUE, ver |-> d.ver]
      BY AppTypes
    <3>2. d.ver <= dbver /\ SetDeployment(a, d).dep.ver = d.ver
      BY <2>3, <3>1, NoneIsNothing DEF Upto
    <3> QED BY <3>1, <3>2 DEF AppUpto, Upto
  <2>4. ASSUME NEW p \in Pods PROVE AppUpto(SetPods(a, p)) /\ AppUpto(DeletePods(a, p))
    BY <2>0, AppFields DEF AppUpto
  <2> QED BY <2>1, <2>2, <2>3, <2>4
<1>3. ASSUME NEW d \in Deployments, Upto(d) PROVE AppUpto(OnAdd(d))
  <2>1. OnAdd(d).ver = d.ver /\ OnAdd(d).dep = [rv |-> TRUE, ver |-> d.ver]
    BY HandlerTypes
  <2>2. d.ver <= dbver /\ OnAdd(d).dep.ver = d.ver
    BY <1>3, <2>1, NoneIsNothing DEF Upto
  <2> QED BY <2>1, <2>2 DEF AppUpto, Upto
<1>4. ASSUME NEW p \in Pods PROVE AppUpto(OnAddPod(p))
  <2>1. OnAddPod(p).ver <= dbver /\ Upto(OnAddPod(p).dep)
    BY <1>0, HandlerTypes DEF KnownVersions, AppUpto, Upto
  <2> QED BY <2>1 DEF AppUpto
<1> QED BY <1>1, <1>2, <1>3, <1>4

LEMMA KnownInit == Init => KnownVersions
<1> SUFFICES ASSUME Init PROVE KnownVersions
  OBVIOUS
<1>1. /\ dwatch = <<>> /\ dnotes = <<>> /\ ldep = dep /\ hdep = dep /\ dbver = 0
      /\ snap = [t \in Tasks |-> CacheApp] /\ got = [t \in Tasks |-> None]
      /\ dep # None => dep = [uid |-> None, ver |-> 0]
      /\ \A p \in pods : p = [uid |-> None, ver |-> 0, st |-> "running"]
      /\ app # None => Deployed
  BY DEF Init
<1>2. CacheApp.ver = 0 /\ (app # None => app.ver = 0 /\ app.dep.ver = 0)
  BY <1>1, InitTypes, AppTypes
<1> QED BY <1>1, <1>2 DEF KnownVersions, Upto, AppUpto

\* A step that leaves the database alone.
LEMMA KnownFrame ==
    ASSUME UNCHANGED dbver, Upto(dep'), Upto(ldep'), Upto(hdep'), AppUpto(app'),
           \A i \in DOMAIN dwatch' : Upto(dwatch'[i]), \A i \in DOMAIN dnotes' : Upto(dnotes'[i]),
           \A t \in Tasks : got'[t] # None /\ got'[t].kind = "dep" => Upto(got'[t].obj),
           \A t \in Tasks : snap'[t].ver <= dbver, \A q \in pods' : q.ver <= dbver
    PROVE  KnownVersions'
<1> QED BY DEF KnownVersions, Upto, AppUpto

LEMMA KnownController ==
    ASSUME TypeOK, KnownVersions, NEW t \in Tasks, Controller(t)
    PROVE  KnownVersions'
<1>0. /\ dep \in Deployments \cup {None} /\ dwatch \in Seq(Deployments \cup {None}) /\ snap \in [Tasks -> AppServices]
      /\ got \in [Tasks -> Reads \cup {None}] /\ (app # None => app \in AppServices) /\ AppUpto(app)
  BY DEF TypeOK, KnownVersions
<1>1. UNCHANGED <<dbver, ldep, hdep, dnotes>> /\ \A q \in pods' : q \in pods
  BY DEF Controller, DeleteWorkload, DeleteDeployment, DeleteAllPods, WaitStop, RestartInit, Create, Patch,
     WaitReady, RefreshRead, RefreshWrite, callback, tasks, cluster, informers
<1>2. AppUpto(app')
  <2>1. CASE RefreshWrite(t)
    <3> DEFINE r == got[t]
    <3>1. /\ r \in Reads /\ app \in AppServices /\ (r.kind = "dep" => Upto(r.obj))
          /\ app' = CASE r.kind = "dep" /\ r.obj = None -> [app EXCEPT !.dep = None]
                      [] r.kind = "dep" /\ r.obj # None -> SetDeployment(app, r.obj)
                      [] r.kind = "pod" /\ r.obj = None -> DeletePods(app, r.key)
                      [] OTHER -> SetPods(app, r.obj)
      BY <2>1 DEF RefreshWrite, TypeOK, Active, KnownVersions
    <3> HIDE DEF r
    <3> QED BY <1>0, <3>1, ReadTypes, KnownApps
  <2>2. CASE DeleteDeployment(t)
    <3>1. app # None /\ app' \in {app, [app EXCEPT !.dep = None]}
      BY <2>2, HandlerTypes DEF DeleteDeployment, TypeOK, Active
    <3> QED BY <1>0, <3>1, KnownApps
  <2>3. CASE ~RefreshWrite(t) /\ ~DeleteDeployment(t)
    <3>1. app' \in {app, NewApp}
      BY <2>3 DEF Controller, DeleteWorkload, DeleteAllPods, WaitStop, RestartInit, Create, Patch,
         WaitReady, RefreshRead, callback, store, Register
    <3> QED BY <1>0, <3>1, KnownApps
  <2> QED BY <2>1, <2>2, <2>3
<1>3. \A u \in Tasks : snap'[u].ver <= dbver
  <2>1. UNCHANGED snap \/ snap' = [snap EXCEPT ![t] = NewApp]
    BY DEF Controller, DeleteWorkload, DeleteDeployment, DeleteAllPods, WaitStop, RestartInit, Create, Patch,
       WaitReady, RefreshRead, RefreshWrite, callback
  <2> QED BY <1>0, <2>1, KnownApps DEF KnownVersions
<1>4. Upto(dep') /\ (dwatch' = dwatch \/ dwatch' = Append(dwatch, dep'))
  <2>1. CASE \/ DeleteAllPods(t) \/ WaitStop(t) \/ RestartInit(t) \/ WaitReady(t) \/ RefreshRead(t)
             \/ RefreshWrite(t) \/ callback(t)
    BY <2>1 DEF DeleteAllPods, WaitStop, RestartInit, WaitReady, RefreshRead, RefreshWrite, callback, cluster,
       KnownVersions
  <2>2. CASE DeleteWorkload(t) \/ DeleteDeployment(t)
    BY <2>2 DEF DeleteWorkload, DeleteDeployment, Deleted, KnownVersions, Upto
  <2>3. CASE Create(t)
    BY <2>3 DEF Create, KnownVersions, Upto
  <2>4. CASE Patch(t)
    BY <1>0, <2>4 DEF Patch, KnownVersions, Upto, Deployments
  <2> QED BY <2>1, <2>2, <2>3, <2>4 DEF Controller
<1>5. \A i \in DOMAIN dwatch' : Upto(dwatch'[i])
  <2>1. CASE dwatch' = dwatch
    BY <2>1 DEF KnownVersions
  <2>2. CASE dwatch' = Append(dwatch, dep')
    <3>1. \A i \in DOMAIN dwatch' : dwatch'[i] = dep' \/ (i \in DOMAIN dwatch /\ dwatch'[i] = dwatch[i])
      BY <1>0, <2>2
    <3> QED BY <1>4, <3>1 DEF KnownVersions
  <2> QED BY <1>4, <2>1, <2>2
<1>6. \A u \in Tasks : got'[u] # None /\ got'[u].kind = "dep" => Upto(got'[u].obj)
  <2>1. CASE RefreshRead(t)
    <3>1. \/ got' = [got EXCEPT ![t] = [kind |-> "dep", obj |-> ldep]]
          \/ \E p, o : got' = [got EXCEPT ![t] = [kind |-> "pod", key |-> p, obj |-> o]]
      BY <2>1 DEF RefreshRead
    <3> QED BY <1>0, <3>1 DEF KnownVersions
  <2>2. CASE ~RefreshRead(t)
    <3>1. UNCHANGED got \/ got' = [u \in Tasks |-> None] \/ got' = [got EXCEPT ![t] = None]
      BY <2>2 DEF Controller, DeleteWorkload, DeleteDeployment, DeleteAllPods, WaitStop, RestartInit, Create,
         Patch, WaitReady, RefreshWrite, callback, store, Register
    <3> QED BY <1>0, <3>1 DEF KnownVersions
  <2> QED BY <2>1, <2>2
<1> QED BY <1>1, <1>2, <1>3, <1>4, <1>5, <1>6, KnownFrame DEF KnownVersions

LEMMA KnownAnalyst ==
    ASSUME TypeOK, KnownVersions, NEW t \in Tasks, AnalystToExec(t)
    PROVE  KnownVersions'
<1>0. /\ snap \in [Tasks -> AppServices] /\ (app # None => app \in AppServices) /\ AppUpto(app)
      /\ dbver \in Nat /\ NewApp \in AppServices
  BY AppTypes DEF TypeOK, KnownVersions, Versions
<1>1. UNCHANGED <<dbver, dep, pods, dwatch, ldep, hdep, dnotes>>
  BY DEF AnalystToExec, ErrCallback, cluster, informers
<1>2. ~Down => app # None
  BY DEF Down
<1>3. /\ app' \in {app, NewApp} \/ (app # None /\ app' = [app EXCEPT !.ver = dbver])
      /\ UNCHANGED got \/ got' = [u \in Tasks |-> None]
  BY <1>2 DEF AnalystToExec, ErrCallback, startExec, stopExec, horizontalScalingExec, rollingUpgradeExec,
     InitFails, Refuse, Register, store
<1>4. \/ UNCHANGED snap
      \/ \E a \in AppServices : a.ver <= dbver /\ snap' = [snap EXCEPT ![t] = a]
  <2>0. app # None => app \in AppServices /\ app.ver <= dbver
    BY <1>0 DEF AppUpto
  <2>1. NewApp \in AppServices /\ NewApp.ver <= dbver
    BY <1>0, KnownApps
  <2>2. /\ [NewApp EXCEPT !.dep = IF app.dep = None THEN None ELSE @] \in AppServices
        /\ [NewApp EXCEPT !.dep = IF app.dep = None THEN None ELSE @].ver <= dbver
    BY <2>1 DEF AppServices
  <2>3. CASE ErrCallback(t) \/ InitFails(t)
    BY <2>3 DEF ErrCallback, InitFails
  <2>4. CASE startExec(t) \/ stopExec(t) \/ horizontalScalingExec(t)
    BY <1>2, <2>0, <2>1, <2>4 DEF startExec, stopExec, horizontalScalingExec, Refuse, StartController
  <2>5. CASE rollingUpgradeExec(t)
    BY <2>1, <2>2, <2>5 DEF rollingUpgradeExec, StartController
  <2> QED BY <2>3, <2>4, <2>5 DEF AnalystToExec
<1>5. \A u \in Tasks : snap'[u].ver <= dbver
  BY <1>0, <1>4 DEF KnownVersions
<1>6. AppUpto(app')
  BY <1>0, <1>3, KnownApps
<1>7. \A u \in Tasks : got'[u] # None /\ got'[u].kind = "dep" => Upto(got'[u].obj)
  BY <1>3 DEF KnownVersions
<1> QED BY <1>1, <1>5, <1>6, <1>7, KnownFrame DEF KnownVersions

LEMMA KnownSubmit ==
    ASSUME TypeOK, KnownVersions, NEW t \in Tasks, Submit(t)
    PROVE  KnownVersions'
<1>0. /\ dbver \in Nat /\ app \in AppServices \cup {None} /\ ldep \in Deployments \cup {None}
      /\ dep \in Deployments \cup {None} /\ hdep \in Deployments \cup {None}
      /\ dwatch \in Seq(Deployments \cup {None}) /\ dnotes \in Seq(Deployments \cup {None})
      /\ snap \in [Tasks -> AppServices] /\ pods \subseteq Pods /\ got \in [Tasks -> Reads \cup {None}]
  BY DEF TypeOK, Versions
<1>1. /\ UNCHANGED <<dep, pods, dwatch, ldep, hdep, dnotes, app, got, snap>>
      /\ dbver' \in Nat /\ dbver <= dbver'
  BY <1>0 DEF Submit, cluster, informers, store
<1>2. \A n \in Nat : n <= dbver => n <= dbver'
  BY <1>0, <1>1
<1>3. \A d \in Deployments : d.ver \in Nat
  BY DEF Deployments, Versions
<1>4. \A d \in Deployments \cup {None} : Upto(d) => (d # None => d.ver <= dbver')
  BY <1>2, <1>3 DEF Upto
<1>5. /\ \A i \in DOMAIN dwatch : dwatch[i] \in Deployments \cup {None}
      /\ \A i \in DOMAIN dnotes : dnotes[i] \in Deployments \cup {None}
      /\ \A u \in Tasks : got[u] # None /\ got[u].kind = "dep" => got[u].obj \in Deployments \cup {None}
  BY <1>0, ReadTypes
<1>6. /\ Upto(dep)' /\ Upto(ldep)' /\ Upto(hdep)' /\ \A i \in DOMAIN dwatch' : Upto(dwatch[i])'
      /\ \A i \in DOMAIN dnotes' : Upto(dnotes[i])'
      /\ \A u \in Tasks : got'[u] # None /\ got'[u].kind = "dep" => Upto(got[u].obj)'
  BY <1>0, <1>1, <1>4, <1>5 DEF KnownVersions, Upto
<1>7. AppUpto(app)' /\ \A u \in Tasks : snap'[u].ver <= dbver'
  BY <1>0, <1>1, <1>2, AppFields DEF KnownVersions, Upto, AppUpto
<1>8. \A q \in pods' : q.ver <= dbver'
  <2>1. \A q \in Pods : q.ver \in Nat
    BY DEF Pods, Versions
  <2> QED BY <1>0, <1>1, <1>2, <2>1 DEF KnownVersions
<1> QED BY <1>6, <1>7, <1>8 DEF KnownVersions

LEMMA KnownOutside ==
    ASSUME TypeOK, KnownVersions, Informer \/ Resync \/ Kubernetes \/ UNCHANGED vars
    PROVE  KnownVersions'
<1>0. /\ (app # None => app \in AppServices) /\ AppUpto(app) /\ hdep \in Deployments \cup {None}
      /\ dwatch \in Seq(Deployments \cup {None}) /\ dnotes \in Seq(Deployments \cup {None})
      /\ pods \subseteq Pods /\ hpods \subseteq Pods /\ UNCHANGED <<dbver, dep, snap, got>>
  BY DEF TypeOK, KnownVersions, Informer, DeploymentSeen, PodSeen, DeploymentEvent, PodEvent, Resync,
     Kubernetes, vars, tasks, cluster, store
<1>1. ASSUME Upto(ldep'), Upto(hdep'), AppUpto(app'),
             \A i \in DOMAIN dwatch' : Upto(dwatch'[i]), \A i \in DOMAIN dnotes' : Upto(dnotes'[i]),
             \A q \in pods' : q.ver <= dbver
      PROVE  KnownVersions'
  BY <1>0, <1>1, KnownFrame DEF KnownVersions
<1>2. CASE DeploymentSeen
  <2>1. /\ UNCHANGED <<hdep, app, pods>> /\ ldep' = Head(dwatch) /\ dwatch' = Tail(dwatch) /\ dwatch # <<>>
        /\ dnotes' = Append(dnotes, ldep')
    BY <1>2 DEF DeploymentSeen, store
  <2>2. 1 \in DOMAIN dwatch /\ Head(dwatch) = dwatch[1]
    BY <1>0, <2>1
  <2>3. \A i \in DOMAIN Tail(dwatch) : i + 1 \in DOMAIN dwatch /\ Tail(dwatch)[i] = dwatch[i + 1]
    BY <1>0, <2>1
  <2>4. \A i \in DOMAIN dnotes' : dnotes'[i] = ldep' \/ (i \in DOMAIN dnotes /\ dnotes'[i] = dnotes[i])
    BY <1>0, <2>1
  <2> QED BY <1>0, <1>1, <2>1, <2>2, <2>3, <2>4 DEF KnownVersions
<1>3. CASE DeploymentEvent
  <2>1. /\ UNCHANGED <<ldep, dwatch, pods>> /\ hdep' = Head(dnotes) /\ dnotes' = Tail(dnotes) /\ dnotes # <<>>
        /\ app' = IF hdep' = None THEN OnDeletes ELSE OnAdd(hdep')
    BY <1>3 DEF DeploymentEvent, cluster
  <2>2. 1 \in DOMAIN dnotes /\ Head(dnotes) = dnotes[1] /\ hdep' \in Deployments \cup {None}
    BY <1>0, <2>1
  <2>3. \A i \in DOMAIN Tail(dnotes) : i + 1 \in DOMAIN dnotes /\ Tail(dnotes)[i] = dnotes[i + 1]
    BY <1>0, <2>1
  <2>4. Upto(hdep')
    BY <2>1, <2>2 DEF KnownVersions
  <2>5. AppUpto(app')
    <3>1. AppUpto(OnDeletes)
      <4>1. CASE app = None
        BY <4>1 DEF OnDeletes, AppUpto
      <4>2. CASE app # None
        BY <1>0, <4>2, HandlerTypes, KnownApps
      <4> QED BY <4>1, <4>2
    <3> QED BY <2>1, <2>2, <2>4, <3>1, KnownApps
  <2> QED BY <1>1, <2>1, <2>3, <2>4, <2>5 DEF KnownVersions
<1>4. CASE PodEvent
  <2>1. UNCHANGED <<ldep, dwatch, dnotes, hdep, pods>>
    BY <1>4 DEF PodEvent, cluster
  <2>2. PICK p \in Pods : app' \in {OnAddPod(p), OnDeletePod(p)}
    <3>1. Head(pnotes) \in Notes
      BY <1>4 DEF PodEvent, TypeOK
    <3> QED BY <1>4, <3>1 DEF PodEvent, Notes
  <2>3. AppUpto(OnDeletePod(p))
    <3>1. CASE app = None
      BY <3>1 DEF OnDeletePod, AppUpto
    <3>2. CASE app # None
      <4>1. OnDeletePod(p) = DeletePods(app, p)
        BY <3>2, HandlerTypes
      <4> QED BY <1>0, <3>2, <4>1, KnownApps
    <3> QED BY <3>1, <3>2
  <2> QED BY <1>1, <2>1, <2>2, <2>3, KnownApps DEF KnownVersions
<1>5. CASE Resync
  <2>1. UNCHANGED <<ldep, dwatch, dnotes, hdep, pods>>
    BY <1>5 DEF Resync, cluster, informers
  <2>2. AppUpto(app')
    BY <1>0, <1>5, KnownApps DEF Resync, KnownVersions
  <2> QED BY <1>1, <2>1, <2>2 DEF KnownVersions
<1>6. CASE Kubernetes
  <2>1. UNCHANGED <<ldep, dwatch, dnotes, hdep, app>>
    BY <1>6 DEF Kubernetes, informers, store
  <2>2. \A q \in pods' : q.ver <= dbver
    <3>1. CASE PodCreated
      BY <3>1 DEF PodCreated, KnownVersions, Upto
    <3>2. ASSUME NEW p \in pods, PodChanges(p) \/ PodGone(p) PROVE \A q \in pods' : q.ver <= dbver
      <4>1. p \in Pods /\ \A st : [p EXCEPT !.st = st].ver = p.ver
        BY <1>0 DEF Pods
      <4> QED BY <3>2, <4>1 DEF PodChanges, PodGone, KnownVersions
    <3> QED BY <1>6, <3>1, <3>2 DEF Kubernetes
  <2> QED BY <1>1, <2>1, <2>2 DEF KnownVersions
<1>7. CASE (\E p \in pods \cup lpods : PodSeen(p)) \/ UNCHANGED vars
  <2>1. UNCHANGED <<ldep, dwatch, dnotes, hdep, app, pods>>
    BY <1>7 DEF PodSeen, vars, informers, store, cluster
  <2> QED BY <1>1, <2>1 DEF KnownVersions
<1> QED BY <1>2, <1>3, <1>4, <1>5, <1>6, <1>7 DEF Informer

\* No Deployment, pod, note, copy or AppService of the store ever names a version
\* that was not written to the database, whatever the controllers, refreshes and
\* handlers overwrite.
THEOREM OnlyKnownVersions == Spec => []KnownVersions
<1>1. TypeOK /\ KnownVersions /\ [Next]_vars => KnownVersions'
  BY KnownController, KnownAnalyst, KnownSubmit, KnownOutside DEF Next
<1> QED BY <1>1, KnownInit, RuntimeTypeCorrect, PTL DEF Spec

-----------------------------------------------------------------------------
\* The version that is deployed, when an upgrade meets one start, stop or restart
\* and any number of scalings.  (More than that can lose an upgrade: two upgrades
\* apply their patches in either order, and a restart that read the old version
\* creates its Deployment after a stop has deleted the new one.)
Upgrades == {t \in Tasks : TaskKind[t] = "upgrade"}
Movers == {t \in Tasks : TaskKind[t] \in {"start", "stop", "restart"}}
OneOfEach == (\A t, u \in Upgrades : t = u) /\ (\A t, u \in Movers : t = u)

\* A scaling never deletes or creates; the upgrade is not refused and writes the
\* version in the database.
ScalePlace(t) == TaskKind[t] = "scale" => pc[t] \in {"none", "patch", "wait_ready"} \cup Final
UpgradeSnap(t) ==
    TaskKind[t] = "upgrade" => /\ pc[t] # "refused"
                               /\ pc[t] \in {"create", "patch"} => snap[t].ver = dbver
SnapInv ==
    /\ dbver = IF \E u \in Upgrades : u \in submitted THEN 1 ELSE 0
    /\ \A t \in Tasks : ScalePlace(t) /\ UpgradeSnap(t)

\* The upgrade has written the new version.  From then on a controller that would
\* still create the old one finds the name taken.
Wrote(u) == pc[u] \in {"wait_ready", "wait_upgrade", "ok", "timeout"}
NewStays(o) == pc[o] = "create" => snap[o].ver = dbver \/ dep # None
AfterInv ==
    \A u \in Upgrades : Wrote(u) =>
        (dep # None => dep.ver = dbver) /\ \A o \in Movers : NewStays(o)

LatestInv == SnapInv /\ AfterInv

LEMMA TaskSorts ==
    ASSUME OneOfEach, NEW t \in Tasks
    PROVE  /\ t \in Upgrades \/ t \in Movers \/ TaskKind[t] = "scale"
           /\ t \in Upgrades => t \notin Movers /\ TaskKind[t] = "upgrade" /\ \A u \in Upgrades : u = t
           /\ t \in Movers => /\ t \notin Upgrades /\ TaskKind[t] \in {"start", "stop", "restart"}
                              /\ \A o \in Movers : o = t
           /\ TaskKind[t] = "scale" => t \notin Upgrades /\ t \notin Movers
           /\ \A u \in Upgrades \cup Movers : u \in Tasks
<1>1. TaskKind[t] \in Kinds
  BY RuntimeAssumption DEF RuntimeAssumption
<1> QED BY <1>1 DEF Upgrades, Movers, Kinds, OneOfEach

\* The steps of a controller.
LEMMA LatestController ==
    ASSUME OneOfEach, TypeOK, LatestInv, NEW t \in Tasks, Controller(t)
    PROVE  LatestInv'
<1>0. /\ dbver \in Nat /\ pc \in [Tasks -> Active \cup Final \cup {"none"}]
      /\ snap \in [Tasks -> AppServices] /\ dep \in Deployments \cup {None}
      /\ UNCHANGED <<submitted, dbver>>
  <2>1. UNCHANGED <<submitted, dbver>>
    BY DEF Controller, DeleteWorkload, DeleteDeployment, DeleteAllPods, WaitStop, RestartInit, Create, Patch,
       WaitReady, RefreshRead, RefreshWrite, callback, tasks
  <2> QED BY <2>1 DEF TypeOK, Versions
<1>1. CASE callback(t) \/ RefreshRead(t) \/ RefreshWrite(t)
  <2>1. UNCHANGED <<dep, pc, snap>>
    BY <1>1 DEF callback, RefreshRead, RefreshWrite, cluster
  <2> QED BY <1>0, <2>1 DEF LatestInv, SnapInv, AfterInv, ScalePlace, UpgradeSnap, Wrote, NewStays
<1> DEFINE Step == \/ DeleteWorkload(t) \/ DeleteDeployment(t) \/ DeleteAllPods(t) \/ WaitStop(t)
                   \/ RestartInit(t) \/ Create(t) \/ Patch(t) \/ WaitReady(t)
<1> SUFFICES ASSUME Step PROVE LatestInv'
  BY <1>1 DEF Controller
<1>2. \A v \in Tasks \ {t} : pc'[v] = pc[v] /\ snap'[v] = snap[v]
  <2>1. \A v \in Tasks \ {t} : snap'[v] = snap[v]
    BY <1>0 DEF DeleteWorkload, DeleteDeployment, DeleteAllPods, WaitStop, RestartInit, Create, Patch, WaitReady
  <2>2. \E place : Goto(t, place)
    BY Returns DEF DeleteWorkload, DeleteDeployment, DeleteAllPods, WaitStop, RestartInit, Create, Patch, WaitReady
  <2> QED BY <1>0, <2>1, <2>2 DEF Goto
<1>3. /\ t \in Upgrades \/ t \in Movers \/ TaskKind[t] = "scale"
      /\ t \in Upgrades => t \notin Movers /\ TaskKind[t] = "upgrade" /\ \A u \in Upgrades : u = t
      /\ t \in Movers => /\ t \notin Upgrades /\ TaskKind[t] \in {"start", "stop", "restart"}
                         /\ \A o \in Movers : o = t
      /\ TaskKind[t] = "scale" => t \notin Upgrades /\ t \notin Movers
      /\ \A u \in Upgrades \cup Movers : u \in Tasks
  BY TaskSorts
<1>4. ScalePlace(t) /\ UpgradeSnap(t)
  BY DEF LatestInv, SnapInv
<1>5. ASSUME ScalePlace(t)', UpgradeSnap(t)' PROVE SnapInv'
  <2>1. \A v \in Tasks \ {t} : ScalePlace(v)' /\ UpgradeSnap(v)'
    BY <1>0, <1>2 DEF LatestInv, SnapInv, ScalePlace, UpgradeSnap
  <2> QED BY <1>0, <1>5, <2>1 DEF LatestInv, SnapInv
<1>6. ASSUME t \in Upgrades, Wrote(t)' => \/ dep' # None /\ dep'.ver = dbver
                                          \/ Wrote(t) /\ UNCHANGED dep
      PROVE  AfterInv'
  <2>1. \A o \in Movers : NewStays(o)' <=> (pc[o] = "create" => snap[o].ver = dbver \/ dep' # None)
    BY <1>0, <1>2, <1>3, <1>6 DEF NewStays
  <2> QED BY <1>0, <1>3, <1>6, <2>1 DEF AfterInv, LatestInv, NewStays
<1>7. ASSUME TaskKind[t] = "scale", UNCHANGED dep PROVE AfterInv'
  <2>1. /\ \A u \in Upgrades : pc'[u] = pc[u]
        /\ \A o \in Movers : pc'[o] = pc[o] /\ snap'[o] = snap[o]
    BY <1>2, <1>3, <1>7
  <2> QED BY <1>0, <1>7, <2>1 DEF LatestInv, AfterInv, Wrote, NewStays
<1>8. ASSUME t \in Movers,
             \A u \in Upgrades : Wrote(u) => (dep' # None => dep'.ver = dbver) /\ NewStays(t)'
      PROVE  AfterInv'
  <2>1. \A u \in Upgrades : pc'[u] = pc[u]
    BY <1>2, <1>3, <1>8
  <2> QED BY <1>0, <1>3, <1>8, <2>1 DEF AfterInv, Wrote
<1>9. t \in Movers => \A u \in Upgrades : Wrote(u) => (dep # None => dep.ver = dbver) /\ NewStays(t)
  BY <1>3 DEF LatestInv, AfterInv
<1>10. CASE DeleteWorkload(t) \/ DeleteDeployment(t) \/ DeleteAllPods(t)
  <2>1. /\ pc[t] \in {"del_wl", "del_dep", "del_pods"} /\ dep' \in {dep, None}
        /\ pc'[t] \in {"failed", "del_dep", "del_pods", "wait_stop"}
    BY <1>0, <1>3, <1>10 DEF DeleteWorkload, DeleteDeployment, DeleteAllPods, Deleted, StopReturns, Goto
  <2>2. TaskKind[t] # "scale"
    BY <1>4, <2>1 DEF ScalePlace, Final
  <2>3. SnapInv'
    BY <1>5, <2>1, <2>2 DEF ScalePlace, UpgradeSnap
  <2>4. AfterInv'
    <3>1. CASE t \in Upgrades
      BY <1>6, <2>1, <3>1 DEF Wrote
    <3>2. CASE t \in Movers
      BY <1>8, <1>9, <2>1, <3>2 DEF NewStays
    <3> QED BY <1>3, <2>2, <3>1, <3>2
  <2> QED BY <2>3, <2>4 DEF LatestInv
<1>11. CASE WaitStop(t)
  <2>1. /\ pc[t] = "wait_stop" /\ UNCHANGED dep
        /\ pc'[t] \in {"ok", "failed", "timeout", "init"}
        /\ TaskKind[t] \notin {"stop", "restart"} => pc'[t] = "failed"
    BY <1>0, <1>3, <1>11 DEF WaitStop, StopReturns, Goto, cluster
  <2>2. TaskKind[t] # "scale"
    BY <1>4, <2>1 DEF ScalePlace, Final
  <2>3. SnapInv'
    BY <1>5, <2>1, <2>2 DEF ScalePlace, UpgradeSnap
  <2>4. AfterInv'
    <3>1. CASE t \in Upgrades
      BY <1>3, <1>6, <2>1, <3>1 DEF Wrote
    <3>2. CASE t \in Movers
      BY <1>8, <1>9, <2>1, <3>2 DEF NewStays
    <3> QED BY <1>3, <2>2, <3>1, <3>2
  <2> QED BY <2>3, <2>4 DEF LatestInv
<1>12. CASE RestartInit(t)
  <2>1. /\ pc[t] = "init" /\ UNCHANGED dep
        /\ pc'[t] = "failed" \/ (pc'[t] = "create" /\ snap'[t].ver = dbver)
    BY <1>0, <1>12, AppTypes DEF RestartInit, Goto, cluster
  <2>2. TaskKind[t] # "scale"
    BY <1>4, <2>1 DEF ScalePlace, Final
  <2>3. SnapInv'
    BY <1>0, <1>5, <2>1, <2>2 DEF ScalePlace, UpgradeSnap
  <2>4. AfterInv'
    <3>1. CASE t \in Upgrades
      BY <1>6, <2>1, <3>1 DEF Wrote
    <3>2. CASE t \in Movers
      BY <1>0, <1>8, <1>9, <2>1, <3>2 DEF NewStays
    <3> QED BY <1>3, <2>2, <3>1, <3>2
  <2> QED BY <2>3, <2>4 DEF LatestInv
<1>13. CASE Create(t)
  <2>1. /\ pc[t] = "create" /\ pc'[t] \in {"wait_ready", "del_wl", "failed"}
        /\ \/ pc'[t] # "wait_ready" /\ UNCHANGED dep
           \/ dep = None /\ dep' = [uid |-> t, ver |-> snap[t].ver]
    BY <1>0, <1>3, <1>13 DEF Create, StartFails, Goto
  <2>2. TaskKind[t] # "scale"
    BY <1>4, <2>1 DEF ScalePlace, Final
  <2>3. SnapInv'
    BY <1>5, <2>1, <2>2 DEF ScalePlace, UpgradeSnap
  <2>4. AfterInv'
    <3>1. CASE t \in Upgrades
      <4>1. [uid |-> t, ver |-> snap[t].ver] \in Deployments /\ snap[t].ver = dbver
        BY <1>0, <1>3, <1>4, <2>1, <3>1 DEF Deployments, Uids, AppServices, UpgradeSnap
      <4>2. Wrote(t)' => dep' # None /\ dep'.ver = dbver
        BY <2>1, <4>1, NoneIsNothing DEF Wrote
      <4>3. Wrote(t)' => \/ dep' # None /\ dep'.ver = dbver
                         \/ Wrote(t) /\ UNCHANGED dep
        BY <4>2
      <4> QED BY <1>6, <3>1, <4>3
    <3>2. CASE t \in Movers
      BY <1>8, <1>9, <2>1, <3>2 DEF NewStays
    <3> QED BY <1>3, <2>2, <3>1, <3>2
  <2> QED BY <2>3, <2>4 DEF LatestInv
<1>14. CASE Patch(t)
  <2>1. /\ pc[t] = "patch" /\ pc'[t] \in {"wait_ready", "wait_upgrade", "failed"}
        /\ \/ pc'[t] = "failed" /\ UNCHANGED dep
           \/ pc'[t] = "wait_ready" /\ UNCHANGED dep /\ TaskKind[t] = "scale"
           \/ dep # None /\ TaskKind[t] = "upgrade" /\ dep' = [dep EXCEPT !.ver = snap[t].ver]
    BY <1>0, <1>3, <1>14 DEF Patch, Goto
  <2>2. SnapInv'
    <3>1. ScalePlace(t)'
      BY <1>0, <1>14 DEF Patch, Goto, ScalePlace, Final
    <3> QED BY <1>5, <2>1, <3>1 DEF UpgradeSnap
  <2>3. AfterInv'
    <3>1. CASE t \in Upgrades
      <4>1. snap[t].ver = dbver
        BY <1>3, <1>4, <2>1, <3>1 DEF UpgradeSnap
      <4>2. dep # None => [dep EXCEPT !.ver = dbver] \in Deployments /\ [dep EXCEPT !.ver = dbver].ver = dbver
        BY <1>0 DEF Deployments, Versions
      <4>3. Wrote(t)' => dep' # None /\ dep'.ver = dbver
        BY <1>3, <2>1, <3>1, <4>1, <4>2, NoneIsNothing DEF Wrote
      <4>4. Wrote(t)' => \/ dep' # None /\ dep'.ver = dbver
                         \/ Wrote(t) /\ UNCHANGED dep
        BY <4>3
      <4> QED BY <1>6, <3>1, <4>4
    <3>2. CASE t \in Movers
      BY <1>3, <1>8, <1>9, <2>1, <3>2 DEF NewStays
    <3>3. CASE TaskKind[t] = "scale"
      BY <1>7, <2>1, <3>3
    <3> QED BY <1>3, <3>1, <3>2, <3>3
  <2> QED BY <2>2, <2>3 DEF LatestInv
<1>15. CASE WaitReady(t)
  <2>1. /\ pc[t] \in {"wait_ready", "wait_upgrade"} /\ UNCHANGED dep
        /\ pc'[t] \in {"ok", "timeout", "failed", "del_wl"}
        /\ pc'[t] = "del_wl" => TaskKind[t] \in {"start", "upgrade"}
    BY <1>0, <1>3, <1>15 DEF WaitReady, StartFails, Goto, cluster
  <2>2. SnapInv'
    BY <1>5, <2>1 DEF ScalePlace, UpgradeSnap, Final
  <2>3. AfterInv'
    <3>1. CASE t \in Upgrades
      BY <1>6, <2>1, <3>1 DEF Wrote
    <3>2. CASE t \in Movers
      BY <1>8, <1>9, <2>1, <3>2 DEF NewStays
    <3>3. CASE TaskKind[t] = "scale"
      BY <1>7, <2>1, <3>3
    <3> QED BY <1>3, <3>1, <3>2, <3>3
  <2> QED BY <2>2, <2>3 DEF LatestInv
<1> QED BY <1>10, <1>11, <1>12, <1>13, <1>14, <1>15

\* A task is sent: only an upgrade changes the version, and it is the first one.
LEMMA LatestSubmit ==
    ASSUME OneOfEach, TypeOK, QueueInv, LatestInv, NEW t \in Tasks, Submit(t)
    PROVE  LatestInv'
<1>0. /\ t \notin submitted /\ submitted' = submitted \cup {t}
      /\ dbver' = IF TaskKind[t] = "upgrade" THEN dbver + 1 ELSE dbver
      /\ UNCHANGED <<dep, pc, snap>>
      /\ pc[t] = "none"
  BY DEF Submit, cluster, QueueInv
<1>1. /\ dbver' = IF \E u \in Upgrades : u \in submitted' THEN 1 ELSE 0
      /\ \A u \in Upgrades : pc[u] # "none" => dbver' = dbver
  <2>1. CASE t \in Upgrades
    <3>1. \A u \in Upgrades : u = t
      BY <2>1 DEF OneOfEach
    <3> QED BY <1>0, <2>1, <3>1 DEF LatestInv, SnapInv, Upgrades
  <2>2. CASE t \notin Upgrades
    BY <1>0, <2>2 DEF LatestInv, SnapInv, Upgrades
  <2> QED BY <2>1, <2>2
<1>2. SnapInv'
  <2>1. \A v \in Tasks : ScalePlace(v)'
    BY <1>0 DEF LatestInv, SnapInv, ScalePlace
  <2>2. \A v \in Tasks : UpgradeSnap(v)'
    BY <1>0, <1>1 DEF LatestInv, SnapInv, UpgradeSnap, Upgrades
  <2> QED BY <1>1, <2>1, <2>2 DEF SnapInv
<1>3. AfterInv'
  BY <1>0, <1>1 DEF LatestInv, AfterInv, Wrote, NewStays
<1> QED BY <1>2, <1>3 DEF LatestInv

\* Informers, handlers and Kubernetes.
LEMMA LatestOutside ==
    ASSUME LatestInv, Informer \/ Resync \/ Kubernetes \/ UNCHANGED vars
    PROVE  LatestInv'
<1>1. UNCHANGED <<submitted, dbver, dep, pc, snap>>
  BY DEF Informer, DeploymentSeen, PodSeen, DeploymentEvent, PodEvent, Resync, Kubernetes, vars, cluster, tasks
<1> QED BY <1>1 DEF LatestInv, SnapInv, AfterInv, ScalePlace, UpgradeSnap, Wrote, NewStays

\* A task is handled.
LEMMA LatestAnalyst ==
    ASSUME OneOfEach, TypeOK, QueueInv, LatestInv, NEW t \in Tasks, AnalystToExec(t)
    PROVE  LatestInv'
<1>0. /\ dbver \in Nat /\ pc \in [Tasks -> Active \cup Final \cup {"none"}]
      /\ snap \in [Tasks -> AppServices] /\ UNCHANGED <<submitted, dbver, dep>>
  <2>1. UNCHANGED <<submitted, dbver, dep>>
    BY DEF AnalystToExec, ErrCallback, cluster
  <2> QED BY <2>1 DEF TypeOK, Versions
<1>1. CASE ErrCallback(t)
  <2>1. UNCHANGED <<pc, snap>>
    BY <1>1 DEF ErrCallback
  <2> QED BY <1>0, <2>1 DEF LatestInv, SnapInv, AfterInv, ScalePlace, UpgradeSnap, Wrote, NewStays
<1> SUFFICES ASSUME startExec(t) \/ stopExec(t) \/ horizontalScalingExec(t) \/ rollingUpgradeExec(t) \/ InitFails(t)
             PROVE  LatestInv'
  BY <1>1 DEF AnalystToExec
<1>2. /\ t \in Upgrades \/ t \in Movers \/ TaskKind[t] = "scale"
      /\ t \in Upgrades => t \notin Movers /\ TaskKind[t] = "upgrade" /\ \A u \in Upgrades : u = t
      /\ t \in Movers => /\ t \notin Upgrades /\ TaskKind[t] \in {"start", "stop", "restart"}
                         /\ \A o \in Movers : o = t
      /\ TaskKind[t] = "scale" => t \notin Upgrades /\ t \notin Movers
      /\ \A u \in Upgrades \cup Movers : u \in Tasks
  BY TaskSorts
<1>3. \A v \in Tasks \ {t} : pc'[v] = pc[v] /\ snap'[v] = snap[v]
  BY <1>0 DEF startExec, stopExec, horizontalScalingExec, rollingUpgradeExec, InitFails, Refuse, StartController
<1>4. /\ pc'[t] \in {"refused", "failed", "patch", "create", "del_wl"}
      /\ TaskKind[t] = "scale" => pc'[t] \in {"refused", "failed", "patch"}
      /\ TaskKind[t] = "upgrade" => pc'[t] # "refused"
      /\ pc'[t] = "create" \/ (pc'[t] = "patch" /\ TaskKind[t] = "upgrade") => snap'[t].ver = dbver
  <2>1. NewApp.ver = dbver /\ [NewApp EXCEPT !.dep = IF app.dep = None THEN None ELSE @].ver = dbver
    BY AppTypes DEF NewApp
  <2>2. CASE startExec(t)
    BY <1>0, <2>1, <2>2 DEF startExec, Refuse, StartController
  <2>3. CASE stopExec(t)
    BY <1>0, <2>3 DEF stopExec, Refuse, StartController
  <2>4. CASE horizontalScalingExec(t)
    BY <1>0, <2>4 DEF horizontalScalingExec, Refuse, StartController
  <2>5. CASE rollingUpgradeExec(t)
    BY <1>0, <2>1, <2>5 DEF rollingUpgradeExec, StartController
  <2>6. CASE InitFails(t)
    BY <1>0, <2>6 DEF InitFails
  <2> QED BY <2>2, <2>3, <2>4, <2>5, <2>6
<1>5. SnapInv'
  <2>1. \A v \in Tasks \ {t} : ScalePlace(v)' /\ UpgradeSnap(v)'
    BY <1>0, <1>3 DEF LatestInv, SnapInv, ScalePlace, UpgradeSnap
  <2>2. ScalePlace(t)' /\ UpgradeSnap(t)'
    BY <1>0, <1>4 DEF ScalePlace, UpgradeSnap, Final
  <2> QED BY <1>0, <2>1, <2>2 DEF LatestInv, SnapInv
<1>6. AfterInv'
  <2>1. ASSUME NEW u \in Upgrades, Wrote(u)' PROVE u # t /\ Wrote(u)
    BY <1>2, <1>3, <1>4, <2>1 DEF Wrote
  <2>2. \A o \in Movers : NewStays(o) => NewStays(o)'
    BY <1>0, <1>2, <1>3, <1>4 DEF NewStays
  <2> QED BY <1>0, <2>1, <2>2 DEF LatestInv, AfterInv
<1> QED BY <1>5, <1>6 DEF LatestInv

LEMMA LatestInit == Init => LatestInv
<1> SUFFICES ASSUME Init PROVE LatestInv
  OBVIOUS
<1>1. submitted = {} /\ dbver = 0 /\ \A t \in Tasks : pc[t] = "none"
  BY DEF Init
<1> QED BY <1>1 DEF LatestInv, SnapInv, AfterInv, ScalePlace, UpgradeSnap, Wrote, Upgrades

\* "if service already deploy, upgrade it" (manager.go:379): an upgrade that is not
\* reported as failed is not undone by one start, stop or restart of the service
\* and any number of scalings, in whichever order their controllers run.
THEOREM UpgradeIsDeployed == ASSUME OneOfEach PROVE Spec => []LatestDeployed
<1>1. IInv /\ LatestInv /\ [Next]_vars => LatestInv'
  BY LatestSubmit, LatestAnalyst, LatestController, LatestOutside DEF Next, IInv
<1>2. IInv /\ KnownVersions /\ LatestInv => LatestDeployed
  <2> SUFFICES ASSUME IInv, KnownVersions, LatestInv, Quiet, dep # None, dep.ver # dbver
               PROVE  \E t \in Tasks : TaskKind[t] = "upgrade" /\ (pc[t] = "failed" \/ t \in dropped)
    BY DEF LatestDeployed
  <2>1. dbver \in {0, 1} /\ dep.ver \in Nat /\ dep.ver <= dbver
    BY DEF IInv, TypeOK, Deployments, Versions, KnownVersions, Upto, LatestInv, SnapInv
  <2>2. PICK u \in Upgrades : u \in submitted
    BY <2>1 DEF LatestInv, SnapInv
  <2>3. u \in Tasks /\ TaskKind[u] = "upgrade" /\ ~Wrote(u)
    BY DEF Upgrades, LatestInv, AfterInv
  <2>4. pc[u] \notin Active /\ pc[u] \in Active \cup Final \cup {"none"}
    BY <2>3 DEF IInv, TypeOK, Quiet
  <2>5. pc[u] # "none" \/ u \in dropped
    BY <2>2 DEF IInv, QueueInv, InQueue, Quiet
  <2>6. pc[u] # "refused"
    BY <2>3 DEF LatestInv, SnapInv, UpgradeSnap
  <2> QED BY <2>3, <2>4, <2>5, <2>6 DEF Wrote, Final
<1> QED BY <1>1, <1>2, LatestInit, RuntimeInvariant, OnlyKnownVersions, PTL DEF Spec
==============================================================================
