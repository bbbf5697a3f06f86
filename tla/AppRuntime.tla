----------------------------- MODULE AppRuntime -----------------------------
(***************************************************************************)
(* The worker and one service it runs on Kubernetes.  The task manager      *)
(* takes tasks from the queue one after the other; handle.Manager looks the *)
(* service up in the store and starts a controller, a goroutine of its own, *)
(* that writes to the cluster and then watches the store until the service  *)
(* is up, down or upgraded.  The store follows the cluster through          *)
(* informers and is written by the controllers as well.  Nothing orders two *)
(* controllers of one service: the API's check for an unfinished operation  *)
(* (middleware.go:418) is commented out.                                    *)
(*                                                                          *)
(* The workload is a Deployment.  What a start creates and a stop deletes   *)
(* beside it (services, secrets, ingresses, config maps, autoscalers) only  *)
(* matters as a call that may fail.                                         *)
(***************************************************************************)
EXTENDS Integers, Sequences, FiniteSets

CONSTANTS Tasks,     \* tasks for the service, each submitted once
          TaskKind,  \* the type of a task
          Deployed,  \* the service is up when the worker starts
          MaxTasks,  \* cfg.MaxTasks of the worker
          MaxFaults, \* bound on failing calls and pods
          MaxRead,   \* bound on the objects that the waits read again
          MaxLag,    \* bound on the notes a handler has not taken
          None

Kinds == {"start", "stop", "restart", "upgrade", "scale"}
Replicas == 1

Versions == Nat
Uids == Tasks \cup {None}
Pods == [uid : Uids, ver : Versions, st : {"starting", "running", "failed"}]
Deployments == [uid : Uids, ver : Versions]
AppServices == [dep : [rv : BOOLEAN, ver : Versions] \cup {None}, wl : BOOLEAN,
                pods : SUBSET Pods, ver : Versions]
Notes == [pod : Pods, gone : BOOLEAN]
Reads == [kind : {"dep"}, obj : Deployments \cup {None}]
           \cup [kind : {"pod"}, key : Pods, obj : Pods \cup {None}]

ASSUME RuntimeAssumption ==
    /\ TaskKind \in [Tasks -> Kinds]
    /\ Deployed \in BOOLEAN
    /\ MaxTasks \in Nat
    /\ MaxFaults \in Nat /\ MaxRead \in Nat /\ MaxLag \in Nat \ {0}
    /\ IsFiniteSet(Tasks)
    /\ None \notin Tasks \cup Deployments \cup Pods \cup AppServices \cup Reads
                 \cup [rv : BOOLEAN, ver : Versions]

VARIABLES
    queue,       \* the worker topic of the message queue
    submitted,   \* tasks the API and the builders have sent
    dbver,       \* the deploy version of the service in the database
    dep,         \* the Deployment in the cluster
    pods,        \* its pods in the cluster
    dwatch,      \* states of the Deployment the informer has still to see
    ldep, lpods, \* the informers' caches (the listers)
    dnotes,      \* states of the Deployment the handlers have still to run for
    pnotes,      \* changes of pods the handlers have still to run for
    hdep, hpods, \* what the handlers were last told of the Deployment and the pods
    app,         \* the AppService in the store
    got, reads,  \* what a controller's refresh has read and not yet written; their number
    late,        \* history: a refresh wrote what the handlers had already removed
    controllers, \* keys of m.controllers
    pc, snap,    \* a controller's place, and the AppService it was given
    dropped,     \* tasks given up by a failed call
    faults

tasks == <<queue, submitted, dbver, dropped>>
cluster == <<dep, pods, dwatch>>
informers == <<ldep, lpods, dnotes, pnotes, hdep, hpods>>
store == <<app, got, reads, late>>
vars == <<tasks, cluster, informers, store, controllers, pc, snap, faults>>

-----------------------------------------------------------------------------
\* The AppService.

\* InitAppService: the model of the service, made from the database; its
\* Deployment has no resource version yet.
NewApp == [dep |-> [rv |-> FALSE, ver |-> dbver], wl |-> TRUE, pods |-> {}, ver |-> dbver]

\* InitCacheAppService: what the store makes of a service it does not know.
CacheApp == [dep |-> None, wl |-> FALSE, pods |-> {}, ver |-> dbver]

\* SetDeployment: the version of the service follows.  The Deployment is also kept
\* as the workload (wl), which deleting the Deployment does not clear.
SetDeployment(a, d) ==
    [a EXCEPT !.dep = [rv |-> TRUE, ver |-> d.ver], !.wl = TRUE, !.ver = d.ver]

\* OnAdd and OnUpdate set a Deployment, of an AppService made for it if the store
\* has none; OnDeletes clears it, whichever Deployment it was.
OnAdd(d) == SetDeployment(IF app = None THEN CacheApp ELSE app, d)
OnDeletes == IF app = None THEN None ELSE [app EXCEPT !.dep = None]

SamePod(p, q) == p.uid = q.uid /\ p.ver = q.ver
Others(ps, p) == {q \in ps : ~SamePod(p, q)}
SetPods(a, p) == [a EXCEPT !.pods = {p} \cup Others(@, p)]
DeletePods(a, p) == [a EXCEPT !.pods = Others(@, p)]
OnAddPod(p) == SetPods(IF app = None THEN CacheApp ELSE app, p)
OnDeletePod(p) == IF app = None THEN None ELSE DeletePods(app, p)

IsClosed(a) == a.pods = {} /\ (a.dep # None => ~a.dep.rv)

\* The store does not know the service, or knows it as closed.
Down == app # None => IsClosed(app)

\* checkPodStatus: an abnormal new pod decides; the phase of the pods, not the
\* existence of the workload, makes the service "running".
checkPodStatus(a) ==
    LET new == {p \in a.pods : p.ver = a.ver}
        up == {p \in new : p.st = "running"}
    IN  CASE \E p \in new : p.st = "failed" -> "abnormal"
          [] Cardinality(up) = Replicas /\ \A p \in new : p.st # "failed" -> "running"
          [] OTHER -> "waiting"

Init ==
    LET d == [uid |-> None, ver |-> 0]
        p == [uid |-> None, ver |-> 0, st |-> "running"]
    IN  /\ queue = <<>> /\ submitted = {} /\ dbver = 0
        /\ dep = IF Deployed THEN d ELSE None
        /\ pods = IF Deployed THEN {p} ELSE {}
        /\ dwatch = <<>> /\ ldep = dep /\ lpods = pods
        /\ dnotes = <<>> /\ pnotes = <<>> /\ hdep = dep /\ hpods = pods
        /\ app = IF Deployed THEN SetDeployment([CacheApp EXCEPT !.pods = pods], d) ELSE None
        /\ got = [t \in Tasks |-> None] /\ reads = 0 /\ late = FALSE
        /\ controllers = {}
        /\ pc = [t \in Tasks |-> "none"]
        /\ snap = [t \in Tasks |-> CacheApp]
        /\ dropped = {} /\ faults = 0

Fault == faults < MaxFaults /\ faults' = faults + 1

-----------------------------------------------------------------------------
\* Tasks.

\* The API sends a task.  A builder writes the new version of the service and
\* sends an upgrade.
Submit(t) ==
    /\ t \notin submitted
    /\ submitted' = submitted \cup {t}
    /\ queue' = Append(queue, t)
    /\ dbver' = IF TaskKind[t] = "upgrade" THEN dbver + 1 ELSE dbver
    /\ UNCHANGED <<dropped, cluster, informers, store, controllers, pc, snap, faults>>

checkCount == Cardinality(controllers) > MaxTasks

\* Mutant: the task is not sent back.
M_ErrCallback(t) ==
    /\ checkCount
    /\ queue' = Tail(queue)
    /\ UNCHANGED <<submitted, dbver, dropped, cluster, informers, store, controllers, pc, snap,
                   faults>>

\* Too many controllers: the task goes to the end of the queue.
ErrCallback(t) ==
    /\ checkCount
    /\ \/ queue' = Append(Tail(queue), t) /\ UNCHANGED <<dropped, faults>>
       \/ Fault /\ queue' = Tail(queue) /\ dropped' = dropped \cup {t}
    /\ UNCHANGED <<submitted, dbver, cluster, informers, store, controllers, pc, snap>>

\* The service is not in a state for the task.
Refuse(t) ==
    /\ pc' = [pc EXCEPT ![t] = "refused"]
    /\ UNCHANGED <<store, controllers, snap>>

\* RegistAppService.  A refresh under way goes on with the AppService it has loaded,
\* which nobody finds in the store any more.
Register(a) ==
    /\ app' = a
    /\ got' = [t \in Tasks |-> None]
    /\ UNCHANGED <<reads, late>>

\* Mutant: the controller is not entered in the table.
M_StartController(t, a, place) ==
    /\ snap' = [snap EXCEPT ![t] = a]
    /\ pc' = [pc EXCEPT ![t] = place]
    /\ UNCHANGED controllers

\* StartController.
StartController(t, a, place) ==
    /\ controllers' = controllers \cup {t}
    /\ snap' = [snap EXCEPT ![t] = a]
    /\ pc' = [pc EXCEPT ![t] = place]

startExec(t) ==
    /\ TaskKind[t] = "start"
    /\ \/ ~Down /\ Refuse(t)
       \/ Down /\ Register(NewApp) /\ StartController(t, NewApp, "create")
    /\ UNCHANGED faults

stopExec(t) ==
    /\ TaskKind[t] \in {"stop", "restart"}
    /\ \/ app = None /\ Refuse(t)
       \/ app # None /\ StartController(t, app, "del_wl") /\ UNCHANGED store
    /\ UNCHANGED faults

horizontalScalingExec(t) ==
    /\ TaskKind[t] = "scale"
    /\ \/ Down /\ Refuse(t)
       \/ ~Down /\ StartController(t, app, "patch") /\ UNCHANGED store
    /\ UNCHANGED faults

\* Mutant: the controller is given the AppService of the store, not the new one.
M_rollingUpgradeExec(t) ==
    /\ TaskKind[t] = "upgrade"
    /\ \/ Down /\ Register(NewApp) /\ StartController(t, NewApp, "create")
       \/ ~Down /\ StartController(t, app, "patch") /\ UNCHANGED store
    /\ UNCHANGED faults

\* A service that is closed is started; otherwise the difference between the
\* Deployment in the store and the new one becomes the patch.  It is never empty:
\* the new one has a label with the time.  There is no patch (dep = None) if the
\* store has no Deployment while pods are still there.
rollingUpgradeExec(t) ==
    /\ TaskKind[t] = "upgrade"
    /\ \/ Down /\ Register(NewApp) /\ StartController(t, NewApp, "create")
       \/ /\ ~Down
          /\ app' = [app EXCEPT !.ver = dbver] /\ UNCHANGED <<got, reads, late>>
          /\ StartController(t, [NewApp EXCEPT !.dep = IF app.dep = None THEN None ELSE @], "patch")
    /\ UNCHANGED faults

\* The service or its model cannot be read from the database.
InitFails(t) ==
    /\ TaskKind[t] \in {"start", "scale", "upgrade"} /\ Fault
    /\ pc' = [pc EXCEPT ![t] = "failed"]
    /\ UNCHANGED <<store, controllers, snap>>

\* Do takes a task and AnalystToExec handles it.
AnalystToExec(t) ==
    /\ queue # <<>> /\ Head(queue) = t
    /\ \/ ErrCallback(t)
       \/ /\ ~checkCount
          /\ queue' = Tail(queue)
          /\ \/ startExec(t) \/ stopExec(t) \/ horizontalScalingExec(t) \/ rollingUpgradeExec(t)
             \/ InitFails(t)
          /\ UNCHANGED <<submitted, dbver, dropped, cluster, informers>>

-----------------------------------------------------------------------------
\* Controllers.

Goto(t, place) == pc' = [pc EXCEPT ![t] = place]

\* stopOne has returned.  A stop ends; a restart goes on if there was no error;
\* a start that is cleaning up has failed anyway.
StopReturns(t, result) ==
    Goto(t, CASE TaskKind[t] = "stop" -> result
              [] TaskKind[t] = "restart" -> IF result = "failed" THEN result ELSE "init"
              [] OTHER -> "failed")

\* startOne has failed.  The start controller calls errorCallback, which stops the
\* service; a restart or a scaling just fails.
StartFails(t) ==
    Goto(t, IF TaskKind[t] \in {"start", "upgrade"} THEN "del_wl" ELSE "failed")

Deleted ==
    /\ dep' = None
    /\ dwatch' = IF dep = None THEN dwatch ELSE Append(dwatch, None)

\* stopOne deletes the workload the AppService remembers, by its name; an error is
\* only logged.  Calls before it may fail.
DeleteWorkload(t) ==
    /\ pc[t] = "del_wl"
    /\ \/ Fault /\ StopReturns(t, "failed") /\ UNCHANGED <<dep, dwatch>>
       \/ Fault /\ Goto(t, "del_dep") /\ UNCHANGED <<dep, dwatch>>
       \/ /\ Goto(t, "del_dep") /\ UNCHANGED faults
          /\ IF snap[t].wl THEN Deleted ELSE UNCHANGED <<dep, dwatch>>
    /\ UNCHANGED <<tasks, pods, informers, store, controllers, snap>>

\* stopOne deletes the Deployment, again by its name, and tells the store so.
DeleteDeployment(t) ==
    /\ pc[t] = "del_dep"
    /\ \/ Fault /\ StopReturns(t, "failed") /\ UNCHANGED <<dep, dwatch, app>>
       \/ /\ snap[t].dep # None
          /\ Deleted /\ app' = OnDeletes
          /\ Goto(t, "del_pods") /\ UNCHANGED faults
       \/ /\ snap[t].dep = None
          /\ Goto(t, "del_pods") /\ UNCHANGED <<dep, dwatch, app, faults>>
    /\ UNCHANGED <<tasks, pods, informers, got, reads, late, controllers, snap>>

\* stopOne deletes the pods its AppService knew.
DeleteAllPods(t) ==
    /\ pc[t] = "del_pods"
    /\ \/ Fault /\ StopReturns(t, "failed") /\ UNCHANGED pods
       \/ /\ pods' = {p \in pods : \A q \in snap[t].pods : ~SamePod(p, q)}
          /\ Goto(t, "wait_stop") /\ UNCHANGED faults
    /\ UNCHANGED <<tasks, dep, dwatch, informers, store, controllers, snap>>

\* UpdateGetAppService, which the waits call from their third round on, goes through
\* what the AppService has.  It gets each object from the lister ...
RefreshRead(t) ==
    /\ pc[t] \in {"wait_stop", "wait_ready", "wait_upgrade"} /\ got[t] = None
    /\ reads < MaxRead /\ reads' = reads + 1
    /\ \/ /\ app.dep # None
          /\ got' = [got EXCEPT ![t] = [kind |-> "dep", obj |-> ldep]]
       \/ \E p \in app.pods :
             got' = [got EXCEPT ![t] = [kind |-> "pod", key |-> p, obj |->
                        IF \E q \in lpods : SamePod(q, p)
                        THEN CHOOSE q \in lpods : SamePod(q, p) ELSE None]]
    /\ UNCHANGED <<tasks, cluster, informers, app, late, controllers, pc, snap, faults>>

\* The handlers have handled the removal of the object that was read.
Removed(r) ==
    IF r.kind = "dep" THEN hdep = None /\ dnotes = <<>>
    ELSE /\ \A q \in hpods : ~SamePod(q, r.key)
         /\ \A i \in DOMAIN pnotes : ~SamePod(pnotes[i].pod, r.key)

\* ... and then, with no lock in between, drops it or sets it.
RefreshWrite(t) ==
    /\ got[t] # None
    /\ got' = [got EXCEPT ![t] = None]
    /\ LET r == got[t] IN
       /\ app' = CASE r.kind = "dep" /\ r.obj = None -> [app EXCEPT !.dep = None]
                   [] r.kind = "dep" /\ r.obj # None -> SetDeployment(app, r.obj)
                   [] r.kind = "pod" /\ r.obj = None -> DeletePods(app, r.key)
                   [] OTHER -> SetPods(app, r.obj)
       /\ late' = (late \/ (r.obj # None /\ Removed(r)))
    /\ UNCHANGED <<tasks, cluster, informers, reads, controllers, pc, snap, faults>>

\* A round of WaitStop; running out of time is no error.
WaitStop(t) ==
    /\ pc[t] = "wait_stop" /\ got[t] = None
    /\ \/ checkPodStatus(app) = "running" /\ StopReturns(t, "ok")
       \/ checkPodStatus(app) = "abnormal" /\ StopReturns(t, "failed")
       \/ checkPodStatus(app) = "waiting" /\ IsClosed(app) /\ StopReturns(t, "ok")
       \/ checkPodStatus(app) = "waiting" /\ ~IsClosed(app) /\ StopReturns(t, "timeout")
    /\ UNCHANGED <<tasks, cluster, informers, store, controllers, snap, faults>>

\* restartOne makes the service's model anew and registers it.
RestartInit(t) ==
    /\ pc[t] = "init"
    /\ \/ Fault /\ Goto(t, "failed") /\ UNCHANGED <<store, snap>>
       \/ /\ Register(NewApp) /\ snap' = [snap EXCEPT ![t] = NewApp]
          /\ Goto(t, "create") /\ UNCHANGED faults
    /\ UNCHANGED <<tasks, cluster, informers, controllers>>

\* startOne creates the Deployment, which fails if there is one; other calls
\* before and after it may fail.
Create(t) ==
    /\ pc[t] = "create"
    /\ \/ dep # None /\ StartFails(t) /\ UNCHANGED <<dep, dwatch, faults>>
       \/ Fault /\ StartFails(t) /\ UNCHANGED <<dep, dwatch>>
       \/ /\ dep = None
          /\ dep' = [uid |-> t, ver |-> snap[t].ver]
          /\ dwatch' = Append(dwatch, dep')
          /\ \/ Goto(t, "wait_ready") /\ UNCHANGED faults
             \/ Fault /\ StartFails(t)
    /\ UNCHANGED <<tasks, pods, informers, store, controllers, snap>>

\* upgradeOne and scalingOne patch the Deployment; a scaling has nothing to patch
\* if its AppService had none.  Other calls before and after the patch may fail.
Patch(t) ==
    /\ pc[t] = "patch"
    /\ \/ /\ dep = None \/ snap[t].dep = None
          /\ TaskKind[t] = "upgrade" \/ snap[t].dep # None
          /\ Goto(t, "failed") /\ UNCHANGED <<dep, dwatch, faults>>
       \/ Fault /\ Goto(t, "failed") /\ UNCHANGED <<dep, dwatch>>
       \/ /\ dep # None \/ snap[t].dep = None
          /\ TaskKind[t] = "scale"
          /\ Goto(t, "wait_ready") /\ UNCHANGED <<dep, dwatch, faults>>
       \/ /\ dep # None /\ snap[t].dep # None /\ TaskKind[t] = "upgrade"
          /\ dep' = [dep EXCEPT !.ver = snap[t].ver]
          /\ dwatch' = Append(dwatch, dep')
          /\ \/ Goto(t, "wait_upgrade") /\ UNCHANGED faults
             \/ Fault /\ Goto(t, "failed")
    /\ UNCHANGED <<tasks, pods, informers, store, controllers, snap>>

\* A round of WaitReady or WaitUpgradeReady; running out of time is no error.
WaitReady(t) ==
    /\ pc[t] \in {"wait_ready", "wait_upgrade"} /\ got[t] = None
    /\ \/ checkPodStatus(app) = "running" /\ Goto(t, "ok")
       \/ /\ checkPodStatus(app) = "abnormal"
          /\ IF pc[t] = "wait_ready" THEN StartFails(t) ELSE Goto(t, "failed")
       \/ Goto(t, "timeout")
    /\ UNCHANGED <<tasks, cluster, informers, store, controllers, snap, faults>>

\* Begin has reported the result and calls back.
callback(t) ==
    /\ t \in controllers /\ pc[t] \in {"ok", "timeout", "failed"}
    /\ controllers' = controllers \ {t}
    /\ UNCHANGED <<tasks, cluster, informers, store, pc, snap, faults>>

-----------------------------------------------------------------------------
\* The informers of the store.  An informer changes its cache and leaves a note for
\* the handlers, which take the notes in their order, later.

\* The Deployment's informer sees its next state.
DeploymentSeen ==
    /\ dwatch # <<>> /\ Len(dnotes) < MaxLag
    /\ ldep' = Head(dwatch)
    /\ dwatch' = Tail(dwatch)
    /\ dnotes' = Append(dnotes, ldep')
    /\ UNCHANGED <<tasks, dep, pods, lpods, pnotes, hdep, hpods, store, controllers, pc, snap,
                   faults>>

\* The pods' informer sees that a pod is new or has changed, or is gone.
PodSeen(p) ==
    /\ Len(pnotes) < MaxLag
    /\ \/ /\ p \in pods \ lpods
          /\ lpods' = {p} \cup Others(lpods, p)
          /\ pnotes' = Append(pnotes, [pod |-> p, gone |-> FALSE])
       \/ /\ p \in lpods /\ \A q \in pods : ~SamePod(p, q)
          /\ lpods' = lpods \ {p}
          /\ pnotes' = Append(pnotes, [pod |-> p, gone |-> TRUE])
    /\ UNCHANGED <<tasks, cluster, ldep, dnotes, hdep, hpods, store, controllers, pc, snap, faults>>

\* Mutant: the store keeps a Deployment that was deleted.
M_DeploymentEvent ==
    /\ dnotes # <<>>
    /\ hdep' = Head(dnotes)
    /\ dnotes' = Tail(dnotes)
    /\ app' = IF hdep' = None THEN app ELSE OnAdd(hdep')
    /\ UNCHANGED <<tasks, cluster, ldep, lpods, pnotes, hpods, got, reads, late, controllers, pc, snap,
                   faults>>

\* OnAdd, OnUpdate or OnDelete of the Deployment.
DeploymentEvent ==
    /\ dnotes # <<>>
    /\ hdep' = Head(dnotes)
    /\ dnotes' = Tail(dnotes)
    /\ app' = IF hdep' = None THEN OnDeletes ELSE OnAdd(hdep')
    /\ UNCHANGED <<tasks, cluster, ldep, lpods, pnotes, hpods, got, reads, late, controllers, pc, snap,
                   faults>>

\* podEventHandler.
PodEvent ==
    /\ pnotes # <<>>
    /\ LET p == Head(pnotes).pod IN
       \/ /\ ~Head(pnotes).gone
          /\ hpods' = {p} \cup Others(hpods, p)
          /\ app' = OnAddPod(p)
       \/ /\ Head(pnotes).gone
          /\ hpods' = Others(hpods, p)
          /\ app' = OnDeletePod(p)
    /\ pnotes' = Tail(pnotes)
    /\ UNCHANGED <<tasks, cluster, ldep, lpods, dnotes, hdep, got, reads, late, controllers, pc, snap,
                   faults>>

\* Mutant: the informers are registered without a resync period.
M_Resync == FALSE /\ UNCHANGED vars

\* Every ten seconds the informers leave a note of everything they have.  Notes keep
\* their order, so the handlers find in it what they were last told.
Resync ==
    /\ \/ hdep # None /\ app' = OnAdd(hdep)
       \/ \E p \in hpods : app' = OnAddPod(p)
    /\ app' # app
    /\ UNCHANGED <<tasks, cluster, informers, got, reads, late, controllers, pc, snap, faults>>

-----------------------------------------------------------------------------
\* Kubernetes.

Current(p) == dep # None /\ p.uid = dep.uid /\ p.ver = dep.ver

\* The Deployment's controller creates the pod of the current version.
PodCreated ==
    /\ dep # None /\ \A p \in pods : ~Current(p)
    /\ pods' = pods \cup {[uid |-> dep.uid, ver |-> dep.ver, st |-> "starting"]}
    /\ UNCHANGED faults

\* A pod runs, or is in one of the states checkPodStatus calls abnormal.
PodChanges(p) ==
    \E st \in {"running", "failed"} :
        /\ st # p.st
        /\ IF st = "failed" THEN Fault ELSE UNCHANGED faults
        /\ pods' = (pods \ {p}) \cup {[p EXCEPT !.st = st]}

\* A pod goes with its Deployment, or when its successor runs.
PodGone(p) ==
    /\ \/ dep = None
       \/ dep # None /\ p.uid # dep.uid
       \/ /\ dep # None /\ p.ver # dep.ver
          /\ \E q \in pods : Current(q) /\ q.st = "running"
    /\ pods' = pods \ {p}
    /\ UNCHANGED faults

Kubernetes ==
    /\ PodCreated \/ \E p \in pods : PodChanges(p) \/ PodGone(p)
    /\ UNCHANGED <<tasks, dep, dwatch, informers, store, controllers, pc, snap>>

-----------------------------------------------------------------------------
Controller(t) ==
    \/ DeleteWorkload(t) \/ DeleteDeployment(t) \/ DeleteAllPods(t) \/ WaitStop(t)
    \/ RestartInit(t) \/ Create(t) \/ Patch(t) \/ WaitReady(t)
    \/ RefreshRead(t) \/ RefreshWrite(t) \/ callback(t)

Informer ==
    \/ DeploymentSeen \/ DeploymentEvent
    \/ (\E p \in pods \cup lpods : PodSeen(p)) \/ PodEvent

Next ==
    \/ \E t \in Tasks : Submit(t) \/ AnalystToExec(t) \/ Controller(t)
    \/ Informer \/ Resync \/ Kubernetes

Spec == Init /\ [][Next]_vars

\* Do keeps taking tasks, controllers go on (every wait has a timeout), and the
\* informers and Kubernetes do their work.
FairSpec ==
    /\ Spec
    /\ \A t \in Tasks : WF_vars(AnalystToExec(t)) /\ WF_vars(Controller(t))
    /\ WF_vars(Informer) /\ WF_vars(Resync) /\ WF_vars(Kubernetes)

-----------------------------------------------------------------------------
\* Properties.

Active == {"del_wl", "del_dep", "del_pods", "wait_stop", "init", "create", "patch", "wait_ready",
           "wait_upgrade"}
Final == {"refused", "ok", "timeout", "failed"}

\* Every variable has its type; a controller at work is in the table, and the store
\* has the service it works on.
TypeOK ==
    /\ queue \in Seq(Tasks)
    /\ submitted \subseteq Tasks
    /\ dbver \in Versions
    /\ dep \in Deployments \cup {None}
    /\ pods \subseteq Pods
    /\ dwatch \in Seq(Deployments \cup {None})
    /\ ldep \in Deployments \cup {None}
    /\ lpods \subseteq Pods
    /\ dnotes \in Seq(Deployments \cup {None})
    /\ pnotes \in Seq(Notes)
    /\ hdep \in Deployments \cup {None}
    /\ hpods \subseteq Pods
    /\ app \in AppServices \cup {None}
    /\ got \in [Tasks -> Reads \cup {None}]
    /\ reads \in 0..MaxRead
    /\ late \in BOOLEAN
    /\ controllers \subseteq Tasks
    /\ pc \in [Tasks -> Active \cup Final \cup {"none"}]
    /\ snap \in [Tasks -> AppServices]
    /\ \A t \in Tasks : /\ pc[t] \in Active => t \in controllers /\ app # None
                        /\ got[t] # None => pc[t] \in {"wait_stop", "wait_ready", "wait_upgrade"}
    /\ dropped \subseteq Tasks
    /\ faults \in 0..MaxFaults

\* A Deployment or a pod in the store that is not in the cluster any more is still
\* to be reported as deleted.  What the controllers write into the store between the
\* handlers' events leaves nothing behind that would refuse every later start ("the
\* service is not closed") or show the service as starting for ever, with one
\* exception: a refresh that read an object, was overtaken by the handling of its
\* deletion, and put it back.
NoGhosts ==
    app # None /\ ~late =>
      /\ app.dep # None /\ app.dep.rv /\ dep = None =>
            \E i \in DOMAIN (dnotes \o dwatch) : (dnotes \o dwatch)[i] = None
      /\ \A p \in app.pods :
            \/ \E q \in lpods : SamePod(p, q)
            \/ \E i \in DOMAIN pnotes : pnotes[i].gone /\ SamePod(pnotes[i].pod, p)

Quiet == queue = <<>> /\ controllers = {}

\* When nothing is going on and no upgrade was reported as failed, a service that
\* is deployed runs the version in the database: "if service already deploy,
\* upgrade it" (manager.go:379).
LatestDeployed ==
    Quiet /\ dep # None /\ dep.ver # dbver =>
        \E t \in Tasks : TaskKind[t] = "upgrade" /\ (pc[t] = "failed" \/ t \in dropped)

\* Every task that was sent is handled in the end and its controller leaves the
\* table, however often the worker was full when it came up, unless sending it back
\* failed.
EveryTaskEnds ==
    <>[](\A t \in submitted \ dropped : pc[t] \in Final /\ t \notin controllers)

\* The store has what the cluster has, and nothing else.
Agrees ==
    /\ dep # None => app # None /\ app.dep = [rv |-> TRUE, ver |-> dep.ver] /\ app.ver = dep.ver
    /\ pods # {} => app # None /\ pods \subseteq app.pods
    /\ app # None /\ ~late => app.pods = pods /\ (dep = None => (app.dep # None => ~app.dep.rv))

\* Once the controllers are through, the store comes to have what is in the cluster,
\* as it is there, and stays so, whatever they and the handlers wrote over each
\* other; it has nothing else unless a refresh put back what had been removed.
StoreConverges == <>[]Agrees
==============================================================================
