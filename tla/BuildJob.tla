------------------------------ MODULE BuildJob ------------------------------
(***************************************************************************)
(* The pods a builder runs its builds in (chaos/job), and the calls that   *)
(* wait for them (runBuildJob and waitingComplete of chaos/build, ImageBuild*)
(* of chaos/sources): all builds of one component in one builder process.  *)
(* A build stops the jobs it finds, creates its pod or attaches to one of  *)
(* the same name, enters a channel in subJobStatus and waits until the     *)
(* channel has told it the end of the container and the end of its log.    *)
(* What the channel tells comes from an informer, which lags behind the    *)
(* cluster, and whose handlers lag behind its lister.  Kubernetes is the   *)
(* environment.                                                            *)
(***************************************************************************)
EXTENDS Naturals, Sequences, FiniteSets

CONSTANTS Builds,       \* calls of Build and ImageBuild
          Names,        \* pod names of the component: one per version and phase
          None,
          MaxLag,       \* bound on changes a pod's watch, or its handlers, are behind
          MaxRestarts,  \* bound on restarts of failed containers
          MaxFaults     \* bound on evictions and failed calls

ASSUME JobAssumption ==
    /\ IsFiniteSet(Builds) /\ IsFiniteSet(Names)
    /\ None \notin Builds /\ None \notin Names
    /\ MaxLag \in Nat /\ MaxRestarts \in Nat /\ MaxFaults \in Nat

\* What the handlers see of a pod: its build container waiting, running, ended
\* with an exit code, or waiting with the reason CrashLoopBackOff.
Ended == {"complete", "failed", "backoff"}
PodState == {"none", "pending", "running"} \cup Ended

VARIABLES
    pod,       \* cluster: the state of the pod of a name
    term,      \* cluster: its deletion was requested
    restarts,  \* cluster: restarts so far
    watch,     \* pod states on their way to the informer, per name
    lister,    \* the informer's cache
    notif,     \* updates and deletions ("none") the handlers have still to run for
    sub,       \* subJobStatus: the build whose channel is entered for a name
    cont,      \* jobContainerStatus: the build whose container channel is entered
    pc,        \* where a build is
    name,      \* the pod name it builds under
    todo,      \* jobs that stopPreBuildJob has still to delete
    victim,    \* the job a DeleteJob call is about
    ring,      \* its result channel
    jobDone, logDone, err,   \* locals of waitingComplete
    log,       \* its getLogger goroutine
    signal,    \* jobContainerCh holds a token
    res,       \* what the build returned
    completed, \* history: names of pods that exited with 0
    faults

cluster == <<pod, term, restarts>>
informer == <<watch, lister, notif>>
tables == <<sub, cont>>
wait == <<ring, jobDone, logDone, err, res>>
logger == <<log, signal>>
vars == <<pod, term, restarts, watch, lister, notif, sub, cont, pc, name, todo, victim,
          ring, jobDone, logDone, err, log, signal, res, completed, faults>>

Init ==
    /\ pod = [n \in Names |-> "none"] /\ term = [n \in Names |-> FALSE]
    /\ restarts = 0
    /\ watch = [n \in Names |-> <<>>] /\ notif = [n \in Names |-> <<>>]
    /\ lister = [n \in Names |-> "none"]
    /\ sub = [n \in Names |-> None] /\ cont = [n \in Names |-> None]
    /\ pc = [b \in Builds |-> "idle"]
    /\ name = [b \in Builds |-> None]
    /\ todo = [b \in Builds |-> {}]
    /\ victim = [b \in Builds |-> None]
    /\ ring = [b \in Builds |-> <<>>]
    /\ jobDone = [b \in Builds |-> FALSE] /\ logDone = [b \in Builds |-> FALSE]
    /\ err = [b \in Builds |-> "nil"]
    /\ log = [b \in Builds |-> "none"]
    /\ signal = [b \in Builds |-> FALSE]
    /\ res = [b \in Builds |-> "none"]
    /\ completed = {}
    /\ faults = 0

Fault == faults < MaxFaults /\ faults' = faults + 1

-----------------------------------------------------------------------------
\* The cluster.

\* The pod of n changes and the change is on its way to the informer.  The log
\* stream of a container that is not running any more comes to its end.
SetPod(n, st) ==
    /\ Len(watch[n]) < MaxLag
    /\ pod' = [pod EXCEPT ![n] = st]
    /\ watch' = [watch EXCEPT ![n] = Append(@, st)]
    /\ log' = [b \in Builds |->
                 IF log[b] = "stream" /\ name[b] = n /\ st # "running" THEN "eof" ELSE log[b]]

\* The container starts, ends, and, with RestartPolicyOnFailure, backs off and
\* starts again after a failure.  A container that is being killed ends too.
PodRuns(n) ==
    /\ \/ pod[n] = "pending" /\ UNCHANGED restarts
       \/ pod[n] \in {"failed", "backoff"} /\ restarts < MaxRestarts /\ restarts' = restarts + 1
    /\ ~term[n]
    /\ SetPod(n, "running")
    /\ UNCHANGED <<term, lister, notif, tables, pc, name, todo, victim, wait, signal, completed, faults>>

PodEnds(n) ==
    /\ \/ pod[n] = "running" /\ SetPod(n, "complete") /\ completed' = completed \cup {n}
       \/ pod[n] = "running" /\ SetPod(n, "failed") /\ UNCHANGED completed
       \/ pod[n] = "failed" /\ ~term[n] /\ SetPod(n, "backoff") /\ UNCHANGED completed
    /\ UNCHANGED <<term, restarts, lister, notif, tables, pc, name, todo, victim, wait, signal, faults>>

\* The pod whose deletion was requested is gone.
PodGone(n) ==
    /\ term[n]
    /\ SetPod(n, "none")
    /\ term' = [term EXCEPT ![n] = FALSE]
    /\ UNCHANGED <<restarts, lister, notif, tables, pc, name, todo, victim, wait, signal, completed, faults>>

\* Another builder stops the component's jobs, or the pod is evicted.
Evict(n) ==
    /\ pod[n] # "none" /\ ~term[n]
    /\ Fault
    /\ term' = [term EXCEPT ![n] = TRUE]
    /\ UNCHANGED <<pod, restarts, informer, tables, pc, name, todo, victim, wait, logger, completed>>

-----------------------------------------------------------------------------
\* The informer and its handlers.

\* A change reaches the lister; AddFunc only logs, so the first state of a pod
\* is no event for the handlers.
InformerEvent(n) ==
    /\ watch[n] # <<>> /\ Len(notif[n]) < MaxLag
    /\ watch' = [watch EXCEPT ![n] = Tail(@)]
    /\ lister' = [lister EXCEPT ![n] = Head(watch[n])]
    /\ notif' = IF lister[n] = "none" THEN notif
                ELSE [notif EXCEPT ![n] = Append(@, Head(watch[n]))]
    /\ UNCHANGED <<cluster, tables, pc, name, todo, victim, wait, logger, completed, faults>>

\* The watch breaks and the informer lists again: what happened meanwhile shows
\* as one change, also when the pod was deleted and created anew.
Relist(n) ==
    /\ Len(watch[n]) > 1 /\ pod[n] # "none"
    /\ Fault
    /\ watch' = [watch EXCEPT ![n] = <<pod[n]>>]
    /\ UNCHANGED <<cluster, lister, notif, tables, pc, name, todo, victim, wait, logger, completed>>

\* Mutant: the handler is added without a resync period.
M_Resync(n) == FALSE /\ UNCHANGED vars

\* Every ten seconds UpdateFunc runs again for every pod of the lister.
Resync(n) ==
    /\ lister[n] # "none" /\ notif[n] = <<>>
    /\ notif' = [notif EXCEPT ![n] = <<lister[n]>>]
    /\ UNCHANGED <<cluster, watch, lister, tables, pc, name, todo, victim, wait, logger, completed, faults>>

\* ring.In() <- x.  The waiting build reads x and a second x right behind it as
\* one, so repeats are not kept; a ring nobody reads any more stays empty.
Pushed(b, x) ==
    IF pc[b] # "wait" \/ (ring[b] # <<>> /\ ring[b][Len(ring[b])] = x) THEN ring
    ELSE [ring EXCEPT ![b] = Append(@, x)]

\* Mutant: the state of the container is sent as it is.
M_HandlerEvent(n) ==
    /\ notif[n] # <<>>
    /\ notif' = [notif EXCEPT ![n] = Tail(@)]
    /\ ring' = IF sub[n] # None THEN Pushed(sub[n], Head(notif[n])) ELSE ring
    /\ UNCHANGED <<cluster, watch, lister, tables, pc, name, todo, victim, jobDone, logDone, err,
                   res, logger, completed, faults>>

\* UpdateFunc and DeleteFunc: the result to the channel entered in subJobStatus,
\* and a token, if there is room, to the one in jobContainerStatus (its logger
\* receives one token, later ones are not modelled).
HandlerEvent(n) ==
    /\ notif[n] # <<>>
    /\ notif' = [notif EXCEPT ![n] = Tail(@)]
    /\ LET st == Head(notif[n])
           r == IF st = "complete" THEN "complete" ELSE IF st = "none" THEN "cancel" ELSE "failed"
       IN /\ ring' = IF sub[n] # None /\ st \in Ended \cup {"none"} THEN Pushed(sub[n], r) ELSE ring
          /\ signal' = [b \in Builds |->
                \/ signal[b]
                \/ b = cont[n] /\ log[b] \in {"none", "wait"} /\ st \in Ended \cup {"running"}]
    /\ UNCHANGED <<cluster, watch, lister, tables, pc, name, todo, victim, jobDone, logDone, err,
                   res, log, completed, faults>>

-----------------------------------------------------------------------------
\* DeleteJob: the API call, then the two tables.  The API's error is only logged.

DeletePod(n) ==
    \/ /\ term' = IF pod[n] # "none" THEN [term EXCEPT ![n] = TRUE] ELSE term
       /\ UNCHANGED faults
    \/ Fault /\ UNCHANGED term

ForgetJob(n) ==
    /\ sub' = [sub EXCEPT ![n] = None]
    /\ cont' = [cont EXCEPT ![n] = None]

-----------------------------------------------------------------------------
\* A build.

\* Build: stopPreBuildJob lists every job of the component.
Build(b, n) ==
    /\ pc[b] = "idle"
    /\ name' = [name EXCEPT ![b] = n]
    /\ todo' = [todo EXCEPT ![b] = {m \in Names : lister[m] # "none"}]
    /\ pc' = [pc EXCEPT ![b] = "stop"]
    /\ UNCHANGED <<cluster, informer, tables, victim, wait, logger, completed, faults>>

\* ImageBuild stops a job of its own name only.
ImageBuild(b, n) ==
    /\ pc[b] = "idle"
    /\ name' = [name EXCEPT ![b] = n]
    /\ todo' = [todo EXCEPT ![b] = {m \in {n} : lister[m] # "none"}]
    /\ pc' = [pc EXCEPT ![b] = "stop"]
    /\ UNCHANGED <<cluster, informer, tables, victim, wait, logger, completed, faults>>

StopJob(b, n) ==
    /\ pc[b] = "stop" /\ n \in todo[b]
    /\ DeletePod(n)
    /\ todo' = [todo EXCEPT ![b] = @ \ {n}]
    /\ victim' = [victim EXCEPT ![b] = n]
    /\ pc' = [pc EXCEPT ![b] = "stop_forget"]
    /\ UNCHANGED <<pod, restarts, informer, tables, name, wait, logger, completed>>

StopForget(b) ==
    /\ pc[b] = "stop_forget"
    /\ ForgetJob(victim[b])
    /\ victim' = [victim EXCEPT ![b] = None]
    /\ pc' = [pc EXCEPT ![b] = "stop"]
    /\ UNCHANGED <<cluster, informer, name, todo, wait, logger, completed, faults>>

\* ExecJob enters the container channel first.  A pod of this name in the lister
\* is taken for this build's, else one is created.
ExecJob(b) ==
    /\ pc[b] = "stop" /\ todo[b] = {}
    /\ cont' = [cont EXCEPT ![name[b]] = b]
    /\ pc' = [pc EXCEPT ![b] = IF lister[name[b]] # "none" THEN "enter" ELSE "create"]
    /\ UNCHANGED <<cluster, informer, sub, name, todo, victim, wait, logger, completed, faults>>

Create(b) ==
    /\ pc[b] = "create"
    /\ pod[name[b]] = "none"
    /\ SetPod(name[b], "pending")
    /\ pc' = [pc EXCEPT ![b] = "enter"]
    /\ UNCHANGED <<term, restarts, lister, notif, tables, name, todo, victim, wait, signal, completed, faults>>

\* The pod exists although the lister has none, or the call fails, before or
\* after the pod was created: runBuildJob returns the error, and no DeleteJob.
CreateFails(b) ==
    /\ pc[b] = "create"
    /\ \/ pod[name[b]] # "none" /\ UNCHANGED <<pod, watch, log, faults>>
       \/ Fault /\ UNCHANGED <<pod, watch, log>>
       \/ pod[name[b]] = "none" /\ Fault /\ SetPod(name[b], "pending")
    /\ res' = [res EXCEPT ![b] = "error"]
    /\ pc' = [pc EXCEPT ![b] = "done"]
    /\ UNCHANGED <<term, restarts, lister, notif, tables, name, todo, victim, ring, jobDone, logDone,
                   err, signal, completed>>

\* The log goroutine is started and the result channel entered: only now can
\* the handlers reach this build.
Enter(b) ==
    /\ pc[b] = "enter"
    /\ log' = [log EXCEPT ![b] = "wait"]
    /\ sub' = [sub EXCEPT ![name[b]] = b]
    /\ pc' = [pc EXCEPT ![b] = "wait"]
    /\ UNCHANGED <<cluster, informer, cont, name, todo, victim, wait, signal, completed, faults>>

\* waitingComplete returns r and its locals are gone; runBuildJob's deferred
\* DeleteJob comes next.
Returned(b, r) ==
    /\ res' = [res EXCEPT ![b] = r]
    /\ ring' = [ring EXCEPT ![b] = <<>>]
    /\ jobDone' = [jobDone EXCEPT ![b] = FALSE]
    /\ logDone' = [logDone EXCEPT ![b] = FALSE]
    /\ err' = [err EXCEPT ![b] = "nil"]
    /\ pc' = [pc EXCEPT ![b] = "delete"]

\* Mutant: the end of the log ends the wait.
M_ReceiveLog(b) ==
    /\ pc[b] = "wait" /\ ring[b] # <<>>
    /\ LET x == Head(ring[b]) IN
       IF x = "logcomplete"
       THEN Returned(b, IF err[b] = "nil" THEN "success" ELSE err[b])
       ELSE /\ err' = [err EXCEPT ![b] = IF x = "complete" THEN @ ELSE x]
            /\ ring' = [ring EXCEPT ![b] = Tail(@)] /\ UNCHANGED <<pc, res, jobDone, logDone>>
    /\ UNCHANGED <<cluster, informer, tables, name, todo, victim, logger, completed, faults>>

\* The loop of waitingComplete: it returns when it has both the end of the job
\* and the end of the log.  "complete" leaves an earlier error in err, and is
\* returned as a success only if the log had ended before it.
Receive(b) ==
    /\ pc[b] = "wait" /\ ring[b] # <<>>
    /\ LET x == Head(ring[b])
           e == IF x \in {"failed", "cancel"} THEN x ELSE err[b]
           returned == IF x = "complete" \/ e = "nil" THEN "success" ELSE e
       IN IF (jobDone[b] \/ x # "logcomplete") /\ (logDone[b] \/ x = "logcomplete")
          THEN Returned(b, returned)
          ELSE /\ jobDone' = [jobDone EXCEPT ![b] = @ \/ x # "logcomplete"]
               /\ logDone' = [logDone EXCEPT ![b] = @ \/ x = "logcomplete"]
               /\ err' = [err EXCEPT ![b] = e]
               /\ ring' = [ring EXCEPT ![b] = Tail(@)]
               /\ UNCHANGED <<pc, res>>
    /\ UNCHANGED <<cluster, informer, tables, name, todo, victim, logger, completed, faults>>

\* Mutant: a build that times out does not delete its job.
M_Timeout(b) ==
    /\ pc[b] = "wait"
    /\ res' = [res EXCEPT ![b] = "timeout"]
    /\ ring' = [ring EXCEPT ![b] = <<>>]
    /\ pc' = [pc EXCEPT ![b] = "done"]
    /\ UNCHANGED <<cluster, informer, tables, name, todo, victim, jobDone, logDone, err, logger,
                   completed, faults>>

\* The 60 minutes are over.
Timeout(b) ==
    /\ pc[b] = "wait"
    /\ Returned(b, "timeout")
    /\ UNCHANGED <<cluster, informer, tables, name, todo, victim, logger, completed, faults>>

DeleteJob(b) ==
    /\ pc[b] = "delete"
    /\ DeletePod(name[b])
    /\ pc' = [pc EXCEPT ![b] = "forget"]
    /\ UNCHANGED <<pod, restarts, informer, tables, name, todo, victim, wait, logger, completed>>

\* The tables, then the deferred cancel of the context the logger runs under.
DeleteForget(b) ==
    /\ pc[b] = "forget"
    /\ ForgetJob(name[b])
    /\ pc' = [pc EXCEPT ![b] = "done"]
    /\ UNCHANGED <<cluster, informer, name, todo, victim, wait, logger, completed, faults>>

-----------------------------------------------------------------------------
\* The getLogger goroutine.

\* A token arrives and the log of the container is opened; this fails when there
\* is no container yet or any more.  A container that is not running gives its
\* log and the end of it.
LogOpen(b) ==
    /\ log[b] = "wait" /\ signal[b]
    /\ signal' = [signal EXCEPT ![b] = FALSE]
    /\ log' = [log EXCEPT ![b] = IF pod[name[b]] = "running" THEN "stream" ELSE "eof"]
    /\ UNCHANGED <<cluster, informer, tables, pc, name, todo, victim, wait, completed, faults>>

\* The stream breaks.
LogBreaks(b) ==
    /\ log[b] = "stream"
    /\ Fault
    /\ log' = [log EXCEPT ![b] = "eof"]
    /\ UNCHANGED <<cluster, informer, tables, pc, name, todo, victim, wait, signal, completed>>

\* Mutant: the wait for the container does not look at the context.
M_LogEnd(b) ==
    /\ log[b] = "eof"
    /\ log' = [log EXCEPT ![b] = "done"]
    /\ ring' = Pushed(b, "logcomplete")
    /\ UNCHANGED <<cluster, informer, tables, pc, name, todo, victim, jobDone, logDone, err, res,
                   signal, completed, faults>>

\* The end of the log or the cancelled context: the deferred send, and the
\* goroutine is over.
LogEnd(b) ==
    /\ log[b] = "eof" \/ (log[b] \in {"wait", "stream"} /\ pc[b] = "done")
    /\ log' = [log EXCEPT ![b] = "done"]
    /\ ring' = Pushed(b, "logcomplete")
    /\ UNCHANGED <<cluster, informer, tables, pc, name, todo, victim, jobDone, logDone, err, res,
                   signal, completed, faults>>

-----------------------------------------------------------------------------
\* Everything a build does by itself; not the start and not the timer.
BuildStep(b) ==
    \/ \E n \in Names : StopJob(b, n)
    \/ StopForget(b) \/ ExecJob(b) \/ Create(b) \/ CreateFails(b) \/ Enter(b)
    \/ Receive(b) \/ DeleteJob(b) \/ DeleteForget(b)

LogStep(b) == LogOpen(b) \/ LogEnd(b)

Next ==
    \/ \E n \in Names : \/ PodRuns(n) \/ PodEnds(n) \/ PodGone(n) \/ Evict(n)
                        \/ InformerEvent(n) \/ Relist(n) \/ Resync(n) \/ HandlerEvent(n)
    \/ \E b \in Builds : \/ \E n \in Names : Build(b, n) \/ ImageBuild(b, n)
                         \/ BuildStep(b) \/ Timeout(b) \/ LogStep(b) \/ LogBreaks(b)

Spec == Init /\ [][Next]_vars

\* Goroutines run, API calls answer, the informer delivers and resynchronises,
\* and a pod that is to go goes.  Nothing makes a container start, end or be
\* restarted, and the 60 minute timer is not relied upon.
FairSpec ==
    /\ Spec
    /\ \A b \in Builds : WF_vars(BuildStep(b)) /\ WF_vars(LogStep(b))
    /\ \A n \in Names : /\ WF_vars(InformerEvent(n)) /\ WF_vars(HandlerEvent(n))
                        /\ WF_vars(Resync(n)) /\ WF_vars(PodGone(n))

-----------------------------------------------------------------------------
\* Properties.

Results == {"complete", "failed", "cancel", "logcomplete"}

\* Types; a build that has begun has a name.
TypeOK ==
    /\ pod \in [Names -> PodState] /\ term \in [Names -> BOOLEAN]
    /\ restarts \in 0..MaxRestarts /\ faults \in 0..MaxFaults
    /\ watch \in [Names -> Seq(PodState)] /\ notif \in [Names -> Seq(PodState)]
    /\ lister \in [Names -> PodState]
    /\ sub \in [Names -> Builds \cup {None}] /\ cont \in [Names -> Builds \cup {None}]
    /\ pc \in [Builds -> {"idle", "stop", "stop_forget", "create", "enter", "wait", "delete",
                          "forget", "done"}]
    /\ name \in [Builds -> Names \cup {None}]
    /\ \A b \in Builds : pc[b] # "idle" => name[b] \in Names
    /\ todo \in [Builds -> SUBSET Names]
    /\ victim \in [Builds -> Names \cup {None}]
    /\ \A b \in Builds : pc[b] = "stop_forget" => victim[b] \in Names
    /\ ring \in [Builds -> Seq(Results)]
    /\ jobDone \in [Builds -> BOOLEAN] /\ logDone \in [Builds -> BOOLEAN]
    /\ err \in [Builds -> {"nil", "failed", "cancel"}]
    /\ log \in [Builds -> {"none", "wait", "stream", "eof", "done"}]
    /\ signal \in [Builds -> BOOLEAN]
    /\ res \in [Builds -> {"none", "success", "failed", "cancel", "timeout", "error"}]
    /\ completed \subseteq Names

\* A build is a success only if a pod of its version exited with 0, whatever
\* stale events, deletions, restarts and broken log streams came in between.
SuccessIsReal ==
    \A b \in Builds : res[b] = "success" => name[b] \in completed

\* A build is going to delete the pod of this name as its own.
WillDelete(b, n) == name[b] = n /\ pc[b] \in {"enter", "wait", "delete"}

\* Pods that no build is going to delete.
Stray == {n \in Names : /\ pod[n] # "none" /\ ~term[n]
                        /\ \A b \in Builds : ~WillDelete(b, n)}

\* "delete job after complete" (code_build.go:445): a pod that nobody is going
\* to delete cost a failed API call, at most one for each.
NoStrayPods == Cardinality(Stray) <= faults

\* The handlers reach the build, and its pod has come to an end by itself.
HasResult(b) ==
    /\ pc[b] = "wait"
    /\ sub[name[b]] = b /\ cont[name[b]] = b
    /\ pod[name[b]] \in Ended /\ ~term[name[b]]

\* A build whose pod has ended does not wait for the timer: an event that came
\* before the channel was entered comes again, and the log is read to its end.
ResultArrives == \A b \in Builds : ~<>[]HasResult(b)

\* The log goroutine of a build does not outlive it, also when its container
\* never started.
LoggerEnds == \A b \in Builds : pc[b] = "done" ~> log[b] \in {"none", "done"}
==============================================================================
