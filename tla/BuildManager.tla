---------------------------- MODULE BuildManager ----------------------------
(***************************************************************************)
(* The builders (chaos): each takes tasks from its topic of the message     *)
(* queue and runs them in goroutines, bounds them with a channel of tokens  *)
(* (e.tasks), gives tasks it has no room for back to the queue and, when it  *)
(* is stopped, gives back what is still in its table of running tasks.      *)
(* The queue is the abstract one of TaskQueue: a FIFO that a task leaves    *)
(* once.  A process that has died does not come back; the other builder is  *)
(* its replacement.                                                         *)
(***************************************************************************)
EXTENDS Integers, Sequences, FiniteSets

CONSTANTS Builders,     \* builder processes
          Tasks,        \* build tasks, each submitted once
          Kind,         \* the kind of a task
          Service,      \* the service a task builds
          Action,       \* what is to happen after a build
          TaskTopic,    \* the topic a task is submitted to
          BuilderTopic, \* config.Topic of a builder
          MaxTasks,     \* config.MaxTasks, the capacity of e.tasks
          Stoppable,    \* builders that may be asked to terminate
          MaxFaults,    \* bound on failed calls to the queue and the database
          None

Topics == {"builder", "windows_builder"}
Kinds == {"source", "image", "slug", "share"}

ASSUME BuildAssumption ==
    /\ Kind \in [Tasks -> Kinds]
    /\ Action \in [Tasks -> {"upgrade", "deploy"}]
    /\ TaskTopic \in [Tasks -> Topics]
    /\ BuilderTopic \in [Builders -> Topics]
    /\ MaxTasks \in Nat \ {0}
    /\ MaxFaults \in Nat
    /\ Stoppable \subseteq Builders
    /\ None \notin Tasks
    /\ IsFiniteSet(Tasks)

VARIABLES
    queue,     \* the queue of a topic
    submitted, \* tasks the API has sent
    do,        \* the Do goroutine of a builder
    data,      \* the task Do has dequeued
    slots,     \* len(e.tasks)
    gor,       \* the runTask goroutine of a task on a builder
    work,      \* what its build function has done
    running,   \* e.runningTask
    mode,      \* the process of a builder
    todo,      \* e.runningTask when Stop's Range began
    seen,      \* tasks Range has visited
    finished,  \* tasks whose build function came to an end at least once
    version,   \* the deploy version of a service in the database
    announced, \* a rolling_upgrade was sent since a build with action upgrade wrote it
    dropped,   \* tasks given up by a failed call
    faults

loop == <<do, data>>
exec == <<slots, gor, work, running>>
stop == <<mode, todo, seen>>
result == <<finished, version, announced>>
vars == <<queue, submitted, do, data, slots, gor, work, running, mode, todo, seen,
          finished, version, announced, dropped, faults>>

\* The tasks of RunTask with concurrencyControl = true keep their token for as
\* long as they run; the others put it back when they start.
Controlled(t) == Kind[t] = "source"
\* The build function starts a goroutine of its own and returns.
Async(t) == Kind[t] = "slug"
\* The build function runs its work a second time if it fails.
Retries(t) == Kind[t] \in {"image", "slug", "share"}
\* A successful build changes the version of the service.
Deploys(t) == Kind[t] \in {"source", "image", "slug"}

Init ==
    /\ queue = [q \in Topics |-> <<>>]
    /\ submitted = {}
    /\ do = [b \in Builders |-> "loop"]
    /\ data = [b \in Builders |-> None]
    /\ slots = [b \in Builders |-> 0]
    /\ gor = [b \in Builders |-> [t \in Tasks |-> "none"]]
    /\ work = [b \in Builders |-> [t \in Tasks |-> "none"]]
    /\ running = [b \in Builders |-> {}]
    /\ mode = [b \in Builders |-> "up"]
    /\ todo = [b \in Builders |-> {}]
    /\ seen = [b \in Builders |-> {}]
    /\ finished = {}
    /\ version = [s \in {Service[t] : t \in Tasks} |-> None]
    /\ announced = [s \in {Service[t] : t \in Tasks} |-> TRUE]
    /\ dropped = {}
    /\ faults = 0

Fault == faults < MaxFaults /\ faults' = faults + 1
NoFault == UNCHANGED faults

-----------------------------------------------------------------------------
\* The message queue.

\* The API sends a build task.
Submit(t) ==
    /\ t \notin submitted
    /\ submitted' = submitted \cup {t}
    /\ queue' = [queue EXCEPT ![TaskTopic[t]] = Append(@, t)]
    /\ UNCHANGED <<loop, exec, stop, result, dropped, faults>>

\* TaskManager.callback: put the task back, always in the builder topic.  An
\* error is logged and the task is gone; so it is once t.ctx is cancelled.
callback(b, t) ==
    \/ /\ mode[b] # "stopped"
       /\ queue' = [queue EXCEPT !["builder"] = Append(@, t)]
       /\ UNCHANGED <<dropped, faults>>
    \/ /\ IF mode[b] = "stopped" THEN NoFault ELSE Fault
       /\ dropped' = dropped \cup {t}
       /\ UNCHANGED queue

-----------------------------------------------------------------------------
\* The Do goroutine.

\* Do dequeues a task.
Dequeue(b) ==
    LET q == BuilderTopic[b] IN
    /\ do[b] = "loop" /\ mode[b] = "up" /\ queue[q] # <<>>
    /\ data' = [data EXCEPT ![b] = Head(queue[q])]
    /\ do' = [do EXCEPT ![b] = "add"]
    /\ queue' = [queue EXCEPT ![q] = Tail(@)]
    /\ UNCHANGED <<submitted, exec, stop, result, dropped, faults>>

\* After discoverCancel the loop ends.  The Dequeue that was waiting is answered
\* with "context canceled"; the queue may have taken a task for it by then.
DoExit(b) ==
    LET q == BuilderTopic[b] IN
    /\ do[b] = "loop" /\ mode[b] \in {"range", "stopped"}
    /\ do' = [do EXCEPT ![b] = "exited"]
    /\ \/ UNCHANGED <<queue, dropped, faults>>
       \/ /\ queue[q] # <<>> /\ Fault
          /\ dropped' = dropped \cup {Head(queue[q])}
          /\ queue' = [queue EXCEPT ![q] = Tail(@)]
    /\ UNCHANGED <<submitted, data, exec, stop, result>>

\* Mutant: the task is taken out of Do's hands before it is given back.
M_AddTaskCleared(b) ==
    LET t == data[b] IN
    /\ do[b] = "add" /\ mode[b] # "dead"
    /\ data' = [data EXCEPT ![b] = None]
    /\ \/ /\ slots[b] < MaxTasks
          /\ slots' = [slots EXCEPT ![b] = @ + 1]
          /\ gor' = [gor EXCEPT ![b][t] = "spawned"]
          /\ do' = [do EXCEPT ![b] = "loop"]
          /\ UNCHANGED <<queue, dropped, faults>>
       \/ /\ slots[b] >= MaxTasks
          /\ callback(b, data'[b])
          /\ do' = [do EXCEPT ![b] = "wait"]
          /\ UNCHANGED <<slots, gor>>
    /\ UNCHANGED <<submitted, work, running, stop, result>>

\* Mutant: a task that is given back because the builder is full also runs.
M_AddTaskBoth(b) ==
    LET t == data[b] IN
    /\ do[b] = "add" /\ mode[b] # "dead"
    /\ data' = [data EXCEPT ![b] = None]
    /\ \/ slots[b] < MaxTasks /\ UNCHANGED <<queue, dropped, faults>>
       \/ slots[b] >= MaxTasks /\ callback(b, t)
    /\ slots' = [slots EXCEPT ![b] = @ + 1]
    /\ gor' = [gor EXCEPT ![b][t] = "spawned"]
    /\ do' = [do EXCEPT ![b] = "loop"]
    /\ UNCHANGED <<submitted, work, running, stop, result>>

\* Mutant: a full builder waits without giving the task back.
M_AddTaskForgets(b) ==
    LET t == data[b] IN
    /\ do[b] = "add" /\ mode[b] # "dead"
    /\ data' = [data EXCEPT ![b] = None]
    /\ \/ /\ slots[b] < MaxTasks
          /\ slots' = [slots EXCEPT ![b] = @ + 1]
          /\ gor' = [gor EXCEPT ![b][t] = "spawned"]
          /\ do' = [do EXCEPT ![b] = "loop"]
       \/ slots[b] >= MaxTasks /\ do' = [do EXCEPT ![b] = "wait"] /\ UNCHANGED <<slots, gor>>
    /\ UNCHANGED <<queue, submitted, work, running, stop, result, dropped, faults>>

\* AddTask: with a free token, RunTask starts the goroutine of the task; without
\* one the task goes back to the queue and Do waits for room.
AddTask(b) ==
    LET t == data[b] IN
    /\ do[b] = "add" /\ mode[b] # "dead"
    /\ data' = [data EXCEPT ![b] = None]
    /\ \/ /\ slots[b] < MaxTasks
          /\ slots' = [slots EXCEPT ![b] = @ + 1]
          /\ gor' = [gor EXCEPT ![b][t] = "spawned"]
          /\ do' = [do EXCEPT ![b] = "loop"]
          /\ UNCHANGED <<queue, dropped, faults>>
       \/ /\ slots[b] >= MaxTasks
          /\ callback(b, t)
          /\ do' = [do EXCEPT ![b] = "wait"]
          /\ UNCHANGED <<slots, gor>>
    /\ UNCHANGED <<submitted, work, running, stop, result>>

\* The wait of AddTask ends when a token is free.
WaitRoom(b) ==
    /\ do[b] = "wait" /\ slots[b] < MaxTasks /\ mode[b] # "dead"
    /\ do' = [do EXCEPT ![b] = "loop"]
    /\ UNCHANGED <<queue, submitted, data, exec, stop, result, dropped, faults>>

-----------------------------------------------------------------------------
\* The goroutine of a task: runTask and runTaskWithErr.

\* The task enters the table of running tasks.
Enter(b, t) ==
    /\ gor[b][t] = "spawned"
    /\ running' = [running EXCEPT ![b] = @ \cup {t}]
    /\ gor' = [gor EXCEPT ![b][t] = "entered"]
    /\ UNCHANGED <<queue, submitted, loop, slots, work, stop, result, dropped, faults>>

\* Mutant: concurrencyControl is ignored at the start.
M_BeginReleases(b, t) ==
    /\ gor[b][t] = "entered"
    /\ slots[b] > 0 /\ slots' = [slots EXCEPT ![b] = @ - 1]
    /\ gor' = [gor EXCEPT ![b][t] = "in_f"]
    /\ work' = [work EXCEPT ![b][t] = "try1"]
    /\ UNCHANGED <<queue, submitted, loop, running, stop, result, dropped, faults>>

\* A task without concurrency control takes a token out of the channel (whoever
\* put it there), and the build function is called.
Begin(b, t) ==
    /\ gor[b][t] = "entered"
    /\ \/ Controlled(t) /\ UNCHANGED slots
       \/ ~Controlled(t) /\ slots[b] > 0 /\ slots' = [slots EXCEPT ![b] = @ - 1]
    /\ gor' = [gor EXCEPT ![b][t] = "in_f"]
    /\ work' = [work EXCEPT ![b][t] = "try1"]
    /\ UNCHANGED <<queue, submitted, loop, running, stop, result, dropped, faults>>

\* Mutant: the deferred receive is missing.
M_DeleteKeeps(b, t) ==
    /\ gor[b][t] = "in_f" /\ (Async(t) \/ work[b][t] = "none")
    /\ running' = [running EXCEPT ![b] = @ \ {t}]
    /\ gor' = [gor EXCEPT ![b][t] = "none"]
    /\ UNCHANGED <<queue, submitted, loop, slots, work, stop, result, dropped, faults>>

\* The build function returns, at once if it works in a goroutine of its own,
\* and the task leaves the table.
Delete(b, t) ==
    /\ gor[b][t] = "in_f" /\ (Async(t) \/ work[b][t] = "none")
    /\ running' = [running EXCEPT ![b] = @ \ {t}]
    /\ gor' = [gor EXCEPT ![b][t] = IF Controlled(t) THEN "release" ELSE "none"]
    /\ UNCHANGED <<queue, submitted, loop, slots, work, stop, result, dropped, faults>>

\* The deferred receive of a task with concurrency control.
Release(b, t) ==
    /\ gor[b][t] = "release" /\ slots[b] > 0
    /\ slots' = [slots EXCEPT ![b] = @ - 1]
    /\ gor' = [gor EXCEPT ![b][t] = "none"]
    /\ UNCHANGED <<queue, submitted, loop, work, running, stop, result, dropped, faults>>

-----------------------------------------------------------------------------
\* The build functions.

Finish(b, t) ==
    /\ work' = [work EXCEPT ![b][t] = "none"]
    /\ finished' = finished \cup {t}

\* Run fails (or is cancelled by Stop): once more, or the build has failed.  A
\* panic, which the build function recovers, ends it in either try.
RunFails(b, t) ==
    /\ work[b][t] \in {"try1", "try2"}
    /\ \/ /\ work[b][t] = "try1" /\ Retries(t)
          /\ work' = [work EXCEPT ![b][t] = "try2"] /\ UNCHANGED finished
       \/ Finish(b, t)
    /\ UNCHANGED <<queue, submitted, loop, slots, gor, running, stop, version, announced,
                   dropped, faults>>

\* Run succeeds; UpdateDeployVersion writes the version, or fails, which ends
\* the build without an upgrade.
RunSucceeds(b, t) ==
    /\ work[b][t] \in {"try1", "try2"}
    /\ \/ ~Deploys(t) /\ Finish(b, t) /\ UNCHANGED <<version, announced, faults>>
       \/ /\ Deploys(t)
          /\ work' = [work EXCEPT ![b][t] = "versioned"]
          /\ version' = [version EXCEPT ![Service[t]] = t]
          /\ announced' = [announced EXCEPT ![Service[t]] = @ /\ Action[t] # "upgrade"]
          /\ UNCHANGED <<finished, faults>>
       \/ Deploys(t) /\ Fault /\ Finish(b, t) /\ UNCHANGED <<version, announced>>
    /\ UNCHANGED <<queue, submitted, loop, slots, gor, running, stop, dropped>>

\* Mutant: a failure to record the event is not an error, and nothing is sent.
M_sendNothing(b, t) ==
    /\ work[b][t] = "versioned"
    /\ Finish(b, t)
    /\ UNCHANGED <<queue, submitted, loop, slots, gor, running, stop, version, announced,
                   dropped, faults>>

\* sendAction asks the worker for a rolling upgrade; the worker will read the
\* version from the database.  An action that is not "upgrade" sends nothing, and
\* Stop has closed the client of the queue when it is over.
sendAction(b, t) ==
    /\ work[b][t] = "versioned"
    /\ Finish(b, t)
    /\ \/ /\ Action[t] = "upgrade" /\ mode[b] # "stopped"
          /\ announced' = [announced EXCEPT ![Service[t]] = TRUE] /\ NoFault
       \/ /\ IF Action[t] = "upgrade" /\ mode[b] # "stopped" THEN Fault ELSE NoFault
          /\ UNCHANGED announced
    /\ UNCHANGED <<queue, submitted, loop, slots, gor, running, stop, version, dropped>>

-----------------------------------------------------------------------------
\* Termination.

\* SIGTERM: discoverCancel, and the executor's Stop begins to range over the
\* running tasks.
Stop(b) ==
    /\ b \in Stoppable /\ mode[b] = "up"
    /\ mode' = [mode EXCEPT ![b] = "range"]
    /\ todo' = [todo EXCEPT ![b] = running[b]]
    /\ UNCHANGED <<queue, submitted, loop, exec, seen, result, dropped, faults>>

\* Do finds no connection to the queue, reports it on errChan and ends; the main
\* goroutine receives the error and stops everything.
QueueUnreachable(b) ==
    /\ do[b] = "loop"
    /\ Fault
    /\ do' = [do EXCEPT ![b] = "exited"]
    /\ b \in Stoppable /\ mode[b] = "up"
    /\ mode' = [mode EXCEPT ![b] = "range"]
    /\ todo' = [todo EXCEPT ![b] = running[b]]
    /\ UNCHANGED <<queue, submitted, data, exec, seen, result, dropped>>

\* sync.Map.Range visits a key that is there: callback.
RangeVisit(b, t) ==
    /\ mode[b] = "range" /\ t \in running[b] \ seen[b]
    /\ seen' = [seen EXCEPT ![b] = @ \cup {t}]
    /\ callback(b, t)
    /\ UNCHANGED <<submitted, loop, exec, mode, todo, result>>

\* Mutant: the function passed to Range returns false.
M_RangeOnce(b) ==
    /\ mode[b] = "range" /\ (seen[b] # {} \/ todo[b] \cap running[b] = {})
    /\ mode' = [mode EXCEPT ![b] = "stopped"]
    /\ UNCHANGED <<queue, submitted, loop, exec, todo, seen, result, dropped, faults>>

\* Range has visited every key that was there all the time; keys stored since
\* then may be missed.  callbackChan is empty, and t.ctx is cancelled.
RangeEnd(b) ==
    /\ mode[b] = "range" /\ todo[b] \cap running[b] \subseteq seen[b]
    /\ mode' = [mode EXCEPT ![b] = "stopped"]
    /\ UNCHANGED <<queue, submitted, loop, exec, todo, seen, result, dropped, faults>>

\* Run returns and the process exits with everything it was doing.
Exit(b) ==
    /\ mode[b] = "stopped"
    /\ mode' = [mode EXCEPT ![b] = "dead"]
    /\ do' = [do EXCEPT ![b] = "exited"]
    /\ data' = [data EXCEPT ![b] = None]
    /\ slots' = [slots EXCEPT ![b] = 0]
    /\ gor' = [gor EXCEPT ![b] = [t \in Tasks |-> "none"]]
    /\ work' = [work EXCEPT ![b] = [t \in Tasks |-> "none"]]
    /\ running' = [running EXCEPT ![b] = {}]
    /\ UNCHANGED <<queue, submitted, todo, seen, result, dropped, faults>>

-----------------------------------------------------------------------------
DoStep(b) == Dequeue(b) \/ DoExit(b) \/ AddTask(b) \/ WaitRoom(b)

TaskStep(b, t) ==
    \/ Enter(b, t) \/ Begin(b, t) \/ Delete(b, t) \/ Release(b, t)
    \/ RunFails(b, t) \/ RunSucceeds(b, t) \/ sendAction(b, t)

StopStep(b) == RangeEnd(b) \/ Exit(b) \/ \E t \in Tasks : RangeVisit(b, t)

Next ==
    \/ \E t \in Tasks : Submit(t)
    \/ \E b \in Builders : DoStep(b) \/ Stop(b) \/ QueueUnreachable(b) \/ StopStep(b)
    \/ \E b \in Builders, t \in Tasks : TaskStep(b, t)

Spec == Init /\ [][Next]_vars

\* Goroutines run, builds end (Run has a timeout), and Stop goes on.
FairSpec ==
    /\ Spec
    /\ \A b \in Builders : WF_vars(DoStep(b)) /\ WF_vars(StopStep(b))
    /\ \A b \in Builders, t \in Tasks : WF_vars(TaskStep(b, t))

-----------------------------------------------------------------------------
\* Properties.

\* Every variable has its type, and Do has a task in hand when it calls AddTask
\* (discover.go:125).
TypeOK ==
    /\ queue \in [Topics -> Seq(Tasks)]
    /\ submitted \subseteq Tasks
    /\ do \in [Builders -> {"loop", "add", "wait", "exited"}]
    /\ data \in [Builders -> Tasks \cup {None}]
    /\ \A b \in Builders : do[b] = "add" => data[b] \in Tasks
    /\ slots \in [Builders -> Nat]
    /\ gor \in [Builders -> [Tasks -> {"none", "spawned", "entered", "in_f", "release"}]]
    /\ work \in [Builders -> [Tasks -> {"none", "try1", "try2", "versioned"}]]
    /\ running \in [Builders -> SUBSET Tasks]
    /\ mode \in [Builders -> {"up", "range", "stopped", "dead"}]
    /\ todo \in [Builders -> SUBSET Tasks]
    /\ seen \in [Builders -> SUBSET Tasks]
    /\ finished \subseteq Tasks
    /\ version \in [{Service[t] : t \in Tasks} -> Tasks \cup {None}]
    /\ announced \in [{Service[t] : t \in Tasks} -> BOOLEAN]
    /\ dropped \subseteq Tasks
    /\ faults \in 0..MaxFaults

\* The tasks whose token is in the channel.
Holders(b) == {t \in Tasks : \/ gor[b][t] \in {"spawned", "entered"}
                             \/ gor[b][t] \in {"in_f", "release"} /\ Controlled(t)}

\* The channel holds one token for every goroutine that has still to take one
\* out, and never more than its capacity.  A receive takes any token, "not
\* necessarily a task that is currently completed" (exector.go:214), and still
\* none ever blocks, and no more than MaxTasks controlled tasks run.
SlotAccounting ==
    \A b \in Builders : slots[b] = Cardinality(Holders(b)) /\ slots[b] <= MaxTasks

\* A builder has a task: in Do's hands, in its goroutine or in its work; the copy
\* is fresh until Stop has given it back.
Present(b, t) == data[b] = t \/ gor[b][t] # "none" \/ work[b][t] # "none"
Fresh(b, t) == Present(b, t) /\ t \notin seen[b]

InQueue(t, q, i) == i \in DOMAIN queue[q] /\ queue[q][i] = t
Around(t) == \/ \E q \in Topics : \E i \in DOMAIN queue[q] : queue[q][i] = t
             \/ \E b \in Builders : Present(b, t)

\* A task is in one place, a queue or a builder; every further copy is one that a
\* builder gave back when it was stopped and is still at work on.
NoDuplicateRun ==
    \A t \in Tasks :
      /\ \A q, p \in Topics : \A i \in DOMAIN queue[q], j \in DOMAIN queue[p] :
            InQueue(t, q, i) /\ InQueue(t, p, j) => q = p /\ i = j
      /\ \A q \in Topics : \A i \in DOMAIN queue[q] :
            InQueue(t, q, i) => \A b \in Builders : ~Fresh(b, t)
      /\ \A b, c \in Builders : Fresh(b, t) /\ Fresh(c, t) => b = c

\* As long as no builder has exited, a submitted task is around, was worked on to
\* the end, or was dropped by a failed call: bouncing between full builders and
\* the queue loses none.
NothingForgotten ==
    (\A b \in Builders : mode[b] # "dead") =>
        \A t \in submitted : Around(t) \/ t \in finished \/ t \in dropped

\* What is in the table of running tasks when Stop begins was given back or came
\* to its end by the time Stop is over (unless it left the table early because it
\* works in a goroutine of its own).
StopRecycles ==
    \A b \in Builders : mode[b] \in {"stopped", "dead"} =>
        \A t \in todo[b] : t \in seen[b] \/ t \in finished \/ Async(t)

\* Every submitted task is eventually worked on to its end, however often the
\* builders are full when it comes up.
EveryTaskFinishes == \A t \in Tasks : (t \in submitted) ~> (t \in finished)

\* Every version that a build with action upgrade wrote to the database is
\* followed by a rolling_upgrade, also when another build of the service, with or
\* without that action, overlaps.
EveryVersionAnnounced ==
    \A t \in Tasks : ~announced[Service[t]] ~> announced[Service[t]]
==============================================================================
