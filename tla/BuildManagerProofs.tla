-------------------------- MODULE BuildManagerProofs --------------------------
(***************************************************************************)
(* Proofs about BuildManager for any number of builders, tasks, tokens and  *)
(* failing calls.  A builder that is up has given nothing back, so what it  *)
(* holds is its own; a task that is in a queue is nobody's.                 *)
(***************************************************************************)
EXTENDS BuildManager, FiniteSetTheorems, SequenceTheorems, TLAPS

Queued(t) == \E q \in Topics : \E i \in DOMAIN queue[q] : queue[q][i] = t

\* A task is in the queues at most once.
Unique ==
    \A t \in Tasks : \A q, p \in Topics : \A i \in DOMAIN queue[q], j \in DOMAIN queue[p] :
        queue[q][i] = t /\ queue[p][j] = t => q = p /\ i = j

\* A task that is queued is fresh nowhere, and it is fresh in one builder at most.
OneOwner ==
    \A t \in Tasks :
      /\ Queued(t) => \A b \in Builders : ~Fresh(b, t)
      /\ \A b, c \in Builders : Fresh(b, t) /\ Fresh(c, t) => b = c

\* What Do holds is new to its builder.
DoInv ==
    \A b \in Builders :
      /\ mode[b] = "up" => seen[b] = {}
      /\ do[b] # "add" => data[b] = None
      /\ do[b] = "add" => /\ gor[b][data[b]] = "none" /\ work[b][data[b]] = "none"
                          /\ data[b] \notin seen[b]

\* What the goroutine of a task knows.
TableInv ==
    \A b \in Builders, t \in Tasks :
      /\ t \in running[b] => gor[b][t] \in {"entered", "in_f"}
      /\ gor[b][t] = "release" => Controlled(t)
      /\ gor[b][t] \in {"in_f", "release"} => work[b][t] # "none" \/ t \in finished

\* A task that was not submitted is nowhere.
Known ==
    \A t \in Tasks : t \notin submitted => ~Queued(t) /\ \A b \in Builders : ~Present(b, t)

IInv == TypeOK /\ Unique /\ OneOwner /\ DoInv /\ TableInv /\ Known

-----------------------------------------------------------------------------
\* A task that is put at the end of a queue is in the queues once if it was not
\* there, and nothing else changes.
LEMMA AppendTask ==
    ASSUME TypeOK, Unique, NEW t \in Tasks, ~Queued(t), NEW p \in Topics,
           queue' = [queue EXCEPT ![p] = Append(@, t)]
    PROVE  /\ queue' \in [Topics -> Seq(Tasks)]
           /\ Unique'
           /\ \A u \in Tasks : Queued(u)' <=> Queued(u) \/ u = t
<1>1. queue \in [Topics -> Seq(Tasks)] /\ queue[p] \in Seq(Tasks)
  BY DEF TypeOK
<1>2. /\ queue' \in [Topics -> Seq(Tasks)]
      /\ queue'[p] = Append(queue[p], t) /\ \A q \in Topics \ {p} : queue'[q] = queue[q]
  BY <1>1
<1>3. /\ Len(queue[p]) \in Nat /\ DOMAIN queue[p] = 1..Len(queue[p])
      /\ DOMAIN queue'[p] = 1..(Len(queue[p]) + 1)
      /\ queue'[p][Len(queue[p]) + 1] = t
      /\ \A i \in DOMAIN queue[p] : queue'[p][i] = queue[p][i]
  BY <1>1, <1>2
<1>4. \A i \in DOMAIN queue'[p] : i \in DOMAIN queue[p] \/ i = Len(queue[p]) + 1
  BY <1>3
<1>5. DOMAIN queue[p] \subseteq DOMAIN queue'[p] /\ Len(queue[p]) + 1 \in DOMAIN queue'[p]
  BY <1>3
<1>6. \A u \in Tasks : Queued(u)' <=> Queued(u) \/ u = t
  BY <1>2, <1>3, <1>4, <1>5 DEF Queued
<1>7. \A q \in Topics : \A i \in DOMAIN queue'[q] :
         \/ q = p /\ i = Len(queue[p]) + 1 /\ queue'[q][i] = t
         \/ i \in DOMAIN queue[q] /\ queue'[q][i] = queue[q][i] /\ queue[q][i] # t
  BY <1>2, <1>3, <1>4 DEF Queued
<1>8. Unique'
  BY <1>7 DEF Unique
<1> QED BY <1>2, <1>6, <1>8

\* A task that is taken from the head of a queue is no longer there.
LEMMA TakeTask ==
    ASSUME TypeOK, Unique, NEW p \in Topics, queue[p] # <<>>,
           queue' = [queue EXCEPT ![p] = Tail(@)]
    PROVE  /\ queue' \in [Topics -> Seq(Tasks)] /\ Head(queue[p]) \in Tasks
           /\ Unique' /\ Queued(Head(queue[p]))
           /\ \A u \in Tasks : Queued(u)' <=> Queued(u) /\ u # Head(queue[p])
<1> DEFINE t == Head(queue[p])
           n == Len(queue[p])
<1>1. queue \in [Topics -> Seq(Tasks)] /\ queue[p] \in Seq(Tasks)
  BY DEF TypeOK
<1>2. /\ t \in Tasks /\ Tail(queue[p]) \in Seq(Tasks) /\ n \in Nat \ {0}
      /\ DOMAIN queue[p] = 1..n /\ t = queue[p][1]
      /\ Len(Tail(queue[p])) = n - 1
      /\ \A i \in 1..(n - 1) : Tail(queue[p])[i] = queue[p][i + 1]
  <2>1. n \in Nat \ {0}
    BY <1>1, EmptySeq
  <2> QED BY <1>1, <2>1
<1>3. /\ queue' \in [Topics -> Seq(Tasks)] /\ queue'[p] = Tail(queue[p])
      /\ \A q \in Topics \ {p} : queue'[q] = queue[q]
  BY <1>1, <1>2
<1>4. DOMAIN queue'[p] = 1..(n - 1)
  BY <1>2, <1>3
<1> HIDE DEF t, n
<1>5. \A i \in 1..(n - 1) : i + 1 \in 1..n /\ i + 1 # 1
  BY <1>2
<1>6. \A i \in 1..n : i = 1 \/ (i - 1 \in 1..(n - 1) /\ (i - 1) + 1 = i)
  BY <1>2
<1>7. 1 \in 1..n
  BY <1>2
<1>8. Queued(t)
  BY <1>2, <1>7 DEF Queued
<1>9. \A q \in Topics : \A i \in DOMAIN queue[q] : queue[q][i] = t => q = p /\ i = 1
  BY <1>2, <1>7 DEF Unique
<1>10. \A q \in Topics : \A i \in DOMAIN queue'[q] :
          \E k \in DOMAIN queue[q] : /\ queue'[q][i] = queue[q][k]
                                     /\ k = IF q = p THEN i + 1 ELSE i
                                     /\ queue[q][k] # t
  <2>1. \A i \in DOMAIN queue'[p] : /\ i + 1 \in DOMAIN queue[p] /\ queue'[p][i] = queue[p][i + 1]
                                    /\ queue[p][i + 1] # t
    BY <1>2, <1>3, <1>4, <1>5, <1>9
  <2>2. \A q \in Topics \ {p} : \A i \in DOMAIN queue'[q] :
           i \in DOMAIN queue[q] /\ queue'[q][i] = queue[q][i] /\ queue[q][i] # t
    BY <1>3, <1>9
  <2> QED BY <2>1, <2>2
<1>11. \A q \in Topics : \A k \in DOMAIN queue[q] :
          queue[q][k] = t \/ \E i \in DOMAIN queue'[q] : queue'[q][i] = queue[q][k]
  <2>1. ASSUME NEW k \in DOMAIN queue[p], k # 1
        PROVE  k - 1 \in DOMAIN queue'[p] /\ queue'[p][k - 1] = queue[p][k]
    <3>1. k - 1 \in 1..(n - 1) /\ (k - 1) + 1 = k
      BY <1>2, <1>6, <2>1
    <3> QED BY <1>2, <1>3, <1>4, <3>1
  <2>2. ASSUME NEW q \in Topics, q # p, NEW k \in DOMAIN queue[q]
        PROVE  \E i \in DOMAIN queue'[q] : queue'[q][i] = queue[q][k]
    BY <1>3, <2>2
  <2>3. ASSUME NEW k \in DOMAIN queue[p]
        PROVE  queue[p][k] = t \/ \E i \in DOMAIN queue'[p] : queue'[p][i] = queue[p][k]
    BY <1>2, <2>1
  <2> QED BY <2>2, <2>3
<1>12. \A u \in Tasks : Queued(u)' <=> Queued(u) /\ u # t
  BY <1>10, <1>11 DEF Queued
<1>13. Unique'
  <2> SUFFICES ASSUME NEW u \in Tasks, NEW q \in Topics, NEW r \in Topics,
                      NEW i \in DOMAIN queue'[q], NEW j \in DOMAIN queue'[r],
                      queue'[q][i] = u, queue'[r][j] = u
               PROVE  q = r /\ i = j
    BY DEF Unique
  <2>1. PICK k \in DOMAIN queue[q] : queue[q][k] = u /\ k = IF q = p THEN i + 1 ELSE i
    BY <1>10
  <2>2. PICK l \in DOMAIN queue[r] : queue[r][l] = u /\ l = IF r = p THEN j + 1 ELSE j
    BY <1>10
  <2>3. q = r /\ k = l
    BY <2>1, <2>2 DEF Unique
  <2>4. CASE q = p
    <3>1. i \in Int /\ j \in Int /\ i + 1 = j + 1
      BY <1>2, <1>4, <2>1, <2>2, <2>3, <2>4
    <3> QED BY <2>3, <3>1
  <2> QED BY <2>1, <2>2, <2>3, <2>4
<1> QED BY <1>2, <1>3, <1>8, <1>12, <1>13 DEF t
-----------------------------------------------------------------------------
\* A failure stays within its bound.
LEMMA FaultType == ASSUME TypeOK, Fault \/ UNCHANGED faults PROVE faults' \in 0..MaxFaults
<1>1. MaxFaults \in Nat
  BY BuildAssumption DEF BuildAssumption
<1> QED BY <1>1 DEF TypeOK, Fault

\* A step that moves no task: the queues are as they were, and a task is where it
\* was before or is given up.
LEMMA NoMove ==
    ASSUME IInv, UNCHANGED <<queue, submitted>>,
           \A b \in Builders, t \in Tasks :
             /\ Present(b, t)' => Present(b, t)
             /\ seen[b] \subseteq seen'[b]
    PROVE  Unique' /\ OneOwner' /\ Known'
<1>1. \A t \in Tasks : Queued(t)' <=> Queued(t)
  BY DEF Queued
<1>2. \A b \in Builders, t \in Tasks : Fresh(b, t)' => Fresh(b, t)
  BY DEF Fresh
<1>3. Unique'
  BY DEF IInv, Unique
<1>4. OneOwner'
  BY <1>1, <1>2 DEF IInv, OneOwner
<1>5. Known'
  BY <1>1 DEF IInv, Known
<1> QED BY <1>3, <1>4, <1>5

\* A step of the goroutine of a task, or of its work.
Local(b, t) ==
    /\ gor[b][t] # "none" \/ work[b][t] # "none"
    /\ \A c \in Builders, u \in Tasks : c # b \/ u # t =>
          gor'[c][u] = gor[c][u] /\ work'[c][u] = work[c][u]
    /\ UNCHANGED <<queue, submitted, do, data, mode, todo, seen, dropped>>

LEMMA LocalStep ==
    ASSUME IInv, NEW b \in Builders, NEW t \in Tasks, Local(b, t)
    PROVE  Unique' /\ OneOwner' /\ Known' /\ DoInv'
<1>1. \A c \in Builders, u \in Tasks : Present(c, u)' => Present(c, u)
  BY DEF Local, Present
<1>2. Unique' /\ OneOwner' /\ Known'
  BY <1>1, NoMove DEF Local
<1>3. DoInv'
  <2> SUFFICES ASSUME NEW c \in Builders
               PROVE  /\ mode[c] = "up" => seen[c] = {}
                      /\ do[c] # "add" => data[c] = None
                      /\ do[c] = "add" => /\ gor'[c][data[c]] = "none" /\ work'[c][data[c]] = "none"
                                          /\ data[c] \notin seen[c]
    BY DEF Local, DoInv
  <2>1. do[c] = "add" => data[c] \in Tasks
    BY DEF IInv, TypeOK
  <2> QED BY <2>1 DEF IInv, DoInv, Local
<1> QED BY <1>2, <1>3

\* The goroutine's steps are of that kind.
LEMMA TaskLocal ==
    ASSUME IInv, NEW b \in Builders, NEW t \in Tasks, TaskStep(b, t)
    PROVE  Local(b, t)
<1>0. /\ gor \in [Builders -> [Tasks -> {"none", "spawned", "entered", "in_f", "release"}]]
      /\ work \in [Builders -> [Tasks -> {"none", "try1", "try2", "versioned"}]]
  BY DEF IInv, TypeOK
<1>1. CASE Enter(b, t) \/ Delete(b, t) \/ Release(b, t)
  BY <1>0, <1>1 DEF Enter, Delete, Release, Local, loop, stop
<1>2. CASE Begin(b, t)
  BY <1>0, <1>2 DEF Begin, Local, loop, stop
<1>3. CASE RunFails(b, t) \/ RunSucceeds(b, t) \/ sendAction(b, t)
  BY <1>0, <1>3 DEF RunFails, RunSucceeds, sendAction, Finish, Local, loop, stop
<1> QED BY <1>1, <1>2, <1>3 DEF TaskStep

LEMMA TaskType ==
    ASSUME IInv, NEW b \in Builders, NEW t \in Tasks, TaskStep(b, t)
    PROVE  TypeOK'
<1>0. TypeOK
  BY DEF IInv
<1>1. /\ UNCHANGED <<queue, submitted, do, data, mode, todo, seen, dropped>>
      /\ faults' \in 0..MaxFaults
  <2>1. Fault \/ UNCHANGED faults
    BY DEF TaskStep, Enter, Begin, Delete, Release, RunFails, RunSucceeds, sendAction, NoFault
  <2> QED BY <1>0, <2>1, FaultType, TaskLocal DEF Local
<1> DEFINE G == {"none", "spawned", "entered", "in_f", "release"}
           K == {"none", "try1", "try2", "versioned"}
<1>2. /\ gor' \in [Builders -> [Tasks -> G]] /\ work' \in [Builders -> [Tasks -> K]]
      /\ running' \in [Builders -> SUBSET Tasks]
  <2>0. /\ gor \in [Builders -> [Tasks -> G]] /\ work \in [Builders -> [Tasks -> K]]
        /\ running \in [Builders -> SUBSET Tasks]
    BY <1>0 DEF TypeOK
  <2>1. CASE Enter(b, t)
    BY <2>0, <2>1 DEF Enter
  <2>2. CASE Begin(b, t)
    BY <2>0, <2>2 DEF Begin
  <2>3. CASE Delete(b, t)
    BY <2>0, <2>3 DEF Delete
  <2>4. CASE Release(b, t)
    BY <2>0, <2>4 DEF Release
  <2>5. CASE RunFails(b, t) \/ RunSucceeds(b, t) \/ sendAction(b, t)
    <3>1. /\ \E v \in K : work' = [work EXCEPT ![b][t] = v]
          /\ UNCHANGED <<gor, running>>
      BY <2>5 DEF RunFails, RunSucceeds, sendAction, Finish
    <3> QED BY <2>0, <3>1
  <2> QED BY <2>1, <2>2, <2>3, <2>4, <2>5 DEF TaskStep
<1>4. slots' \in [Builders -> Nat]
  <2>1. slots \in [Builders -> Nat] /\ slots[b] \in Nat
    BY <1>0 DEF TypeOK
  <2>2. slots[b] > 0 => slots[b] - 1 \in Nat
    BY <2>1
  <2>3. UNCHANGED slots \/ (slots[b] > 0 /\ slots' = [slots EXCEPT ![b] = slots[b] - 1])
    BY <2>1 DEF TaskStep, Enter, Begin, Delete, Release, RunFails, RunSucceeds, sendAction
  <2> QED BY <2>1, <2>2, <2>3
<1>5. /\ finished' \subseteq Tasks
      /\ version' \in [{Service[u] : u \in Tasks} -> Tasks \cup {None}]
      /\ announced' \in [{Service[u] : u \in Tasks} -> BOOLEAN]
  <2> DEFINE S == {Service[u] : u \in Tasks}
  <2>0. /\ finished \subseteq Tasks /\ Service[t] \in S
        /\ version \in [S -> Tasks \cup {None}] /\ announced \in [S -> BOOLEAN]
    BY <1>0 DEF TypeOK
  <2> HIDE DEF S
  <2>1. CASE Enter(b, t) \/ Begin(b, t) \/ Delete(b, t) \/ Release(b, t)
    BY <2>0, <2>1 DEF Enter, Begin, Delete, Release, result, S
  <2>2. CASE RunFails(b, t)
    BY <2>0, <2>2 DEF RunFails, Finish, S
  <2>3. CASE RunSucceeds(b, t) \/ sendAction(b, t)
    <3>1. /\ UNCHANGED version \/ version' = [version EXCEPT ![Service[t]] = t]
          /\ \/ UNCHANGED announced
             \/ announced' = [announced EXCEPT ![Service[t]] = TRUE]
             \/ announced' = [announced EXCEPT ![Service[t]] = @ /\ Action[t] # "upgrade"]
          /\ UNCHANGED finished \/ finished' = finished \cup {t}
      BY <2>3 DEF RunSucceeds, sendAction, Finish
    <3>2. version' \in [S -> Tasks \cup {None}]
      BY <2>0, <3>1
    <3>3. announced' \in [S -> BOOLEAN]
      BY <2>0, <3>1
    <3> QED BY <2>0, <3>1, <3>2, <3>3 DEF S
  <2> QED BY <2>1, <2>2, <2>3 DEF TaskStep
<1> QED BY <1>0, <1>1, <1>2, <1>4, <1>5 DEF TypeOK

LEMMA TaskInv ==
    ASSUME IInv, NEW b \in Builders, NEW t \in Tasks, TaskStep(b, t)
    PROVE  IInv'
<1>0. /\ gor \in [Builders -> [Tasks -> {"none", "spawned", "entered", "in_f", "release"}]]
      /\ work \in [Builders -> [Tasks -> {"none", "try1", "try2", "versioned"}]]
      /\ running \in [Builders -> SUBSET Tasks]
  BY DEF IInv, TypeOK
<1>1. TypeOK' /\ Unique' /\ OneOwner' /\ Known' /\ DoInv' /\ Local(b, t)
  BY TaskType, TaskLocal, LocalStep
<1>2. TableInv'
  <2>1. CASE Enter(b, t)
    BY <1>0, <2>1 DEF Enter, IInv, TableInv, result
  <2>2. CASE Begin(b, t)
    BY <1>0, <2>2 DEF Begin, IInv, TableInv, result
  <2>3. CASE Delete(b, t) \/ Release(b, t)
    BY <1>0, <2>3 DEF Delete, Release, IInv, TableInv, result, Controlled, Async
  <2>4. CASE RunFails(b, t) \/ RunSucceeds(b, t) \/ sendAction(b, t)
    BY <1>0, <2>4 DEF RunFails, RunSucceeds, sendAction, Finish, IInv, TableInv
  <2> QED BY <2>1, <2>2, <2>3, <2>4 DEF TaskStep
<1> QED BY <1>1, <1>2 DEF IInv
-----------------------------------------------------------------------------
\* callback puts the task back or drops it.
LEMMA CallbackQueue ==
    ASSUME IInv, NEW b \in Builders, NEW t \in Tasks, ~Queued(t), callback(b, t)
    PROVE  /\ queue' \in [Topics -> Seq(Tasks)] /\ Unique'
           /\ \A u \in Tasks : (Queued(u)' => Queued(u) \/ u = t) /\ (Queued(u) => Queued(u)')
           /\ Queued(t)' \/ t \in dropped'
           /\ dropped' \subseteq Tasks /\ dropped \subseteq dropped' /\ faults' \in 0..MaxFaults
<1>1. TypeOK /\ Unique
  BY DEF IInv
<1>2. CASE queue' = [queue EXCEPT !["builder"] = Append(@, t)] /\ UNCHANGED <<dropped, faults>>
  <2>1. "builder" \in Topics
    BY DEF Topics
  <2>2. /\ queue' \in [Topics -> Seq(Tasks)] /\ Unique'
        /\ \A u \in Tasks : Queued(u)' <=> Queued(u) \/ u = t
    BY <1>1, <1>2, <2>1, AppendTask
  <2> QED BY <1>1, <1>2, <2>2 DEF TypeOK
<1>3. CASE (Fault \/ UNCHANGED faults) /\ dropped' = dropped \cup {t} /\ UNCHANGED queue
  <2>1. \A u \in Tasks : Queued(u)' <=> Queued(u)
    BY <1>3 DEF Queued
  <2>2. Unique'
    BY <1>1, <1>3 DEF Unique
  <2>3. faults' \in 0..MaxFaults
    BY <1>1, <1>3, FaultType
  <2> QED BY <1>1, <1>3, <2>1, <2>2, <2>3 DEF TypeOK
<1> QED BY <1>2, <1>3 DEF callback, NoFault

\* Submit: the task was nowhere before.
LEMMA SubmitInv == ASSUME IInv, NEW t \in Tasks, Submit(t) PROVE IInv'
<1>1. /\ TypeOK /\ Unique /\ ~Queued(t) /\ \A b \in Builders : ~Present(b, t)
  BY DEF IInv, Known, Submit
<1>2. /\ submitted' = submitted \cup {t}
      /\ UNCHANGED <<do, data, slots, gor, work, running, mode, todo, seen, finished, version,
                     announced, dropped, faults>>
  BY DEF Submit, loop, exec, stop, result
<1>3. /\ queue' \in [Topics -> Seq(Tasks)] /\ Unique'
      /\ \A u \in Tasks : Queued(u)' <=> Queued(u) \/ u = t
  <2>1. TaskTopic[t] \in Topics
    BY BuildAssumption DEF BuildAssumption
  <2> QED BY <1>1, <2>1, AppendTask DEF Submit
<1>4. TypeOK'
  BY <1>1, <1>2, <1>3 DEF TypeOK
<1>5. \A b \in Builders, u \in Tasks : (Present(b, u)' <=> Present(b, u)) /\ (Fresh(b, u)' <=> Fresh(b, u))
  BY <1>2 DEF Present, Fresh
<1>6. OneOwner' /\ Known'
  BY <1>1, <1>2, <1>3, <1>5 DEF IInv, OneOwner, Known, Fresh
<1>7. DoInv' /\ TableInv'
  BY <1>2 DEF IInv, DoInv, TableInv
<1> QED BY <1>3, <1>4, <1>6, <1>7 DEF IInv

\* Dequeue: the task was in the queue, so it is new to the builder, which is up.
LEMMA DequeueInv == ASSUME IInv, NEW b \in Builders, Dequeue(b) PROVE IInv'
<1> DEFINE q == BuilderTopic[b]
           t == Head(queue[q])
<1>1. q \in Topics
  BY BuildAssumption DEF BuildAssumption
<1>2. /\ TypeOK /\ Unique /\ queue[q] # <<>> /\ queue' = [queue EXCEPT ![q] = Tail(@)]
      /\ data' = [data EXCEPT ![b] = t] /\ do' = [do EXCEPT ![b] = "add"]
      /\ do[b] = "loop" /\ mode[b] = "up"
      /\ UNCHANGED <<submitted, slots, gor, work, running, mode, todo, seen, finished, version,
                     announced, dropped, faults>>
  BY DEF IInv, Dequeue, exec, stop, result
<1> HIDE DEF q
<1>3. /\ queue' \in [Topics -> Seq(Tasks)] /\ t \in Tasks /\ Unique' /\ Queued(t)
      /\ \A u \in Tasks : Queued(u)' <=> Queued(u) /\ u # t
  BY <1>1, <1>2, TakeTask
<1> HIDE DEF t
<1>4. seen[b] = {} /\ data[b] = None /\ ~Present(b, t) /\ t \in submitted
  BY <1>2, <1>3 DEF IInv, DoInv, OneOwner, Fresh, Known
<1>5. /\ do \in [Builders -> {"loop", "add", "wait", "exited"}] /\ data \in [Builders -> Tasks \cup {None}]
      /\ data'[b] = t /\ do'[b] = "add"
      /\ \A c \in Builders \ {b} : data'[c] = data[c] /\ do'[c] = do[c]
  BY <1>2 DEF TypeOK
<1>6. TypeOK'
  BY <1>2, <1>3, <1>5 DEF TypeOK
<1>7. \A c \in Builders, u \in Tasks :
         Present(c, u)' => (c = b /\ u = t) \/ Present(c, u)
  BY <1>2, <1>5 DEF Present
<1>8. \A c \in Builders, u \in Tasks : Fresh(c, u)' => (c = b /\ u = t) \/ Fresh(c, u)
  BY <1>2, <1>7 DEF Fresh
<1>9. OneOwner'
  BY <1>3, <1>8 DEF IInv, OneOwner
<1>10. Known'
  BY <1>2, <1>3, <1>4, <1>7 DEF IInv, Known
<1>11. DoInv'
  BY <1>2, <1>4, <1>5 DEF IInv, DoInv, Present
<1>12. TableInv'
  BY <1>2 DEF IInv, TableInv
<1> QED BY <1>3, <1>6, <1>9, <1>10, <1>11, <1>12 DEF IInv

\* The steps of Do and Stop that touch no task.
LEMMA IdleInv ==
    ASSUME IInv, NEW b \in Builders,
           WaitRoom(b) \/ Stop(b) \/ QueueUnreachable(b) \/ RangeEnd(b)
    PROVE  IInv'
<1>0. TypeOK
  BY DEF IInv
<1>1. /\ UNCHANGED <<queue, submitted, data, slots, gor, work, running, seen, finished, version,
                     announced, dropped>>
      /\ Fault \/ UNCHANGED faults
  BY DEF WaitRoom, Stop, QueueUnreachable, RangeEnd, loop, exec, stop, result
<1>2. /\ do' \in [Builders -> {"loop", "add", "wait", "exited"}]
      /\ \A c \in Builders : do'[c] = do[c] \/ (do[c] # "add" /\ do'[c] # "add")
  BY <1>0 DEF TypeOK, WaitRoom, Stop, QueueUnreachable, RangeEnd, loop
<1>3. /\ mode' \in [Builders -> {"up", "range", "stopped", "dead"}]
      /\ \A c \in Builders : mode'[c] = "up" => mode[c] = "up"
  BY <1>0 DEF TypeOK, WaitRoom, Stop, QueueUnreachable, RangeEnd, stop
<1>4. todo' \in [Builders -> SUBSET Tasks]
  BY <1>0 DEF TypeOK, WaitRoom, Stop, QueueUnreachable, RangeEnd, stop
<1>5. faults' \in 0..MaxFaults
  BY <1>0, <1>1, FaultType
<1>6. TypeOK'
  BY <1>0, <1>1, <1>2, <1>3, <1>4, <1>5 DEF TypeOK
<1>7. Unique' /\ OneOwner' /\ Known'
  BY <1>1, NoMove DEF Present
<1>8. DoInv' /\ TableInv'
  BY <1>1, <1>2, <1>3 DEF IInv, DoInv, TableInv
<1> QED BY <1>6, <1>7, <1>8 DEF IInv
\* DoExit: a task the queue took for a cancelled call is in nobody's hands.
LEMMA DoExitInv == ASSUME IInv, NEW b \in Builders, DoExit(b) PROVE IInv'
<1> DEFINE q == BuilderTopic[b]
<1>1. q \in Topics
  BY BuildAssumption DEF BuildAssumption
<1>2. /\ TypeOK /\ Unique /\ do[b] = "loop" /\ do' = [do EXCEPT ![b] = "exited"]
      /\ UNCHANGED <<submitted, data, slots, gor, work, running, mode, todo, seen, finished,
                     version, announced>>
      /\ Fault \/ UNCHANGED faults
  BY DEF IInv, DoExit, exec, stop, result
<1>3. /\ queue' \in [Topics -> Seq(Tasks)] /\ Unique' /\ dropped' \subseteq Tasks
      /\ \A u \in Tasks : Queued(u)' => Queued(u)
  <2>1. CASE UNCHANGED <<queue, dropped>>
    BY <1>2, <2>1 DEF TypeOK, Unique, Queued
  <2>2. CASE /\ queue[q] # <<>> /\ dropped' = dropped \cup {Head(queue[q])}
             /\ queue' = [queue EXCEPT ![q] = Tail(@)]
    <3> HIDE DEF q
    <3>1. /\ queue' \in [Topics -> Seq(Tasks)] /\ Head(queue[q]) \in Tasks /\ Unique'
          /\ \A u \in Tasks : Queued(u)' => Queued(u)
      BY <1>1, <1>2, <2>2, TakeTask
    <3> QED BY <1>2, <2>2, <3>1 DEF TypeOK
  <2> QED BY <2>1, <2>2 DEF DoExit
<1>4. faults' \in 0..MaxFaults
  BY <1>2, FaultType
<1>5. TypeOK'
  BY <1>2, <1>3, <1>4 DEF TypeOK
<1>6. \A c \in Builders, u \in Tasks : (Present(c, u)' <=> Present(c, u)) /\ (Fresh(c, u)' <=> Fresh(c, u))
  BY <1>2 DEF Present, Fresh
<1>7. OneOwner' /\ Known'
  BY <1>2, <1>3, <1>6 DEF IInv, OneOwner, Known
<1>8. \A c \in Builders : do'[c] = do[c] \/ (do[c] # "add" /\ do'[c] # "add")
  BY <1>2 DEF TypeOK
<1>9. DoInv' /\ TableInv'
  BY <1>2, <1>8 DEF IInv, DoInv, TableInv
<1> QED BY <1>3, <1>5, <1>7, <1>9 DEF IInv

\* AddTask: the task goes from Do to its goroutine, or back to the queue.
LEMMA AddTaskInv == ASSUME IInv, NEW b \in Builders, AddTask(b) PROVE IInv'
<1>0. PICK t \in Tasks : t = data[b]
  BY DEF IInv, TypeOK, AddTask
<1>1. /\ TypeOK /\ do[b] = "add" /\ None \notin Tasks
      /\ data' = [data EXCEPT ![b] = None]
      /\ UNCHANGED <<submitted, work, running, mode, todo, seen, finished, version, announced>>
  <2>1. None \notin Tasks
    BY BuildAssumption DEF BuildAssumption
  <2> QED BY <2>1 DEF IInv, TypeOK, AddTask, stop, result
<1>2. /\ gor[b][t] = "none" /\ work[b][t] = "none" /\ t \notin seen[b] /\ Fresh(b, t)
      /\ ~Queued(t) /\ t \in submitted /\ \A c \in Builders \ {b} : ~Fresh(c, t)
  <2>1. gor[b][t] = "none" /\ work[b][t] = "none" /\ t \notin seen[b]
    BY <1>0, <1>1 DEF IInv, DoInv
  <2>2. Present(b, t) /\ Fresh(b, t)
    BY <1>0, <2>1 DEF Present, Fresh
  <2> QED BY <1>1, <2>1, <2>2 DEF IInv, OneOwner, Known
<1>3. /\ data'[b] = None /\ \A c \in Builders \ {b} : data'[c] = data[c]
      /\ data' \in [Builders -> Tasks \cup {None}]
  BY <1>1 DEF TypeOK
<1>4. CASE /\ slots' = [slots EXCEPT ![b] = @ + 1]
           /\ gor' = [gor EXCEPT ![b][t] = "spawned"]
           /\ do' = [do EXCEPT ![b] = "loop"]
           /\ UNCHANGED <<queue, dropped, faults>>
  <2>1. /\ gor' \in [Builders -> [Tasks -> {"none", "spawned", "entered", "in_f", "release"}]]
        /\ gor'[b][t] = "spawned"
        /\ \A c \in Builders, u \in Tasks : c # b \/ u # t => gor'[c][u] = gor[c][u]
    BY <1>1, <1>4 DEF TypeOK
  <2>2. slots' \in [Builders -> Nat]
    <3>1. slots \in [Builders -> Nat] /\ slots[b] + 1 \in Nat
      BY <1>1 DEF TypeOK
    <3> QED BY <1>4, <3>1
  <2>3. /\ do' \in [Builders -> {"loop", "add", "wait", "exited"}] /\ do'[b] = "loop"
        /\ \A c \in Builders \ {b} : do'[c] = do[c]
    BY <1>1, <1>4 DEF TypeOK
  <2>4. TypeOK'
    BY <1>1, <1>3, <1>4, <2>1, <2>2, <2>3 DEF TypeOK
  <2>5. \A c \in Builders, u \in Tasks : Present(c, u)' => Present(c, u)
    BY <1>1, <1>2, <1>3, <2>1 DEF Present, Fresh
  <2>6. Unique' /\ OneOwner' /\ Known'
    BY <1>1, <1>4, <2>5, NoMove
  <2>7. DoInv'
    <3>1. \A c \in Builders : do'[c] = "add" => c # b /\ data'[c] \in Tasks
      BY <2>3, <2>4 DEF TypeOK
    <3> QED BY <1>1, <1>3, <2>1, <2>3, <3>1 DEF IInv, DoInv
  <2>8. TableInv'
    BY <1>1, <1>2, <2>1 DEF IInv, TableInv
  <2> QED BY <2>4, <2>6, <2>7, <2>8 DEF IInv
<1>5. CASE /\ callback(b, t)
           /\ do' = [do EXCEPT ![b] = "wait"]
           /\ UNCHANGED <<slots, gor>>
  <2>1. /\ queue' \in [Topics -> Seq(Tasks)] /\ Unique'
        /\ \A u \in Tasks : Queued(u)' => Queued(u) \/ u = t
        /\ dropped' \subseteq Tasks /\ faults' \in 0..MaxFaults
    BY <1>1, <1>2, <1>5, CallbackQueue
  <2>2. /\ do' \in [Builders -> {"loop", "add", "wait", "exited"}] /\ do'[b] = "wait"
        /\ \A c \in Builders \ {b} : do'[c] = do[c]
    BY <1>1, <1>5 DEF TypeOK
  <2>3. TypeOK'
    BY <1>1, <1>3, <1>5, <2>1, <2>2 DEF TypeOK
  <2>4. /\ \A c \in Builders, u \in Tasks : (Present(c, u)' => Present(c, u)) /\ (Fresh(c, u)' => Fresh(c, u))
        /\ ~Fresh(b, t)'
    BY <1>1, <1>2, <1>3, <1>5 DEF Present, Fresh
  <2>5. OneOwner'
    <3>1. \A c \in Builders : ~Fresh(c, t)'
      BY <1>1, <1>2, <2>4
    <3> QED BY <2>1, <2>4, <3>1 DEF IInv, OneOwner
  <2>6. Known'
    BY <1>1, <1>2, <2>1, <2>4 DEF IInv, Known
  <2>7. DoInv' /\ TableInv'
    BY <1>1, <1>3, <1>5, <2>2 DEF IInv, DoInv, TableInv
  <2> QED BY <2>1, <2>3, <2>5, <2>6, <2>7 DEF IInv
<1> QED BY <1>0, <1>4, <1>5 DEF AddTask

\* RangeVisit: what is given back was the builder's own, and is not from then on.
LEMMA RangeVisitInv ==
    ASSUME IInv, NEW b \in Builders, NEW t \in Tasks, RangeVisit(b, t) PROVE IInv'
<1>1. /\ TypeOK /\ t \in running[b] /\ t \notin seen[b] /\ mode[b] = "range" /\ callback(b, t)
      /\ seen' = [seen EXCEPT ![b] = @ \cup {t}]
      /\ UNCHANGED <<submitted, do, data, slots, gor, work, running, mode, todo, finished, version,
                     announced>>
  BY DEF IInv, RangeVisit, loop, exec, result
<1>2. /\ gor[b][t] # "none" /\ Fresh(b, t)
      /\ ~Queued(t) /\ t \in submitted /\ \A c \in Builders \ {b} : ~Fresh(c, t)
  <2>1. gor[b][t] # "none"
    BY <1>1 DEF IInv, TableInv
  <2>2. Present(b, t) /\ Fresh(b, t)
    BY <1>1, <2>1 DEF Present, Fresh
  <2> QED BY <2>1, <2>2 DEF IInv, OneOwner, Known
<1>3. /\ queue' \in [Topics -> Seq(Tasks)] /\ Unique'
      /\ \A u \in Tasks : Queued(u)' => Queued(u) \/ u = t
      /\ dropped' \subseteq Tasks /\ faults' \in 0..MaxFaults
  BY <1>1, <1>2, CallbackQueue
<1>4. /\ seen' \in [Builders -> SUBSET Tasks] /\ seen'[b] = seen[b] \cup {t}
      /\ \A c \in Builders \ {b} : seen'[c] = seen[c]
  BY <1>1 DEF TypeOK
<1>5. TypeOK'
  BY <1>1, <1>3, <1>4 DEF TypeOK
<1>6. /\ \A c \in Builders, u \in Tasks : (Present(c, u)' <=> Present(c, u)) /\ (Fresh(c, u)' => Fresh(c, u))
      /\ ~Fresh(b, t)'
  BY <1>1, <1>4 DEF Present, Fresh
<1>7. OneOwner'
  BY <1>2, <1>3, <1>6 DEF IInv, OneOwner
<1>8. Known'
  BY <1>1, <1>2, <1>3, <1>6 DEF IInv, Known
<1>9. DoInv'
  BY <1>1, <1>2, <1>4 DEF IInv, DoInv
<1>10. TableInv'
  BY <1>1 DEF IInv, TableInv
<1> QED BY <1>3, <1>5, <1>7, <1>8, <1>9, <1>10 DEF IInv

\* Exit: the builder holds nothing any more.
LEMMA ExitInv == ASSUME IInv, NEW b \in Builders, Exit(b) PROVE IInv'
<1>0. TypeOK
  BY DEF IInv
<1>1. UNCHANGED <<queue, submitted, todo, seen, finished, version, announced, dropped, faults>>
  BY DEF Exit, result
<1>2. /\ mode' \in [Builders -> {"up", "range", "stopped", "dead"}] /\ mode'[b] = "dead"
      /\ do' \in [Builders -> {"loop", "add", "wait", "exited"}] /\ do'[b] = "exited"
      /\ data' \in [Builders -> Tasks \cup {None}] /\ data'[b] = None
      /\ \A c \in Builders \ {b} : mode'[c] = mode[c] /\ do'[c] = do[c] /\ data'[c] = data[c]
  BY <1>0 DEF Exit, TypeOK
<1>3. /\ slots' \in [Builders -> Nat] /\ running' \in [Builders -> SUBSET Tasks] /\ running'[b] = {}
      /\ \A c \in Builders \ {b} : running'[c] = running[c]
  BY <1>0 DEF Exit, TypeOK
<1>4. /\ gor' \in [Builders -> [Tasks -> {"none", "spawned", "entered", "in_f", "release"}]]
      /\ \A u \in Tasks : gor'[b][u] = "none"
      /\ \A c \in Builders \ {b} : gor'[c] = gor[c]
  BY <1>0 DEF Exit, TypeOK
<1>5. /\ work' \in [Builders -> [Tasks -> {"none", "try1", "try2", "versioned"}]]
      /\ \A u \in Tasks : work'[b][u] = "none"
      /\ \A c \in Builders \ {b} : work'[c] = work[c]
  BY <1>0 DEF Exit, TypeOK
<1>6. TypeOK'
  BY <1>0, <1>1, <1>2, <1>3, <1>4, <1>5 DEF TypeOK
<1>7. \A c \in Builders, u \in Tasks : Present(c, u)' => Present(c, u)
  <2>1. None \notin Tasks
    BY BuildAssumption DEF BuildAssumption
  <2> QED BY <1>2, <1>4, <1>5, <2>1 DEF Present
<1>8. Unique' /\ OneOwner' /\ Known'
  BY <1>1, <1>7, NoMove
<1>9. DoInv'
  BY <1>1, <1>2, <1>4, <1>5 DEF IInv, DoInv
<1>10. TableInv'
  <2> SUFFICES ASSUME NEW c \in Builders, NEW u \in Tasks
               PROVE  /\ u \in running'[c] => gor'[c][u] \in {"entered", "in_f"}
                      /\ gor'[c][u] = "release" => Controlled(u)
                      /\ gor'[c][u] \in {"in_f", "release"} => work'[c][u] # "none" \/ u \in finished'
    BY DEF TableInv
  <2>1. CASE c = b
    BY <2>1, <1>3, <1>4
  <2>2. CASE c # b
    BY <2>2, <1>1, <1>3, <1>4, <1>5 DEF IInv, TableInv
  <2> QED BY <2>1, <2>2
<1> QED BY <1>6, <1>8, <1>9, <1>10 DEF IInv

-----------------------------------------------------------------------------
\* The initial state satisfies the invariant.
LEMMA InitInv == Init => IInv
<1> SUFFICES ASSUME Init PROVE IInv
  OBVIOUS
<1>0. MaxFaults \in Nat /\ None \notin Tasks
  BY BuildAssumption DEF BuildAssumption
<1>1. TypeOK
  BY <1>0 DEF Init, TypeOK
<1>2. \A t \in Tasks : ~Queued(t) /\ \A b \in Builders : ~Present(b, t)
  BY <1>0 DEF Init, Queued, Present
<1>3. Unique
  BY DEF Init, Unique
<1>4. OneOwner /\ Known
  BY <1>2 DEF OneOwner, Known, Fresh
<1>5. DoInv /\ TableInv
  BY DEF Init, DoInv, TableInv
<1> QED BY <1>1, <1>3, <1>4, <1>5 DEF IInv

\* Every step keeps it.
LEMMA NextInv == IInv /\ [Next]_vars => IInv'
<1> SUFFICES ASSUME IInv, [Next]_vars PROVE IInv'
  OBVIOUS
<1>1. CASE UNCHANGED vars
  BY <1>1 DEF vars, IInv, TypeOK, Unique, OneOwner, DoInv, TableInv, Known, Queued, Fresh, Present
<1>2. CASE \E t \in Tasks : Submit(t)
  BY <1>2, SubmitInv
<1>3. ASSUME NEW b \in Builders, DoStep(b) PROVE IInv'
  BY <1>3, DequeueInv, DoExitInv, AddTaskInv, IdleInv DEF DoStep
<1>4. ASSUME NEW b \in Builders, Stop(b) \/ QueueUnreachable(b) \/ StopStep(b) PROVE IInv'
  BY <1>4, IdleInv, ExitInv, RangeVisitInv DEF StopStep
<1>5. ASSUME NEW b \in Builders, NEW t \in Tasks, TaskStep(b, t) PROVE IInv'
  BY <1>5, TaskInv
<1> QED BY <1>1, <1>2, <1>3, <1>4, <1>5 DEF Next

\* The invariant holds in every behaviour.
THEOREM BuildInvariant == Spec => []IInv
<1> QED BY InitInv, NextInv, PTL DEF Spec

\* Every variable keeps its type, and Do has a task when it calls AddTask.
THEOREM BuildTypeCorrect == Spec => []TypeOK
<1>1. IInv => TypeOK
  BY DEF IInv
<1> QED BY <1>1, BuildInvariant, PTL

\* A task is in one place: a queue, or one builder, but for the copies that stopping
\* builders gave back.
THEOREM NoTaskTwice == Spec => []NoDuplicateRun
<1>1. IInv => NoDuplicateRun
  BY DEF IInv, Unique, OneOwner, Queued, NoDuplicateRun, InQueue
<1> QED BY <1>1, BuildInvariant, PTL
-----------------------------------------------------------------------------
\* A builder's tokens, when a goroutine is added to or removed from those that
\* have still to take one out.
LEMMA HolderCount ==
    ASSUME IInv, NEW b \in Builders
    PROVE  /\ IsFiniteSet(Holders(b)) /\ Cardinality(Holders(b)) \in Nat
           /\ \A t \in Tasks : t \notin Holders(b) =>
                Cardinality(Holders(b) \cup {t}) = Cardinality(Holders(b)) + 1
           /\ \A t \in Holders(b) :
                Cardinality(Holders(b) \ {t}) = Cardinality(Holders(b)) - 1
<1>0. IsFiniteSet(Tasks)
  BY BuildAssumption DEF BuildAssumption
<1>1. IsFiniteSet(Holders(b))
  BY <1>0, FS_Subset DEF Holders
<1>2. Cardinality(Holders(b)) \in Nat
  BY <1>1, FS_CardinalityType
<1> QED BY <1>1, <1>2, FS_AddElement, FS_RemoveElement

\* The step from one token count to the next, one builder at a time.
LEMMA SlotStep ==
    ASSUME IInv, SlotAccounting, NEW b \in Builders,
           slots' \in [Builders -> Nat],
           \A c \in Builders \ {b} : slots'[c] = slots[c] /\ Holders(c)' = Holders(c),
           \/ slots'[b] = slots[b] /\ Holders(b)' = Holders(b)
           \/ /\ slots[b] < MaxTasks /\ slots'[b] = slots[b] + 1
              /\ \E t \in Tasks \ Holders(b) : Holders(b)' = Holders(b) \cup {t}
           \/ /\ slots'[b] = slots[b] - 1
              /\ \E t \in Holders(b) : Holders(b)' = Holders(b) \ {t}
           \/ slots'[b] = 0 /\ Holders(b)' = {}
    PROVE  SlotAccounting'
<1>0. MaxTasks \in Nat
  BY BuildAssumption DEF BuildAssumption
<1>1. slots[b] = Cardinality(Holders(b)) /\ slots[b] <= MaxTasks /\ slots[b] \in Nat
  BY HolderCount DEF SlotAccounting
<1>2. slots'[b] = Cardinality(Holders(b)') /\ slots'[b] <= MaxTasks
  <2>1. CASE slots'[b] = slots[b] /\ Holders(b)' = Holders(b)
    BY <1>1, <2>1
  <2>2. ASSUME NEW t \in Tasks \ Holders(b), slots[b] < MaxTasks, slots'[b] = slots[b] + 1,
               Holders(b)' = Holders(b) \cup {t}
        PROVE  slots'[b] = Cardinality(Holders(b)') /\ slots'[b] <= MaxTasks
    <3>1. Cardinality(Holders(b) \cup {t}) = Cardinality(Holders(b)) + 1
      BY HolderCount
    <3> QED BY <1>0, <1>1, <2>2, <3>1
  <2>3. ASSUME NEW t \in Holders(b), slots'[b] = slots[b] - 1, Holders(b)' = Holders(b) \ {t}
        PROVE  slots'[b] = Cardinality(Holders(b)') /\ slots'[b] <= MaxTasks
    <3>1. Cardinality(Holders(b) \ {t}) = Cardinality(Holders(b)) - 1
      BY HolderCount
    <3> QED BY <1>0, <1>1, <2>3, <3>1
  <2>4. CASE slots'[b] = 0 /\ Holders(b)' = {}
    BY <1>0, <2>4, FS_EmptySet
  <2> QED BY <2>1, <2>2, <2>3, <2>4
<1>3. \A c \in Builders \ {b} : slots'[c] = Cardinality(Holders(c)') /\ slots'[c] <= MaxTasks
  BY DEF SlotAccounting
<1> QED BY <1>2, <1>3 DEF SlotAccounting

\* The channel of tokens is balanced: no receive blocks, and the capacity holds.
THEOREM SlotsBalanced == Spec => []SlotAccounting
<1>1. Init => SlotAccounting
  <2> SUFFICES ASSUME Init PROVE SlotAccounting
    OBVIOUS
  <2>1. MaxTasks \in Nat
    BY BuildAssumption DEF BuildAssumption
  <2>2. \A b \in Builders : Holders(b) = {} /\ slots[b] = 0
    BY DEF Init, Holders
  <2> QED BY <2>1, <2>2, FS_EmptySet DEF SlotAccounting
<1>2. IInv /\ IInv' /\ SlotAccounting /\ [Next]_vars => SlotAccounting'
  <2> SUFFICES ASSUME IInv, IInv', SlotAccounting, [Next]_vars PROVE SlotAccounting'
    OBVIOUS
  <2>0. /\ slots' \in [Builders -> Nat] /\ slots \in [Builders -> Nat]
        /\ gor \in [Builders -> [Tasks -> {"none", "spawned", "entered", "in_f", "release"}]]
    BY DEF IInv, TypeOK
  <2>1. CASE UNCHANGED <<slots, gor>>
    BY <2>1 DEF SlotAccounting, Holders
  <2>2. ASSUME NEW b \in Builders, AddTask(b), gor' # gor PROVE SlotAccounting'
    <3>0. PICK t \in Tasks : t = data[b]
      BY <2>2 DEF IInv, TypeOK, AddTask
    <3>1. /\ slots[b] < MaxTasks /\ slots' = [slots EXCEPT ![b] = @ + 1]
          /\ gor' = [gor EXCEPT ![b][t] = "spawned"]
      BY <2>2, <3>0 DEF AddTask
    <3>2. t \notin Holders(b)
      BY <2>2, <3>0 DEF IInv, DoInv, AddTask, Holders
    <3>3. Holders(b)' = Holders(b) \cup {t} /\ \A c \in Builders \ {b} : Holders(c)' = Holders(c)
      BY <2>0, <3>1 DEF Holders
    <3>4. slots'[b] = slots[b] + 1 /\ \A c \in Builders \ {b} : slots'[c] = slots[c]
      BY <2>0, <3>1
    <3> QED BY <2>0, <3>1, <3>2, <3>3, <3>4, SlotStep
  <2>3. ASSUME NEW b \in Builders, NEW t \in Tasks, Enter(b, t) \/ Delete(b, t)
        PROVE  SlotAccounting'
    <3>1. \A c \in Builders : Holders(c)' = Holders(c)
      BY <2>0, <2>3 DEF Enter, Delete, Holders
    <3>2. UNCHANGED slots
      BY <2>3 DEF Enter, Delete
    <3> QED BY <3>1, <3>2 DEF SlotAccounting
  <2>4. ASSUME NEW b \in Builders, NEW t \in Tasks, Begin(b, t) \/ Release(b, t)
        PROVE  SlotAccounting'
    <3>1. CASE Begin(b, t) /\ Controlled(t)
      <4>1. \A c \in Builders : Holders(c)' = Holders(c)
        BY <2>0, <3>1 DEF Begin, Holders
      <4>2. UNCHANGED slots
        BY <3>1 DEF Begin
      <4> QED BY <4>1, <4>2 DEF SlotAccounting
    <3>2. CASE (Begin(b, t) /\ ~Controlled(t)) \/ Release(b, t)
      <4>1. slots' = [slots EXCEPT ![b] = @ - 1]
        BY <3>2 DEF Begin, Release
      <4>2. t \in Holders(b)
        BY <3>2 DEF Begin, Release, Holders, IInv, TableInv
      <4>3. Holders(b)' = Holders(b) \ {t} /\ \A c \in Builders \ {b} : Holders(c)' = Holders(c)
        BY <2>0, <3>2 DEF Begin, Release, Holders
      <4>4. slots'[b] = slots[b] - 1 /\ \A c \in Builders \ {b} : slots'[c] = slots[c]
        BY <2>0, <4>1
      <4> QED BY <2>0, <4>2, <4>3, <4>4, SlotStep
    <3> QED BY <2>4, <3>1, <3>2
  <2>5. ASSUME NEW b \in Builders, Exit(b) PROVE SlotAccounting'
    <3>1. slots'[b] = 0 /\ \A c \in Builders \ {b} : slots'[c] = slots[c]
      BY <2>0, <2>5 DEF Exit
    <3>2. Holders(b)' = {} /\ \A c \in Builders \ {b} : Holders(c)' = Holders(c)
      BY <2>0, <2>5 DEF Exit, Holders
    <3> QED BY <2>0, <3>1, <3>2, SlotStep
  <2>6. CASE UNCHANGED vars \/ \E t \in Tasks : Submit(t)
    BY <2>1, <2>6 DEF vars, Submit, exec
  <2>7. ASSUME NEW b \in Builders, DoStep(b) PROVE SlotAccounting'
    <3>1. AddTask(b) /\ gor' = gor => UNCHANGED <<slots, gor>>
      <4>1. ASSUME AddTask(b), gor' = gor PROVE UNCHANGED slots
        <5>1. PICK t \in Tasks : t = data[b]
          BY <4>1 DEF IInv, TypeOK, AddTask
        <5>2. gor[b][t] # "spawned"
          BY <4>1, <5>1 DEF IInv, DoInv, AddTask
        <5>3. gor' # [gor EXCEPT ![b][t] = "spawned"]
          BY <2>0, <4>1, <5>2
        <5> QED BY <4>1, <5>1, <5>3 DEF AddTask
      <4> QED BY <4>1
    <3> QED BY <2>1, <2>2, <2>7, <3>1 DEF DoStep, Dequeue, DoExit, WaitRoom, exec
  <2>8. ASSUME NEW b \in Builders, Stop(b) \/ QueueUnreachable(b) \/ StopStep(b) PROVE SlotAccounting'
    BY <2>1, <2>5, <2>8 DEF Stop, QueueUnreachable, StopStep, RangeEnd, RangeVisit, exec
  <2>9. ASSUME NEW b \in Builders, NEW t \in Tasks, TaskStep(b, t) PROVE SlotAccounting'
    BY <2>1, <2>3, <2>4, <2>9 DEF TaskStep, RunFails, RunSucceeds, sendAction
  <2> QED BY <2>6, <2>7, <2>8, <2>9 DEF Next
<1> QED BY <1>1, <1>2, BuildInvariant, PTL DEF Spec
-----------------------------------------------------------------------------
\* The table of running tasks when Stop began: a task leaves it when its build
\* function has come to its end, or works in a goroutine of its own.
RangeInv ==
    \A b \in Builders : mode[b] = "range" =>
        \A t \in todo[b] : t \in running[b] \/ t \in seen[b] \/ t \in finished \/ Async(t)

\* Stop gives back everything it found in the table.
THEOREM StopGivesBack == Spec => []StopRecycles
<1> DEFINE Inv == RangeInv /\ StopRecycles
<1>1. Init => Inv
  BY DEF Init, RangeInv, StopRecycles
<1>2. IInv /\ Inv /\ [Next]_vars => Inv'
  <2> SUFFICES ASSUME IInv, Inv, [Next]_vars PROVE Inv'
    OBVIOUS
  <2>0. TypeOK
    BY DEF IInv
  <2>1. ASSUME UNCHANGED <<mode, todo, running>>, finished \subseteq finished',
               \A b \in Builders : seen[b] \subseteq seen'[b]
        PROVE  Inv'
    BY <2>1 DEF RangeInv, StopRecycles
  <2>2. CASE UNCHANGED vars \/ \E t \in Tasks : Submit(t)
    BY <2>1, <2>2 DEF vars, Submit, exec, stop, result
  <2>3. ASSUME NEW b \in Builders, DoStep(b) PROVE Inv'
    BY <2>1, <2>3 DEF DoStep, Dequeue, DoExit, AddTask, WaitRoom, exec, stop, result
  <2>4. ASSUME NEW b \in Builders, Stop(b) \/ QueueUnreachable(b) PROVE Inv'
    <3>1. /\ mode' = [mode EXCEPT ![b] = "range"] /\ todo' = [todo EXCEPT ![b] = running[b]]
          /\ UNCHANGED <<running, seen, finished>>
      BY <2>4 DEF Stop, QueueUnreachable, exec, result
    <3>2. /\ mode'[b] = "range" /\ todo'[b] = running[b]
          /\ \A c \in Builders \ {b} : mode'[c] = mode[c] /\ todo'[c] = todo[c]
      BY <2>0, <3>1 DEF TypeOK
    <3> QED BY <3>1, <3>2 DEF RangeInv, StopRecycles
  <2>5. ASSUME NEW b \in Builders, RangeEnd(b) PROVE Inv'
    <3>1. /\ mode[b] = "range" /\ todo[b] \cap running[b] \subseteq seen[b]
          /\ UNCHANGED <<todo, running, seen, finished>>
          /\ mode'[b] = "stopped" /\ \A c \in Builders \ {b} : mode'[c] = mode[c]
      BY <2>0, <2>5 DEF RangeEnd, exec, result, TypeOK
    <3> QED BY <3>1 DEF RangeInv, StopRecycles
  <2>6. ASSUME NEW b \in Builders, Exit(b) PROVE Inv'
    <3>1. /\ mode[b] = "stopped" /\ UNCHANGED <<todo, seen, finished>>
          /\ mode'[b] = "dead" /\ \A c \in Builders \ {b} : mode'[c] = mode[c] /\ running'[c] = running[c]
      BY <2>0, <2>6 DEF Exit, result, TypeOK
    <3> QED BY <3>1 DEF RangeInv, StopRecycles
  <2>7. ASSUME NEW b \in Builders, NEW t \in Tasks, RangeVisit(b, t) PROVE Inv'
    <3>1. UNCHANGED <<mode, todo, running, finished>> /\ \A c \in Builders : seen[c] \subseteq seen'[c]
      BY <2>0, <2>7 DEF RangeVisit, exec, result, TypeOK
    <3> QED BY <2>1, <3>1
  <2>8. ASSUME NEW b \in Builders, NEW t \in Tasks, TaskStep(b, t) PROVE Inv'
    <3>1. UNCHANGED <<mode, todo, seen>>
      BY <2>8, TaskLocal DEF Local
    <3>2. CASE Begin(b, t) \/ Release(b, t) \/ RunFails(b, t) \/ RunSucceeds(b, t) \/ sendAction(b, t)
      <4>1. UNCHANGED running /\ finished \subseteq finished'
        BY <3>2 DEF Begin, Release, RunFails, RunSucceeds, sendAction, Finish, result
      <4> QED BY <2>1, <3>1, <4>1
    <3>3. CASE Enter(b, t)
      <4>1. UNCHANGED finished /\ \A c \in Builders : running[c] \subseteq running'[c]
        BY <2>0, <3>3 DEF Enter, result, TypeOK
      <4> QED BY <3>1, <4>1 DEF RangeInv, StopRecycles
    <3>4. CASE Delete(b, t)
      <4>1. /\ UNCHANGED finished /\ running'[b] = running[b] \ {t}
            /\ \A c \in Builders \ {b} : running'[c] = running[c]
        BY <2>0, <3>4 DEF Delete, result, TypeOK
      <4>2. Async(t) \/ t \in finished
        BY <3>4 DEF Delete, IInv, TableInv
      <4> QED BY <3>1, <4>1, <4>2 DEF RangeInv, StopRecycles
    <3> QED BY <2>8, <3>2, <3>3, <3>4 DEF TaskStep
  <2> QED BY <2>2, <2>3, <2>4, <2>5, <2>6, <2>7, <2>8 DEF Next, StopStep
<1>3. Inv => StopRecycles
  OBVIOUS
<1> QED BY <1>1, <1>2, <1>3, BuildInvariant, PTL DEF Spec

\* No task is forgotten while the builders live: it is in a queue, with a builder,
\* finished, or was dropped by a call that failed.
THEOREM NoTaskForgotten == Spec => []NothingForgotten
<1>1. Init => NothingForgotten
  BY DEF Init, NothingForgotten
<1>2. IInv /\ NothingForgotten /\ [Next]_vars => NothingForgotten'
  <2> SUFFICES ASSUME IInv, NothingForgotten, [Next]_vars,
                      \A b \in Builders : mode'[b] # "dead",
                      NEW t \in submitted'
               PROVE  Around(t)' \/ t \in finished' \/ t \in dropped'
    BY DEF NothingForgotten
  <2>0. TypeOK /\ Unique /\ t \in Tasks /\ None \notin Tasks
    <3>1. None \notin Tasks
      BY BuildAssumption DEF BuildAssumption
    <3>2. IInv'
      BY NextInv
    <3> QED BY <3>1, <3>2 DEF IInv, TypeOK
  <2>a. /\ Around(t) <=> Queued(t) \/ \E b \in Builders : Present(b, t)
        /\ Around(t)' <=> Queued(t)' \/ \E b \in Builders : Present(b, t)'
    BY DEF Around, Queued
  <2>b. ASSUME t \in submitted, \A b \in Builders : mode[b] # "dead"
        PROVE  Around(t) \/ t \in finished \/ t \in dropped
    BY <2>b DEF NothingForgotten
  <2>1. ASSUME submitted' = submitted, \A b \in Builders : mode[b] # "dead",
               finished \subseteq finished', dropped \subseteq dropped',
               Queued(t) => Queued(t)' \/ t \in dropped' \/ \E b \in Builders : Present(b, t)',
               \A b \in Builders : Present(b, t) =>
                 Queued(t)' \/ Present(b, t)' \/ t \in finished' \/ t \in dropped'
        PROVE  Around(t)' \/ t \in finished' \/ t \in dropped'
    BY <2>1, <2>a, <2>b
  <2>2. CASE UNCHANGED vars
    BY <2>1, <2>2 DEF vars, Queued, Present
  <2>3. ASSUME NEW u \in Tasks, Submit(u)
        PROVE  Around(t)' \/ t \in finished' \/ t \in dropped'
    <3>1. \A v \in Tasks : Queued(v)' <=> Queued(v) \/ v = u
      <4>1. TaskTopic[u] \in Topics
        BY BuildAssumption DEF BuildAssumption
      <4>2. ~Queued(u)
        BY <2>3 DEF IInv, Known, Submit
      <4> QED BY <2>0, <2>3, <4>1, <4>2, AppendTask DEF Submit
    <3>2. /\ submitted' = submitted \cup {u}
          /\ UNCHANGED <<data, gor, work, mode, finished, dropped>>
      BY <2>3 DEF Submit, loop, exec, stop, result
    <3>3. CASE t = u
      BY <2>0, <2>a, <3>1, <3>3
    <3>4. CASE t # u
      <4>1. \A b \in Builders : Present(b, t) => Present(b, t)'
        BY <3>2 DEF Present
      <4>2. t \in submitted /\ \A b \in Builders : mode[b] # "dead"
        BY <3>2, <3>4
      <4> QED BY <2>0, <2>a, <2>b, <3>1, <3>2, <4>1, <4>2
    <3> QED BY <3>3, <3>4
  <2>4. ASSUME NEW b \in Builders, Dequeue(b)
        PROVE  Around(t)' \/ t \in finished' \/ t \in dropped'
    <3> DEFINE q == BuilderTopic[b]
    <3>1. q \in Topics
      BY BuildAssumption DEF BuildAssumption
    <3>2. /\ queue[q] # <<>> /\ queue' = [queue EXCEPT ![q] = Tail(@)] /\ do[b] = "loop"
          /\ data' = [data EXCEPT ![b] = Head(queue[q])]
          /\ UNCHANGED <<submitted, gor, work, mode, finished, dropped>>
      BY <2>4 DEF Dequeue, exec, stop, result
    <3> HIDE DEF q
    <3>3. Queued(t) => Queued(t)' \/ t = Head(queue[q])
      BY <2>0, <3>1, <3>2, TakeTask
    <3>4. data'[b] = Head(queue[q]) /\ data[b] = None /\ \A c \in Builders \ {b} : data'[c] = data[c]
      BY <2>0, <3>2 DEF TypeOK, IInv, DoInv
    <3>5. \A c \in Builders : Present(c, t) => Present(c, t)'
      BY <2>0, <3>2, <3>4 DEF Present
    <3>6. t = Head(queue[q]) => Present(b, t)'
      BY <3>4 DEF Present
    <3> QED BY <2>1, <3>2, <3>3, <3>5, <3>6
  <2>5. ASSUME NEW b \in Builders, DoExit(b)
        PROVE  Around(t)' \/ t \in finished' \/ t \in dropped'
    <3> DEFINE q == BuilderTopic[b]
    <3>1. q \in Topics
      BY BuildAssumption DEF BuildAssumption
    <3>2. /\ UNCHANGED <<submitted, data, gor, work, mode, finished>>
          /\ \/ UNCHANGED <<queue, dropped>>
             \/ /\ queue[q] # <<>> /\ dropped' = dropped \cup {Head(queue[q])}
                /\ queue' = [queue EXCEPT ![q] = Tail(@)]
      BY <2>5 DEF DoExit, exec, stop, result
    <3> HIDE DEF q
    <3>3. dropped \subseteq dropped' /\ (Queued(t) => Queued(t)' \/ t \in dropped')
      <4>1. CASE UNCHANGED <<queue, dropped>>
        BY <4>1 DEF Queued
      <4>2. CASE /\ queue[q] # <<>> /\ dropped' = dropped \cup {Head(queue[q])}
                 /\ queue' = [queue EXCEPT ![q] = Tail(@)]
        <5>1. Queued(t) => Queued(t)' \/ t = Head(queue[q])
          BY <2>0, <3>1, <4>2, TakeTask
        <5> QED BY <4>2, <5>1
      <4> QED BY <3>2, <4>1, <4>2
    <3>4. \A c \in Builders : Present(c, t) => Present(c, t)'
      BY <3>2 DEF Present
    <3> QED BY <2>1, <3>2, <3>3, <3>4
  <2>6. ASSUME NEW b \in Builders, AddTask(b)
        PROVE  Around(t)' \/ t \in finished' \/ t \in dropped'
    <3>0. PICK u \in Tasks : u = data[b]
      BY <2>6 DEF IInv, TypeOK, AddTask
    <3>1. /\ data' = [data EXCEPT ![b] = None]
          /\ UNCHANGED <<submitted, work, mode, finished>>
          /\ \/ gor' = [gor EXCEPT ![b][u] = "spawned"] /\ UNCHANGED <<queue, dropped>>
             \/ callback(b, u) /\ UNCHANGED gor
      BY <2>6, <3>0 DEF AddTask, stop, result
    <3>2. ~Queued(u) /\ gor[b][u] = "none"
      <4>1. gor[b][u] = "none" /\ u \notin seen[b] /\ Present(b, u)
        BY <2>6, <3>0 DEF IInv, DoInv, AddTask, Present
      <4> QED BY <4>1 DEF IInv, OneOwner, Fresh
    <3>3. CASE gor' = [gor EXCEPT ![b][u] = "spawned"] /\ UNCHANGED <<queue, dropped>>
      <4>1. gor'[b][u] = "spawned" /\ \A c \in Builders, v \in Tasks : c # b \/ v # u => gor'[c][v] = gor[c][v]
        BY <2>0, <3>3 DEF TypeOK
      <4>2. \A c \in Builders \ {b} : data'[c] = data[c]
        BY <2>0, <3>1 DEF TypeOK
      <4>3. \A c \in Builders : Present(c, t) => Present(c, t)'
        BY <2>0, <3>0, <3>1, <4>1, <4>2 DEF Present
      <4>4. Queued(t) => Queued(t)'
        BY <3>3 DEF Queued
      <4> QED BY <2>1, <3>1, <3>3, <4>3, <4>4
    <3>4. CASE callback(b, u) /\ UNCHANGED gor
      <4>1. /\ Queued(t) => Queued(t)'
            /\ Queued(u)' \/ u \in dropped'
            /\ dropped \subseteq dropped'
        BY <2>0, <3>2, <3>4, CallbackQueue
      <4>2. \A c \in Builders \ {b} : data'[c] = data[c]
        BY <2>0, <3>1 DEF TypeOK
      <4>3. \A c \in Builders : Present(c, t) => Present(c, t)' \/ t = u
        BY <3>0, <3>1, <3>4, <4>2 DEF Present
      <4> QED BY <2>1, <3>1, <4>1, <4>3
    <3> QED BY <3>1, <3>3, <3>4
  <2>7. ASSUME NEW b \in Builders,
               WaitRoom(b) \/ Stop(b) \/ QueueUnreachable(b) \/ RangeEnd(b)
        PROVE  Around(t)' \/ t \in finished' \/ t \in dropped'
    <3>1. UNCHANGED <<queue, submitted, data, gor, work, finished, dropped>>
      BY <2>7 DEF WaitRoom, Stop, QueueUnreachable, RangeEnd, loop, exec, result
    <3>2. \A c \in Builders : mode[c] # "dead"
      BY <2>0, <2>7 DEF WaitRoom, Stop, QueueUnreachable, RangeEnd, stop, TypeOK
    <3>3. (Queued(t) => Queued(t)') /\ \A c \in Builders : Present(c, t) => Present(c, t)'
      BY <3>1 DEF Queued, Present
    <3> QED BY <2>1, <3>1, <3>2, <3>3
  <2>8. ASSUME NEW b \in Builders, NEW u \in Tasks, RangeVisit(b, u)
        PROVE  Around(t)' \/ t \in finished' \/ t \in dropped'
    <3>1. /\ u \in running[b] \ seen[b] /\ callback(b, u)
          /\ UNCHANGED <<submitted, data, gor, work, mode, finished>>
      BY <2>8 DEF RangeVisit, loop, exec, result
    <3>2. ~Queued(u)
      <4>1. Present(b, u) /\ u \notin seen[b]
        BY <3>1 DEF IInv, TableInv, Present
      <4> QED BY <4>1 DEF IInv, OneOwner, Fresh
    <3>3. (Queued(t) => Queued(t)') /\ dropped \subseteq dropped'
      BY <2>0, <3>1, <3>2, CallbackQueue
    <3>4. \A c \in Builders : Present(c, t) => Present(c, t)'
      BY <3>1 DEF Present
    <3> QED BY <2>1, <3>1, <3>3, <3>4
  <2>9. ASSUME NEW b \in Builders, Exit(b)
        PROVE  FALSE
    <3>1. mode'[b] = "dead"
      BY <2>0, <2>9 DEF Exit, TypeOK
    <3> QED BY <3>1
  <2>10. ASSUME NEW b \in Builders, NEW u \in Tasks, TaskStep(b, u)
         PROVE  Around(t)' \/ t \in finished' \/ t \in dropped'
    <3>1. /\ UNCHANGED <<queue, submitted, data, mode, dropped>>
          /\ \A c \in Builders, v \in Tasks : c # b \/ v # u =>
                gor'[c][v] = gor[c][v] /\ work'[c][v] = work[c][v]
      BY <2>10, TaskLocal DEF Local
    <3>2. finished \subseteq finished'
      BY <2>10 DEF TaskStep, Enter, Begin, Delete, Release, RunFails, RunSucceeds, sendAction, Finish, result
    <3>3. gor'[b][u] # "none" \/ work'[b][u] # "none" \/ u \in finished'
      <4>1. CASE Enter(b, u) \/ Begin(b, u)
        BY <2>0, <4>1 DEF Enter, Begin, TypeOK
      <4>2. CASE Delete(b, u) \/ Release(b, u)
        BY <4>2 DEF Delete, Release, IInv, TableInv, result
      <4>3. CASE RunFails(b, u) \/ RunSucceeds(b, u) \/ sendAction(b, u)
        BY <2>0, <4>3 DEF RunFails, RunSucceeds, sendAction, Finish, TypeOK
      <4> QED BY <2>10, <4>1, <4>2, <4>3 DEF TaskStep
    <3>4. \A c \in Builders : Present(c, t) => Present(c, t)' \/ t \in finished'
      BY <2>0, <3>1, <3>3 DEF Present
    <3>5. Queued(t) => Queued(t)'
      BY <3>1 DEF Queued
    <3> QED BY <2>1, <3>1, <3>2, <3>4, <3>5
  <2> QED BY <2>2, <2>3, <2>4, <2>5, <2>6, <2>7, <2>8, <2>9, <2>10 DEF Next, DoStep, StopStep
<1> QED BY <1>1, <1>2, BuildInvariant, PTL DEF Spec
-----------------------------------------------------------------------------
\* A build of service s with action upgrade has written its version and has still
\* to call sendAction.
Owed(s) == \E b \in Builders, t \in Tasks :
              Service[t] = s /\ Action[t] = "upgrade" /\ work[b][t] = "versioned"

\* The worker has been told of the last version that was to be deployed of every
\* service, or a build that wrote one is about to tell it; only a failed call or a
\* builder whose Stop is over can leave a version behind.
VersionOwed ==
    faults = 0 /\ (\A b \in Builders : mode[b] \notin {"stopped", "dead"}) =>
        \A t \in Tasks : announced[Service[t]] \/ Owed(Service[t])

\* The build function is called once per goroutine.
NotBegun ==
    \A b \in Builders, t \in Tasks : gor[b][t] \in {"spawned", "entered"} => work[b][t] = "none"

\* No version is left unannounced, however the builds of a service overlap: what
\* exit_build's UpdateDeployVersion wrote is followed by a sendAction of some build
\* (the safety half of EveryVersionAnnounced).
THEOREM NoVersionLeftBehind == Spec => []VersionOwed
<1>1. Init => NotBegun /\ VersionOwed
  BY DEF Init, NotBegun, VersionOwed
<1>2. IInv /\ NotBegun /\ [Next]_vars => NotBegun'
  <2> SUFFICES ASSUME IInv, NotBegun, [Next]_vars PROVE NotBegun'
    OBVIOUS
  <2>0. TypeOK
    BY DEF IInv
  <2>1. ASSUME UNCHANGED <<gor, work>> PROVE NotBegun'
    BY <2>1 DEF NotBegun
  <2>2. CASE UNCHANGED vars \/ \E u \in Tasks : Submit(u)
    BY <2>1, <2>2 DEF vars, Submit, exec
  <2>3. ASSUME NEW b \in Builders, Dequeue(b) \/ DoExit(b) \/ WaitRoom(b) \/ Stop(b) \/ QueueUnreachable(b) \/ RangeEnd(b)
        PROVE  NotBegun'
    BY <2>1, <2>3 DEF Dequeue, DoExit, WaitRoom, Stop, QueueUnreachable, RangeEnd, exec
  <2>4. ASSUME NEW b \in Builders, NEW u \in Tasks, RangeVisit(b, u) PROVE NotBegun'
    BY <2>1, <2>4 DEF RangeVisit, exec
  <2>5. ASSUME NEW b \in Builders, AddTask(b) PROVE NotBegun'
    <3>1. UNCHANGED work /\ do[b] = "add" /\ (gor' = [gor EXCEPT ![b][data[b]] = "spawned"] \/ UNCHANGED gor)
      BY <2>5 DEF AddTask
    <3>2. data[b] \in Tasks /\ work[b][data[b]] = "none"
      BY <2>0, <3>1 DEF IInv, DoInv, TypeOK
    <3>3. \A c \in Builders, v \in Tasks : c # b \/ v # data[b] => gor'[c][v] = gor[c][v]
      <4>1. CASE UNCHANGED gor
        BY <4>1
      <4>2. CASE gor' = [gor EXCEPT ![b][data[b]] = "spawned"]
        BY <2>0, <3>2, <4>2 DEF TypeOK
      <4> QED BY <3>1, <4>1, <4>2
    <3> QED BY <3>1, <3>2, <3>3 DEF NotBegun
  <2>6. ASSUME NEW b \in Builders, Exit(b) PROVE NotBegun'
    BY <2>0, <2>6 DEF Exit, NotBegun, TypeOK
  <2>7. ASSUME NEW b \in Builders, NEW u \in Tasks, TaskStep(b, u) PROVE NotBegun'
    <3>1. \A c \in Builders, v \in Tasks : c # b \/ v # u =>
             gor'[c][v] = gor[c][v] /\ work'[c][v] = work[c][v]
      BY <2>7, TaskLocal DEF Local
    <3>2. gor'[b][u] \in {"spawned", "entered"} => work'[b][u] = "none"
      <4>1. CASE Enter(b, u) \/ Begin(b, u) \/ Delete(b, u) \/ Release(b, u)
        BY <2>0, <4>1 DEF Enter, Begin, Delete, Release, NotBegun, TypeOK
      <4>2. CASE RunFails(b, u) \/ RunSucceeds(b, u) \/ sendAction(b, u)
        BY <4>2 DEF RunFails, RunSucceeds, sendAction, NotBegun
      <4> QED BY <2>7, <4>1, <4>2 DEF TaskStep
    <3> QED BY <3>1, <3>2 DEF NotBegun
  <2> QED BY <2>2, <2>3, <2>4, <2>5, <2>6, <2>7 DEF Next, DoStep, StopStep
<1>3. IInv /\ NotBegun /\ VersionOwed /\ [Next]_vars => VersionOwed'
  <2> SUFFICES ASSUME IInv, NotBegun, VersionOwed, [Next]_vars, faults' = 0,
                      \A b \in Builders : mode'[b] \notin {"stopped", "dead"}, NEW t \in Tasks
               PROVE  announced'[Service[t]] \/ Owed(Service[t])'
    BY DEF VersionOwed
  <2>0. TypeOK /\ \A u \in Tasks : Service[u] \in {Service[v] : v \in Tasks}
    BY DEF IInv
  <2>1. ASSUME UNCHANGED <<work, announced>>, faults = 0 \/ UNCHANGED faults,
               \A b \in Builders : mode[b] \notin {"stopped", "dead"}
        PROVE  announced'[Service[t]] \/ Owed(Service[t])'
    BY <2>1 DEF VersionOwed, Owed
  <2>2. faults = 0
    <3>1. faults' = faults \/ faults' = faults + 1
      BY DEF vars, Next, Submit, DoStep, Dequeue, DoExit, AddTask, WaitRoom, callback, Stop, QueueUnreachable, StopStep,
             RangeVisit, RangeEnd, Exit, TaskStep, Enter, Begin, Delete, Release, RunFails, RunSucceeds, sendAction, Fault, NoFault
    <3> QED BY <2>0, <3>1 DEF TypeOK
  <2>3. CASE UNCHANGED vars \/ \E u \in Tasks : Submit(u)
    BY <2>1, <2>2, <2>3 DEF vars, Submit, exec, stop, result
  <2>4. ASSUME NEW b \in Builders, DoStep(b) PROVE announced'[Service[t]] \/ Owed(Service[t])'
    BY <2>1, <2>2, <2>4 DEF DoStep, Dequeue, DoExit, AddTask, WaitRoom, exec, stop, result
  <2>5. ASSUME NEW b \in Builders,
               Stop(b) \/ QueueUnreachable(b) \/ RangeEnd(b) \/ \E u \in Tasks : RangeVisit(b, u)
        PROVE  announced'[Service[t]] \/ Owed(Service[t])'
    <3>1. UNCHANGED <<work, announced>>
      BY <2>5 DEF Stop, QueueUnreachable, RangeEnd, RangeVisit, exec, result
    <3>2. \A c \in Builders : mode[c] \notin {"stopped", "dead"}
      BY <2>0, <2>5 DEF Stop, QueueUnreachable, RangeEnd, RangeVisit, TypeOK
    <3> QED BY <2>1, <2>2, <3>1, <3>2
  <2>6. ASSUME NEW b \in Builders, Exit(b) PROVE FALSE
    BY <2>0, <2>6 DEF Exit, TypeOK
  <2>7. ASSUME NEW b \in Builders, NEW u \in Tasks, TaskStep(b, u)
        PROVE  announced'[Service[t]] \/ Owed(Service[t])'
    <3>1. /\ UNCHANGED mode
          /\ \A c \in Builders, v \in Tasks : c # b \/ v # u => work'[c][v] = work[c][v]
      BY <2>7, TaskLocal DEF Local
    <3>2. announced[Service[t]] \/ Owed(Service[t])
      BY <2>2, <3>1 DEF VersionOwed
    <3>3. CASE Enter(b, u) \/ Begin(b, u) \/ Delete(b, u) \/ Release(b, u) \/ RunFails(b, u)
      <4>1. UNCHANGED announced /\ (work[b][u] # "versioned" \/ UNCHANGED work)
        BY <3>3 DEF Enter, Begin, Delete, Release, RunFails, NotBegun, result
      <4> QED BY <3>1, <3>2, <4>1 DEF Owed
    <3>4. CASE RunSucceeds(b, u)
      <4>1. CASE UNCHANGED announced
        BY <3>1, <3>2, <3>4, <4>1 DEF RunSucceeds, Owed
      <4>2. CASE /\ announced' = [announced EXCEPT ![Service[u]] = @ /\ Action[u] # "upgrade"]
                 /\ work' = [work EXCEPT ![b][u] = "versioned"]
        <5>1. work'[b][u] = "versioned"
          BY <2>0, <4>2 DEF TypeOK
        <5>2. /\ Service[t] # Service[u] => announced'[Service[t]] = announced[Service[t]]
              /\ announced'[Service[u]] <=> announced[Service[u]] /\ Action[u] # "upgrade"
          BY <2>0, <4>2 DEF TypeOK
        <5>3. work[b][u] # "versioned"
          BY <3>4 DEF RunSucceeds
        <5> QED BY <3>1, <3>2, <5>1, <5>2, <5>3 DEF Owed
      <4> QED BY <3>4, <4>1, <4>2 DEF RunSucceeds
    <3>5. CASE sendAction(b, u)
      <4>0. mode[b] # "stopped"
        BY <3>1
      <4>1. CASE Action[u] = "upgrade"
        <5>1. announced' = [announced EXCEPT ![Service[u]] = TRUE]
          BY <2>2, <3>5, <4>0, <4>1 DEF sendAction, Fault
        <5>2. /\ announced'[Service[u]]
              /\ Service[t] # Service[u] => announced'[Service[t]] = announced[Service[t]]
          BY <2>0, <5>1 DEF TypeOK
        <5> QED BY <3>1, <3>2, <5>2 DEF Owed
      <4>2. CASE Action[u] # "upgrade"
        <5>1. UNCHANGED announced
          BY <3>5, <4>2 DEF sendAction
        <5> QED BY <3>1, <3>2, <4>2, <5>1 DEF Owed
      <4> QED BY <4>1, <4>2
    <3> QED BY <2>7, <3>3, <3>4, <3>5 DEF TaskStep
  <2> QED BY <2>3, <2>4, <2>5, <2>6, <2>7 DEF Next, StopStep
<1> QED BY <1>1, <1>2, <1>3, BuildInvariant, PTL DEF Spec
==============================================================================
