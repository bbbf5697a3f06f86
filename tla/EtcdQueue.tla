------------------------------ MODULE EtcdQueue ------------------------------
(***************************************************************************)
(* The message queue between the API, the builder (chaos) and the worker:  *)
(* mq's Enqueue and Dequeue calls (mq/api) over the etcd queue of          *)
(* util/etcd.  A topic is a key prefix, a task a key <prefix>/<UnixNano>,  *)
(* and several calls, of several mq replicas, work on the same prefix.     *)
(* Every step below is one round trip to etcd with the local code after    *)
(* it.  The etcd server (its revision counter, its transactions and its    *)
(* watch) is modelled from how util/etcd uses it.                          *)
(***************************************************************************)
EXTENDS Integers, FiniteSets

CONSTANTS Topics,      \* registered topics
          Messages,    \* tasks; each one is the argument of one Enqueue call
          Stamps,      \* the values of time.Now().UnixNano(), of any replica
          Handlers,    \* Dequeue calls that may run at the same time
          MsgTopic,    \* the topic a task is sent to
          MsgApi,      \* the API it is sent through: "grpc" (protobuf) or "rest" (JSON)
          ClientTopic, \* the topic the consumer behind a handler asks for
          ClientApi,   \* the API it asks through
          Covers,      \* topics whose keys start with the key prefix of a topic
          MaxFaults    \* bound on failed calls, cancellations and crashes

APIs == {"grpc", "rest"}

ASSUME QueueAssumption ==
    /\ MsgTopic \in [Messages -> Topics]
    /\ MsgApi \in [Messages -> APIs]
    /\ ClientTopic \in [Handlers -> Topics]
    /\ ClientApi \in [Handlers -> APIs]
    /\ Covers \in [Topics -> SUBSET Topics]
    /\ \A t \in Topics : t \in Covers[t]
    /\ MaxFaults \in Nat
    /\ IsFiniteSet(Messages) /\ IsFiniteSet(Handlers)

\* A key with its value and its ModRevision.  A key is written once, so this is
\* also the PUT event that a watcher sees.
Entry == [topic : Topics, stamp : Stamps, val : Messages, rev : Nat]

NoEntry == [rev |-> 0]

VARIABLES
    kv,         \* etcd: the live keys
    rev,        \* etcd: the revision of the store
    puts,       \* etcd: the history of PUT events
    enq,        \* what the Enqueue call of a task has returned
    pc,         \* where a Dequeue call is
    cand,       \* the key it read or was notified of
    more,       \* resp.More of its last Get
    hdr,        \* resp.Header.Revision of its last Get
    live,       \* its client is still waiting for the answer
    delivered,  \* how many times a task was returned to a client
    lost,       \* tasks removed from etcd and returned to nobody
    faults      \* failures so far

etcd == <<kv, rev, puts>>
call == <<pc, cand, more, hdr, live>>
vars == <<kv, rev, puts, enq, pc, cand, more, hdr, live, delivered, lost, faults>>

Init ==
    /\ kv = {} /\ puts = {} /\ rev = 1
    /\ enq = [m \in Messages |-> "new"]
    /\ pc = [h \in Handlers |-> "idle"]
    /\ cand = [h \in Handlers |-> NoEntry]
    /\ more = [h \in Handlers |-> FALSE]
    /\ hdr = [h \in Handlers |-> 0]
    /\ live = [h \in Handlers |-> FALSE]
    /\ delivered = [m \in Messages |-> 0]
    /\ lost = {}
    /\ faults = 0

-----------------------------------------------------------------------------
\* Reads of etcd.

\* The entries of S under the key prefix a handler works on.
Under(S, h) == {e \in S : e.topic \in Covers[ClientTopic[h]]}

\* Mutant: the Get does not sort by ModRevision.
M_FirstUnsorted(e, S) == e \in S

\* e is the first entry of S in the order of ModRevision.
First(e, S) == e \in S /\ \A f \in S : e.rev <= f.rev

\* Mutant: the comparison looks at the key only, not at its revision.
M_deleteByKey(c) ==
    /\ \E e \in kv : e.topic = c.topic /\ e.stamp = c.stamp
    /\ kv' = {e \in kv : ~(e.topic = c.topic /\ e.stamp = c.stamp)}
    /\ rev' = rev + 1
    /\ UNCHANGED puts

\* deleteRevKey: If(ModRevision(key) = rev) Then(Delete(key)).
deleteRevKey(c) ==
    /\ \E e \in kv : e.topic = c.topic /\ e.stamp = c.stamp /\ e.rev = c.rev
    /\ kv' = {e \in kv : ~(e.topic = c.topic /\ e.stamp = c.stamp)}
    /\ rev' = rev + 1
    /\ UNCHANGED puts

\* The comparison of deleteRevKey fails: nothing is written.
deleteRevKeyMissed(c) ==
    /\ ~ \E e \in kv : e.topic = c.topic /\ e.stamp = c.stamp /\ e.rev = c.rev
    /\ UNCHANGED etcd

\* putNewKV: If(Version(key) = 0) Then(Put(key, val)).
putNewKV(m, s) ==
    /\ ~ \E e \in kv : e.topic = MsgTopic[m] /\ e.stamp = s
    /\ LET e == [topic |-> MsgTopic[m], stamp |-> s, val |-> m, rev |-> rev + 1]
       IN  kv' = kv \cup {e} /\ puts' = puts \cup {e}
    /\ rev' = rev + 1

Fault == faults < MaxFaults /\ faults' = faults + 1

\* The call returns and its locals are gone.
Return(h) ==
    /\ pc' = [pc EXCEPT ![h] = "idle"]
    /\ cand' = [cand EXCEPT ![h] = NoEntry]
    /\ more' = [more EXCEPT ![h] = FALSE]
    /\ hdr' = [hdr EXCEPT ![h] = 0]
    /\ live' = [live EXCEPT ![h] = FALSE]

-----------------------------------------------------------------------------
\* Enqueue.

\* newUniqueKV draws a stamp until putNewKV finds its key free; a draw that hits
\* an existing key changes nothing.
Enqueue(m, s) ==
    /\ enq[m] = "new"
    /\ putNewKV(m, s)
    /\ enq' = [enq EXCEPT ![m] = "ok"]
    /\ UNCHANGED <<call, delivered, lost, faults>>

\* The transaction fails with an error, before or after etcd committed it.
EnqueueError(m, s) ==
    /\ enq[m] = "new"
    /\ Fault
    /\ putNewKV(m, s) \/ UNCHANGED etcd
    /\ enq' = [enq EXCEPT ![m] = "failed"]
    /\ UNCHANGED <<call, delivered, lost>>

-----------------------------------------------------------------------------
\* Dequeue.

\* A client calls; the topic exists, so the loop of Queue.Dequeue starts.
DequeueCall(h) ==
    /\ pc[h] = "idle"
    /\ pc' = [pc EXCEPT ![h] = "get"]
    /\ live' = [live EXCEPT ![h] = TRUE]
    /\ UNCHANGED <<etcd, enq, cand, more, hdr, delivered, lost, faults>>

\* Mutant: the watch starts two revisions early.
M_GetHdr(h) ==
    /\ pc[h] = "get" /\ live[h]
    /\ hdr' = [hdr EXCEPT ![h] = rev - 2]
    /\ Under(kv, h) = {}
    /\ cand' = [cand EXCEPT ![h] = NoEntry]
    /\ more' = [more EXCEPT ![h] = FALSE]
    /\ pc' = [pc EXCEPT ![h] = "watch"]
    /\ UNCHANGED <<etcd, enq, live, delivered, lost, faults>>

\* Get(prefix, WithFirstRev()): the oldest key, whether there are more, and the
\* revision of the store.  With no key, claimFirstKey returns nil and More is
\* false, so the call goes on to wait.
Get(h) ==
    /\ pc[h] = "get" /\ live[h]
    /\ hdr' = [hdr EXCEPT ![h] = rev]
    /\ \/ /\ Under(kv, h) = {}
          /\ cand' = [cand EXCEPT ![h] = NoEntry]
          /\ more' = [more EXCEPT ![h] = FALSE]
          /\ pc' = [pc EXCEPT ![h] = "watch"]
       \/ \E e \in kv :
          /\ First(e, Under(kv, h))
          /\ cand' = [cand EXCEPT ![h] = e]
          /\ more' = [more EXCEPT ![h] = Under(kv, h) # {e}]
          /\ pc' = [pc EXCEPT ![h] = "claim"]
    /\ UNCHANGED <<etcd, enq, live, delivered, lost, faults>>

\* Mutant: the watch starts at the revision of the failed transaction.
M_ClaimHeader(h) ==
    /\ pc[h] = "claim" /\ live[h]
    /\ \/ deleteRevKey(cand[h]) /\ pc' = [pc EXCEPT ![h] = "reply"] /\ UNCHANGED hdr
       \/ /\ deleteRevKeyMissed(cand[h])
          /\ pc' = [pc EXCEPT ![h] = IF more[h] THEN "get" ELSE "watch"]
          /\ hdr' = [hdr EXCEPT ![h] = rev]
    /\ UNCHANGED <<enq, cand, more, live, delivered, lost, faults>>

\* Mutant: the check for more keys comes before the return of the claimed one.
M_ClaimThenMore(h) ==
    /\ pc[h] = "claim" /\ live[h]
    /\ \/ /\ deleteRevKey(cand[h])
          /\ pc' = [pc EXCEPT ![h] = IF more[h] THEN "get" ELSE "reply"]
          /\ lost' = IF more[h] THEN lost \cup {cand[h].val} ELSE lost
       \/ /\ deleteRevKeyMissed(cand[h])
          /\ pc' = [pc EXCEPT ![h] = IF more[h] THEN "get" ELSE "watch"]
          /\ UNCHANGED lost
    /\ UNCHANGED <<enq, cand, more, hdr, live, delivered, faults>>

\* claimFirstKey: delete the key that was read.  When another call was faster,
\* read again if there were more keys, else wait for an event.
Claim(h) ==
    /\ pc[h] = "claim" /\ live[h]
    /\ \/ deleteRevKey(cand[h]) /\ pc' = [pc EXCEPT ![h] = "reply"]
       \/ /\ deleteRevKeyMissed(cand[h])
          /\ pc' = [pc EXCEPT ![h] = IF more[h] THEN "get" ELSE "watch"]
    /\ UNCHANGED <<enq, cand, more, hdr, live, delivered, lost, faults>>

\* Mutant: the watch starts after the first event it should see.
M_WatchLate(h) ==
    /\ pc[h] = "watch"
    /\ \E e \in puts :
       /\ First(e, {f \in Under(puts, h) : f.rev > hdr[h] + 1})
       /\ cand' = [cand EXCEPT ![h] = e]
    /\ pc' = [pc EXCEPT ![h] = "delete"]
    /\ UNCHANGED <<etcd, enq, more, hdr, live, delivered, lost, faults>>

\* WaitPrefixEvents: the first PUT event at or after the revision of the Get.
\* It waits on a context of its own and does not see that the client is gone.
WatchEvent(h) ==
    /\ pc[h] = "watch"
    /\ \E e \in puts :
       /\ First(e, {f \in Under(puts, h) : f.rev >= hdr[h]})
       /\ cand' = [cand EXCEPT ![h] = e]
    /\ pc' = [pc EXCEPT ![h] = "delete"]
    /\ UNCHANGED <<etcd, enq, more, hdr, live, delivered, lost, faults>>

\* Nothing for 30 seconds, or the watch failed (its revision was compacted, the
\* channel was closed): ErrNoUpdateForLongTime, and the loop reads again.
WatchTimeout(h) ==
    /\ pc[h] = "watch"
    /\ pc' = [pc EXCEPT ![h] = "get"]
    /\ UNCHANGED <<etcd, enq, cand, more, hdr, live, delivered, lost, faults>>

\* Mutant: the result of deleteRevKey is ignored.
M_DeleteUnchecked(h) ==
    /\ pc[h] = "delete" /\ live[h]
    /\ deleteRevKey(cand[h]) \/ deleteRevKeyMissed(cand[h])
    /\ pc' = [pc EXCEPT ![h] = "reply"]
    /\ UNCHANGED <<enq, cand, more, hdr, live, delivered, lost, faults>>

\* Delete the key of the event; when another call was faster, start over.
DeleteEvent(h) ==
    /\ pc[h] = "delete" /\ live[h]
    /\ \/ deleteRevKey(cand[h]) /\ pc' = [pc EXCEPT ![h] = "reply"]
       \/ deleteRevKeyMissed(cand[h]) /\ pc' = [pc EXCEPT ![h] = "get"]
    /\ UNCHANGED <<enq, cand, more, hdr, live, delivered, lost, faults>>

\* The handler decodes the value and answers.  A value the other API wrote does
\* not decode, and a client that is gone gets nothing: the task is lost.
Reply(h) ==
    /\ pc[h] = "reply"
    /\ Return(h)
    /\ LET m == cand[h].val IN
       IF live[h] /\ MsgApi[m] = ClientApi[h]
       THEN delivered' = [delivered EXCEPT ![m] = @ + 1] /\ UNCHANGED lost
       ELSE lost' = lost \cup {m} /\ UNCHANGED delivered
    /\ UNCHANGED <<etcd, enq, faults>>

-----------------------------------------------------------------------------
\* Failures.

\* The client cancels the call, times out or dies while it waits.
Cancel(h) ==
    /\ pc[h] # "idle" /\ live[h]
    /\ Fault
    /\ live' = [live EXCEPT ![h] = FALSE]
    /\ UNCHANGED <<etcd, enq, pc, cand, more, hdr, delivered, lost>>

\* A request to etcd on the cancelled context is refused: Dequeue returns it.
Abort(h) ==
    /\ pc[h] \in {"get", "claim", "delete"} /\ ~live[h]
    /\ Return(h)
    /\ UNCHANGED <<etcd, enq, delivered, lost, faults>>

\* A request to etcd fails and had no effect: Dequeue returns the error.
EtcdError(h) ==
    /\ pc[h] \in {"get", "claim", "delete"} /\ live[h]
    /\ Fault
    /\ Return(h)
    /\ UNCHANGED <<etcd, enq, delivered, lost>>

\* etcd commits the deletion and its answer does not arrive (the connection
\* broke, or the context was cancelled meanwhile): Dequeue returns the error.
CommitUnseen(h) ==
    /\ pc[h] \in {"claim", "delete"} /\ live[h]
    /\ Fault
    /\ deleteRevKey(cand[h])
    /\ lost' = lost \cup {cand[h].val}
    /\ Return(h)
    /\ UNCHANGED <<enq, delivered>>

\* The mq process dies under the call.
Crash(h) ==
    /\ pc[h] # "idle"
    /\ Fault
    /\ lost' = IF pc[h] = "reply" THEN lost \cup {cand[h].val} ELSE lost
    /\ Return(h)
    /\ UNCHANGED <<etcd, enq, delivered>>

-----------------------------------------------------------------------------
Step(h) ==
    \/ DequeueCall(h) \/ Get(h) \/ Claim(h) \/ WatchEvent(h)
    \/ DeleteEvent(h) \/ Reply(h) \/ Abort(h)

Failure(h) == Cancel(h) \/ EtcdError(h) \/ CommitUnseen(h) \/ Crash(h)

Next ==
    \/ \E m \in Messages, s \in Stamps : Enqueue(m, s) \/ EnqueueError(m, s)
    \/ \E h \in Handlers : Step(h) \/ WatchTimeout(h) \/ Failure(h)

Spec == Init /\ [][Next]_vars

\* The goroutine of a call runs, etcd answers, and a consumer that got an answer
\* or an error calls again (the Do loops of chaos/discover and worker/discover).
\* The 30 second timer is not needed.
FairSpec == Spec /\ \A h \in Handlers : WF_vars(Step(h))

-----------------------------------------------------------------------------
\* Properties.

\* Every variable has its type; the key a Dequeue call works on was an entry of
\* etcd, or there is none yet.
TypeOK ==
    /\ kv \subseteq Entry /\ puts \subseteq Entry
    /\ rev \in Nat
    /\ enq \in [Messages -> {"new", "ok", "failed"}]
    /\ pc \in [Handlers -> {"idle", "get", "claim", "watch", "delete", "reply"}]
    /\ cand \in [Handlers -> Entry \cup {NoEntry}]
    /\ more \in [Handlers -> BOOLEAN]
    /\ hdr \in [Handlers -> Nat]
    /\ live \in [Handlers -> BOOLEAN]
    /\ delivered \in [Messages -> Nat]
    /\ lost \subseteq Messages
    /\ faults \in 0..MaxFaults

Queued(m) == \E e \in kv : e.val = m
Held(m) == \E h \in Handlers : pc[h] = "reply" /\ cand[h].val = m

\* Every task whose Enqueue call succeeded is in exactly one place: in etcd, in
\* one Dequeue call, returned to one client once, or lost.  Two calls that read
\* the same key, or a key deleted and created anew with the same stamp, never
\* duplicate or swallow a task.
OnePlace ==
    \A m \in Messages :
      /\ delivered[m] <= 1
      /\ \A g, h \in Handlers :
            pc[g] = "reply" /\ pc[h] = "reply" /\ cand[g].val = m /\ cand[h].val = m
               => g = h
      /\ Queued(m) => ~Held(m) /\ delivered[m] = 0 /\ m \notin lost
      /\ Held(m) => delivered[m] = 0 /\ m \notin lost
      /\ delivered[m] > 0 => m \notin lost
      /\ enq[m] = "ok" => Queued(m) \/ Held(m) \/ delivered[m] > 0 \/ m \in lost

\* A call that waits for an event waits from a revision no later than every key
\* that is queued for it: the window between its Get and its Watch hides none.
NoMissedWakeup ==
    \A h \in Handlers : pc[h] = "watch" =>
        \A e \in Under(kv, h) : e.rev >= hdr[h]

\* Tasks that every consumer able to take them can decode.
OneApi == {m \in Messages : \A h \in Handlers :
              MsgTopic[m] \in Covers[ClientTopic[h]] => MsgApi[m] = ClientApi[h]}

\* Every lost task cost a failure of its own: races between calls lose none.  A
\* task is stored as its API sent it, so this cannot be said of one that may
\* reach a consumer of the other API, which claims the key and fails to decode it.
LossNeedsFault == Cardinality(lost \cap OneApi) <= faults

\* "Dequeue returns Enqueue()'d elements in FIFO order" (queue.go:48): a key that
\* leaves etcd is the oldest one of its topic at that moment, whatever the
\* clocks that made the stamps said.
FIFO ==
    [][\A e \in kv \ kv' : \A f \in kv : f.topic = e.topic => e.rev <= f.rev]_vars

\* With consumers that keep calling and finitely many failures, every task that
\* is queued leaves the queue for a client (or for a failure), without relying
\* on the 30 second resynchronisation.
EventuallyTaken ==
    \A m \in Messages : Queued(m) ~> (delivered[m] > 0 \/ m \in lost)

-----------------------------------------------------------------------------
\* Refinement of the abstract queue.

AbsStatus == [m \in Messages |->
    IF Queued(m) THEN "queued"
    ELSE IF Held(m) THEN "held"
    ELSE IF delivered[m] > 0 THEN "delivered"
    ELSE IF m \in lost THEN "lost" ELSE "new"]

AbsPos == [m \in Messages |->
    IF \E e \in puts : e.val = m THEN (CHOOSE e \in puts : e.val = m).rev ELSE 0]

Abs == INSTANCE TaskQueue WITH status <- AbsStatus, pos <- AbsPos

\* The calls implement the abstract at-most-once FIFO queue.
ImplementsTaskQueue == Abs!Spec
==============================================================================
