--------------------------- MODULE EtcdQueueProofs ---------------------------
(***************************************************************************)
(* Proofs about EtcdQueue for any number of tasks, topics, concurrent      *)
(* Dequeue calls, clock readings and failures.  The argument is about the  *)
(* history of PUT events: an entry is written once, a live key is an entry *)
(* of the history, and what a call holds in cand is one too.               *)
(***************************************************************************)
EXTENDS EtcdQueue, FiniteSetTheorems, TLAPS

\* The history: revisions only grow and name one entry, a task has one entry,
\* and a key has one live entry.
HistoryInv ==
    /\ kv \subseteq puts
    /\ \A e \in puts : 1 <= e.rev /\ e.rev <= rev
    /\ \A e, f \in puts : e.rev = f.rev => e = f
    /\ \A e, f \in puts : e.val = f.val => e = f
    /\ \A e, f \in kv : e.topic = f.topic /\ e.stamp = f.stamp => e = f
    /\ \A e \in puts : enq[e.val] # "new" /\ e.topic = MsgTopic[e.val]
    /\ \A m \in Messages : enq[m] = "ok" => \E e \in puts : e.val = m

\* What a call knows about the history.
CandInv ==
    \A h \in Handlers :
      /\ hdr[h] <= rev
      /\ pc[h] \in {"claim", "delete", "reply"} => cand[h] \in Under(puts, h)

\* A task that left etcd is held by one call, delivered once or lost.
PlaceInv ==
    /\ \A h \in Handlers : pc[h] = "reply" =>
          /\ cand[h] \notin kv
          /\ delivered[cand[h].val] = 0 /\ cand[h].val \notin lost
          /\ \A g \in Handlers : pc[g] = "reply" /\ cand[g] = cand[h] => g = h
    /\ \A m \in Messages : delivered[m] > 0 =>
          delivered[m] = 1 /\ m \notin lost /\ \E e \in puts : e.val = m /\ e \notin kv
    /\ \A m \in lost : \E e \in puts : e.val = m /\ e \notin kv
    /\ \A e \in puts : e \in kv \/ Held(e.val) \/ delivered[e.val] > 0 \/ e.val \in lost

\* No live key under the prefix of a call is older than the key it will delete,
\* or than the revision it watches from.
OrderInv ==
    \A h \in Handlers : \A f \in Under(kv, h) :
      /\ pc[h] \in {"claim", "delete"} => cand[h].rev <= f.rev
      /\ pc[h] = "claim" /\ ~more[h] => f = cand[h] \/ f.rev >= hdr[h]
      /\ pc[h] = "watch" => f.rev >= hdr[h]

IInv == TypeOK /\ HistoryInv /\ CandInv /\ PlaceInv /\ OrderInv

-----------------------------------------------------------------------------
\* The initial state satisfies the invariant.
LEMMA InitInv == Init => IInv
BY QueueAssumption DEF Init, IInv, TypeOK, HistoryInv, CandInv, PlaceInv, OrderInv, Under, Held, Entry, NoEntry

\* A failure stays within its bound.
LEMMA FaultType == ASSUME TypeOK, Fault PROVE faults' \in 0..MaxFaults
<1>1. MaxFaults \in Nat
  BY QueueAssumption DEF QueueAssumption
<1> QED BY <1>1 DEF TypeOK, Fault

\* The parts of the invariant after a key was created: the new entry is newer
\* than everything a call has seen.
LEMMA PutInv ==
    ASSUME IInv, NEW m \in Messages, NEW s \in Stamps, enq[m] = "new",
           putNewKV(m, s),
           NEW v \in {"ok", "failed"}, enq' = [enq EXCEPT ![m] = v],
           UNCHANGED <<call, delivered, lost>>, faults' \in 0..MaxFaults
    PROVE  IInv'
<1> DEFINE e == [topic |-> MsgTopic[m], stamp |-> s, val |-> m, rev |-> rev + 1]
<1>0. /\ kv' = kv \cup {e} /\ puts' = puts \cup {e} /\ rev' = rev + 1
      /\ e.topic = MsgTopic[m] /\ e.stamp = s /\ e.val = m /\ e.rev = rev + 1
      /\ ~ \E f \in kv : f.topic = MsgTopic[m] /\ f.stamp = s
  BY DEF putNewKV
<1>1. e \in Entry
  <2>1. MsgTopic[m] \in Topics
    BY QueueAssumption DEF QueueAssumption
  <2>2. rev + 1 \in Nat
    BY DEF IInv, TypeOK
  <2> QED BY <2>1, <2>2 DEF Entry
<1>2. TypeOK'
  BY <1>0, <1>1 DEF IInv, TypeOK, call
<1>3. e \notin puts /\ \A f \in puts : f.val # m /\ f.rev < e.rev
  BY <1>0 DEF IInv, HistoryInv, TypeOK, Entry
<1>4. HistoryInv'
  BY <1>0, <1>1, <1>3 DEF IInv, HistoryInv, TypeOK, Entry
<1>5. CandInv'
  BY <1>0 DEF IInv, CandInv, Under, call, TypeOK
<1>6. PlaceInv'
  <2>1. \A h \in Handlers : pc[h] = "reply" => cand[h] # e
    BY <1>3 DEF IInv, CandInv, Under
  <2>2. \A n \in Messages : Held(n) => Held(n)'
    BY DEF Held, call
  <2>3. \A f \in puts : f \notin kv => f \notin kv'
    BY <1>0, <1>3
  <2>4. QED
    <3>1. \A h \in Handlers : pc'[h] = "reply" =>
            /\ cand'[h] \notin kv'
            /\ delivered'[cand'[h].val] = 0 /\ cand'[h].val \notin lost'
            /\ \A g \in Handlers : pc'[g] = "reply" /\ cand'[g] = cand'[h] => g = h
      BY <1>0, <2>1 DEF IInv, PlaceInv, call
    <3>2. \A n \in Messages : delivered'[n] > 0 =>
            /\ delivered'[n] = 1 /\ n \notin lost'
            /\ \E f \in puts' : f.val = n /\ f \notin kv'
      BY <1>0, <2>3 DEF IInv, PlaceInv
    <3>3. \A n \in lost' : \E f \in puts' : f.val = n /\ f \notin kv'
      BY <1>0, <2>3 DEF IInv, PlaceInv
    <3>4. \A f \in puts' : f \in kv' \/ Held(f.val)' \/ delivered'[f.val] > 0 \/ f.val \in lost'
      BY <1>0, <2>2 DEF IInv, PlaceInv, TypeOK, Entry
    <3> QED BY <3>1, <3>2, <3>3, <3>4 DEF PlaceInv
<1>7. OrderInv'
  <2> SUFFICES ASSUME NEW h \in Handlers, NEW f \in Under(kv', h)
      PROVE /\ pc[h] \in {"claim", "delete"} => cand[h].rev <= f.rev
            /\ pc[h] = "claim" /\ ~more[h] => f = cand[h] \/ f.rev >= hdr[h]
            /\ pc[h] = "watch" => f.rev >= hdr[h]
    BY DEF OrderInv, Under, call
  <2>1. CASE f \in kv
    BY <2>1 DEF IInv, OrderInv, Under
  <2>2. CASE f = e
    BY <2>2, <1>0 DEF IInv, HistoryInv, CandInv, Under, TypeOK, Entry
  <2> QED BY <2>1, <2>2, <1>0 DEF Under
<1> QED BY <1>2, <1>4, <1>5, <1>6, <1>7 DEF IInv

\* deleteRevKey removes exactly the entry the call read or was notified of: the
\* comparison of the revision makes the key and the entry the same thing.
LEMMA DeleteExact ==
    ASSUME IInv, NEW h \in Handlers, pc[h] \in {"claim", "delete"},
           deleteRevKey(cand[h])
    PROVE  cand[h] \in kv /\ kv' = kv \ {cand[h]} /\ rev' = rev + 1 /\ puts' = puts
<1>1. cand[h] \in puts
  BY DEF IInv, CandInv, Under
<1>2. PICK e \in kv : e.topic = cand[h].topic /\ e.stamp = cand[h].stamp /\ e.rev = cand[h].rev
  BY DEF deleteRevKey
<1>3. e = cand[h]
  BY <1>1, <1>2 DEF IInv, HistoryInv
<1>4. \A f \in kv : (f.topic = cand[h].topic /\ f.stamp = cand[h].stamp) <=> f = cand[h]
  BY <1>2, <1>3 DEF IInv, HistoryInv
<1> QED BY <1>2, <1>3, <1>4 DEF deleteRevKey

\* A step that leaves etcd, the places of the tasks and every holder alone only
\* has to care for the call that took it.
LEMMA QuietInv ==
    ASSUME IInv, TypeOK', UNCHANGED <<etcd, enq, delivered, lost>>,
           NEW h \in Handlers, pc[h] # "reply", pc'[h] # "reply",
           \A g \in Handlers \ {h} : /\ pc'[g] = pc[g] /\ cand'[g] = cand[g]
                                     /\ more'[g] = more[g] /\ hdr'[g] = hdr[g],
           hdr'[h] <= rev,
           pc'[h] \in {"claim", "delete"} => cand'[h] \in Under(puts, h),
           \A f \in Under(kv, h) :
              /\ pc'[h] \in {"claim", "delete"} => cand'[h].rev <= f.rev
              /\ pc'[h] = "claim" /\ ~more'[h] => f = cand'[h] \/ f.rev >= hdr'[h]
              /\ pc'[h] = "watch" => f.rev >= hdr'[h]
    PROVE  IInv'
<1>1. HistoryInv'
  BY DEF IInv, HistoryInv, etcd
<1>2. CandInv'
  BY DEF IInv, CandInv, Under, etcd
<1>3. PlaceInv'
  <2>1. \A g \in Handlers : /\ pc[g] = "reply" <=> pc'[g] = "reply"
                            /\ pc[g] = "reply" => cand'[g] = cand[g]
    OBVIOUS
  <2>2. \A n \in Messages : Held(n) <=> Held(n)'
    BY <2>1 DEF Held
  <2>3. \A e \in puts : e.val \in Messages
    BY DEF IInv, TypeOK, Entry
  <2> QED BY <2>1, <2>2, <2>3 DEF IInv, PlaceInv, etcd
<1>4. OrderInv'
  BY DEF IInv, OrderInv, Under, etcd
<1> QED BY <1>1, <1>2, <1>3, <1>4 DEF IInv

\* A step that takes an entry out of etcd and leaves it with the call that took it.
LEMMA TakeInv ==
    ASSUME IInv, NEW h \in Handlers, pc[h] \in {"claim", "delete"},
           deleteRevKey(cand[h]), pc' = [pc EXCEPT ![h] = "reply"],
           UNCHANGED <<enq, cand, more, hdr, live, delivered, lost, faults>>
    PROVE  IInv'
<1>1. cand[h] \in kv /\ kv' = kv \ {cand[h]} /\ rev' = rev + 1 /\ puts' = puts
  BY DeleteExact
<1>2. TypeOK'
  BY <1>1 DEF IInv, TypeOK
<1>3. HistoryInv'
  BY <1>1 DEF IInv, HistoryInv, TypeOK, Entry
<1>4. CandInv'
  BY <1>1 DEF IInv, CandInv, Under, TypeOK
<1>5. PlaceInv'
  <2>0. cand[h] \in puts /\ cand[h].val \in Messages
    BY <1>1 DEF IInv, HistoryInv, TypeOK, Entry
  <2>1. delivered[cand[h].val] = 0 /\ cand[h].val \notin lost
    BY <2>0, <1>1 DEF IInv, PlaceInv, HistoryInv, TypeOK
  <2>2. \A g \in Handlers \ {h} : pc'[g] = "reply" => pc[g] = "reply" /\ cand[g] # cand[h]
    BY <1>1 DEF IInv, PlaceInv, TypeOK
  <2>3. pc'[h] = "reply" /\ \A g \in Handlers : pc[g] = "reply" => pc'[g] = "reply"
    BY DEF IInv, TypeOK
  <2>4. \A g \in Handlers : pc'[g] = "reply" =>
            /\ cand'[g] \notin kv'
            /\ delivered'[cand'[g].val] = 0 /\ cand'[g].val \notin lost'
            /\ \A k \in Handlers : pc'[k] = "reply" /\ cand'[k] = cand'[g] => k = g
    BY <1>1, <2>1, <2>2, <2>3 DEF IInv, PlaceInv
  <2>5. /\ \A n \in Messages : delivered'[n] > 0 =>
            /\ delivered'[n] = 1 /\ n \notin lost'
            /\ \E f \in puts' : f.val = n /\ f \notin kv'
        /\ \A n \in lost' : \E f \in puts' : f.val = n /\ f \notin kv'
    BY <1>1 DEF IInv, PlaceInv
  <2>6. \A n \in Messages : Held(n) \/ n = cand[h].val => Held(n)'
    BY <2>3 DEF Held
  <2>7. \A f \in puts : f.val \in Messages
    BY DEF IInv, TypeOK, Entry
  <2>8. \A f \in puts' : f \in kv' \/ Held(f.val)' \/ delivered'[f.val] > 0 \/ f.val \in lost'
    BY <1>1, <2>6, <2>7 DEF IInv, PlaceInv
  <2> QED BY <2>4, <2>5, <2>8 DEF PlaceInv
<1>6. OrderInv'
  BY <1>1 DEF IInv, OrderInv, Under, TypeOK
<1> QED BY <1>2, <1>3, <1>4, <1>5, <1>6 DEF IInv

\* After a call returned, only the other calls are left to care for.
LEMMA ReturnInv ==
    ASSUME IInv, NEW h \in Handlers, Return(h)
    PROVE  /\ pc'[h] = "idle" /\ hdr'[h] = 0
           /\ \A g \in Handlers \ {h} : /\ pc'[g] = pc[g] /\ cand'[g] = cand[g]
                                        /\ more'[g] = more[g] /\ hdr'[g] = hdr[g]
BY DEF IInv, TypeOK, Return

\* The call that holds a task gives it to the client or loses it.
LEMMA SettleInv ==
    ASSUME IInv, NEW h \in Handlers, pc[h] = "reply", Return(h), TypeOK',
           UNCHANGED <<etcd, enq>>,
           \/ /\ delivered' = [delivered EXCEPT ![cand[h].val] = @ + 1]
              /\ UNCHANGED lost
           \/ lost' = lost \cup {cand[h].val} /\ UNCHANGED delivered
    PROVE  IInv'
<1> DEFINE m == cand[h].val
<1>1. /\ pc'[h] = "idle" /\ hdr'[h] = 0
      /\ \A g \in Handlers \ {h} : /\ pc'[g] = pc[g] /\ cand'[g] = cand[g]
                                   /\ more'[g] = more[g] /\ hdr'[g] = hdr[g]
  BY ReturnInv
<1>2. /\ cand[h] \in puts /\ m \in Messages /\ cand[h] \notin kv
      /\ delivered[m] = 0 /\ m \notin lost
      /\ \A g \in Handlers : pc[g] = "reply" /\ cand[g] = cand[h] => g = h
  BY DEF IInv, CandInv, PlaceInv, Under, TypeOK, Entry
<1>3. \A n \in Messages \ {m} : delivered'[n] = delivered[n] /\ (n \in lost' <=> n \in lost)
  BY <1>2 DEF IInv, TypeOK
<1>4. \/ delivered'[m] = 1 /\ m \notin lost'
      \/ delivered'[m] = 0 /\ m \in lost'
  BY <1>2 DEF IInv, TypeOK
<1>5. \A g \in Handlers : pc'[g] = "reply" =>
        /\ g # h /\ pc[g] = "reply" /\ cand'[g] = cand[g]
        /\ cand[g] \in puts /\ cand[g].val \in Messages /\ cand[g].val # m
  <2> SUFFICES ASSUME NEW g \in Handlers, pc'[g] = "reply"
               PROVE  /\ g # h /\ pc[g] = "reply" /\ cand'[g] = cand[g]
                      /\ cand[g] \in puts /\ cand[g].val \in Messages /\ cand[g].val # m
    OBVIOUS
  <2>1. g # h /\ pc[g] = "reply" /\ cand'[g] = cand[g]
    BY <1>1
  <2>2. cand[g] \in puts /\ cand[g].val \in Messages
    BY <2>1 DEF IInv, CandInv, Under, TypeOK, Entry
  <2>3. cand[g].val # m
    BY <2>1, <2>2, <1>2 DEF IInv, HistoryInv
  <2> QED BY <2>1, <2>2, <2>3
<1>6. HistoryInv'
  BY DEF IInv, HistoryInv, etcd
<1>7. CandInv'
  BY <1>1 DEF IInv, CandInv, Under, etcd, TypeOK
<1>8. PlaceInv'
  <2>1. \A g \in Handlers : pc'[g] = "reply" =>
            /\ cand'[g] \notin kv'
            /\ delivered'[cand'[g].val] = 0 /\ cand'[g].val \notin lost'
            /\ \A k \in Handlers : pc'[k] = "reply" /\ cand'[k] = cand'[g] => k = g
    BY <1>3, <1>5 DEF IInv, PlaceInv, etcd
  <2>2. \A n \in Messages : delivered'[n] > 0 =>
            /\ delivered'[n] = 1 /\ n \notin lost'
            /\ \E f \in puts' : f.val = n /\ f \notin kv'
    BY <1>2, <1>3, <1>4 DEF IInv, PlaceInv, etcd
  <2>3. \A n \in lost' : \E f \in puts' : f.val = n /\ f \notin kv'
    BY <1>2, <1>3 DEF IInv, PlaceInv, etcd, TypeOK
  <2>4. \A n \in Messages \ {m} : Held(n) => Held(n)'
    BY <1>1 DEF Held
  <2>5. \A f \in puts : f.val \in Messages
    BY DEF IInv, TypeOK, Entry
  <2>6. \A f \in puts' : f \in kv' \/ Held(f.val)' \/ delivered'[f.val] > 0 \/ f.val \in lost'
    <3> SUFFICES ASSUME NEW f \in puts
                 PROVE  f \in kv \/ Held(f.val)' \/ delivered'[f.val] > 0 \/ f.val \in lost'
      BY DEF etcd
    <3>1. CASE f.val = m
      BY <3>1, <1>4
    <3>2. CASE f.val # m
      BY <3>2, <1>3, <2>4, <2>5 DEF IInv, PlaceInv
    <3> QED BY <3>1, <3>2
  <2> QED BY <2>1, <2>2, <2>3, <2>6 DEF PlaceInv
<1>9. OrderInv'
  BY <1>1 DEF IInv, OrderInv, Under, etcd
<1> QED BY <1>6, <1>7, <1>8, <1>9 DEF IInv

\* The deletion is committed and the call fails: the task is lost at once.
LEMMA DropInv ==
    ASSUME IInv, NEW h \in Handlers, CommitUnseen(h)
    PROVE  IInv'
<1> DEFINE m == cand[h].val
<1>1. /\ pc'[h] = "idle" /\ hdr'[h] = 0
      /\ \A g \in Handlers \ {h} : /\ pc'[g] = pc[g] /\ cand'[g] = cand[g]
                                   /\ more'[g] = more[g] /\ hdr'[g] = hdr[g]
  BY ReturnInv DEF CommitUnseen
<1>2. /\ cand[h] \in kv /\ kv' = kv \ {cand[h]} /\ rev' = rev + 1 /\ puts' = puts
      /\ lost' = lost \cup {m} /\ UNCHANGED <<enq, delivered>> /\ pc[h] # "reply"
  BY DeleteExact DEF CommitUnseen
<1>3. cand[h] \in puts /\ m \in Messages
  BY <1>2 DEF IInv, HistoryInv, TypeOK, Entry
<1>4. delivered[m] = 0 /\ m \notin lost
  BY <1>2, <1>3 DEF IInv, PlaceInv, HistoryInv, TypeOK
<1>5. TypeOK'
  <2>1. faults' \in 0..MaxFaults
    BY FaultType DEF CommitUnseen, IInv
  <2> QED BY <1>2, <1>3, <2>1 DEF IInv, TypeOK, CommitUnseen, Return
<1>6. HistoryInv'
  BY <1>2 DEF IInv, HistoryInv, TypeOK, Entry
<1>7. CandInv'
  BY <1>1, <1>2 DEF IInv, CandInv, Under, TypeOK
<1>8. PlaceInv'
  <2>1. \A g \in Handlers : pc'[g] = "reply" =>
            g # h /\ pc[g] = "reply" /\ cand'[g] = cand[g] /\ cand[g] \in puts
    BY <1>1 DEF IInv, CandInv, Under
  <2>2. \A g \in Handlers : pc'[g] = "reply" => cand[g].val # m
    BY <2>1, <1>2, <1>3 DEF IInv, PlaceInv, HistoryInv
  <2>3. \A g \in Handlers : pc'[g] = "reply" =>
            /\ cand'[g] \notin kv'
            /\ delivered'[cand'[g].val] = 0 /\ cand'[g].val \notin lost'
            /\ \A k \in Handlers : pc'[k] = "reply" /\ cand'[k] = cand'[g] => k = g
    BY <1>2, <2>1, <2>2 DEF IInv, PlaceInv
  <2>4. \A n \in Messages : delivered'[n] > 0 =>
            /\ delivered'[n] = 1 /\ n \notin lost'
            /\ \E f \in puts' : f.val = n /\ f \notin kv'
    BY <1>2, <1>4 DEF IInv, PlaceInv
  <2>5. \A n \in lost' : \E f \in puts' : f.val = n /\ f \notin kv'
    BY <1>2, <1>3 DEF IInv, PlaceInv
  <2>6. \A n \in Messages : Held(n) => Held(n)'
    BY <1>1, <1>2 DEF Held
  <2>7. \A f \in puts : f.val \in Messages
    BY DEF IInv, TypeOK, Entry
  <2>8. \A f \in puts' : f \in kv' \/ Held(f.val)' \/ delivered'[f.val] > 0 \/ f.val \in lost'
    BY <1>2, <2>6, <2>7 DEF IInv, PlaceInv
  <2> QED BY <2>3, <2>4, <2>5, <2>8 DEF PlaceInv
<1>9. OrderInv'
  BY <1>1, <1>2 DEF IInv, OrderInv, Under
<1> QED BY <1>5, <1>6, <1>7, <1>8, <1>9 DEF IInv

-----------------------------------------------------------------------------
\* Every step of the queue preserves the invariant.
LEMMA NextInv == IInv /\ [Next]_vars => IInv'
<1> SUFFICES ASSUME IInv, [Next]_vars PROVE IInv'
  OBVIOUS
<1>1. ASSUME NEW m \in Messages, NEW s \in Stamps, Enqueue(m, s) PROVE IInv'
  <2>1. faults' \in 0..MaxFaults
    BY <1>1 DEF Enqueue, IInv, TypeOK
  <2> QED BY <1>1, <2>1, PutInv DEF Enqueue
<1>2. ASSUME NEW m \in Messages, NEW s \in Stamps, EnqueueError(m, s) PROVE IInv'
  <2>1. faults' \in 0..MaxFaults
    BY <1>2, FaultType DEF EnqueueError, IInv
  <2>2. CASE putNewKV(m, s)
    BY <1>2, <2>1, <2>2, PutInv DEF EnqueueError
  <2>3. CASE UNCHANGED etcd
    <3>1. TypeOK'
      BY <1>2, <2>1, <2>3 DEF EnqueueError, IInv, TypeOK, etcd, call
    <3>2. HistoryInv'
      BY <1>2, <2>3 DEF EnqueueError, IInv, HistoryInv, TypeOK, Entry, etcd
    <3>3. CandInv' /\ OrderInv'
      BY <1>2, <2>3 DEF EnqueueError, IInv, CandInv, OrderInv, Under, etcd, call
    <3>4. PlaceInv'
      BY <1>2, <2>3 DEF EnqueueError, IInv, PlaceInv, Held, etcd, call
    <3> QED BY <3>1, <3>2, <3>3, <3>4 DEF IInv
  <2> QED BY <1>2, <2>2, <2>3 DEF EnqueueError
<1>3. ASSUME NEW h \in Handlers, DequeueCall(h) PROVE IInv'
  <2>1. TypeOK'
    BY <1>3 DEF DequeueCall, IInv, TypeOK, etcd
  <2> QED BY <1>3, <2>1, QuietInv DEF DequeueCall, IInv, TypeOK, CandInv
<1>4. ASSUME NEW h \in Handlers, Get(h) PROVE IInv'
  <2>1. CASE Under(kv, h) = {} /\ pc' = [pc EXCEPT ![h] = "watch"]
             /\ cand' = [cand EXCEPT ![h] = NoEntry] /\ more' = [more EXCEPT ![h] = FALSE]
    <3>1. TypeOK'
      BY <1>4, <2>1 DEF Get, IInv, TypeOK, etcd
    <3>2. /\ pc'[h] = "watch" /\ hdr'[h] = rev /\ hdr'[h] <= rev
          /\ \A g \in Handlers \ {h} : /\ pc'[g] = pc[g] /\ cand'[g] = cand[g]
                                       /\ more'[g] = more[g] /\ hdr'[g] = hdr[g]
      BY <1>4, <2>1 DEF Get, IInv, TypeOK
    <3> QED BY <1>4, <2>1, <3>1, <3>2, QuietInv DEF Get
  <2>2. ASSUME NEW e \in kv, First(e, Under(kv, h)), cand' = [cand EXCEPT ![h] = e],
               more' = [more EXCEPT ![h] = Under(kv, h) # {e}],
               pc' = [pc EXCEPT ![h] = "claim"]
        PROVE  IInv'
    <3>1. TypeOK'
      BY <1>4, <2>2 DEF Get, IInv, TypeOK, etcd
    <3>2. e \in Under(puts, h) /\ \A f \in Under(kv, h) : e.rev <= f.rev
      BY <2>2 DEF First, Under, IInv, HistoryInv
    <3>3. \A f \in Under(kv, h) : ~more'[h] => f = e
      BY <2>2 DEF IInv, TypeOK
    <3> QED BY <1>4, <2>2, <3>1, <3>2, <3>3, QuietInv DEF Get, IInv, TypeOK
  <2> QED BY <1>4, <2>1, <2>2 DEF Get
<1>5. ASSUME NEW h \in Handlers, Claim(h) PROVE IInv'
  <2>1. CASE deleteRevKey(cand[h]) /\ pc' = [pc EXCEPT ![h] = "reply"]
    BY <1>5, <2>1, TakeInv DEF Claim
  <2>2. CASE /\ deleteRevKeyMissed(cand[h])
             /\ pc' = [pc EXCEPT ![h] = IF more[h] THEN "get" ELSE "watch"]
    <3>1. TypeOK'
      BY <1>5, <2>2 DEF Claim, deleteRevKeyMissed, IInv, TypeOK, etcd
    <3>2. cand[h] \notin kv
      BY <2>2 DEF deleteRevKeyMissed
    <3>3. \A f \in Under(kv, h) : ~more[h] => f.rev >= hdr[h]
      BY <1>5, <3>2 DEF Claim, IInv, OrderInv, Under
    <3> QED BY <1>5, <2>2, <3>1, <3>3, QuietInv DEF Claim, deleteRevKeyMissed, IInv, TypeOK, CandInv
  <2> QED BY <1>5, <2>1, <2>2 DEF Claim
<1>6. ASSUME NEW h \in Handlers, WatchEvent(h) PROVE IInv'
  <2>1. PICK e \in puts : /\ First(e, {f \in Under(puts, h) : f.rev >= hdr[h]})
                          /\ cand' = [cand EXCEPT ![h] = e]
    BY <1>6 DEF WatchEvent
  <2>2. TypeOK'
    BY <1>6, <2>1 DEF WatchEvent, IInv, TypeOK, etcd
  <2>3. e \in Under(puts, h) /\ \A f \in Under(kv, h) : e.rev <= f.rev
    BY <1>6, <2>1 DEF WatchEvent, First, Under, IInv, HistoryInv, OrderInv
  <2> QED BY <1>6, <2>1, <2>2, <2>3, QuietInv DEF WatchEvent, IInv, TypeOK, CandInv
<1>7. ASSUME NEW h \in Handlers, WatchTimeout(h) PROVE IInv'
  <2>1. TypeOK'
    BY <1>7 DEF WatchTimeout, IInv, TypeOK, etcd
  <2> QED BY <1>7, <2>1, QuietInv DEF WatchTimeout, IInv, TypeOK, CandInv
<1>8. ASSUME NEW h \in Handlers, DeleteEvent(h) PROVE IInv'
  <2>1. CASE deleteRevKey(cand[h]) /\ pc' = [pc EXCEPT ![h] = "reply"]
    BY <1>8, <2>1, TakeInv DEF DeleteEvent
  <2>2. CASE deleteRevKeyMissed(cand[h]) /\ pc' = [pc EXCEPT ![h] = "get"]
    <3>1. TypeOK'
      BY <1>8, <2>2 DEF DeleteEvent, deleteRevKeyMissed, IInv, TypeOK, etcd
    <3> QED BY <1>8, <2>2, <3>1, QuietInv DEF DeleteEvent, deleteRevKeyMissed, IInv, TypeOK, CandInv
  <2> QED BY <1>8, <2>1, <2>2 DEF DeleteEvent
<1>9. ASSUME NEW h \in Handlers, Reply(h) PROVE IInv'
  <2>1. cand[h].val \in Messages
    BY <1>9 DEF Reply, IInv, CandInv, Under, TypeOK, Entry
  <2>2. TypeOK'
    BY <1>9, <2>1 DEF Reply, Return, IInv, TypeOK, etcd
  <2> QED BY <1>9, <2>2, SettleInv DEF Reply
<1>10. ASSUME NEW h \in Handlers, Cancel(h) PROVE IInv'
  <2>0. faults' \in 0..MaxFaults
    BY <1>10, FaultType DEF Cancel, IInv
  <2>1. TypeOK'
    BY <1>10, <2>0 DEF Cancel, IInv, TypeOK, etcd
  <2>2. HistoryInv' /\ CandInv' /\ OrderInv'
    BY <1>10 DEF Cancel, IInv, HistoryInv, CandInv, OrderInv, Under, etcd
  <2>3. PlaceInv'
    BY <1>10 DEF Cancel, IInv, PlaceInv, Held, etcd
  <2> QED BY <2>1, <2>2, <2>3 DEF IInv
<1>11. ASSUME NEW h \in Handlers, pc[h] # "reply", Return(h), faults' \in 0..MaxFaults,
              UNCHANGED <<etcd, enq, delivered, lost>>
       PROVE  IInv'
  <2>1. TypeOK'
    BY <1>11 DEF Return, IInv, TypeOK, etcd
  <2>2. rev \in Nat
    BY DEF IInv, TypeOK
  <2> QED BY <1>11, <2>1, <2>2, ReturnInv, QuietInv
<1>12. ASSUME NEW h \in Handlers, Abort(h) PROVE IInv'
  BY <1>11, <1>12 DEF Abort, IInv, TypeOK
<1>13. ASSUME NEW h \in Handlers, EtcdError(h) PROVE IInv'
  <2>1. faults' \in 0..MaxFaults
    BY <1>13, FaultType DEF EtcdError, IInv
  <2> QED BY <1>11, <1>13, <2>1 DEF EtcdError
<1>14. ASSUME NEW h \in Handlers, Crash(h) PROVE IInv'
  <2>0. faults' \in 0..MaxFaults
    BY <1>14, FaultType DEF Crash, IInv
  <2>1. CASE pc[h] = "reply"
    <3>1. cand[h].val \in Messages
      BY <2>1 DEF IInv, CandInv, Under, TypeOK, Entry
    <3>2. TypeOK'
      BY <1>14, <2>0, <2>1, <3>1 DEF Crash, Return, IInv, TypeOK, etcd
    <3> QED BY <1>14, <2>1, <3>2, SettleInv DEF Crash
  <2>2. CASE pc[h] # "reply"
    BY <1>11, <1>14, <2>0, <2>2 DEF Crash
  <2> QED BY <2>1, <2>2
<1>15. CASE UNCHANGED vars
  BY <1>15 DEF vars, IInv, TypeOK, HistoryInv, CandInv, PlaceInv, OrderInv, Under, Held
<1> QED
  BY <1>1, <1>2, <1>3, <1>4, <1>5, <1>6, <1>7, <1>8, <1>9, <1>10, <1>12, <1>13, <1>14,
     <1>15, DropInv DEF Next, Step, Failure

\* The invariant holds in every reachable state.
THEOREM QueueInvariant == Spec => []IInv
BY InitInv, NextInv, PTL DEF Spec

\* Every variable keeps its type.
THEOREM QueueTypeCorrect == Spec => []TypeOK
BY QueueInvariant, PTL DEF IInv

\* The invariant puts every task in one place.
LEMMA InOnePlace == IInv => OnePlace
<1> SUFFICES ASSUME IInv, NEW m \in Messages
    PROVE  /\ delivered[m] <= 1
           /\ \A g, h \in Handlers :
                pc[g] = "reply" /\ pc[h] = "reply" /\ cand[g].val = m /\ cand[h].val = m
                  => g = h
           /\ Queued(m) => ~Held(m) /\ delivered[m] = 0 /\ m \notin lost
           /\ Held(m) => delivered[m] = 0 /\ m \notin lost
           /\ delivered[m] > 0 => m \notin lost
           /\ enq[m] = "ok" => Queued(m) \/ Held(m) \/ delivered[m] > 0 \/ m \in lost
  BY DEF OnePlace
<1>1. delivered[m] \in Nat /\ (delivered[m] = 0 \/ delivered[m] = 1)
  BY DEF IInv, PlaceInv, TypeOK
<1>2. \A h \in Handlers : pc[h] = "reply" => cand[h] \in puts
  BY DEF IInv, CandInv, Under
<1>3. \A g, h \in Handlers :
         pc[g] = "reply" /\ pc[h] = "reply" /\ cand[g].val = m /\ cand[h].val = m => g = h
  BY <1>2 DEF IInv, PlaceInv, HistoryInv
<1>4. Held(m) => delivered[m] = 0 /\ m \notin lost
  BY DEF Held, IInv, PlaceInv
<1>5. delivered[m] > 0 => m \notin lost
  BY DEF IInv, PlaceInv
<1>6. ASSUME Queued(m) PROVE ~Held(m) /\ delivered[m] = 0 /\ m \notin lost
  <2>1. PICK e \in kv : e.val = m
    BY <1>6 DEF Queued
  <2>2. \A f \in puts : f.val = m => f = e
    BY <2>1 DEF IInv, HistoryInv
  <2> QED BY <1>1, <1>2, <2>1, <2>2 DEF Held, IInv, PlaceInv
<1>7. ASSUME enq[m] = "ok" PROVE Queued(m) \/ Held(m) \/ delivered[m] > 0 \/ m \in lost
  BY <1>7 DEF Queued, IInv, PlaceInv, HistoryInv
<1> QED BY <1>1, <1>3, <1>4, <1>5, <1>6, <1>7

\* A task whose Enqueue succeeded is in one place: queued, in one Dequeue call,
\* delivered once or lost.
THEOREM TaskInOnePlace == Spec => []OnePlace
BY InOnePlace, QueueInvariant, PTL

\* A waiting call watches from a revision no later than any key queued for it.
THEOREM WakeupNotMissed == Spec => []NoMissedWakeup
<1>1. IInv => NoMissedWakeup
  BY DEF IInv, OrderInv, NoMissedWakeup
<1> QED BY <1>1, QueueInvariant, PTL

\* Keys leave etcd in the order in which they were committed, topic by topic.
THEOREM FirstInFirstOut == Spec => FIFO
<1> DEFINE Oldest1 == \A e \in kv \ kv' : \A f \in kv : f.topic = e.topic => e.rev <= f.rev
<1>1. ASSUME IInv, NEW h \in Handlers, pc[h] \in {"claim", "delete"}, deleteRevKey(cand[h])
      PROVE  Oldest1
  <2>1. cand[h] \in kv /\ kv' = kv \ {cand[h]}
    BY <1>1, DeleteExact
  <2>2. \A f \in kv : f.topic = cand[h].topic => cand[h].rev <= f.rev
    BY <1>1 DEF IInv, CandInv, OrderInv, Under
  <2> QED BY <2>1, <2>2
<1>2. ASSUME IInv, Next PROVE Oldest1
  <2>1. CASE \E m \in Messages, s \in Stamps : Enqueue(m, s) \/ EnqueueError(m, s)
    BY <2>1 DEF Enqueue, EnqueueError, putNewKV, etcd
  <2>2. ASSUME NEW h \in Handlers, Step(h) \/ WatchTimeout(h) \/ Failure(h)
        PROVE  kv' = kv \/ (pc[h] \in {"claim", "delete"} /\ deleteRevKey(cand[h]))
    BY <2>2 DEF Step, DequeueCall, Get, Claim, deleteRevKeyMissed, WatchEvent, DeleteEvent,
         Reply, Abort, WatchTimeout, Failure, Cancel, EtcdError, CommitUnseen, Crash, etcd
  <2> QED BY <1>1, <1>2, <2>1, <2>2 DEF Next
<1>3. IInv /\ [Next]_vars => [Oldest1]_vars
  BY <1>2
<1> QED BY <1>3, QueueInvariant, PTL DEF Spec, FIFO
-----------------------------------------------------------------------------
\* Calls whose client is gone: each may still lose the task it takes, and each
\* has cost a failure.
Gone == {h \in Handlers : pc[h] # "idle" /\ ~live[h]}
Lost == lost \cap OneApi
LossInv == Cardinality(Lost) + Cardinality(Gone) <= faults

\* Both sets are finite in every state.
LEMMA LossFinite ==
    ASSUME TypeOK, TypeOK'
    PROVE  /\ IsFiniteSet(Lost) /\ Cardinality(Lost) \in Nat
           /\ IsFiniteSet(Gone) /\ Cardinality(Gone) \in Nat
           /\ IsFiniteSet(Gone') /\ Cardinality(Gone') \in Nat
           /\ faults \in Nat /\ faults' \in Nat
<1>1. IsFiniteSet(Messages) /\ IsFiniteSet(Handlers) /\ MaxFaults \in Nat
  BY QueueAssumption DEF QueueAssumption
<1>2. Lost \in SUBSET Messages /\ Gone \in SUBSET Handlers /\ Gone' \in SUBSET Handlers
  BY DEF Lost, Gone, TypeOK
<1>3. IsFiniteSet(Lost) /\ IsFiniteSet(Gone) /\ IsFiniteSet(Gone')
  BY <1>1, <1>2, FS_Subset
<1> QED BY <1>1, <1>3, FS_CardinalityType DEF TypeOK

\* One more lost task.
LEMMA LossGrows ==
    ASSUME TypeOK, TypeOK', NEW m, lost' = lost \cup {m}
    PROVE  Cardinality(Lost') \in Nat /\ Cardinality(Lost') <= Cardinality(Lost) + 1
<1>1. Lost' = Lost \/ Lost' = Lost \cup {m}
  BY DEF Lost
<1>2. IsFiniteSet(Lost) /\ Cardinality(Lost) \in Nat
  BY LossFinite
<1>3. Cardinality(Lost \cup {m}) = IF m \in Lost THEN Cardinality(Lost) ELSE Cardinality(Lost) + 1
  BY <1>2, FS_AddElement
<1>4. CASE Lost' = Lost
  BY <1>2, <1>4
<1>5. CASE Lost' = Lost \cup {m}
  BY <1>2, <1>3, <1>5
<1> QED BY <1>1, <1>4, <1>5

\* The call that returns is not one of them any more.
LEMMA ReturnedNotGone ==
    ASSUME TypeOK, TypeOK', NEW h \in Handlers, Return(h)
    PROVE  /\ Gone' = Gone \ {h}
           /\ Cardinality(Gone') = IF h \in Gone THEN Cardinality(Gone) - 1 ELSE Cardinality(Gone)
<1>1. Gone' = Gone \ {h}
  BY DEF Gone, Return, TypeOK
<1> QED BY <1>1, LossFinite, FS_RemoveElement

\* Every step keeps the account of losses.
LEMMA LossStep == ASSUME IInv, IInv', LossInv, [Next]_vars PROVE LossInv'
<1>t. TypeOK /\ TypeOK'
  BY DEF IInv
<1>n. /\ Cardinality(Lost) \in Nat /\ Cardinality(Gone) \in Nat /\ Cardinality(Gone') \in Nat
      /\ faults \in Nat /\ faults' \in Nat /\ IsFiniteSet(Gone)
  BY <1>t, LossFinite
<1>same. ASSUME lost' = lost, Gone' = Gone, faults' >= faults PROVE LossInv'
  BY <1>same, <1>n DEF LossInv, Lost
<1>1. ASSUME NEW m \in Messages, NEW s \in Stamps, Enqueue(m, s) \/ EnqueueError(m, s)
      PROVE  LossInv'
  <2>1. lost' = lost /\ Gone' = Gone
    BY <1>1 DEF Enqueue, EnqueueError, call, Gone
  <2>2. faults' >= faults
    BY <1>1, <1>n DEF Enqueue, EnqueueError, Fault
  <2> QED BY <2>1, <2>2, <1>same
<1>2. ASSUME NEW h \in Handlers, DequeueCall(h) PROVE LossInv'
  <2>1. lost' = lost /\ faults' >= faults
    BY <1>2, <1>n DEF DequeueCall
  <2>2. Gone' = Gone
    BY <1>2, <1>t DEF DequeueCall, Gone, TypeOK
  <2> QED BY <2>1, <2>2, <1>same
<1>3. ASSUME NEW h \in Handlers,
             Get(h) \/ Claim(h) \/ WatchEvent(h) \/ DeleteEvent(h) \/ WatchTimeout(h)
      PROVE  LossInv'
  <2>1. lost' = lost /\ faults' >= faults /\ live' = live
    BY <1>3, <1>n DEF Get, Claim, WatchEvent, DeleteEvent, WatchTimeout
  <2>2. pc[h] # "idle" /\ \E p : p # "idle" /\ pc' = [pc EXCEPT ![h] = p]
    BY <1>3 DEF Get, Claim, WatchEvent, DeleteEvent, WatchTimeout
  <2>3. Gone' = Gone
    BY <2>1, <2>2, <1>t DEF Gone, TypeOK
  <2> QED BY <2>1, <2>3, <1>same
<1>4. ASSUME NEW h \in Handlers, Reply(h) PROVE LossInv'
  <2> DEFINE m == cand[h].val
  <2>1. Return(h) /\ pc[h] = "reply" /\ faults' = faults
    BY <1>4 DEF Reply
  <2>2. Cardinality(Gone') = IF h \in Gone THEN Cardinality(Gone) - 1 ELSE Cardinality(Gone)
    BY <2>1, <1>t, ReturnedNotGone
  <2>3. CASE live[h] /\ MsgApi[m] = ClientApi[h]
    <3>1. lost' = lost
      BY <1>4, <2>3 DEF Reply
    <3> QED BY <3>1, <2>1, <2>2, <1>n DEF LossInv, Lost
  <2>4. CASE ~(live[h] /\ MsgApi[m] = ClientApi[h])
    <3>1. lost' = lost \cup {m}
      BY <1>4, <2>4 DEF Reply
    <3>2. CASE m \notin OneApi
      <4>1. Lost' = Lost
        BY <3>1, <3>2 DEF Lost
      <4> QED BY <4>1, <2>1, <2>2, <1>n DEF LossInv
    <3>3. CASE m \in OneApi
      <4>1. cand[h] \in puts /\ cand[h].topic \in Covers[ClientTopic[h]]
        BY <2>1 DEF IInv, CandInv, Under
      <4>2. cand[h].topic = MsgTopic[m]
        BY <4>1 DEF IInv, HistoryInv
      <4>3. MsgApi[m] = ClientApi[h]
        BY <4>1, <4>2, <3>3 DEF OneApi
      <4>4. h \in Gone
        BY <4>3, <2>1, <2>4 DEF Gone
      <4>5. Cardinality(Lost') \in Nat /\ Cardinality(Lost') <= Cardinality(Lost) + 1
        BY <3>1, <1>t, LossGrows
      <4> QED BY <4>4, <4>5, <2>1, <2>2, <1>n DEF LossInv
    <3> QED BY <3>2, <3>3
  <2> QED BY <2>3, <2>4
<1>5. ASSUME NEW h \in Handlers, Abort(h) \/ EtcdError(h) PROVE LossInv'
  <2>1. Return(h) /\ lost' = lost /\ faults' >= faults
    BY <1>5, <1>n DEF Abort, EtcdError, Fault
  <2>2. Cardinality(Gone') = IF h \in Gone THEN Cardinality(Gone) - 1 ELSE Cardinality(Gone)
    BY <2>1, <1>t, ReturnedNotGone
  <2> QED BY <2>1, <2>2, <1>n DEF LossInv, Lost
<1>6. ASSUME NEW h \in Handlers, Cancel(h) PROVE LossInv'
  <2>1. lost' = lost /\ faults' = faults + 1
    BY <1>6 DEF Cancel, Fault
  <2>2. Gone' = Gone \cup {h}
    BY <1>6, <1>t DEF Cancel, Gone, TypeOK
  <2>3. Cardinality(Gone \cup {h}) = IF h \in Gone THEN Cardinality(Gone) ELSE Cardinality(Gone) + 1
    BY <1>n, FS_AddElement
  <2> QED BY <2>1, <2>2, <2>3, <1>n DEF LossInv, Lost
<1>7. ASSUME NEW h \in Handlers, CommitUnseen(h) \/ Crash(h) PROVE LossInv'
  <2>1. /\ Return(h) /\ faults' = faults + 1
        /\ lost' = lost \/ lost' = lost \cup {cand[h].val}
    BY <1>7 DEF CommitUnseen, Crash, Fault
  <2>2. Cardinality(Gone') = IF h \in Gone THEN Cardinality(Gone) - 1 ELSE Cardinality(Gone)
    BY <2>1, <1>t, ReturnedNotGone
  <2>3. CASE lost' = lost
    BY <2>1, <2>2, <2>3, <1>n DEF LossInv, Lost
  <2>4. CASE lost' = lost \cup {cand[h].val}
    <3>1. Cardinality(Lost') \in Nat /\ Cardinality(Lost') <= Cardinality(Lost) + 1
      BY <2>4, <1>t, LossGrows
    <3> QED BY <3>1, <2>1, <2>2, <1>n DEF LossInv
  <2> QED BY <2>1, <2>3, <2>4
<1>8. ASSUME UNCHANGED vars PROVE LossInv'
  <2>1. lost' = lost /\ Gone' = Gone /\ faults' >= faults
    BY <1>8, <1>n DEF vars, Gone
  <2> QED BY <2>1, <1>same
<1> QED BY <1>1, <1>2, <1>3, <1>4, <1>5, <1>6, <1>7, <1>8 DEF Next, Step, Failure

\* A lost task that every consumer could decode cost a failure of its own, for
\* any number of concurrent calls.
THEOREM LossNeedsItsFault == Spec => []LossNeedsFault
<1>1. Init => LossInv
  <2> SUFFICES ASSUME Init PROVE LossInv
    OBVIOUS
  <2>1. Lost = {} /\ Gone = {} /\ faults = 0
    BY DEF Init, Lost, Gone
  <2> QED BY <2>1, FS_EmptySet DEF LossInv
<1>2. IInv /\ IInv' /\ LossInv /\ [Next]_vars => LossInv'
  BY LossStep
<1>3. Spec => []LossInv
  BY <1>1, <1>2, QueueInvariant, PTL DEF Spec
<1>4. IInv /\ LossInv => LossNeedsFault
  <2> SUFFICES ASSUME IInv, LossInv PROVE LossNeedsFault
    OBVIOUS
  <2>1. IsFiniteSet(Messages) /\ IsFiniteSet(Handlers) /\ MaxFaults \in Nat
    BY QueueAssumption DEF QueueAssumption
  <2>2. Lost \in SUBSET Messages /\ Gone \in SUBSET Handlers /\ faults \in Nat
    BY <2>1 DEF Lost, Gone, IInv, TypeOK
  <2>3. Cardinality(Lost) \in Nat /\ Cardinality(Gone) \in Nat
    BY <2>1, <2>2, FS_Subset, FS_CardinalityType
  <2> QED BY <2>2, <2>3 DEF LossInv, LossNeedsFault, Lost
<1> QED BY <1>3, <1>4, QueueInvariant, PTL

-----------------------------------------------------------------------------
\* Refinement.

\* The status of a task is the one place it is in, and its place in the order is
\* the revision of its entry.
LEMMA StatusIs ==
    ASSUME IInv, NEW m \in Messages
    PROVE  /\ Queued(m) => AbsStatus[m] = "queued"
           /\ Held(m) => AbsStatus[m] = "held"
           /\ delivered[m] > 0 => AbsStatus[m] = "delivered"
           /\ m \in lost => AbsStatus[m] = "lost"
           /\ ~(Queued(m) \/ Held(m) \/ delivered[m] > 0 \/ m \in lost) => AbsStatus[m] = "new"
           /\ AbsStatus[m] = "queued" => Queued(m)
<1>1. OnePlace /\ delivered[m] \in Nat
  BY InOnePlace DEF IInv, TypeOK
<1>2. /\ Queued(m) => ~Held(m) /\ delivered[m] = 0 /\ m \notin lost
      /\ Held(m) => delivered[m] = 0 /\ m \notin lost
      /\ delivered[m] > 0 => m \notin lost
  BY <1>1 DEF OnePlace
<1> QED BY <1>1, <1>2 DEF AbsStatus

LEMMA PosIs ==
    ASSUME IInv, NEW m \in Messages
    PROVE  /\ \A e \in puts : e.val = m => AbsPos[m] = e.rev
           /\ (\A e \in puts : e.val # m) => AbsPos[m] = 0
           /\ AbsPos[m] \in Nat /\ AbsPos[m] <= rev
<1>1. ASSUME NEW e \in puts, e.val = m PROVE AbsPos[m] = e.rev
  <2>1. (CHOOSE f \in puts : f.val = m) \in puts /\ (CHOOSE f \in puts : f.val = m).val = m
    BY <1>1
  <2>2. (CHOOSE f \in puts : f.val = m) = e
    BY <1>1, <2>1 DEF IInv, HistoryInv
  <2> QED BY <1>1, <2>2 DEF AbsPos
<1>2. (\A e \in puts : e.val # m) => AbsPos[m] = 0
  BY DEF AbsPos
<1>3. rev \in Nat /\ \A e \in puts : e.rev \in Nat /\ e.rev <= rev
  BY DEF IInv, TypeOK, HistoryInv, Entry
<1> QED BY <1>1, <1>2, <1>3

\* The same, after a step.
LEMMA InOnePlaceNext == IInv' => OnePlace'
BY InOnePlace, PTL

\* A task that no part of a step is about keeps its status.
Untouched(m) ==
    /\ Queued(m)' = Queued(m) /\ Held(m)' = Held(m)
    /\ delivered'[m] = delivered[m] /\ (m \in lost') = (m \in lost)

LEMMA UntouchedStatus == ASSUME NEW m \in Messages, Untouched(m) PROVE AbsStatus'[m] = AbsStatus[m]
BY DEF Untouched, AbsStatus

LEMMA OneStatus ==
    ASSUME NEW m \in Messages, NEW v, AbsStatus'[m] = v, \A n \in Messages \ {m} : Untouched(n)
    PROVE  AbsStatus' = [AbsStatus EXCEPT ![m] = v]
<1>1. \A n \in Messages \ {m} : AbsStatus'[n] = AbsStatus[n]
  BY UntouchedStatus
<1>2. AbsStatus = [n \in Messages |-> AbsStatus[n]] /\ AbsStatus' = [n \in Messages |-> AbsStatus'[n]]
  BY DEF AbsStatus
<1> QED BY <1>1, <1>2

\* A step that leaves etcd and the holders of tasks alone is no step of the
\* abstract queue.
LEMMA Stutters ==
    ASSUME UNCHANGED <<kv, puts, delivered, lost>>, \A m \in Messages : Held(m)' = Held(m)
    PROVE  UNCHANGED <<AbsStatus, AbsPos>>
<1>1. \A m \in Messages : Untouched(m)
  BY DEF Untouched, Queued
<1>2. \A m \in Messages : AbsStatus'[m] = AbsStatus[m]
  BY <1>1, UntouchedStatus
<1>3. AbsStatus = [n \in Messages |-> AbsStatus[n]] /\ AbsStatus' = [n \in Messages |-> AbsStatus'[n]]
  BY DEF AbsStatus
<1>4. AbsPos' = AbsPos
  BY DEF AbsPos
<1> QED BY <1>2, <1>3, <1>4

\* A new key is a task that arrives behind all others.
LEMMA PutRefines ==
    ASSUME IInv, IInv', NEW m \in Messages, NEW s \in Stamps, enq[m] = "new", putNewKV(m, s),
           UNCHANGED <<call, delivered, lost>>
    PROVE  Abs!Put(m)
<1> DEFINE e == [topic |-> MsgTopic[m], stamp |-> s, val |-> m, rev |-> rev + 1]
<1>1. /\ kv' = kv \cup {e} /\ puts' = puts \cup {e} /\ e.val = m /\ e.rev = rev + 1
  BY DEF putNewKV
<1> HIDE DEF e
<1>2. \A f \in puts : f.val # m
  BY DEF IInv, HistoryInv
<1>3. AbsStatus[m] = "new"
  <2>1. ~Queued(m) /\ m \notin lost /\ ~(delivered[m] > 0)
    BY <1>2 DEF Queued, IInv, HistoryInv, PlaceInv
  <2>2. ~Held(m)
    BY <1>2 DEF Held, IInv, CandInv, Under
  <2> QED BY <2>1, <2>2, StatusIs
<1>4. AbsStatus'[m] = "queued"
  BY <1>1 DEF AbsStatus, Queued
<1>5. \A n \in Messages \ {m} : Untouched(n)
  BY <1>1 DEF Untouched, Queued, Held, call
<1>6. AbsPos'[m] = rev + 1
  <2>1. (CHOOSE f \in puts' : f.val = m) = e
    BY <1>1, <1>2
  <2> QED BY <1>1, <2>1 DEF AbsPos
<1>7. \A n \in Messages \ {m} : AbsPos'[n] = AbsPos[n]
  <2> SUFFICES ASSUME NEW n \in Messages \ {m} PROVE AbsPos'[n] = AbsPos[n]
    OBVIOUS
  <2>1. CASE \E f \in puts : f.val = n
    <3>1. PICK f \in puts : f.val = n
      BY <2>1
    <3>2. \A g \in puts' : g.val = n => g = f
      BY <1>1, <3>1 DEF IInv, HistoryInv
    <3>3. (CHOOSE g \in puts' : g.val = n) = f /\ (CHOOSE g \in puts : g.val = n) = f
      BY <1>1, <3>1, <3>2
    <3> QED BY <1>1, <2>1, <3>3 DEF AbsPos
  <2>2. CASE ~ \E f \in puts : f.val = n
    BY <1>1, <2>2 DEF AbsPos
  <2> QED BY <2>1, <2>2
<1>8. \A n \in Messages : AbsPos[n] < AbsPos'[m]
  BY <1>6, PosIs DEF IInv, TypeOK
<1>9. AbsPos'[m] \in Nat
  BY <1>6 DEF IInv, TypeOK
<1>10. AbsPos' = [AbsPos EXCEPT ![m] = AbsPos'[m]]
  <2>1. AbsPos = [n \in Messages |-> AbsPos[n]] /\ AbsPos' = [n \in Messages |-> AbsPos'[n]]
    BY DEF AbsPos
  <2> QED BY <1>7, <2>1
<1> QED BY <1>3, <1>4, <1>5, <1>8, <1>9, <1>10, OneStatus DEF Abs!Put

\* A deletion that a call commits takes the oldest task of its topic.
LEMMA TakeRefines ==
    ASSUME IInv, IInv', NEW h \in Handlers, pc[h] \in {"claim", "delete"}, deleteRevKey(cand[h]),
           AbsStatus'[cand[h].val] \in {"held", "lost"},
           \A n \in Messages \ {cand[h].val} :
              Held(n)' = Held(n) /\ delivered'[n] = delivered[n] /\ (n \in lost') = (n \in lost)
    PROVE  Abs!Take(cand[h].val)
<1> DEFINE m == cand[h].val
<1>1. cand[h] \in kv /\ kv' = kv \ {cand[h]} /\ puts' = puts
  BY DeleteExact
<1>2. cand[h] \in puts /\ m \in Messages /\ cand[h].topic = MsgTopic[m]
  BY <1>1 DEF IInv, HistoryInv, TypeOK, Entry
<1>3. Queued(m)
  BY <1>1 DEF Queued
<1>4. ASSUME NEW n \in Messages, AbsStatus[n] = "queued", MsgTopic[n] = MsgTopic[m]
      PROVE  AbsPos[m] <= AbsPos[n]
  <2>1. PICK f \in kv : f.val = n
    BY <1>4, StatusIs DEF Queued
  <2>2. f \in puts /\ f.topic = MsgTopic[n]
    BY <2>1 DEF IInv, HistoryInv
  <2>3. cand[h].rev <= f.rev
    BY <1>2, <1>4, <2>1, <2>2 DEF IInv, CandInv, OrderInv, Under
  <2> QED BY <1>2, <2>1, <2>2, <2>3, PosIs
<1>5. Abs!Oldest(m)
  BY <1>2, <1>3, <1>4, StatusIs DEF Abs!Oldest
<1>6. \A n \in Messages \ {m} : Untouched(n)
  BY <1>1 DEF Untouched, Queued
<1>7. \E v \in {"held", "lost"} : AbsStatus' = [AbsStatus EXCEPT ![m] = v]
  BY <1>2, <1>6, OneStatus
<1>8. AbsPos' = AbsPos
  BY <1>1 DEF AbsPos
<1> QED BY <1>5, <1>7, <1>8 DEF Abs!Take

\* The call that holds a task hands it over or loses it.
LEMMA SettleRefines ==
    ASSUME IInv, IInv', NEW h \in Handlers, pc[h] = "reply", Return(h), UNCHANGED etcd,
           \/ /\ delivered' = [delivered EXCEPT ![cand[h].val] = @ + 1]
              /\ UNCHANGED lost
           \/ lost' = lost \cup {cand[h].val} /\ UNCHANGED delivered
    PROVE  Abs!Settle(cand[h].val)
<1>0. PICK m \in Messages : m = cand[h].val
  BY DEF IInv, CandInv, Under, TypeOK, Entry
<1>1. Held(m) /\ delivered[m] = 0 /\ delivered \in [Messages -> Nat]
  BY <1>0 DEF IInv, PlaceInv, TypeOK, Held
<1>2. AbsStatus[m] = "held"
  BY <1>1, StatusIs
<1>3. delivered'[m] > 0 \/ m \in lost'
  BY <1>0, <1>1
<1>4. AbsStatus'[m] \in {"delivered", "lost"}
  <2>1. /\ delivered'[m] > 0 => AbsStatus'[m] = "delivered"
        /\ m \in lost' => AbsStatus'[m] = "lost"
    <3>1. OnePlace' /\ delivered'[m] \in Nat
      BY <1>1, InOnePlaceNext DEF IInv, TypeOK
    <3>2. /\ Queued(m)' => ~Held(m)' /\ delivered'[m] = 0 /\ m \notin lost'
          /\ Held(m)' => delivered'[m] = 0 /\ m \notin lost'
          /\ delivered'[m] > 0 => m \notin lost'
      BY <1>1, <3>1 DEF OnePlace
    <3> QED BY <1>1, <3>1, <3>2 DEF AbsStatus
  <2> QED BY <1>3, <2>1
<1>5. ASSUME NEW n \in Messages \ {m} PROVE Untouched(n)
  <2>1. Held(n)' = Held(n)
    BY <1>0, <1>5, ReturnInv DEF Held
  <2> QED BY <1>0, <1>1, <1>5, <2>1 DEF Untouched, Queued, etcd
<1>6. \E v \in {"delivered", "lost"} : AbsStatus' = [AbsStatus EXCEPT ![m] = v]
  BY <1>1, <1>4, <1>5, OneStatus
<1>7. AbsPos' = AbsPos
  BY DEF AbsPos, etcd
<1> QED BY <1>0, <1>2, <1>6, <1>7 DEF Abs!Settle

\* Every step of the calls is a step of the abstract queue or none.
LEMMA StepRefines == ASSUME IInv, IInv', [Next]_vars PROVE [Abs!Next]_(Abs!avars)
<1>0. ASSUME UNCHANGED <<AbsStatus, AbsPos>> PROVE [Abs!Next]_(Abs!avars)
  BY <1>0 DEF Abs!avars
<1>1. ASSUME NEW m \in Messages, Abs!Put(m) \/ Abs!Take(m) \/ Abs!Settle(m) PROVE [Abs!Next]_(Abs!avars)
  BY <1>1 DEF Abs!Next
<1>2. ASSUME NEW m \in Messages, NEW s \in Stamps, Enqueue(m, s) \/ EnqueueError(m, s)
      PROVE  [Abs!Next]_(Abs!avars)
  <2>1. CASE putNewKV(m, s)
    BY <1>1, <1>2, <2>1, PutRefines DEF Enqueue, EnqueueError
  <2>2. CASE UNCHANGED etcd
    <3>1. UNCHANGED <<kv, puts, delivered, lost, pc, cand>>
      BY <1>2, <2>2 DEF Enqueue, EnqueueError, etcd, call
    <3>2. \A n \in Messages : Held(n)' = Held(n)
      BY <3>1 DEF Held
    <3> QED BY <1>0, <3>1, <3>2, Stutters
  <2> QED BY <1>2, <2>1, <2>2 DEF Enqueue, EnqueueError
<1>3. ASSUME NEW h \in Handlers, Claim(h) \/ DeleteEvent(h), deleteRevKey(cand[h]),
             pc' = [pc EXCEPT ![h] = "reply"]
      PROVE  [Abs!Next]_(Abs!avars)
  <2>1. /\ pc[h] \in {"claim", "delete"} /\ UNCHANGED <<cand, delivered, lost>>
    BY <1>3 DEF Claim, DeleteEvent
  <2>2. PICK m \in Messages : m = cand[h].val
    BY <2>1 DEF IInv, CandInv, Under, TypeOK, Entry
  <2>3. Held(m)' /\ \A n \in Messages \ {m} : Held(n)' = Held(n)
    BY <1>3, <2>1, <2>2 DEF Held, IInv, TypeOK
  <2>4. ~Queued(m)'
    BY <2>3, InOnePlaceNext DEF OnePlace
  <2>5. AbsStatus'[m] = "held"
    BY <2>3, <2>4 DEF AbsStatus
  <2>6. Abs!Take(m)
    BY <1>3, <2>1, <2>2, <2>3, <2>5, TakeRefines
  <2> QED BY <1>1, <2>6
<1>4. ASSUME NEW h \in Handlers, CommitUnseen(h) PROVE [Abs!Next]_(Abs!avars)
  <2>1. /\ pc[h] \in {"claim", "delete"} /\ deleteRevKey(cand[h]) /\ Return(h)
        /\ delivered' = delivered /\ lost' = lost \cup {cand[h].val}
    BY <1>4 DEF CommitUnseen
  <2>2. PICK m \in Messages : m = cand[h].val
    BY <2>1 DEF IInv, CandInv, Under, TypeOK, Entry
  <2>3. \A n \in Messages \ {m} : Held(n)' = Held(n)
    BY <2>1, <2>2, ReturnInv DEF Held
  <2>4. ~Queued(m)' /\ ~Held(m)' /\ ~(delivered'[m] > 0) /\ m \in lost'
    BY <2>1, <2>2, InOnePlaceNext DEF OnePlace
  <2>5. AbsStatus'[m] = "lost"
    BY <2>4 DEF AbsStatus
  <2>6. Abs!Take(m)
    BY <2>1, <2>2, <2>3, <2>5, TakeRefines
  <2> QED BY <1>1, <2>6
<1>5. ASSUME NEW h \in Handlers, Reply(h) \/ (Crash(h) /\ pc[h] = "reply") PROVE [Abs!Next]_(Abs!avars)
  <2>1. pc[h] = "reply" /\ cand[h].val \in Messages
    BY <1>5 DEF Reply, IInv, CandInv, Under, TypeOK, Entry
  <2>2. Abs!Settle(cand[h].val)
    BY <1>5, <2>1, SettleRefines DEF Reply, Crash
  <2> QED BY <1>1, <2>1, <2>2
<1>6. ASSUME NEW h \in Handlers, UNCHANGED <<etcd, delivered, lost>>, pc[h] # "reply", pc'[h] # "reply",
             \A g \in Handlers \ {h} : pc'[g] = pc[g] /\ cand'[g] = cand[g]
      PROVE  [Abs!Next]_(Abs!avars)
  <2>1. \A n \in Messages : Held(n)' = Held(n)
    BY <1>6 DEF Held
  <2> QED BY <1>0, <1>6, <2>1, Stutters DEF etcd
<1>7. ASSUME NEW h \in Handlers,
             DequeueCall(h) \/ Get(h) \/ WatchEvent(h) \/ WatchTimeout(h)
             \/ ((Claim(h) \/ DeleteEvent(h)) /\ deleteRevKeyMissed(cand[h]))
      PROVE  [Abs!Next]_(Abs!avars)
  <2>1. UNCHANGED <<etcd, delivered, lost>> /\ pc[h] # "reply"
    BY <1>7 DEF DequeueCall, Get, WatchEvent, WatchTimeout, Claim, DeleteEvent, deleteRevKeyMissed
  <2>3. ~(deleteRevKey(cand[h]) /\ deleteRevKeyMissed(cand[h]))
    BY DEF deleteRevKey, deleteRevKeyMissed
  <2>4. /\ \E p \in {"get", "claim", "watch", "delete"} : pc' = [pc EXCEPT ![h] = p]
        /\ \E c : cand' = [cand EXCEPT ![h] = c]
    <3>1. CASE DequeueCall(h) \/ WatchTimeout(h) \/ ((Claim(h) \/ DeleteEvent(h)) /\ deleteRevKeyMissed(cand[h]))
      <4>1. cand' = [cand EXCEPT ![h] = cand[h]]
        BY <3>1 DEF DequeueCall, WatchTimeout, Claim, DeleteEvent, IInv, TypeOK
      <4> QED BY <2>3, <3>1, <4>1 DEF DequeueCall, WatchTimeout, Claim, DeleteEvent
    <3>2. CASE Get(h) \/ WatchEvent(h)
      BY <3>2 DEF Get, WatchEvent
    <3> QED BY <1>7, <3>1, <3>2
  <2>2. pc'[h] # "reply" /\ \A g \in Handlers \ {h} : pc'[g] = pc[g] /\ cand'[g] = cand[g]
    BY <2>4 DEF IInv, TypeOK
  <2> QED BY <1>6, <2>1, <2>2
<1>8. ASSUME NEW h \in Handlers, Abort(h) \/ EtcdError(h) \/ (Crash(h) /\ pc[h] # "reply")
      PROVE  [Abs!Next]_(Abs!avars)
  <2>1. UNCHANGED <<etcd, delivered, lost>> /\ pc[h] # "reply" /\ Return(h)
    BY <1>8 DEF Abort, EtcdError, Crash
  <2> QED BY <1>6, <2>1, ReturnInv
<1>9. ASSUME NEW h \in Handlers, Cancel(h) PROVE [Abs!Next]_(Abs!avars)
  <2>1. UNCHANGED <<kv, puts, delivered, lost, pc, cand>>
    BY <1>9 DEF Cancel, etcd
  <2>2. \A n \in Messages : Held(n)' = Held(n)
    BY <2>1 DEF Held
  <2> QED BY <1>0, <2>1, <2>2, Stutters
<1>10. CASE UNCHANGED vars
  <2>1. UNCHANGED <<kv, puts, delivered, lost, pc, cand>>
    BY <1>10 DEF vars
  <2>2. \A n \in Messages : Held(n)' = Held(n)
    BY <2>1 DEF Held
  <2> QED BY <1>0, <2>1, <2>2, Stutters
<1>11. ASSUME NEW h \in Handlers, Claim(h) \/ DeleteEvent(h) PROVE [Abs!Next]_(Abs!avars)
  BY <1>3, <1>7, <1>11 DEF Claim, DeleteEvent
<1> QED BY <1>2, <1>4, <1>5, <1>7, <1>8, <1>9, <1>10, <1>11 DEF Next, Step, Failure

\* The calls, whatever fails and however they interleave, implement the abstract
\* queue: at most once, in the order of arrival.
THEOREM QueueImplementsTaskQueue == Spec => ImplementsTaskQueue
<1>1. Init => Abs!Init
  <2> SUFFICES ASSUME Init PROVE Abs!Init
    OBVIOUS
  <2>1. \A m \in Messages : ~Queued(m) /\ ~Held(m) /\ ~(delivered[m] > 0) /\ m \notin lost
    BY DEF Init, Queued, Held
  <2>2. AbsStatus = [m \in Messages |-> "new"]
    BY <2>1 DEF AbsStatus
  <2>3. AbsPos = [m \in Messages |-> 0]
    BY DEF Init, AbsPos
  <2> QED BY <2>2, <2>3 DEF Abs!Init
<1>2. IInv /\ IInv' /\ [Next]_vars => [Abs!Next]_(Abs!avars)
  BY StepRefines
<1> QED BY <1>1, <1>2, QueueInvariant, PTL DEF Spec, ImplementsTaskQueue, Abs!Spec
==============================================================================
