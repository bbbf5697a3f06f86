-------------------------- MODULE EventLoggerProofs --------------------------
(***************************************************************************)
(* Proofs about EventLogger for any number of loggers, handles, messages,  *)
(* failed connects and broken streams.                                     *)
(***************************************************************************)
EXTENDS EventLogger, FiniteSetTheorems, TLAPS

\* Handles that could not connect and have still to be removed.
Failing == {h \in Handles : hs[h] \in {"failed", "switchFailed"}}

\* A handle may be made by getCacheChan while there is no current one, or when it
\* has seen none, and by the loop while it is outside HandleLog.
MayGet == IF cur = None \/ at = "make" THEN 1 ELSE 0
MayLoop == IF loop \in {"new", "sleep"} THEN 1 ELSE 0

\* Removing a failed handle lets both make one, so it counts twice.
Budget == Cardinality(Live) + Cardinality(Failing) + MayGet + MayLoop <= 2 + fails

\* What getCacheChan may rely on while it has the lock, whatever the loop does: it
\* has one handle to start, m.handle is set from then on, and the handle whose
\* loggers move waits.
LockInv ==
    /\ \A h \in Handles : hs[h] \in {"free", "made"} => serves[h] = h
    /\ \A h \in Handles : hs[h] = "made" => at = "go" /\ made = h
    /\ at = "go" => made \in Handles /\ hs[made] = "made" /\ cur # None
    /\ at = "read" => cur # None
    /\ by # None => at # "free" /\ hs[by] \in {"switchFailed", "switchWait"}

IInv == TypeOK /\ LockInv /\ CurrentIsLive /\ Budget

-----------------------------------------------------------------------------
\* The sets of handles are finite.
LEMMA FiniteHandles ==
    /\ IsFiniteSet(Live) /\ Cardinality(Live) \in Nat
    /\ IsFiniteSet(Failing) /\ Cardinality(Failing) \in Nat
    /\ IsFiniteSet(Live') /\ Cardinality(Live') \in Nat
    /\ IsFiniteSet(Failing') /\ Cardinality(Failing') \in Nat
<1>1. IsFiniteSet(Handles)
  BY LoggerAssumption, FS_Interval DEF Handles
<1>2. /\ Live \in SUBSET Handles /\ Failing \in SUBSET Handles
      /\ Live' \in SUBSET Handles /\ Failing' \in SUBSET Handles
  BY DEF Live, Failing
<1>3. /\ IsFiniteSet(Live) /\ IsFiniteSet(Failing)
      /\ IsFiniteSet(Live') /\ IsFiniteSet(Failing')
  BY <1>1, <1>2, FS_Subset
<1> QED BY <1>3, FS_CardinalityType

\* None is no handle.
LEMMA NoneIsNoHandle == None \notin Handles
BY LoggerAssumption DEF Handles

\* The initial state satisfies the invariant.
LEMMA InitInv == Init => IInv
<1> SUFFICES ASSUME Init PROVE IInv
  OBVIOUS
<1>0. Cap \in Nat
  BY LoggerAssumption
<1>b. closed \in BOOLEAN
  BY DEF Init
<1>1. TypeOK /\ CurrentIsLive /\ LockInv
  <2>1. buf \in [Handles -> 0 .. Cap]
    BY <1>0 DEF Init
  <2>2. hs \in [Handles -> {"free", "made", "dial", "run", "switchFailed", "switchWait", "wait", "failed", "end", "gone"}]
    BY DEF Init
  <2>3. chan \in [Users -> Handles \cup {None}] /\ reg \subseteq Users
    BY DEF Init
  <2>4. serves \in [Handles -> Handles]
    BY DEF Init
  <2>5. LockInv
    BY DEF Init, LockInv
  <2> QED BY <1>b, <2>1, <2>2, <2>3, <2>4, <2>5 DEF Init, TypeOK, CurrentIsLive
<1>2. Live = {} /\ Failing = {}
  BY DEF Init, Live, Failing
<1>3. Budget
  BY <1>2, FS_EmptySet DEF Budget, MayGet, MayLoop, Init
<1> QED BY <1>1, <1>3 DEF IInv

\* Every step keeps the types.
LEMMA TypeStep == ASSUME TypeOK, LockInv, [Next]_vars PROVE TypeOK'
<1>0. Cap \in Nat \ {0}
  BY LoggerAssumption
<1> USE NoneIsNoHandle
<1>1. ASSUME NEW u \in Users, GetLogger(u) PROVE TypeOK'
  BY <1>1 DEF TypeOK, GetLogger, CacheChan, locked, counts
<1>g. ASSUME MakeHandle \/ GoHandle PROVE TypeOK'
  BY <1>g DEF TypeOK, LockInv, MakeHandle, GoHandle, locked, counts
<1>c. ASSUME NEW u \in Users, GetChan(u) PROVE TypeOK'
  BY <1>c DEF TypeOK, LockInv, GetChan, Failed, counts
<1>2. ASSUME NEW u \in Users, Send(u) PROVE TypeOK'
  BY <1>0, <1>2 DEF TypeOK, Send, locked, counts
<1>3. ASSUME NEW u \in Users, ReleaseLogger(u) \/ GC(u) PROVE TypeOK'
  BY <1>3 DEF TypeOK, ReleaseLogger, GC, locked, counts
<1>4. CASE LoopNew \/ LoopWakes
  BY <1>4 DEF TypeOK, LoopNew, LoopWakes, locked, counts
<1>cl. CASE Close
  <2>1. closed' \in BOOLEAN
    BY <1>cl DEF Close
  <2>2. UNCHANGED <<hs, buf, serves, cur, loop, mine, chan, reg, at, todo, by, made,
                    msgs, fails, breaks>>
    BY <1>cl DEF Close, locked, counts
  <2> QED BY <2>1, <2>2 DEF TypeOK
<1>5. ASSUME NEW h \in Handles, Handle(h) PROVE TypeOK'
  <2>1. CASE Dial(h) \/ Again(h) \/ CtxDone(h)
    BY <2>1 DEF TypeOK, Dial, Again, CtxDone, Step, locked, counts
  <2>2. CASE DialFails(h)
    BY <2>2 DEF TypeOK, DialFails, Step, locked, counts
  <2>3. CASE Forward(h)
    BY <2>3, <1>0 DEF TypeOK, Forward, locked, counts
  <2>4. CASE Breaks(h)
    BY <2>4, <1>0 DEF TypeOK, Breaks, Step, locked, counts
  <2>5. CASE Switch(h)
    BY <2>5 DEF TypeOK, Switch, CacheChan, Failed, Step, locked, counts
  <2>6. CASE RemoveHandle(h)
    BY <2>6 DEF TypeOK, RemoveHandle, Step, locked, counts
  <2> QED BY <1>5, <2>1, <2>2, <2>3, <2>4, <2>5, <2>6 DEF Handle
<1>6. CASE UNCHANGED vars
  BY <1>6 DEF TypeOK, vars, locked, counts
<1> QED BY <1>1, <1>2, <1>3, <1>4, <1>5, <1>6, <1>g, <1>c, <1>cl DEF Next, GetCacheChan

\* A step that only moves a handle that goes on keeps the current one alive and
\* the sets of live and of failed handles apart from that handle.
LEMMA Moves ==
    ASSUME TypeOK, NEW h \in Handles, NEW p, hs' = [hs EXCEPT ![h] = p],
           hs[h] \notin {"free", "gone"}, p \notin {"free", "gone"}
    PROVE  /\ Live' = Live
           /\ p \in {"failed", "switchFailed"} => Failing' = Failing \cup {h}
           /\ (p \in {"failed", "switchFailed"} <=> hs[h] \in {"failed", "switchFailed"})
                 => Failing' = Failing
BY DEF TypeOK, Live, Failing

\* A new handle is one more live one, and not a failed one.
LEMMA Starts ==
    ASSUME TypeOK, NEW h \in Handles, NEW p \in {"made", "dial"}, Fresh(h),
           hs' = [hs EXCEPT ![h] = p]
    PROVE  /\ Live' = Live \cup {h} /\ h \notin Live
           /\ Failing' = Failing
BY DEF TypeOK, Live, Failing, Fresh

\* What a step that does not start, switch or stop a handle leaves as it was.
LEMMA LockSame ==
    ASSUME LockInv, UNCHANGED <<hs, serves, cur, at, by, made>>
    PROVE  LockInv'
BY DEF LockInv

\* Every step keeps what getCacheChan relies on: whoever else would clear or move
\* m.handle waits for the lock.
LEMMA LockStep == ASSUME TypeOK, LockInv, [Next]_vars PROVE LockInv'
<1> USE NoneIsNoHandle
<1>1. ASSUME NEW u \in Users, GetLogger(u) PROVE LockInv'
  BY <1>1 DEF TypeOK, LockInv, GetLogger, CacheChan, counts
<1>2. ASSUME NEW u \in Users, Send(u) \/ ReleaseLogger(u) \/ GC(u) PROVE LockInv'
  BY <1>2, LockSame DEF Send, ReleaseLogger, GC, locked
<1>3. CASE MakeHandle
  <2>1. PICK h \in Handles : Fresh(h) /\ hs' = [hs EXCEPT ![h] = "made"] /\ cur' = h /\ made' = h
    BY <1>3 DEF MakeHandle
  <2>2. at = "make" /\ at' = "go" /\ UNCHANGED <<serves, by>>
    BY <1>3 DEF MakeHandle
  <2> QED BY <2>1, <2>2 DEF TypeOK, LockInv, Fresh
<1>4. CASE GoHandle
  BY <1>4 DEF TypeOK, LockInv, GoHandle
<1>5. ASSUME NEW u \in Users, GetChan(u) PROVE LockInv'
  <2>1. CASE todo = {u} /\ by # None
    BY <1>5, <2>1 DEF TypeOK, LockInv, GetChan, Failed
  <2>2. CASE todo = {u} /\ by = None
    BY <1>5, <2>2 DEF TypeOK, LockInv, GetChan
  <2>3. CASE todo # {u}
    BY <1>5, <2>3, LockSame DEF GetChan
  <2> QED BY <2>1, <2>2, <2>3
<1>6. CASE LoopNew
  <2>1. PICK h \in Handles : Fresh(h) /\ hs' = [hs EXCEPT ![h] = "dial"] /\ cur' = h
    BY <1>6 DEF LoopNew
  <2>2. UNCHANGED <<serves, at, by, made>>
    BY <1>6 DEF LoopNew, locked
  <2> QED BY <2>1, <2>2 DEF TypeOK, LockInv, Fresh
<1>7. CASE LoopWakes \/ Close
  BY <1>7, LockSame DEF LoopWakes, Close, locked
<1>8. ASSUME NEW h \in Handles, Handle(h) PROVE LockInv'
  <2>1. ASSUME NEW p, Step(h, p), hs[h] \notin {"free", "made"}, p \notin {"free", "made"},
               hs[h] \notin {"switchFailed", "switchWait"},
               UNCHANGED <<serves, cur, at, by, made>>
        PROVE LockInv'
    BY <2>1 DEF TypeOK, LockInv, Step
  <2>2. CASE Dial(h)
    BY <2>2, <2>1 DEF Dial, locked
  <2>3. CASE Again(h)
    BY <2>3, <2>1 DEF Again, locked
  <2>4. CASE CtxDone(h)
    BY <2>4, <2>1 DEF CtxDone, locked
  <2>5. CASE Breaks(h)
    BY <2>5, <2>1 DEF Breaks, locked
  <2>6. CASE Forward(h)
    BY <2>6, LockSame DEF Forward, locked
  <2>7. CASE DialFails(h)
    BY <2>7, <2>1 DEF DialFails, locked
  <2>8. CASE Switch(h)
    BY <2>8 DEF TypeOK, LockInv, Switch, CacheChan, Failed, Step
  <2>9. CASE RemoveHandle(h)
    <3>1. at = "free" /\ hs[h] \in {"failed", "end"} /\ hs' = [hs EXCEPT ![h] = "gone"]
      BY <2>9 DEF RemoveHandle, Step
    <3>2. UNCHANGED <<serves, at, by, made>>
      BY <2>9 DEF RemoveHandle, locked
    <3> QED BY <3>1, <3>2 DEF TypeOK, LockInv
  <2> QED BY <1>8, <2>2, <2>3, <2>4, <2>5, <2>6, <2>7, <2>8, <2>9 DEF Handle
<1>9. CASE UNCHANGED vars
  BY <1>9, LockSame DEF vars, locked
<1> QED BY <1>1, <1>2, <1>3, <1>4, <1>5, <1>6, <1>7, <1>8, <1>9 DEF Next, GetCacheChan

\* Every step keeps the invariant.
LEMMA Inductive == ASSUME IInv, [Next]_vars PROVE IInv'
<1>t. TypeOK /\ TypeOK' /\ LockInv /\ LockInv'
  BY TypeStep, LockStep DEF IInv
<1> USE NoneIsNoHandle
<1>n. fails \in Nat /\ Cardinality(Live) \in Nat /\ Cardinality(Failing) \in Nat
  BY <1>t, FiniteHandles DEF TypeOK
<1>f. IsFiniteSet(Live) /\ IsFiniteSet(Failing)
  BY FiniteHandles
<1>same. ASSUME UNCHANGED <<hs, serves, cur, loop, fails>>, at' = "make" => cur = None \/ at = "make"
         PROVE CurrentIsLive' /\ Budget'
  <2>1. Live' = Live /\ Failing' = Failing
    BY <1>same DEF Live, Failing
  <2>2. MayGet' <= MayGet /\ MayLoop' = MayLoop
    BY <1>same DEF MayGet, MayLoop
  <2>3. Budget'
    BY <2>1, <2>2, <1>same, <1>n DEF IInv, Budget, MayGet, MayLoop
  <2> QED BY <2>1, <2>3, <1>same DEF IInv, CurrentIsLive
<1>1. ASSUME NEW u \in Users, GetLogger(u) PROVE CurrentIsLive' /\ Budget'
  BY <1>1, <1>same DEF GetLogger, CacheChan, counts
<1>m. ASSUME MakeHandle PROVE CurrentIsLive' /\ Budget'
  <2>1. PICK h \in Handles : Fresh(h) /\ hs' = [hs EXCEPT ![h] = "made"] /\ cur' = h
    BY <1>m DEF MakeHandle
  <2>2. at = "make" /\ at' = "go" /\ UNCHANGED <<loop, fails, serves>>
    BY <1>m DEF MakeHandle, counts
  <2>3. Live' = Live \cup {h} /\ h \notin Live /\ Failing' = Failing
    BY <2>1, <1>t, Starts
  <2>4. Cardinality(Live') = Cardinality(Live) + 1
    BY <2>3, <1>f, FS_AddElement
  <2>5. Budget'
    BY <2>1, <2>2, <2>3, <2>4, <1>n DEF IInv, Budget, MayGet, MayLoop
  <2>6. serves[h] = h
    BY <2>1, <1>t DEF LockInv, Fresh
  <2> QED BY <2>1, <2>2, <2>3, <2>5, <2>6 DEF CurrentIsLive
<1>g. ASSUME GoHandle PROVE CurrentIsLive' /\ Budget'
  <2>1. /\ at = "go" /\ at' = "read" /\ hs' = [hs EXCEPT ![made] = "dial"]
        /\ serves' = [serves EXCEPT ![made] = cur] /\ UNCHANGED <<cur, loop, fails>>
    BY <1>g DEF GoHandle, counts
  <2>2. made \in Handles /\ hs[made] = "made"
    BY <2>1, <1>t DEF LockInv
  <2>3. Live' = Live /\ Failing' = Failing
    BY <2>1, <2>2, <1>t DEF Live, Failing, TypeOK
  <2>4. Budget'
    BY <2>1, <2>3 DEF IInv, Budget, MayGet, MayLoop
  <2>5. CurrentIsLive'
    BY <2>1, <2>2, <2>3, <1>t DEF IInv, CurrentIsLive, TypeOK
  <2> QED BY <2>4, <2>5
<1>c. ASSUME NEW u \in Users, GetChan(u) PROVE CurrentIsLive' /\ Budget'
  <2>1. UNCHANGED <<serves, cur, loop, fails>> /\ at = "read" /\ at' \in {"free", "read"}
    BY <1>c DEF GetChan, counts
  <2>2. CASE hs' = hs
    BY <2>1, <2>2, <1>same
  <2>3. CASE hs' # hs
    <3>1. /\ by \in Handles /\ hs' = [hs EXCEPT ![by] = IF Failed(by) THEN "failed" ELSE "wait"]
          /\ hs[by] \in {"switchFailed", "switchWait"}
      BY <2>3, <1>c, <1>t DEF GetChan, LockInv, TypeOK
    <3>2. Live' = Live /\ Failing' = Failing
      BY <3>1, <1>t DEF Live, Failing, Failed, TypeOK
    <3>3. MayGet' <= MayGet /\ MayLoop' = MayLoop
      BY <2>1 DEF MayGet, MayLoop
    <3>4. Budget'
      BY <2>1, <3>2, <3>3, <1>n DEF IInv, Budget, MayGet, MayLoop
    <3> QED BY <2>1, <3>2, <3>4 DEF IInv, CurrentIsLive
  <2> QED BY <2>2, <2>3
<1>2. ASSUME NEW u \in Users, Send(u) \/ ReleaseLogger(u) \/ GC(u) PROVE CurrentIsLive' /\ Budget'
  BY <1>2, <1>same DEF Send, ReleaseLogger, GC, locked, counts
<1>3. ASSUME LoopNew PROVE CurrentIsLive' /\ Budget'
  <2>1. PICK h \in Handles : Fresh(h) /\ hs' = [hs EXCEPT ![h] = "dial"] /\ cur' = h
    BY <1>3 DEF LoopNew
  <2>2. loop = "new" /\ loop' = "handle" /\ UNCHANGED <<fails, serves, at>>
    BY <1>3 DEF LoopNew, locked, counts
  <2>3. Live' = Live \cup {h} /\ h \notin Live /\ Failing' = Failing
    BY <2>1, <1>t, Starts
  <2>4. Cardinality(Live') = Cardinality(Live) + 1
    BY <2>3, <1>f, FS_AddElement
  <2>5. Budget'
    BY <2>1, <2>2, <2>3, <2>4, <1>n DEF IInv, Budget, MayGet, MayLoop
  <2>6. serves[h] = h
    BY <2>1, <1>t DEF LockInv, Fresh
  <2> QED BY <2>1, <2>2, <2>3, <2>5, <2>6 DEF CurrentIsLive
<1>4. ASSUME LoopWakes \/ Close PROVE CurrentIsLive' /\ Budget'
  <2>1. UNCHANGED <<hs, serves, cur, at, fails>> /\ MayLoop' = MayLoop
    BY <1>4 DEF LoopWakes, Close, MayLoop, locked, counts
  <2> QED BY <2>1 DEF IInv, CurrentIsLive, Budget, Live, Failing, MayGet
<1>5. ASSUME NEW h \in Handles, Handle(h) PROVE CurrentIsLive' /\ Budget'
  <2>1. ASSUME NEW p, Step(h, p), hs[h] \notin {"free", "gone"}, p \notin {"free", "gone"},
               p \in {"failed", "switchFailed"} <=> hs[h] \in {"failed", "switchFailed"},
               UNCHANGED <<serves, cur, at, loop, fails>>
        PROVE CurrentIsLive' /\ Budget'
    <3>1. Live' = Live /\ Failing' = Failing
      BY <2>1, <1>t, Moves DEF Step
    <3> QED BY <3>1, <2>1 DEF IInv, CurrentIsLive, Budget, MayGet, MayLoop
  <2>2. CASE Dial(h)
    BY <2>2, <2>1 DEF Dial, locked, counts
  <2>3. CASE Again(h)
    BY <2>3, <2>1 DEF Again, locked, counts
  <2>4. CASE CtxDone(h)
    BY <2>4, <2>1 DEF CtxDone, locked, counts
  <2>5. CASE Breaks(h)
    BY <2>5, <2>1 DEF Breaks, locked, counts
  <2>6. CASE Forward(h)
    BY <2>6, <1>same DEF Forward, locked, counts
  <2>7. CASE DialFails(h)
    <3>1. Live' = Live /\ Failing' = Failing \cup {h}
      <4>1. CASE Step(h, "failed")
        BY <4>1, <2>7, <1>t, Moves DEF DialFails, Step
      <4>2. CASE Step(h, "switchFailed")
        BY <4>2, <2>7, <1>t, Moves DEF DialFails, Step
      <4> QED BY <4>1, <4>2, <2>7 DEF DialFails
    <3>2. Cardinality(Failing') <= Cardinality(Failing) + 1
      <4>1. Cardinality(Failing \cup {h}) = IF h \in Failing THEN Cardinality(Failing) ELSE Cardinality(Failing) + 1
        BY <1>f, FS_AddElement
      <4> QED BY <4>1, <3>1, <1>n
    <3>3. UNCHANGED <<serves, cur, at, loop>> /\ fails' = fails + 1
      BY <2>7 DEF DialFails, locked
    <3>4. Cardinality(Failing') \in Nat
      BY FiniteHandles
    <3>5. Budget'
      BY <3>1, <3>2, <3>3, <3>4, <1>n DEF IInv, Budget, MayGet, MayLoop
    <3> QED BY <3>1, <3>3, <3>5 DEF IInv, CurrentIsLive
  <2>8. CASE Switch(h)
    <3>1. /\ hs[h] \in {"switchFailed", "switchWait"} /\ UNCHANGED <<serves, cur, loop, fails>>
          /\ at = "free" /\ (at' = "make" => cur = None)
      BY <2>8 DEF Switch, CacheChan, counts
    <3>2. CASE hs' = hs
      BY <3>1, <3>2, <1>same
    <3>3. CASE hs' # hs
      <4>1. hs' = [hs EXCEPT ![h] = IF Failed(h) THEN "failed" ELSE "wait"]
        BY <3>3, <2>8 DEF Switch, Step
      <4>2. at' = "free"
        BY <3>3, <2>8 DEF Switch, CacheChan
      <4>3. Live' = Live /\ Failing' = Failing
        BY <4>1, <3>1, <1>t DEF Live, Failing, Failed, TypeOK
      <4> QED BY <3>1, <4>2, <4>3 DEF IInv, CurrentIsLive, Budget, MayGet, MayLoop
    <3> QED BY <3>2, <3>3
  <2>9. CASE RemoveHandle(h)
    <3>1. /\ hs[h] \in {"failed", "end"} /\ hs' = [hs EXCEPT ![h] = "gone"]
          /\ cur' = None /\ UNCHANGED <<fails, at>> /\ at = "free"
          /\ loop' = loop \/ loop' = IF hs[h] = "failed" THEN "sleep" ELSE "done"
      BY <2>9 DEF RemoveHandle, Step, locked, counts
    <3>2. Live' = Live \ {h} /\ h \in Live
      BY <3>1, <1>t DEF Live, TypeOK
    <3>3. Failing' = Failing \ {h} /\ (h \in Failing <=> hs[h] = "failed")
      BY <3>1, <1>t DEF Failing, TypeOK
    <3>4. Cardinality(Live') = Cardinality(Live) - 1
      BY <3>2, <1>f, FS_RemoveElement
    <3>5. Cardinality(Failing') = IF hs[h] = "failed" THEN Cardinality(Failing) - 1 ELSE Cardinality(Failing)
      BY <3>3, <1>f, FS_RemoveElement
    <3>6. MayGet' <= MayGet + 1 /\ MayLoop' <= MayLoop + (IF hs[h] = "failed" THEN 1 ELSE 0)
      BY <3>1 DEF MayGet, MayLoop
    <3>7. Budget'
      BY <3>1, <3>4, <3>5, <3>6, <1>n DEF IInv, Budget, MayGet, MayLoop
    <3> QED BY <3>1, <3>7 DEF CurrentIsLive
  <2> QED BY <1>5, <2>2, <2>3, <2>4, <2>5, <2>6, <2>7, <2>8, <2>9 DEF Handle
<1>6. ASSUME UNCHANGED vars PROVE CurrentIsLive' /\ Budget'
  BY <1>6, <1>same DEF vars, locked, counts
<1>7. CurrentIsLive' /\ Budget'
  BY <1>1, <1>2, <1>3, <1>4, <1>5, <1>6, <1>m, <1>g, <1>c DEF Next, GetCacheChan
<1> QED BY <1>t, <1>7 DEF IInv

\* The invariant bounds the live handles.
LEMMA BudgetBounds == IInv => HandlesBounded
<1> SUFFICES ASSUME IInv PROVE HandlesBounded
  OBVIOUS
<1>1. fails \in Nat /\ Cardinality(Live) \in Nat /\ Cardinality(Failing) \in Nat
  BY FiniteHandles DEF IInv, TypeOK
<1> QED BY <1>1 DEF IInv, Budget, HandlesBounded, MayGet, MayLoop

-----------------------------------------------------------------------------
\* The invariant holds in every reachable state.
THEOREM Invariance == Spec => []IInv
<1>1. IInv /\ [Next]_vars => IInv'
  BY Inductive
<1> QED BY InitInv, <1>1, PTL DEF Spec

\* Every variable keeps its type; no channel holds more than its capacity.
THEOREM TypeCorrect == Spec => []TypeOK
BY Invariance, PTL DEF IInv

\* m.handle is never a handle whose goroutine has ended.
THEOREM CurrentAlwaysLive == Spec => []CurrentIsLive
BY Invariance, PTL DEF IInv

\* At most two goroutines with a stream, and one more for every failed connect.
THEOREM HandlesAlwaysBounded == Spec => []HandlesBounded
BY Invariance, BudgetBounds, PTL
=============================================================================
