---------------------------- MODULE EventLogger -----------------------------
(***************************************************************************)
(* The client of the event log in chaos, worker and api (src/event): a     *)
(* loggerManager with at most one current handle, the goroutines that keep *)
(* a stream to the event log server and empty the channel of their handle, *)
(* and the loggers that write to these channels without ever waiting.  The *)
(* loop of Start makes handles, and so does getCacheChan when there is no  *)
(* current one.                                                            *)
(***************************************************************************)
EXTENDS Naturals, FiniteSets

CONSTANTS Users,     \* holders of a logger, each of an event of its own
          None,
          MaxHandles,  \* bound on handles ever made
          Cap,       \* buffersize
          MaxMsgs,   \* bound on messages
          Late,      \* bound: the users that still ask for a logger after Close
          MaxFails, MaxBreaks   \* bounds on failed connects and on broken streams

ASSUME LoggerAssumption ==
    /\ IsFiniteSet(Users) /\ MaxHandles \in Nat /\ None \notin Nat
    /\ Cap \in Nat \ {0} /\ MaxMsgs \in Nat /\ MaxFails \in Nat /\ MaxBreaks \in Nat

Handles == 1 .. MaxHandles

VARIABLES
    hs,       \* where the HandleLog goroutine of a handle is
    buf,      \* messages in its cacheChan
    serves,   \* the handle whose channel the goroutine empties
    cur,      \* m.handle
    loop,     \* the loop of Start: "new", "sleep", "done", or in HandleLog
    mine,     \* the handle the loop is in HandleLog with
    chan,     \* the handle whose channel a user's logger writes to
    reg,      \* the users whose logger is in m.loggers
    at,       \* where getCacheChan is; "free": nobody has m.lock for long
    todo,     \* the users whose loggers wait for its answer
    by,       \* the handle whose SetNewHandleCacheChan has the lock, if it is not GetLogger
    made,     \* the handle getCacheChan has made and not yet started
    closed,   \* m.ctx is cancelled
    msgs, fails, breaks

locked == <<at, todo, by, made>>
counts == <<msgs, fails, breaks>>
vars == <<hs, buf, serves, cur, loop, mine, chan, reg, locked, closed, counts>>

\* h is the next handle to be made.
Fresh(h) == hs[h] = "free" /\ \A g \in Handles : hs[g] = "free" => h <= g
Live == {h \in Handles : hs[h] \notin {"free", "gone"}}
Failed(h) == hs[h] \in {"switchFailed", "failed"}

Init ==
    /\ hs = [h \in Handles |-> "free"] /\ buf = [h \in Handles |-> 0]
    /\ serves = [h \in Handles |-> h]
    /\ cur = None /\ loop = "new" /\ mine = None
    /\ chan = [u \in Users |-> None] /\ reg = {}
    /\ at = "free" /\ todo = {} /\ by = None /\ made = None
    /\ closed = FALSE /\ msgs = 0 /\ fails = 0 /\ breaks = 0

-----------------------------------------------------------------------------
\* getCacheChan reads and writes m.handle in several steps.  It has m.lock, but
\* the loop does not ask for it.

\* The first look at m.handle, for the loggers of U.
CacheChan(U, h) ==
    /\ todo' = U /\ by' = h /\ made' = None
    /\ at' = IF U = {} THEN "free" ELSE IF cur # None THEN "read" ELSE "make"

MakeHandle ==
    /\ at = "make" /\ at' = "go"
    /\ \E h \in Handles : Fresh(h) /\ hs' = [hs EXCEPT ![h] = "made"] /\ cur' = h /\ made' = h
    /\ UNCHANGED <<buf, serves, loop, mine, chan, reg, todo, by, closed, counts>>

\* go m.handle.HandleLog(), on the handle that is there now.
GoHandle ==
    /\ at = "go" /\ at' = "read"
    /\ hs' = [hs EXCEPT ![made] = "dial"] /\ serves' = [serves EXCEPT ![made] = cur]
    /\ made' = None
    /\ UNCHANGED <<buf, cur, loop, mine, chan, reg, todo, by, closed, counts>>

\* return m.handle.cacheChan; the logger of u gets it and is in m.loggers.  After
\* the last one the lock is free, and SetNewHandleCacheChan is done.
GetChan(u) ==
    /\ at = "read" /\ u \in todo
    /\ chan' = [chan EXCEPT ![u] = cur] /\ reg' = reg \cup {u}
    /\ todo' = todo \ {u}
    /\ IF todo = {u}
         THEN /\ at' = "free" /\ by' = None
              /\ hs' = IF by = None THEN hs
                       ELSE [hs EXCEPT ![by] = IF Failed(by) THEN "failed" ELSE "wait"]
         ELSE UNCHANGED <<at, by, hs>>
    /\ UNCHANGED <<buf, serves, cur, loop, mine, made, closed, counts>>

\* GetLogger of an event that is not in m.loggers.
GetLogger(u) ==
    /\ at = "free" /\ chan[u] = None /\ (closed => u \in Late)
    /\ CacheChan({u}, None)
    /\ UNCHANGED <<hs, buf, serves, cur, loop, mine, chan, reg, closed, counts>>

\* Mutant: the capacity is not looked at.
M_Send(u) ==
    /\ chan[u] # None /\ msgs < MaxMsgs
    /\ msgs' = msgs + 1
    /\ buf' = [buf EXCEPT ![chan[u]] = @ + 1]
    /\ UNCHANGED <<hs, serves, cur, loop, mine, chan, reg, locked, closed, fails, breaks>>

\* A logger writes without blocking: a message that finds the channel full is
\* dropped.
Send(u) ==
    /\ chan[u] # None /\ msgs < MaxMsgs
    /\ msgs' = msgs + 1
    /\ buf' = [buf EXCEPT ![chan[u]] = IF @ < Cap THEN @ + 1 ELSE @]
    /\ UNCHANGED <<hs, serves, cur, loop, mine, chan, reg, locked, closed, fails, breaks>>

ReleaseLogger(u) ==
    /\ at = "free" /\ chan[u] # None
    /\ chan' = [chan EXCEPT ![u] = None] /\ reg' = reg \ {u}
    /\ UNCHANGED <<hs, buf, serves, cur, loop, mine, locked, closed, counts>>

\* GC forgets a logger a minute after it was made, while it is still in use.
GC(u) ==
    /\ at = "free" /\ u \in reg /\ reg' = reg \ {u}
    /\ UNCHANGED <<hs, buf, serves, cur, loop, mine, chan, locked, closed, counts>>

-----------------------------------------------------------------------------
\* The loop makes a handle and makes it current without the lock.
LoopNew ==
    /\ loop = "new"
    /\ \E h \in Handles : Fresh(h) /\ hs' = [hs EXCEPT ![h] = "dial"] /\ cur' = h /\ mine' = h
    /\ loop' = "handle"
    /\ UNCHANGED <<buf, serves, chan, reg, locked, closed, counts>>

\* After the 10 seconds.
LoopWakes ==
    /\ loop = "sleep" /\ loop' = "new"
    /\ UNCHANGED <<hs, buf, serves, cur, mine, chan, reg, locked, closed, counts>>

-----------------------------------------------------------------------------
\* HandleLog.

Step(h, p) == hs' = [hs EXCEPT ![h] = p]

Dial(h) ==
    /\ hs[h] = "dial" /\ Step(h, "run")
    /\ UNCHANGED <<buf, serves, cur, loop, mine, chan, reg, locked, closed, counts>>

\* NewEventClient fails, or the stream does, which also switches the loggers.
DialFails(h) ==
    /\ hs[h] = "dial" /\ fails < MaxFails
    /\ fails' = fails + 1
    /\ Step(h, "failed") \/ Step(h, "switchFailed")
    /\ UNCHANGED <<buf, serves, cur, loop, mine, chan, reg, locked, closed, msgs, breaks>>

Forward(h) ==
    /\ hs[h] = "run" /\ buf[serves[h]] > 0
    /\ buf' = [buf EXCEPT ![serves[h]] = @ - 1]
    /\ UNCHANGED <<hs, serves, cur, loop, mine, chan, reg, locked, closed, counts>>

\* The message is lost with the stream.
Breaks(h) ==
    /\ hs[h] = "run" /\ buf[serves[h]] > 0 /\ breaks < MaxBreaks
    /\ breaks' = breaks + 1
    /\ buf' = [buf EXCEPT ![serves[h]] = @ - 1]
    /\ Step(h, "switchWait")
    /\ UNCHANGED <<serves, cur, loop, mine, chan, reg, locked, closed, msgs, fails>>

\* Mutant: SetNewHandleCacheChan forgets the handle before it switches.
M_Switch(h) ==
    /\ at = "free" /\ hs[h] \in {"switchFailed", "switchWait"}
    /\ Step(h, IF Failed(h) THEN "failed" ELSE "wait")
    /\ cur' = None
    /\ UNCHANGED <<buf, serves, loop, mine, chan, reg, locked, closed, counts>>

\* SetNewHandleCacheChan takes the lock: the registered loggers of this channel
\* are to go to the current one, which may be this one.
Switch(h) ==
    LET moved == {u \in reg : chan[u] = serves[h]}
    IN  /\ at = "free" /\ hs[h] \in {"switchFailed", "switchWait"}
        /\ CacheChan(moved, IF moved = {} THEN None ELSE h)
        /\ IF moved = {} THEN Step(h, IF Failed(h) THEN "failed" ELSE "wait") ELSE UNCHANGED hs
        /\ UNCHANGED <<buf, serves, cur, loop, mine, chan, reg, closed, counts>>

\* Mutant: only the current handle connects again.
M_Again(h) ==
    /\ hs[h] = "wait" /\ ~closed /\ cur = h /\ Step(h, "dial")
    /\ UNCHANGED <<buf, serves, cur, loop, mine, chan, reg, locked, closed, counts>>

\* util.Exec runs the function again after 3 seconds.
Again(h) ==
    /\ hs[h] = "wait" /\ ~closed /\ Step(h, "dial")
    /\ UNCHANGED <<buf, serves, cur, loop, mine, chan, reg, locked, closed, counts>>

CtxDone(h) ==
    /\ hs[h] \in {"run", "wait"} /\ closed /\ Step(h, "end")
    /\ UNCHANGED <<buf, serves, cur, loop, mine, chan, reg, locked, closed, counts>>

\* Mutant: a handle that fails to connect stays current.
M_RemoveHandle(h) ==
    /\ at = "free" /\ hs[h] \in {"failed", "end"} /\ Step(h, "gone")
    /\ IF mine = h THEN mine' = None /\ loop' = IF hs[h] = "failed" THEN "sleep" ELSE "done"
                   ELSE UNCHANGED <<mine, loop>>
    /\ UNCHANGED <<buf, serves, cur, chan, reg, locked, closed, counts>>

\* The handle that ends clears m.handle, whichever handle is there; the loop
\* tries again only after an error.
RemoveHandle(h) ==
    /\ at = "free" /\ hs[h] \in {"failed", "end"} /\ Step(h, "gone")
    /\ cur' = None
    /\ IF mine = h THEN mine' = None /\ loop' = IF hs[h] = "failed" THEN "sleep" ELSE "done"
                   ELSE UNCHANGED <<mine, loop>>
    /\ UNCHANGED <<buf, serves, chan, reg, locked, closed, counts>>

Close ==
    /\ ~closed /\ closed' = TRUE
    /\ UNCHANGED <<hs, buf, serves, cur, loop, mine, chan, reg, locked, counts>>

-----------------------------------------------------------------------------
Handle(h) ==
    \/ Dial(h) \/ DialFails(h) \/ Forward(h) \/ Breaks(h) \/ Switch(h)
    \/ Again(h) \/ CtxDone(h) \/ RemoveHandle(h)

GetCacheChan == MakeHandle \/ GoHandle \/ \E u \in Users : GetChan(u)

Next ==
    \/ GetCacheChan
    \/ \E u \in Users : GetLogger(u) \/ Send(u) \/ ReleaseLogger(u) \/ GC(u)
    \/ LoopNew \/ LoopWakes
    \/ \E h \in Handles : Handle(h)
    \/ Close

Spec == Init /\ [][Next]_vars

\* While goroutines of handles have something to do, one of them goes on; a call
\* to the server ends, well or badly.  Whoever has m.lock goes on, and the mutex
\* hands it to a goroutine that has been waiting.
Fairness == SF_vars(\E h \in Handles : Handle(h)) /\ WF_vars(GetCacheChan)

FairSpec == Spec /\ Fairness

-----------------------------------------------------------------------------
\* Types.
TypeOK ==
    /\ hs \in [Handles -> {"free", "made", "dial", "run", "switchFailed", "switchWait",
                            "wait", "failed", "end", "gone"}]
    /\ buf \in [Handles -> 0 .. Cap]
    /\ serves \in [Handles -> Handles]
    /\ cur \in Handles \cup {None}
    /\ loop \in {"new", "handle", "sleep", "done"}
    /\ mine \in Handles \cup {None}
    /\ chan \in [Users -> Handles \cup {None}]
    /\ reg \subseteq Users
    /\ at \in {"free", "make", "go", "read"} /\ todo \subseteq Users
    /\ by \in Handles \cup {None} /\ made \in Handles \cup {None}
    /\ closed \in BOOLEAN
    /\ msgs \in Nat /\ fails \in Nat /\ breaks \in Nat

\* A new logger writes to a channel that somebody reads, or is about to: although
\* the loop sets m.handle without the lock, also in the middle of getCacheChan,
\* and every handle that ends clears it whichever is there, m.handle is never a
\* handle whose goroutine has ended or empties another channel.
CurrentIsLive == cur # None => cur \in Live /\ serves[cur] = cur

\* Clearing m.handle while another handle is running there leaves that one behind
\* and makes getCacheChan start one more.  The goroutines and streams that pile
\* up this way are bounded: two, and one more for every connect that failed.
HandlesBounded == Cardinality(Live) <= 2 + fails

\* No message stays in its channel: the stream is made again after it broke,
\* until the messages have gone out or were lost with it, unless the handle of
\* the channel failed to connect or the manager was closed.
Drains == <>[](\A h \in Live : buf[serves[h]] = 0 \/ closed)
=============================================================================
