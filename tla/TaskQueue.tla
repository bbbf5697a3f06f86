------------------------------ MODULE TaskQueue ------------------------------
(***************************************************************************)
(* What the message queue promises its users, without etcd: a task that was *)
(* put in the queue of its topic leaves that queue once, the oldest task of *)
(* the topic first, and after that it is handed to one consumer or it is   *)
(* gone.  There is no redelivery: at most once, in FIFO order.             *)
(***************************************************************************)
EXTENDS Naturals

CONSTANTS Topics,      \* names of the queues
          Messages,    \* tasks; each is sent at most once
          MsgTopic     \* the topic a task is sent to

VARIABLES status,      \* where a task is
          pos          \* its place in the order of arrival, 0 before it arrives

avars == <<status, pos>>

Init == /\ status = [m \in Messages |-> "new"]
        /\ pos = [m \in Messages |-> 0]

\* A task is the oldest one of its topic that is still queued.
Oldest(m) ==
    /\ status[m] = "queued"
    /\ \A n \in Messages :
          status[n] = "queued" /\ MsgTopic[n] = MsgTopic[m] => pos[m] <= pos[n]

\* A task arrives behind everything that arrived before it.
Put(m) ==
    /\ status[m] = "new"
    /\ status' = [status EXCEPT ![m] = "queued"]
    /\ pos'[m] \in Nat /\ \A k \in Messages : pos[k] < pos'[m]
    /\ pos' = [pos EXCEPT ![m] = pos'[m]]

\* The oldest task leaves the queue: a consumer's call holds it, or, when the
\* call fails after the removal, nobody does.
Take(m) ==
    /\ Oldest(m)
    /\ \E s \in {"held", "lost"} : status' = [status EXCEPT ![m] = s]
    /\ UNCHANGED pos

\* The held task reaches its consumer, or the call fails before it does.
Settle(m) ==
    /\ status[m] = "held"
    /\ \E s \in {"delivered", "lost"} : status' = [status EXCEPT ![m] = s]
    /\ UNCHANGED pos

Next == \E m \in Messages : Put(m) \/ Take(m) \/ Settle(m)

Spec == Init /\ [][Next]_avars
==============================================================================
