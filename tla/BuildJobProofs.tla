--------------------------- MODULE BuildJobProofs ---------------------------
(***************************************************************************)
(* Proofs about BuildJob for any number of builds, pod names, restarts and *)
(* faults and any lag of the informer.                                     *)
(***************************************************************************)
EXTENDS BuildJob, FiniteSetTheorems, TLAPS

Holds(s, x) == \E i \in DOMAIN s : s[i] = x

\* A pod that anything remembers as complete did exit with 0.
ClusterInv ==
    \A n \in Names :
        (pod[n] = "complete" \/ lister[n] = "complete"
           \/ Holds(watch[n], "complete") \/ Holds(notif[n], "complete"))
        => n \in completed

\* A channel is entered under the name of its build, which knows of the end of
\* the job only what this name's pods have told.
BuildInv ==
    /\ \A n \in Names : sub[n] # None => name[sub[n]] = n /\ pc[sub[n]] # "idle"
    /\ \A b \in Builds :
        /\ pc[b] = "idle" => ring[b] = <<>> /\ ~jobDone[b] /\ res[b] = "none"
        /\ Holds(ring[b], "complete") => name[b] \in completed
        /\ jobDone[b] /\ err[b] = "nil" => name[b] \in completed
        /\ res[b] = "success" => name[b] \in completed

IInv == TypeOK /\ ClusterInv /\ BuildInv

-----------------------------------------------------------------------------
\* What Append and Tail do to the elements of a sequence.
LEMMA AppendHolds ==
    ASSUME NEW S, NEW s \in Seq(S), NEW e \in S
    PROVE  /\ Append(s, e) \in Seq(S)
           /\ \A x : Holds(Append(s, e), x) => Holds(s, x) \/ e = x
BY DEF Holds

LEMMA TailHolds ==
    ASSUME NEW S, NEW s \in Seq(S), s # <<>>
    PROVE  /\ Tail(s) \in Seq(S) /\ Head(s) \in S
           /\ Holds(s, Head(s))
           /\ \A x : Holds(Tail(s), x) => Holds(s, x)
<1>1. Tail(s) \in Seq(S) /\ Head(s) \in S /\ 1 \in DOMAIN s /\ Head(s) = s[1]
  OBVIOUS
<1>2. \A i \in DOMAIN Tail(s) : i + 1 \in DOMAIN s /\ Tail(s)[i] = s[i + 1]
  OBVIOUS
<1> QED BY <1>1, <1>2 DEF Holds

\* The sequences of one element and of none.
LEMMA ShortSeq ==
    ASSUME NEW S, NEW e \in S
    PROVE  /\ <<e>> \in Seq(S) /\ <<>> \in Seq(S)
           /\ \A x : ~Holds(<<>>, x)
           /\ \A x : Holds(<<e>>, x) => e = x
BY DEF Holds

LEMMA Constants == None \notin Builds /\ None \notin Names /\ MaxRestarts \in Nat /\ MaxFaults \in Nat
BY JobAssumption

\* A fault is counted within its bound.
LEMMA FaultType == ASSUME TypeOK, Fault PROVE faults' \in 0..MaxFaults
BY Constants DEF TypeOK, Fault

-----------------------------------------------------------------------------
\* The initial state satisfies the invariant.
LEMMA InitInv == Init => IInv
<1> SUFFICES ASSUME Init PROVE IInv
  OBVIOUS
<1>1. \A x : ~Holds(<<>>, x)
  BY DEF Holds
<1>2. TypeOK
  <2>1. term \in [Names -> BOOLEAN] /\ signal \in [Builds -> BOOLEAN]
    BY DEF Init
  <2>2. jobDone \in [Builds -> BOOLEAN] /\ logDone \in [Builds -> BOOLEAN]
    BY DEF Init
  <2>3. restarts \in 0..MaxRestarts /\ faults \in 0..MaxFaults
    BY Constants DEF Init
  <2> QED BY <2>1, <2>2, <2>3 DEF Init, TypeOK, PodState, Ended
<1>3. ClusterInv /\ BuildInv
  BY <1>1 DEF Init, ClusterInv, BuildInv
<1> QED BY <1>2, <1>3 DEF IInv

\* A pod takes a new state.
LEMMA PodStep ==
    ASSUME IInv, NEW n \in Names, NEW st \in PodState, SetPod(n, st),
           completed \subseteq completed', completed' \subseteq Names, st = "complete" => n \in completed',
           UNCHANGED <<lister, notif, tables, name, todo, victim, ring, jobDone, logDone, err, signal>>,
           term' \in [Names -> BOOLEAN], restarts' \in 0..MaxRestarts, faults' \in 0..MaxFaults,
           \A b \in Builds : res'[b] = "success" => res[b] = "success",
           res' \in [Builds -> {"none", "success", "failed", "cancel", "timeout", "error"}],
           pc' \in [Builds -> {"idle", "stop", "stop_forget", "create", "enter", "wait", "delete",
                          "forget", "done"}],
           \A b \in Builds : pc'[b] = "idle" => pc[b] = "idle" /\ res'[b] = res[b],
           \A b \in Builds : pc[b] = "idle" => pc'[b] = "idle",
           \A b \in Builds : pc'[b] = "stop_forget" => pc[b] = "stop_forget"
    PROVE  IInv'
<1>0. TypeOK
  BY DEF IInv
<1>1. Append(watch[n], st) \in Seq(PodState)
      /\ \A x : Holds(Append(watch[n], st), x) => Holds(watch[n], x) \/ st = x
  BY <1>0, AppendHolds DEF TypeOK
<1>2. pod' \in [Names -> PodState] /\ watch' \in [Names -> Seq(PodState)]
  BY <1>0, <1>1 DEF SetPod, TypeOK
<1>3. log' \in [Builds -> {"none", "wait", "stream", "eof", "done"}]
  BY <1>0 DEF SetPod, TypeOK
<1>4. TypeOK'
  BY <1>0, <1>2, <1>3 DEF TypeOK, tables
<1>5. ClusterInv'
  <2> SUFFICES ASSUME NEW m \in Names,
                      \/ pod'[m] = "complete" \/ lister'[m] = "complete"
                      \/ Holds(watch'[m], "complete") \/ Holds(notif'[m], "complete")
               PROVE  m \in completed'
    BY DEF ClusterInv
  <2>1. CASE m = n
    <3>1. pod'[m] = st /\ watch'[m] = Append(watch[n], st)
      BY <2>1, <1>0 DEF SetPod, TypeOK
    <3> QED BY <2>1, <3>1, <1>1 DEF IInv, ClusterInv
  <2>2. CASE m # n
    <3>1. pod'[m] = pod[m] /\ watch'[m] = watch[m]
      BY <2>2, <1>0 DEF SetPod, TypeOK
    <3> QED BY <3>1 DEF IInv, ClusterInv
  <2> QED BY <2>1, <2>2
<1>6. BuildInv'
  BY <1>0 DEF IInv, BuildInv, tables, TypeOK
<1> QED BY <1>4, <1>5, <1>6 DEF IInv

\* Nothing that the history depends on changes but the program counters, which
\* move forward.
LEMMA QuietStep ==
    ASSUME IInv, TypeOK',
           UNCHANGED <<pod, informer, sub, name, ring, jobDone, err, res, completed>>,
           \A b \in Builds : pc[b] = "idle" <=> pc'[b] = "idle"
    PROVE  IInv'
<1>1. ClusterInv'
  BY DEF IInv, ClusterInv, informer
<1>2. BuildInv'
  BY DEF IInv, BuildInv, TypeOK
<1> QED BY <1>1, <1>2 DEF IInv

\* The informer's side changes: what it delivers was on its way before.
LEMMA InformerStep ==
    ASSUME IInv, TypeOK', UNCHANGED <<pod, sub, name, pc, ring, jobDone, err, res, completed>>,
           \A n \in Names : (lister'[n] = "complete" \/ Holds(watch'[n], "complete")
                                \/ Holds(notif'[n], "complete")) => n \in completed
    PROVE  IInv'
<1>1. ClusterInv'
  BY DEF IInv, ClusterInv
<1>2. BuildInv'
  BY DEF IInv, BuildInv
<1> QED BY <1>1, <1>2 DEF IInv

LEMMA InformerEventInv == ASSUME IInv, NEW n \in Names, InformerEvent(n) PROVE IInv'
<1>0. TypeOK
  BY DEF IInv
<1>1. watch[n] \in Seq(PodState) /\ watch[n] # <<>> /\ notif[n] \in Seq(PodState)
  BY <1>0 DEF TypeOK, InformerEvent
<1> DEFINE st == Head(watch[n])
<1>2. /\ Tail(watch[n]) \in Seq(PodState) /\ st \in PodState
      /\ Holds(watch[n], st) /\ \A x : Holds(Tail(watch[n]), x) => Holds(watch[n], x)
  BY <1>1, TailHolds
<1>3. /\ Append(notif[n], st) \in Seq(PodState)
      /\ \A x : Holds(Append(notif[n], st), x) => Holds(notif[n], x) \/ st = x
  BY <1>1, <1>2, AppendHolds
<1>4. /\ watch'[n] = Tail(watch[n]) /\ lister'[n] = st
      /\ notif'[n] = notif[n] \/ notif'[n] = Append(notif[n], st)
      /\ \A m \in Names \ {n} : watch'[m] = watch[m] /\ lister'[m] = lister[m] /\ notif'[m] = notif[m]
  BY <1>0 DEF InformerEvent, TypeOK
<1>5. TypeOK'
  <2>1. /\ watch' \in [Names -> Seq(PodState)] /\ lister' \in [Names -> PodState]
        /\ notif' \in [Names -> Seq(PodState)]
    BY <1>0, <1>2, <1>3 DEF InformerEvent, TypeOK
  <2> QED BY <1>0, <2>1 DEF InformerEvent, TypeOK, cluster, tables, wait, logger
<1>6. \A m \in Names : (lister'[m] = "complete" \/ Holds(watch'[m], "complete")
                         \/ Holds(notif'[m], "complete")) => m \in completed
  <2> SUFFICES ASSUME NEW m \in Names, \/ lister'[m] = "complete" \/ Holds(watch'[m], "complete")
                                       \/ Holds(notif'[m], "complete")
               PROVE  m \in completed
    OBVIOUS
  <2>1. CASE m = n
    BY <2>1, <1>2, <1>3, <1>4 DEF IInv, ClusterInv
  <2>2. CASE m # n
    BY <2>2, <1>4 DEF IInv, ClusterInv
  <2> QED BY <2>1, <2>2
<1> QED BY <1>5, <1>6, InformerStep DEF InformerEvent, cluster, tables, wait

LEMMA RelistInv == ASSUME IInv, NEW n \in Names, Relist(n) \/ Resync(n) PROVE IInv'
<1>0. TypeOK
  BY DEF IInv
<1>1. /\ <<pod[n]>> \in Seq(PodState) /\ <<lister[n]>> \in Seq(PodState)
      /\ \A x : Holds(<<pod[n]>>, x) => pod[n] = x
      /\ \A x : Holds(<<lister[n]>>, x) => lister[n] = x
  BY <1>0, ShortSeq DEF TypeOK
<1>2. TypeOK'
  <2>1. CASE Relist(n)
    <3>1. watch' \in [Names -> Seq(PodState)] /\ faults' \in 0..MaxFaults
      BY <1>0, <1>1, <2>1, FaultType DEF Relist, TypeOK
    <3> QED BY <1>0, <2>1, <3>1 DEF Relist, TypeOK, cluster, tables, wait, logger
  <2>2. CASE Resync(n)
    <3>1. notif' \in [Names -> Seq(PodState)]
      BY <1>0, <1>1, <2>2 DEF Resync, TypeOK
    <3> QED BY <1>0, <2>2, <3>1 DEF Resync, TypeOK, cluster, tables, wait, logger
  <2> QED BY <2>1, <2>2
<1>3. \A m \in Names : (lister'[m] = "complete" \/ Holds(watch'[m], "complete")
                         \/ Holds(notif'[m], "complete")) => m \in completed
  <2> SUFFICES ASSUME NEW m \in Names, \/ lister'[m] = "complete" \/ Holds(watch'[m], "complete")
                                       \/ Holds(notif'[m], "complete")
               PROVE  m \in completed
    OBVIOUS
  <2>1. /\ lister' = lister
        /\ watch'[m] = watch[m] \/ (m = n /\ watch'[m] = <<pod[n]>>)
        /\ notif'[m] = notif[m] \/ (m = n /\ notif'[m] = <<lister[n]>>)
    BY <1>0 DEF Relist, Resync, TypeOK
  <2> QED BY <2>1, <1>1 DEF IInv, ClusterInv
<1> QED BY <1>2, <1>3, InformerStep DEF Relist, Resync, cluster, tables, wait

\* What is sent to the channel of a build, or to no channel.
LEMMA PushInv ==
    ASSUME IInv, NEW b \in Builds, NEW x \in Results, x = "complete" => name[b] \in completed,
           ring' = Pushed(b, x)
    PROVE  /\ ring' \in [Builds -> Seq(Results)]
           /\ \A c \in Builds : Holds(ring'[c], "complete") => name[c] \in completed
           /\ \A c \in Builds : pc[c] = "idle" => ring'[c] = <<>>
<1>0. TypeOK
  BY DEF IInv
<1>1. CASE ring' = ring
  BY <1>0, <1>1 DEF IInv, BuildInv, TypeOK
<1>2. CASE pc[b] = "wait" /\ ring' = [ring EXCEPT ![b] = Append(@, x)]
  <2>1. /\ Append(ring[b], x) \in Seq(Results)
        /\ \A y : Holds(Append(ring[b], x), y) => Holds(ring[b], y) \/ x = y
    BY <1>0, AppendHolds DEF TypeOK
  <2>2. ring' \in [Builds -> Seq(Results)]
    BY <1>0, <1>2, <2>1 DEF TypeOK
  <2>3. ring'[b] = Append(ring[b], x) /\ \A c \in Builds \ {b} : ring'[c] = ring[c]
    BY <1>0, <1>2 DEF TypeOK
  <2> QED BY <1>2, <2>1, <2>2, <2>3 DEF IInv, BuildInv
<1> QED BY <1>1, <1>2 DEF Pushed

LEMMA HandlerEventInv == ASSUME IInv, NEW n \in Names, HandlerEvent(n) PROVE IInv'
<1>0. TypeOK
  BY DEF IInv
<1> DEFINE st == Head(notif[n])
           r == IF st = "complete" THEN "complete" ELSE IF st = "none" THEN "cancel" ELSE "failed"
<1>1. /\ Tail(notif[n]) \in Seq(PodState) /\ st \in PodState
      /\ Holds(notif[n], st) /\ \A x : Holds(Tail(notif[n]), x) => Holds(notif[n], x)
  <2>1. notif[n] \in Seq(PodState) /\ notif[n] # <<>>
    BY <1>0 DEF TypeOK, HandlerEvent
  <2> QED BY <2>1, TailHolds
<1>2. r \in Results /\ (r = "complete" => n \in completed)
  BY <1>1 DEF Results, IInv, ClusterInv
<1>3. /\ ring' \in [Builds -> Seq(Results)]
      /\ \A c \in Builds : Holds(ring'[c], "complete") => name[c] \in completed
      /\ \A c \in Builds : pc[c] = "idle" => ring'[c] = <<>>
  <2>1. CASE ring' = ring
    BY <1>0, <2>1 DEF IInv, BuildInv, TypeOK
  <2>2. CASE sub[n] # None /\ ring' = Pushed(sub[n], r)
    <3>1. sub[n] \in Builds /\ name[sub[n]] = n
      BY <2>2, <1>0 DEF IInv, BuildInv, TypeOK
    <3> QED BY <3>1, <2>2, <1>2, PushInv
  <2> QED BY <2>1, <2>2 DEF HandlerEvent
<1>4. /\ notif' \in [Names -> Seq(PodState)]
      /\ notif'[n] = Tail(notif[n]) /\ \A m \in Names \ {n} : notif'[m] = notif[m]
  BY <1>0, <1>1 DEF HandlerEvent, TypeOK
<1>5. signal' \in [Builds -> BOOLEAN]
  BY <1>0 DEF HandlerEvent, TypeOK
<1>6. TypeOK'
  BY <1>0, <1>3, <1>4, <1>5 DEF HandlerEvent, TypeOK, cluster, tables
<1>7. ClusterInv'
  BY <1>1, <1>4 DEF IInv, ClusterInv, HandlerEvent, cluster
<1>8. BuildInv'
  BY <1>3 DEF IInv, BuildInv, HandlerEvent, tables
<1> QED BY <1>6, <1>7, <1>8 DEF IInv

-----------------------------------------------------------------------------
\* A build begins: nothing was known to it.
LEMMA BeginInv == ASSUME IInv, NEW b \in Builds, NEW n \in Names, Build(b, n) \/ ImageBuild(b, n)
                  PROVE  IInv'
<1>0. TypeOK
  BY DEF IInv
<1>1. /\ pc[b] = "idle"
      /\ name' \in [Builds -> Names \cup {None}] /\ name'[b] = n
      /\ pc' = [pc EXCEPT ![b] = "stop"] /\ pc'[b] = "stop"
      /\ \A c \in Builds \ {b} : name'[c] = name[c] /\ pc'[c] = pc[c]
  <2>1. /\ pc[b] = "idle" /\ pc' = [pc EXCEPT ![b] = "stop"]
        /\ name' = [name EXCEPT ![b] = n]
    BY DEF Build, ImageBuild
  <2> QED BY <1>0, <2>1 DEF TypeOK
<1>2. /\ UNCHANGED <<cluster, informer, tables, victim, wait, logger, completed, faults>>
      /\ todo' \in [Builds -> SUBSET Names]
  <2>1. {m \in Names : lister[m] # "none"} \in SUBSET Names
    OBVIOUS
  <2>2. {m \in {n} : lister[m] # "none"} \in SUBSET Names
    OBVIOUS
  <2>3. CASE Build(b, n)
    BY <1>0, <2>1, <2>3 DEF Build, TypeOK
  <2>4. CASE ImageBuild(b, n)
    BY <1>0, <2>2, <2>4 DEF ImageBuild, TypeOK
  <2> QED BY <2>3, <2>4
<1>3. TypeOK'
  <2>1. pc' \in [Builds -> {"idle", "stop", "stop_forget", "create", "enter", "wait", "delete",
                            "forget", "done"}]
    BY <1>0, <1>1 DEF TypeOK
  <2>2. \A c \in Builds : pc'[c] # "idle" => name'[c] \in Names
    BY <1>0, <1>1 DEF TypeOK
  <2>3. \A c \in Builds : pc'[c] = "stop_forget" => victim'[c] \in Names
    BY <1>0, <1>1, <1>2 DEF TypeOK
  <2> QED BY <1>0, <1>1, <1>2, <2>1, <2>2, <2>3 DEF TypeOK, cluster, informer, tables, wait, logger
<1>4. ClusterInv'
  BY <1>2 DEF IInv, ClusterInv, cluster, informer
<1>5. BuildInv'
  <2>1. \A m \in Names : sub[m] # b \/ sub[m] = None
    BY <1>1 DEF IInv, BuildInv
  <2>2. \A m \in Names : sub'[m] # None => name'[sub'[m]] = m /\ pc'[sub'[m]] # "idle"
    BY <2>1, <1>0, <1>1, <1>2 DEF IInv, BuildInv, tables, TypeOK
  <2>3. ring[b] = <<>> /\ ~jobDone[b] /\ res[b] = "none" /\ ~Holds(ring[b], "complete")
    BY <1>1 DEF IInv, BuildInv, Holds
  <2> QED BY <1>1, <1>2, <2>2, <2>3 DEF IInv, BuildInv, wait
<1> QED BY <1>3, <1>4, <1>5 DEF IInv

\* DeletePod keeps its two variables in their types.
LEMMA DeletePodType ==
    ASSUME TypeOK, NEW n, DeletePod(n)
    PROVE  term' \in [Names -> BOOLEAN] /\ faults' \in 0..MaxFaults
BY FaultType DEF DeletePod, TypeOK

\* The stop of other jobs, the choice between creating and attaching, DeleteJob.
LEMMA StopInv ==
    ASSUME IInv, NEW b \in Builds,
           (\E n \in Names : StopJob(b, n)) \/ ExecJob(b) \/ DeleteJob(b)
    PROVE  IInv'
<1>0. TypeOK
  BY DEF IInv
<1>1. \A c \in Builds : pc[c] = "idle" <=> pc'[c] = "idle"
  BY <1>0 DEF StopJob, ExecJob, DeleteJob, TypeOK
<1>2. TypeOK'
  <2>1. ASSUME NEW n \in Names, StopJob(b, n) PROVE TypeOK'
    <3>1. term' \in [Names -> BOOLEAN] /\ faults' \in 0..MaxFaults
      BY <1>0, <2>1, DeletePodType DEF StopJob
    <3> QED BY <1>0, <2>1, <3>1 DEF StopJob, TypeOK, informer, tables, wait, logger
  <2>2. CASE ExecJob(b)
    <3>1. name[b] \in Names
      BY <1>0, <2>2 DEF ExecJob, TypeOK
    <3> QED BY <1>0, <2>2, <3>1 DEF ExecJob, TypeOK, cluster, informer, wait, logger
  <2>3. CASE DeleteJob(b)
    <3>1. term' \in [Names -> BOOLEAN] /\ faults' \in 0..MaxFaults
      BY <1>0, <2>3, DeletePodType DEF DeleteJob
    <3> QED BY <1>0, <2>3, <3>1 DEF DeleteJob, TypeOK, informer, tables, wait, logger
  <2> QED BY <2>1, <2>2, <2>3
<1>3. UNCHANGED <<pod, informer, sub, name, ring, jobDone, err, res, completed>>
  BY DEF StopJob, ExecJob, DeleteJob, cluster, tables, wait
<1> QED BY <1>1, <1>2, <1>3, QuietStep

\* The tables forget a job, or know of a new one.
LEMMA TableInv ==
    ASSUME IInv, NEW b \in Builds, StopForget(b) \/ DeleteForget(b) \/ Enter(b)
    PROVE  IInv'
<1>0. TypeOK
  BY DEF IInv
<1>1. name[b] \in Names /\ (pc[b] = "stop_forget" => victim[b] \in Names)
  BY <1>0 DEF StopForget, DeleteForget, Enter, TypeOK
<1>2. TypeOK'
  <2>1. CASE StopForget(b)
    <3>1. \A c \in Builds : pc'[c] = "stop_forget" => victim'[c] \in Names
      BY <1>0, <2>1 DEF StopForget, TypeOK
    <3>2. sub' \in [Names -> Builds \cup {None}] /\ cont' \in [Names -> Builds \cup {None}]
      BY <1>0, <2>1 DEF StopForget, ForgetJob, TypeOK
    <3> QED BY <1>0, <2>1, <3>1, <3>2 DEF StopForget, TypeOK, cluster, informer, wait, logger
  <2>2. CASE DeleteForget(b)
    <3>2. sub' \in [Names -> Builds \cup {None}] /\ cont' \in [Names -> Builds \cup {None}]
      BY <1>0, <2>2 DEF DeleteForget, ForgetJob, TypeOK
    <3> QED BY <1>0, <2>2, <3>2 DEF DeleteForget, TypeOK, cluster, informer, wait, logger
  <2>3. CASE Enter(b)
    BY <1>0, <1>1, <2>3 DEF Enter, TypeOK, cluster, informer, wait
  <2> QED BY <2>1, <2>2, <2>3
<1>3. \A c \in Builds : pc[c] = "idle" <=> pc'[c] = "idle"
  BY <1>0 DEF StopForget, DeleteForget, Enter, TypeOK
<1>4. \A n \in Names : sub'[n] = sub[n] \/ sub'[n] = None \/ (n = name[b] /\ sub'[n] = b /\ pc[b] = "enter")
  BY <1>0, <1>1 DEF StopForget, DeleteForget, Enter, ForgetJob, TypeOK
<1>5. UNCHANGED <<pod, informer, name, ring, jobDone, err, res, completed>>
  BY DEF StopForget, DeleteForget, Enter, cluster, wait
<1>6. ClusterInv'
  BY <1>5 DEF IInv, ClusterInv, informer
<1>7. BuildInv'
  <2>1. ASSUME NEW n \in Names, sub'[n] # None PROVE name'[sub'[n]] = n /\ pc'[sub'[n]] # "idle"
    <3>1. CASE sub'[n] = sub[n]
      <4>1. sub[n] \in Builds /\ name[sub[n]] = n /\ pc[sub[n]] # "idle"
        BY <2>1, <3>1, <1>0 DEF IInv, BuildInv, TypeOK
      <4> QED BY <3>1, <4>1, <1>3, <1>5
    <3>2. CASE n = name[b] /\ sub'[n] = b /\ pc[b] = "enter"
      <4>1. pc'[b] # "idle"
        BY <3>2, <1>3
      <4> QED BY <3>2, <4>1, <1>5
    <3> QED BY <2>1, <3>1, <3>2, <1>4
  <2> QED BY <2>1, <1>3, <1>5 DEF IInv, BuildInv
<1> QED BY <1>2, <1>6, <1>7 DEF IInv

\* The pod is created, or the call fails.
LEMMA CreateInv == ASSUME IInv, NEW b \in Builds, Create(b) \/ CreateFails(b) PROVE IInv'
<1>0. TypeOK
  BY DEF IInv
<1>1. name[b] \in Names /\ "pending" \in PodState
  BY <1>0 DEF Create, CreateFails, TypeOK, PodState
<1>2. \A c \in Builds : /\ pc[c] = "idle" <=> pc'[c] = "idle"
                        /\ pc'[c] = "idle" => res'[c] = res[c]
                        /\ pc'[c] = "stop_forget" => pc[c] = "stop_forget"
                        /\ res'[c] = "success" => res[c] = "success"
  BY <1>0 DEF Create, CreateFails, TypeOK, wait
<1>3. /\ res' \in [Builds -> {"none", "success", "failed", "cancel", "timeout", "error"}]
      /\ pc' \in [Builds -> {"idle", "stop", "stop_forget", "create", "enter", "wait", "delete",
                             "forget", "done"}]
      /\ restarts' \in 0..MaxRestarts /\ term' \in [Names -> BOOLEAN]
  BY <1>0 DEF Create, CreateFails, TypeOK, wait
<1>4. faults' \in 0..MaxFaults
  BY <1>0, FaultType DEF Create, CreateFails, TypeOK
<1>5. /\ completed' = completed
      /\ UNCHANGED <<lister, notif, tables, name, todo, victim, ring, jobDone, logDone, err, signal>>
  BY DEF Create, CreateFails, wait, tables
<1>6. CASE SetPod(name[b], "pending")
  <2>1. completed \subseteq completed' /\ completed' \subseteq Names
    BY <1>0, <1>5 DEF TypeOK
  <2> QED BY <1>1, <1>2, <1>3, <1>4, <1>5, <1>6, <2>1, PodStep
<1>7. CASE UNCHANGED <<pod, watch, log>>
  <2>1. TypeOK'
    BY <1>0, <1>2, <1>3, <1>4, <1>5, <1>7 DEF TypeOK, tables
  <2>2. ClusterInv'
    BY <1>5, <1>7 DEF IInv, ClusterInv
  <2>3. BuildInv'
    BY <1>0, <1>2, <1>5 DEF IInv, BuildInv, tables, TypeOK
  <2> QED BY <2>1, <2>2, <2>3 DEF IInv
<1> QED BY <1>6, <1>7 DEF Create, CreateFails

\* waitingComplete returns.
LEMMA ReturnedInv ==
    ASSUME IInv, NEW b \in Builds, NEW r \in {"success", "failed", "cancel", "timeout"},
           pc[b] = "wait", Returned(b, r), r = "success" => name[b] \in completed,
           UNCHANGED <<cluster, informer, tables, name, todo, victim, logger, completed, faults>>
    PROVE  IInv'
<1>0. TypeOK
  BY DEF IInv
<1>1. <<>> \in Seq(Results) /\ ~Holds(<<>>, "complete")
  BY DEF Holds
<1>2. /\ ring' \in [Builds -> Seq(Results)] /\ ring'[b] = <<>>
      /\ jobDone' \in [Builds -> BOOLEAN] /\ ~jobDone'[b] /\ logDone' \in [Builds -> BOOLEAN]
      /\ err' \in [Builds -> {"nil", "failed", "cancel"}]
      /\ \A c \in Builds \ {b} : /\ ring'[c] = ring[c] /\ jobDone'[c] = jobDone[c]
                                 /\ err'[c] = err[c]
  BY <1>0, <1>1 DEF Returned, TypeOK
<1>3. /\ res' \in [Builds -> {"none", "success", "failed", "cancel", "timeout", "error"}]
      /\ res'[b] = r
      /\ pc' \in [Builds -> {"idle", "stop", "stop_forget", "create", "enter", "wait", "delete",
                             "forget", "done"}] /\ pc'[b] = "delete"
      /\ \A c \in Builds \ {b} : pc'[c] = pc[c] /\ res'[c] = res[c]
  BY <1>0 DEF Returned, TypeOK
<1>4. TypeOK'
  <2>1. \A c \in Builds : pc'[c] # "idle" => name'[c] \in Names
    BY <1>0, <1>3 DEF TypeOK
  <2>2. \A c \in Builds : pc'[c] = "stop_forget" => victim'[c] \in Names
    BY <1>0, <1>3 DEF TypeOK
  <2> QED BY <1>0, <1>2, <1>3, <2>1, <2>2 DEF TypeOK, cluster, informer, tables, logger
<1>5. ClusterInv'
  BY DEF IInv, ClusterInv, cluster, informer
<1>6. BuildInv'
  <2>1. \A n \in Names : sub'[n] # None => name'[sub'[n]] = n /\ pc'[sub'[n]] # "idle"
    BY <1>0, <1>3 DEF IInv, BuildInv, TypeOK, tables
  <2>2. ASSUME NEW c \in Builds
        PROVE  /\ pc'[c] = "idle" => ring'[c] = <<>> /\ ~jobDone'[c] /\ res'[c] = "none"
               /\ Holds(ring'[c], "complete") => name'[c] \in completed'
               /\ jobDone'[c] /\ err'[c] = "nil" => name'[c] \in completed'
               /\ res'[c] = "success" => name'[c] \in completed'
    <3>1. CASE c = b
      BY <3>1, <1>1, <1>2, <1>3
    <3>2. CASE c # b
      BY <3>2, <1>2, <1>3 DEF IInv, BuildInv
    <3> QED BY <3>1, <3>2
  <2> QED BY <2>1, <2>2 DEF BuildInv
<1> QED BY <1>4, <1>5, <1>6 DEF IInv

LEMMA ReceiveInv == ASSUME IInv, NEW b \in Builds, Receive(b) PROVE IInv'
<1>0. TypeOK
  BY DEF IInv
<1> DEFINE x == Head(ring[b])
           e == IF x \in {"failed", "cancel"} THEN x ELSE err[b]
           returned == IF x = "complete" \/ e = "nil" THEN "success" ELSE e
<1>1. /\ pc[b] = "wait" /\ Tail(ring[b]) \in Seq(Results) /\ x \in Results
      /\ Holds(ring[b], x) /\ \A y : Holds(Tail(ring[b]), y) => Holds(ring[b], y)
  <2>1. ring[b] \in Seq(Results) /\ ring[b] # <<>> /\ pc[b] = "wait"
    BY <1>0 DEF TypeOK, Receive
  <2> QED BY <2>1, TailHolds
<1>2. x = "complete" => name[b] \in completed
  BY <1>1 DEF IInv, BuildInv
<1>3. e \in {"nil", "failed", "cancel"} /\ returned \in {"success", "failed", "cancel", "timeout"}
  BY <1>0 DEF TypeOK
<1>4. CASE (jobDone[b] \/ x # "logcomplete") /\ (logDone[b] \/ x = "logcomplete")
  <2>1. Returned(b, returned)
        /\ UNCHANGED <<cluster, informer, tables, name, todo, victim, logger, completed, faults>>
    BY <1>4 DEF Receive
  <2>2. returned = "success" => name[b] \in completed
    <3>1. ASSUME e = "nil", x # "complete" PROVE jobDone[b] /\ err[b] = "nil"
      BY <3>1, <1>1, <1>4 DEF Results
    <3> QED BY <3>1, <1>2, <1>3 DEF IInv, BuildInv
  <2> QED BY <1>1, <1>3, <2>1, <2>2, ReturnedInv
<1>5. CASE ~((jobDone[b] \/ x # "logcomplete") /\ (logDone[b] \/ x = "logcomplete"))
  <2>1. /\ jobDone' = [jobDone EXCEPT ![b] = @ \/ x # "logcomplete"]
        /\ logDone' = [logDone EXCEPT ![b] = @ \/ x = "logcomplete"]
        /\ err' = [err EXCEPT ![b] = e]
        /\ ring' = [ring EXCEPT ![b] = Tail(@)]
        /\ UNCHANGED <<cluster, informer, tables, pc, name, todo, victim, logger, completed, faults, res>>
    BY <1>5 DEF Receive
  <2>2. /\ jobDone' \in [Builds -> BOOLEAN] /\ logDone' \in [Builds -> BOOLEAN]
        /\ jobDone'[b] = (jobDone[b] \/ x # "logcomplete")
        /\ \A c \in Builds \ {b} : jobDone'[c] = jobDone[c]
    BY <1>0, <2>1 DEF TypeOK
  <2>3. /\ err' \in [Builds -> {"nil", "failed", "cancel"}] /\ err'[b] = e
        /\ ring' \in [Builds -> Seq(Results)] /\ ring'[b] = Tail(ring[b])
        /\ \A c \in Builds \ {b} : err'[c] = err[c] /\ ring'[c] = ring[c]
    BY <1>0, <1>1, <1>3, <2>1 DEF TypeOK
  <2>4. TypeOK'
    BY <1>0, <2>1, <2>2, <2>3 DEF TypeOK, cluster, informer, tables, logger
  <2>5. ClusterInv'
    BY <2>1 DEF IInv, ClusterInv, cluster, informer
  <2>6. jobDone'[b] /\ err'[b] = "nil" => name[b] \in completed
    <3>1. ASSUME jobDone'[b], e = "nil", x # "complete" PROVE jobDone[b] /\ err[b] = "nil"
      BY <3>1, <1>1, <2>2 DEF Results
    <3> QED BY <3>1, <1>2, <2>3 DEF IInv, BuildInv
  <2>7. Holds(ring'[b], "complete") => name[b] \in completed
    BY <1>1, <2>3 DEF IInv, BuildInv
  <2>8. BuildInv'
    BY <1>1, <2>1, <2>2, <2>3, <2>6, <2>7 DEF IInv, BuildInv, tables
  <2> QED BY <2>4, <2>5, <2>8 DEF IInv
<1> QED BY <1>4, <1>5

\* The logger.
LEMMA LogInv == ASSUME IInv, NEW b \in Builds, LogStep(b) \/ LogBreaks(b) PROVE IInv'
<1>0. TypeOK
  BY DEF IInv
<1>1. CASE LogOpen(b)
  <2>1. TypeOK'
    BY <1>0, <1>1 DEF LogOpen, TypeOK, cluster, informer, tables, wait
  <2> QED BY <1>1, <2>1, QuietStep DEF LogOpen, cluster, tables, wait
<1>2. CASE LogBreaks(b)
  <2>1. TypeOK'
    <3>1. faults' \in 0..MaxFaults
      BY <1>0, <1>2, FaultType DEF LogBreaks
    <3> QED BY <1>0, <1>2, <3>1 DEF LogBreaks, TypeOK, cluster, informer, tables, wait
  <2> QED BY <1>2, <2>1, QuietStep DEF LogBreaks, cluster, tables, wait
<1>3. CASE LogEnd(b)
  <2>1. /\ ring' \in [Builds -> Seq(Results)]
        /\ \A c \in Builds : Holds(ring'[c], "complete") => name[c] \in completed
        /\ \A c \in Builds : pc[c] = "idle" => ring'[c] = <<>>
    BY <1>3, PushInv DEF LogEnd, Results
  <2>2. TypeOK'
    BY <1>0, <1>3, <2>1 DEF LogEnd, TypeOK, cluster, informer, tables
  <2>3. ClusterInv' /\ BuildInv'
    BY <1>3, <2>1 DEF LogEnd, IInv, ClusterInv, BuildInv, cluster, informer, tables
  <2> QED BY <2>2, <2>3 DEF IInv
<1> QED BY <1>1, <1>2, <1>3 DEF LogStep

\* The cluster.
LEMMA PodInv == ASSUME IInv, NEW n \in Names, PodRuns(n) \/ PodEnds(n) \/ PodGone(n) \/ Evict(n)
                PROVE  IInv'
<1>0. TypeOK
  BY DEF IInv
<1>1. CASE Evict(n)
  <2>1. TypeOK'
    <3>1. faults' \in 0..MaxFaults
      BY <1>0, <1>1, FaultType DEF Evict
    <3> QED BY <1>0, <1>1, <3>1 DEF Evict, TypeOK, informer, tables, wait, logger
  <2> QED BY <1>1, <2>1, QuietStep DEF Evict, tables, wait
<1>2. CASE PodRuns(n) \/ PodEnds(n) \/ PodGone(n)
  <2>1. \E st \in PodState : SetPod(n, st) /\ (st = "complete" => n \in completed')
    BY <1>2 DEF PodRuns, PodEnds, PodGone, PodState, Ended
  <2>2. /\ completed \subseteq completed' /\ completed' \subseteq Names
        /\ UNCHANGED <<lister, notif, tables, name, todo, victim, ring, jobDone, logDone, err, signal, res, pc>>
        /\ faults' = faults
    BY <1>0, <1>2 DEF PodRuns, PodEnds, PodGone, TypeOK, wait
  <2>3. term' \in [Names -> BOOLEAN]
    BY <1>0, <1>2 DEF PodRuns, PodEnds, PodGone, TypeOK
  <2>4. restarts' \in 0..MaxRestarts
    BY <1>0, <1>2, Constants DEF PodRuns, PodEnds, PodGone, TypeOK
  <2> QED BY <1>0, <2>1, <2>2, <2>3, <2>4, PodStep DEF TypeOK
<1> QED BY <1>1, <1>2

-----------------------------------------------------------------------------
\* Every step keeps the invariant.
LEMMA NextInv == IInv /\ [Next]_vars => IInv'
<1> SUFFICES ASSUME IInv, [Next]_vars PROVE IInv'
  OBVIOUS
<1>1. ASSUME NEW b \in Builds, Timeout(b) PROVE IInv'
  BY <1>1, ReturnedInv DEF Timeout
<1>2. CASE UNCHANGED vars
  BY <1>2 DEF vars, IInv, TypeOK, ClusterInv, BuildInv
<1> QED BY <1>1, <1>2, PodInv, InformerEventInv, RelistInv, HandlerEventInv, BeginInv, StopInv,
        TableInv, CreateInv, ReceiveInv, LogInv DEF Next, BuildStep

\* The invariant holds in every reachable state.
THEOREM JobInvariant == Spec => []IInv
BY InitInv, NextInv, PTL DEF Spec

\* Every variable keeps its type.
THEOREM JobTypeCorrect == Spec => []TypeOK
BY JobInvariant, PTL DEF IInv

\* A build that returns success has the name of a pod that exited with 0.
THEOREM SuccessAlwaysReal == Spec => []SuccessIsReal
<1>1. IInv => SuccessIsReal
  BY DEF IInv, BuildInv, SuccessIsReal
<1> QED BY <1>1, JobInvariant, PTL

-----------------------------------------------------------------------------
\* The stray pods are finitely many, and grow by at most the pod of a fault.
LEMMA StrayGrows ==
    ASSUME TypeOK, TypeOK', NoStrayPods, NEW x,
           \/ Stray' \subseteq Stray /\ faults' >= faults
           \/ Stray' \subseteq Stray \cup {x} /\ faults' = faults + 1
    PROVE  NoStrayPods'
<1>1. IsFiniteSet(Names) /\ MaxFaults \in Nat
  BY JobAssumption
<1>2. Stray \in SUBSET Names /\ faults \in Nat /\ faults' \in Nat
  BY <1>1 DEF Stray, TypeOK
<1>3. IsFiniteSet(Stray) /\ Cardinality(Stray) \in Nat
  BY <1>1, <1>2, FS_Subset, FS_CardinalityType
<1>4. /\ IsFiniteSet(Stray \cup {x})
      /\ Cardinality(Stray \cup {x}) = IF x \in Stray THEN Cardinality(Stray) ELSE Cardinality(Stray) + 1
  BY <1>3, FS_AddElement
<1>5. CASE Stray' \subseteq Stray /\ faults' >= faults
  <2>1. IsFiniteSet(Stray') /\ Cardinality(Stray') <= Cardinality(Stray) /\ Cardinality(Stray') \in Nat
    BY <1>3, <1>5, FS_Subset, FS_CardinalityType
  <2> QED BY <2>1, <1>2, <1>3, <1>5 DEF NoStrayPods
<1>6. CASE Stray' \subseteq Stray \cup {x} /\ faults' = faults + 1
  <2>1. IsFiniteSet(Stray') /\ Cardinality(Stray') <= Cardinality(Stray \cup {x}) /\ Cardinality(Stray') \in Nat
    BY <1>4, <1>6, FS_Subset, FS_CardinalityType
  <2> QED BY <2>1, <1>2, <1>3, <1>4, <1>6 DEF NoStrayPods
<1> QED BY <1>5, <1>6

\* A step in which no build gives up a pod, and no pod comes into being.
LEMMA StrayKept ==
    ASSUME TypeOK, TypeOK', NoStrayPods, faults' >= faults,
           \A n \in Names : pod'[n] # "none" /\ ~term'[n] => pod[n] # "none" /\ ~term[n],
           \A b \in Builds : \A n \in Names : WillDelete(b, n) => WillDelete(b, n)'
    PROVE  NoStrayPods'
<1>1. Stray' \subseteq Stray
  BY DEF Stray
<1> QED BY <1>1, StrayGrows

\* Every step keeps the account of stray pods.
LEMMA StrayStep == ASSUME TypeOK, TypeOK', NoStrayPods, [Next]_vars PROVE NoStrayPods'
<1>n. faults \in Nat /\ faults' \in Nat
  BY Constants DEF TypeOK
<1>1. ASSUME NEW n \in Names, PodRuns(n) \/ PodEnds(n) \/ PodGone(n) \/ Evict(n) PROVE NoStrayPods'
  <2>1. faults' >= faults
    BY <1>1, <1>n DEF PodRuns, PodEnds, PodGone, Evict, Fault
  <2>2. pc' = pc /\ name' = name
    BY <1>1 DEF PodRuns, PodEnds, PodGone, Evict
  <2>3. \A m \in Names : pod'[m] # "none" /\ ~term'[m] => pod[m] # "none" /\ ~term[m]
    <3>1. CASE PodRuns(n)
      BY <3>1 DEF PodRuns, SetPod, TypeOK
    <3>2. CASE PodEnds(n)
      BY <3>2 DEF PodEnds, SetPod, TypeOK
    <3>3. CASE PodGone(n)
      BY <3>3 DEF PodGone, SetPod, TypeOK
    <3>4. CASE Evict(n)
      BY <3>4 DEF Evict, TypeOK
    <3> QED BY <1>1, <3>1, <3>2, <3>3, <3>4
  <2> QED BY <2>1, <2>2, <2>3, StrayKept DEF WillDelete
<1>2. ASSUME UNCHANGED <<pod, term, pc, name>>, faults' >= faults PROVE NoStrayPods'
  BY <1>2, StrayKept DEF WillDelete
<1>3. ASSUME NEW n \in Names, InformerEvent(n) \/ Relist(n) \/ Resync(n) \/ HandlerEvent(n)
      PROVE  NoStrayPods'
  BY <1>2, <1>3, <1>n DEF InformerEvent, Relist, Resync, HandlerEvent, cluster, Fault
<1>4. ASSUME NEW b \in Builds, LogStep(b) \/ LogBreaks(b) PROVE NoStrayPods'
  BY <1>2, <1>4, <1>n DEF LogStep, LogOpen, LogEnd, LogBreaks, cluster, Fault
<1>5. ASSUME NEW b \in Builds, NEW n \in Names, Build(b, n) \/ ImageBuild(b, n) PROVE NoStrayPods'
  <2>1. /\ pc[b] = "idle" /\ pc' = [pc EXCEPT ![b] = "stop"] /\ name' = [name EXCEPT ![b] = n]
        /\ UNCHANGED <<pod, term, faults>>
    BY <1>5 DEF Build, ImageBuild, cluster
  <2>2. \A c \in Builds : \A m \in Names : WillDelete(c, m) => WillDelete(c, m)'
    BY <2>1 DEF WillDelete, TypeOK
  <2> QED BY <2>1, <2>2, <1>n, StrayKept
<1>6. ASSUME NEW b \in Builds,
             \/ \E n \in Names : StopJob(b, n)
             \/ StopForget(b) \/ ExecJob(b) \/ Enter(b) \/ Receive(b) \/ Timeout(b) \/ DeleteForget(b)
      PROVE  NoStrayPods'
  <2>1. /\ name' = name /\ pod' = pod
        /\ pc' = pc \/ \E p : /\ pc' = [pc EXCEPT ![b] = p]
                              /\ pc[b] \in {"enter", "wait", "delete"} => p \in {"enter", "wait", "delete"}
    BY <1>6 DEF StopJob, StopForget, ExecJob, Enter, Receive, Timeout, DeleteForget, Returned, cluster
  <2>2. \A c \in Builds : \A m \in Names : WillDelete(c, m) => WillDelete(c, m)'
    BY <2>1 DEF WillDelete, TypeOK
  <2>3. term' = term \/ \E n \in Names : term' = [term EXCEPT ![n] = TRUE]
    BY <1>6 DEF StopJob, StopForget, ExecJob, Enter, Receive, Timeout, DeleteForget, DeletePod, cluster
  <2>4. \A m \in Names : ~term'[m] => ~term[m]
    BY <2>3 DEF TypeOK
  <2>5. faults' >= faults
    BY <1>6, <1>n DEF StopJob, StopForget, ExecJob, Enter, Receive, Timeout, DeleteForget, DeletePod, Fault
  <2> QED BY <2>1, <2>2, <2>4, <2>5, StrayKept
<1>7. ASSUME NEW b \in Builds, Create(b) PROVE NoStrayPods'
  <2>1. /\ pc[b] = "create" /\ pc' = [pc EXCEPT ![b] = "enter"] /\ UNCHANGED <<term, name, faults>>
        /\ pod' = [pod EXCEPT ![name[b]] = "pending"]
    BY <1>7 DEF Create, SetPod
  <2>2. \A c \in Builds : \A m \in Names : WillDelete(c, m) => WillDelete(c, m)'
    BY <2>1 DEF WillDelete, TypeOK
  <2>3. WillDelete(b, name[b])'
    BY <2>1 DEF WillDelete, TypeOK
  <2>4. Stray' \subseteq Stray
    BY <2>1, <2>2, <2>3 DEF Stray, TypeOK
  <2> QED BY <2>1, <2>4, <1>n, StrayGrows
<1>8. ASSUME NEW b \in Builds, CreateFails(b) PROVE NoStrayPods'
  <2>1. /\ pc[b] = "create" /\ pc' = [pc EXCEPT ![b] = "done"] /\ UNCHANGED <<term, name>>
    BY <1>8 DEF CreateFails
  <2>2. \A c \in Builds : \A m \in Names : WillDelete(c, m) <=> WillDelete(c, m)'
    BY <2>1 DEF WillDelete, TypeOK
  <2>3. CASE pod' = pod
    <3>1. faults' >= faults
      BY <1>8, <1>n DEF CreateFails, Fault
    <3> QED BY <2>1, <2>2, <2>3, <3>1, StrayKept
  <2>4. CASE pod' # pod
    <3>1. pod' = [pod EXCEPT ![name[b]] = "pending"] /\ faults' = faults + 1
      BY <1>8, <2>4 DEF CreateFails, SetPod, Fault
    <3>2. Stray' \subseteq Stray \cup {name[b]}
      BY <2>1, <2>2, <3>1 DEF Stray, TypeOK
    <3> QED BY <3>1, <3>2, StrayGrows
  <2> QED BY <2>3, <2>4
<1>9. ASSUME NEW b \in Builds, DeleteJob(b) PROVE NoStrayPods'
  <2>1. /\ pc[b] = "delete" /\ pc' = [pc EXCEPT ![b] = "forget"] /\ UNCHANGED <<pod, name>>
        /\ name[b] \in Names
    BY <1>9 DEF DeleteJob, TypeOK
  <2>2. \A c \in Builds : \A m \in Names \ {name[b]} : WillDelete(c, m) => WillDelete(c, m)'
    BY <2>1 DEF WillDelete, TypeOK
  <2>3. CASE faults' = faults
    <3>1. term' = IF pod[name[b]] # "none" THEN [term EXCEPT ![name[b]] = TRUE] ELSE term
      BY <1>9, <1>n, <2>3 DEF DeleteJob, DeletePod, Fault
    <3>2. name[b] \notin Stray'
      BY <2>1, <3>1 DEF Stray, TypeOK
    <3>3. \A m \in Names : ~term'[m] => ~term[m]
      BY <3>1 DEF TypeOK
    <3>4. Stray' \subseteq Stray
      BY <2>1, <2>2, <3>2, <3>3 DEF Stray
    <3> QED BY <2>3, <3>4, <1>n, StrayGrows
  <2>4. CASE faults' # faults
    <3>1. faults' = faults + 1 /\ term' = term
      BY <1>9, <2>4 DEF DeleteJob, DeletePod, Fault
    <3>2. Stray' \subseteq Stray \cup {name[b]}
      BY <2>1, <2>2, <3>1 DEF Stray
    <3> QED BY <3>1, <3>2, StrayGrows
  <2> QED BY <2>3, <2>4
<1>10. ASSUME UNCHANGED vars PROVE NoStrayPods'
  BY <1>2, <1>10, <1>n DEF vars
<1> QED BY <1>1, <1>3, <1>4, <1>5, <1>6, <1>7, <1>8, <1>9, <1>10 DEF Next, BuildStep

\* A pod that no build is going to delete cost a failed call, one for each.
THEOREM StrayPodsNeedFaults == Spec => []NoStrayPods
<1>1. Init => NoStrayPods
  <2> SUFFICES ASSUME Init PROVE NoStrayPods
    OBVIOUS
  <2>1. Stray = {} /\ faults = 0
    BY DEF Init, Stray
  <2> QED BY <2>1, FS_EmptySet DEF NoStrayPods
<1>2. TypeOK /\ TypeOK' /\ NoStrayPods /\ [Next]_vars => NoStrayPods'
  BY StrayStep
<1> QED BY <1>1, <1>2, JobTypeCorrect, PTL DEF Spec

-----------------------------------------------------------------------------
\* No wait without its end: the safety half of ResultArrives.

\* The latest state of the pod that the informer has or is going to have.
LastSeen(n) == IF watch[n] = <<>> THEN lister[n] ELSE watch[n][Len(watch[n])]
Mirror == \A n \in Names : LastSeen(n) = pod[n]

Fresh(b) == log[b] = "none" /\ ~jobDone[b] /\ ~logDone[b]
LogTold(b) == logDone[b] \/ Holds(ring[b], "logcomplete")

\* A build that has not begun to wait has no logger.  One that waits has one, has
\* not been told both ends, and has been told, or will be, of its logger's end.
WaitOf(b) ==
    /\ pc[b] \in {"idle", "stop", "stop_forget", "create", "enter"} => Fresh(b)
    /\ pc[b] = "wait" => /\ log[b] # "none" /\ ~(jobDone[b] /\ logDone[b])
                         /\ log[b] = "done" => LogTold(b)
WaitInv == \A b \in Builds : WaitOf(b)

\* A log is streamed from a container that runs.
StreamInv == \A b \in Builds : log[b] = "stream" => pod[name[b]] = "running"

\* What a build with a result still lacks is on its way: the end of its
\* container is in the informer, whose resync tells it again and again, or will
\* be; and its logger waits for that, is at its end, or has told of it.
ResultOwed ==
    \A b \in Builds : HasResult(b) =>
        /\ LastSeen(name[b]) \in Ended
        /\ log[b] \in {"wait", "eof"} \/ LogTold(b)
        /\ ~(jobDone[b] /\ logDone[b])

\* The last element after Append and Tail.
LEMMA LastOf ==
    ASSUME NEW S, NEW s \in Seq(S), NEW e \in S
    PROVE  /\ Append(s, e) # <<>> /\ Append(s, e)[Len(Append(s, e))] = e
           /\ s # <<>> /\ Tail(s) # <<>> => Tail(s)[Len(Tail(s))] = s[Len(s)]
           /\ s # <<>> /\ Tail(s) = <<>> => Head(s) = s[Len(s)]
<1>1. Append(s, e) # <<>> /\ Append(s, e)[Len(Append(s, e))] = e
  OBVIOUS
<1>2. ASSUME s # <<>> PROVE Len(Tail(s)) = Len(s) - 1 /\ Len(s) \in Nat \ {0} /\ Head(s) = s[1]
  BY <1>2
<1>3. ASSUME s # <<>>, Tail(s) # <<>> PROVE Tail(s)[Len(Tail(s))] = s[Len(s)]
  <2>1. Len(Tail(s)) >= 1
    BY <1>2, <1>3
  <2>2. \A i \in 1..Len(s) - 1 : Tail(s)[i] = s[i + 1]
    BY <1>3
  <2> QED BY <1>2, <1>3, <2>1, <2>2
<1>4. ASSUME s # <<>>, Tail(s) = <<>> PROVE Head(s) = s[Len(s)]
  <2>1. Len(Tail(s)) = 0
    <3>1. Len(<<>>) = 0
      OBVIOUS
    <3> QED BY <1>4, <3>1
  <2>2. Len(s) = 1
    BY <1>2, <1>4, <2>1
  <2> QED BY <1>2, <1>4, <2>2
<1> QED BY <1>1, <1>3, <1>4

\* A change of the pod is the last thing on its way.
LEMMA MirrorSet ==
    ASSUME TypeOK, Mirror, NEW n \in Names, NEW st \in PodState, SetPod(n, st), UNCHANGED lister
    PROVE  Mirror'
<1>1. pod' = [pod EXCEPT ![n] = st] /\ watch' = [watch EXCEPT ![n] = Append(watch[n], st)]
  BY DEF SetPod
<1>2. Append(watch[n], st) # <<>> /\ Append(watch[n], st)[Len(Append(watch[n], st))] = st
  <2>1. watch[n] \in Seq(PodState)
    BY DEF TypeOK
  <2> QED BY <2>1, LastOf
<1> QED BY <1>1, <1>2 DEF Mirror, LastSeen, TypeOK

LEMMA MirrorStep == ASSUME TypeOK, Mirror, [Next]_vars PROVE Mirror'
<1>1. ASSUME UNCHANGED <<pod, watch, lister>> PROVE Mirror'
  BY <1>1 DEF Mirror, LastSeen
<1>2. ASSUME NEW n \in Names, PodRuns(n) \/ PodEnds(n) \/ PodGone(n) PROVE Mirror'
  <2>1. PICK st \in PodState : SetPod(n, st)
    BY <1>2 DEF PodRuns, PodEnds, PodGone, PodState, Ended
  <2>2. lister' = lister
    BY <1>2 DEF PodRuns, PodEnds, PodGone
  <2> QED BY <2>1, <2>2, MirrorSet
<1>3. ASSUME NEW b \in Builds, Create(b) \/ CreateFails(b) PROVE Mirror'
  <2>1. name[b] \in Names /\ lister' = lister /\ "pending" \in PodState
    BY <1>3 DEF Create, CreateFails, TypeOK, PodState
  <2>2. SetPod(name[b], "pending") \/ UNCHANGED <<pod, watch, lister>>
    BY <1>3, <2>1 DEF Create, CreateFails
  <2> QED BY <1>1, <2>1, <2>2, MirrorSet
<1>4. ASSUME NEW n \in Names, InformerEvent(n) PROVE Mirror'
  <2>1. /\ watch[n] # <<>> /\ pod' = pod
        /\ watch' = [watch EXCEPT ![n] = Tail(watch[n])]
        /\ lister' = [lister EXCEPT ![n] = Head(watch[n])]
    BY <1>4 DEF InformerEvent, cluster
  <2>2. /\ Tail(watch[n]) # <<>> => Tail(watch[n])[Len(Tail(watch[n]))] = watch[n][Len(watch[n])]
        /\ Tail(watch[n]) = <<>> => Head(watch[n]) = watch[n][Len(watch[n])]
    <3>1. watch[n] \in Seq(PodState) /\ pod[n] \in PodState
      BY DEF TypeOK
    <3> QED BY <2>1, <3>1, LastOf
  <2> QED BY <2>1, <2>2 DEF Mirror, LastSeen, TypeOK
<1>5. ASSUME NEW n \in Names, Relist(n) PROVE Mirror'
  <2>1. watch' = [watch EXCEPT ![n] = <<pod[n]>>] /\ UNCHANGED <<pod, lister>>
    BY <1>5 DEF Relist, cluster
  <2>2. <<pod[n]>> # <<>> /\ Len(<<pod[n]>>) = 1 /\ <<pod[n]>>[1] = pod[n]
    OBVIOUS
  <2> QED BY <2>1, <2>2 DEF Mirror, LastSeen, TypeOK
<1>6. ASSUME NEW n \in Names, Evict(n) \/ Resync(n) \/ HandlerEvent(n) PROVE UNCHANGED <<pod, watch, lister>>
  BY <1>6 DEF Evict, Resync, HandlerEvent, cluster, informer
<1>7. ASSUME NEW b \in Builds,
             \/ \E n \in Names : Build(b, n) \/ ImageBuild(b, n) \/ StopJob(b, n)
             \/ StopForget(b) \/ ExecJob(b) \/ Enter(b) \/ Receive(b) \/ DeleteJob(b) \/ DeleteForget(b)
             \/ Timeout(b) \/ LogStep(b) \/ LogBreaks(b)
      PROVE  UNCHANGED <<pod, watch, lister>>
  BY <1>7 DEF Build, ImageBuild, StopJob, StopForget, ExecJob, Enter, Receive, DeleteJob, DeleteForget,
     Timeout, LogStep, LogOpen, LogEnd, LogBreaks, cluster, informer
<1>8. ASSUME UNCHANGED vars PROVE UNCHANGED <<pod, watch, lister>>
  BY <1>8 DEF vars
<1> QED BY <1>1, <1>2, <1>3, <1>4, <1>5, <1>6, <1>7, <1>8 DEF Next, BuildStep

\* Pushed keeps what a channel holds, and the waiting build's holds what is sent.
LEMMA PushHolds ==
    ASSUME TypeOK, NEW b \in Builds, NEW x \in Results
    PROVE  /\ \A c \in Builds : \A y : Holds(ring[c], y) => Holds(Pushed(b, x)[c], y)
           /\ pc[b] = "wait" => Holds(Pushed(b, x)[b], x)
<1>1. ring[b] \in Seq(Results)
  BY DEF TypeOK
<1>2. \A y : Holds(ring[b], y) => Holds(Append(ring[b], x), y)
  BY <1>1 DEF Holds
<1>3. Holds(Append(ring[b], x), x)
  <2>1. Len(ring[b]) + 1 \in DOMAIN Append(ring[b], x) /\ Append(ring[b], x)[Len(ring[b]) + 1] = x
    BY <1>1
  <2> QED BY <2>1 DEF Holds
<1>4. CASE pc[b] # "wait"
  BY <1>4 DEF Pushed
<1>5. CASE ring[b] # <<>> /\ ring[b][Len(ring[b])] = x
  <2>1. Len(ring[b]) \in DOMAIN ring[b]
    BY <1>1, <1>5
  <2> QED BY <1>5, <2>1 DEF Pushed, Holds
<1>6. CASE ~(pc[b] # "wait" \/ (ring[b] # <<>> /\ ring[b][Len(ring[b])] = x))
  <2>1. Pushed(b, x) = [ring EXCEPT ![b] = Append(ring[b], x)]
    BY <1>6 DEF Pushed
  <2> QED BY <1>2, <1>3, <2>1 DEF TypeOK
<1> QED BY <1>4, <1>5, <1>6
\* A step that leaves a build's place and its two ends alone, takes nothing out
\* of its channel, and does not start or end its logger.
LEMMA WaitKept ==
    ASSUME NEW b \in Builds, WaitOf(b), pc'[b] = pc[b], jobDone'[b] = jobDone[b], logDone'[b] = logDone[b],
           Holds(ring[b], "logcomplete") => Holds(ring'[b], "logcomplete"),
           log'[b] = log[b] \/ (log[b] # "none" /\ log'[b] \notin {"none", "done"})
    PROVE  WaitOf(b)'
BY DEF WaitOf, Fresh, LogTold

LEMMA WaitStep == ASSUME TypeOK, WaitInv, [Next]_vars PROVE WaitInv'
<1>0. (WaitInv <=> \A b \in Builds : WaitOf(b)) /\ (WaitInv' <=> \A b \in Builds : WaitOf(b)')
  BY DEF WaitInv
<1>1. ASSUME NEW n \in Names, NEW st, SetPod(n, st), UNCHANGED <<pc, ring, jobDone, logDone>> PROVE WaitInv'
  <2> SUFFICES ASSUME NEW b \in Builds PROVE WaitOf(b)'
    BY <1>0
  <2>1. log'[b] = log[b] \/ (log[b] # "none" /\ log'[b] \notin {"none", "done"})
    BY <1>1 DEF SetPod
  <2> QED BY <1>0, <1>1, <2>1, WaitKept
<1>2. ASSUME UNCHANGED <<pc, ring, jobDone, logDone, log>> PROVE WaitInv'
  BY <1>2 DEF WaitInv, WaitOf, Fresh, LogTold
<1>3. ASSUME NEW n \in Names, PodRuns(n) \/ PodEnds(n) \/ PodGone(n) PROVE WaitInv'
  <2>1. (\E st : SetPod(n, st)) /\ UNCHANGED <<pc, ring, jobDone, logDone>>
    BY <1>3 DEF PodRuns, PodEnds, PodGone, wait
  <2> QED BY <1>1, <2>1
<1>4. ASSUME NEW n \in Names, Evict(n) \/ InformerEvent(n) \/ Relist(n) \/ Resync(n) PROVE WaitInv'
  BY <1>2, <1>4 DEF Evict, InformerEvent, Relist, Resync, wait, logger
<1>5. ASSUME NEW n \in Names, HandlerEvent(n) PROVE WaitInv'
  <2> SUFFICES ASSUME NEW b \in Builds PROVE WaitOf(b)'
    BY <1>0
  <2>1. UNCHANGED <<pc, jobDone, logDone, log>>
    BY <1>5 DEF HandlerEvent
  <2>2. ring' = ring \/ \E x \in Results : sub[n] \in Builds /\ ring' = Pushed(sub[n], x)
    <3>1. ring' = ring \/ (sub[n] # None /\ \E x \in Results : ring' = Pushed(sub[n], x))
      BY <1>5 DEF HandlerEvent, Results
    <3> QED BY <3>1 DEF TypeOK
  <2>3. Holds(ring[b], "logcomplete") => Holds(ring'[b], "logcomplete")
    BY <2>2, PushHolds
  <2> QED BY <1>0, <2>1, <2>3, WaitKept
<1>6. ASSUME NEW b \in Builds, LogStep(b) \/ LogBreaks(b) PROVE WaitInv'
  <2> SUFFICES ASSUME NEW c \in Builds PROVE WaitOf(c)'
    BY <1>0
  <2>1. UNCHANGED <<pc, jobDone, logDone>> /\ log[b] \in {"wait", "stream", "eof"}
    BY <1>6 DEF LogStep, LogOpen, LogEnd, LogBreaks, wait
  <2>2. CASE LogOpen(b) \/ LogBreaks(b)
    <3>1. ring' = ring /\ \E l \in {"stream", "eof"} : log' = [log EXCEPT ![b] = l]
      BY <2>2 DEF LogOpen, LogBreaks, wait
    <3>2. log'[c] = log[c] \/ (log[c] # "none" /\ log'[c] \notin {"none", "done"})
      BY <2>1, <3>1 DEF TypeOK
    <3> QED BY <1>0, <2>1, <3>1, <3>2, WaitKept
  <2>3. CASE LogEnd(b)
    <3>1. log' = [log EXCEPT ![b] = "done"] /\ ring' = Pushed(b, "logcomplete")
      BY <2>3 DEF LogEnd
    <3>2. /\ Holds(ring[c], "logcomplete") => Holds(ring'[c], "logcomplete")
          /\ pc[b] = "wait" => Holds(ring'[b], "logcomplete")
      BY <3>1, PushHolds DEF Results
    <3>3. CASE c # b
      <4>1. log'[c] = log[c]
        BY <3>1, <3>3 DEF TypeOK
      <4> QED BY <1>0, <2>1, <3>2, <4>1, WaitKept
    <3>4. CASE c = b
      <4>1. log'[b] = "done" /\ ~Fresh(b) /\ WaitOf(b)
        BY <1>0, <2>1, <3>1 DEF TypeOK, Fresh
      <4> QED BY <2>1, <3>2, <3>4, <4>1 DEF WaitOf, LogTold
    <3> QED BY <3>3, <3>4
  <2> QED BY <1>6, <2>2, <2>3 DEF LogStep
<1>7. ASSUME NEW b \in Builds, NEW p,
             p \in {"stop", "stop_forget", "create", "enter"},
             pc[b] \in {"idle", "stop", "stop_forget", "create", "enter"},
             pc' = [pc EXCEPT ![b] = p], UNCHANGED <<ring, jobDone, logDone>>,
             \A c \in Builds : log'[c] = log[c] \/ (log[c] # "none" /\ log'[c] \notin {"none", "done"})
      PROVE  WaitInv'
  <2> SUFFICES ASSUME NEW c \in Builds PROVE WaitOf(c)'
    BY <1>0
  <2>1. CASE c # b
    BY <1>0, <1>7, <2>1, WaitKept DEF TypeOK
  <2>2. CASE c = b
    <3>1. Fresh(b) /\ log'[b] = log[b] /\ pc'[b] = p
      BY <1>0, <1>7 DEF WaitOf, Fresh, TypeOK
    <3> QED BY <1>7, <2>2, <3>1 DEF WaitOf, Fresh
  <2> QED BY <2>1, <2>2
<1>8. ASSUME NEW b \in Builds,
             \/ \E n \in Names : Build(b, n) \/ ImageBuild(b, n) \/ StopJob(b, n)
             \/ StopForget(b) \/ ExecJob(b) \/ Create(b)
      PROVE  WaitInv'
  <2>1. \E p : /\ p \in {"stop", "stop_forget", "create", "enter"}
               /\ pc[b] \in {"idle", "stop", "stop_forget", "create", "enter"}
               /\ pc' = [pc EXCEPT ![b] = p] /\ UNCHANGED <<ring, jobDone, logDone>>
    BY <1>8 DEF Build, ImageBuild, StopJob, StopForget, ExecJob, Create, wait
  <2>2. \A c \in Builds : log'[c] = log[c] \/ (log[c] # "none" /\ log'[c] \notin {"none", "done"})
    BY <1>8 DEF Build, ImageBuild, StopJob, StopForget, ExecJob, Create, SetPod, logger
  <2> QED BY <1>7, <2>1, <2>2
<1>9. ASSUME NEW b \in Builds, NEW p, p \in {"delete", "forget", "done"}, pc' = [pc EXCEPT ![b] = p],
             \A c \in Builds : log'[c] = log[c] \/ (log[c] # "none" /\ log'[c] \notin {"none", "done"}),
             \A c \in Builds \ {b} : /\ ring'[c] = ring[c] /\ jobDone'[c] = jobDone[c]
                                     /\ logDone'[c] = logDone[c]
      PROVE  WaitInv'
  <2> SUFFICES ASSUME NEW c \in Builds PROVE WaitOf(c)'
    BY <1>0
  <2>1. CASE c # b
    BY <1>0, <1>9, <2>1, WaitKept DEF TypeOK
  <2>2. CASE c = b
    <3>1. pc'[c] = p
      BY <1>9, <2>2 DEF TypeOK
    <3> QED BY <1>9, <3>1 DEF WaitOf
  <2> QED BY <2>1, <2>2
<1>10. ASSUME NEW b \in Builds, CreateFails(b) \/ DeleteJob(b) \/ DeleteForget(b) PROVE WaitInv'
  <2>1. \E p \in {"delete", "forget", "done"} : pc' = [pc EXCEPT ![b] = p]
    BY <1>10 DEF CreateFails, DeleteJob, DeleteForget
  <2>2. UNCHANGED <<ring, jobDone, logDone>>
    BY <1>10 DEF CreateFails, DeleteJob, DeleteForget, wait
  <2>3. \A c \in Builds : log'[c] = log[c] \/ (log[c] # "none" /\ log'[c] \notin {"none", "done"})
    BY <1>10 DEF CreateFails, DeleteJob, DeleteForget, SetPod, logger
  <2> QED BY <1>9, <2>1, <2>2, <2>3
<1>11. ASSUME NEW b \in Builds, NEW r, Returned(b, r), UNCHANGED log PROVE WaitInv'
  <2>1. pc' = [pc EXCEPT ![b] = "delete"]
    BY <1>11 DEF Returned
  <2>2. \A c \in Builds \ {b} : /\ ring'[c] = ring[c] /\ jobDone'[c] = jobDone[c]
                                /\ logDone'[c] = logDone[c]
    BY <1>11 DEF Returned, TypeOK
  <2> QED BY <1>9, <1>11, <2>1, <2>2
<1>12. ASSUME NEW b \in Builds, Timeout(b) PROVE WaitInv'
  BY <1>11, <1>12 DEF Timeout, logger
<1>13. ASSUME NEW b \in Builds, Enter(b) PROVE WaitInv'
  <2> SUFFICES ASSUME NEW c \in Builds PROVE WaitOf(c)'
    BY <1>0
  <2>1. /\ pc[b] = "enter" /\ pc' = [pc EXCEPT ![b] = "wait"] /\ log' = [log EXCEPT ![b] = "wait"]
        /\ UNCHANGED <<ring, jobDone, logDone>>
    BY <1>13 DEF Enter, wait
  <2>2. CASE c # b
    BY <1>0, <2>1, <2>2, WaitKept DEF TypeOK
  <2>3. CASE c = b
    <3>1. Fresh(b) /\ pc'[b] = "wait" /\ log'[b] = "wait"
      BY <1>0, <2>1 DEF WaitOf, TypeOK
    <3> QED BY <2>1, <2>3, <3>1 DEF WaitOf, Fresh
  <2> QED BY <2>2, <2>3
<1>14. ASSUME NEW b \in Builds, Receive(b) PROVE WaitInv'
  <2>1. pc[b] = "wait" /\ ring[b] # <<>> /\ UNCHANGED log
    BY <1>14 DEF Receive, logger
  <2> DEFINE x == Head(ring[b])
  <2>2. \/ \E r : Returned(b, r)
        \/ /\ ~((jobDone[b] \/ x # "logcomplete") /\ (logDone[b] \/ x = "logcomplete"))
           /\ jobDone' = [jobDone EXCEPT ![b] = @ \/ x # "logcomplete"]
           /\ logDone' = [logDone EXCEPT ![b] = @ \/ x = "logcomplete"]
           /\ ring' = [ring EXCEPT ![b] = Tail(@)]
           /\ UNCHANGED pc
    BY <1>14 DEF Receive
  <2>3. CASE \E r : Returned(b, r)
    BY <1>11, <2>1, <2>3
  <2>4. CASE /\ ~((jobDone[b] \/ x # "logcomplete") /\ (logDone[b] \/ x = "logcomplete"))
             /\ jobDone' = [jobDone EXCEPT ![b] = @ \/ x # "logcomplete"]
             /\ logDone' = [logDone EXCEPT ![b] = @ \/ x = "logcomplete"]
             /\ ring' = [ring EXCEPT ![b] = Tail(@)]
             /\ UNCHANGED pc
    <3> SUFFICES ASSUME NEW c \in Builds PROVE WaitOf(c)'
      BY <1>0
    <3>1. CASE c # b
      <4>1. jobDone'[c] = jobDone[c] /\ logDone'[c] = logDone[c] /\ ring'[c] = ring[c]
        BY <2>4, <3>1 DEF TypeOK
      <4> QED BY <1>0, <2>1, <2>4, <4>1, WaitKept
    <3>2. CASE c = b
      <4>1. /\ jobDone'[b] = (jobDone[b] \/ x # "logcomplete") /\ logDone'[b] = (logDone[b] \/ x = "logcomplete")
            /\ ring'[b] = Tail(ring[b])
        BY <2>4 DEF TypeOK
      <4>2. Holds(ring[b], "logcomplete") => x = "logcomplete" \/ Holds(Tail(ring[b]), "logcomplete")
        <5>1. ring[b] \in Seq(Results)
          BY DEF TypeOK
        <5>2. \A i \in DOMAIN ring[b] : i = 1 \/ (i - 1 \in DOMAIN Tail(ring[b]) /\ ring[b][i] = Tail(ring[b])[i - 1])
          BY <2>1, <5>1
        <5> QED BY <2>1, <5>1, <5>2 DEF Holds
      <4>3. LogTold(b) => LogTold(b)'
        BY <4>1, <4>2 DEF LogTold
      <4>4. ~(jobDone'[b] /\ logDone'[b])
        BY <2>4, <4>1
      <4>5. log[b] # "none" /\ (log[b] = "done" => LogTold(b))
        BY <1>0, <2>1 DEF WaitOf
      <4> QED BY <2>1, <2>4, <3>2, <4>3, <4>4, <4>5 DEF WaitOf
    <3> QED BY <3>1, <3>2
  <2> QED BY <2>2, <2>3, <2>4
<1>15. CASE UNCHANGED vars
  BY <1>2, <1>15 DEF vars
<1> QED BY <1>3, <1>4, <1>5, <1>6, <1>8, <1>10, <1>12, <1>13, <1>14, <1>15 DEF Next, BuildStep
\* A pod that leaves "running" ends the streams of its log.
LEMMA StreamStep == ASSUME TypeOK, WaitInv, StreamInv, [Next]_vars PROVE StreamInv'
<1>1. ASSUME NEW n \in Names, NEW st, SetPod(n, st), UNCHANGED name PROVE StreamInv'
  <2> SUFFICES ASSUME NEW b \in Builds, log'[b] = "stream" PROVE pod'[name'[b]] = "running"
    BY DEF StreamInv
  <2>1. log[b] = "stream" /\ (name[b] = n => st = "running")
    BY <1>1 DEF SetPod
  <2>2. pod' = [pod EXCEPT ![n] = st] /\ pod[name[b]] = "running"
    BY <1>1, <2>1 DEF SetPod, StreamInv
  <2>3. CASE name[b] = n
    BY <1>1, <2>1, <2>2, <2>3 DEF TypeOK
  <2>4. CASE name[b] # n
    BY <1>1, <2>2, <2>4 DEF TypeOK
  <2> QED BY <2>3, <2>4
<1>2. ASSUME UNCHANGED <<pod, name>>, \A b \in Builds : log'[b] = "stream" => log[b] = "stream" PROVE StreamInv'
  BY <1>2 DEF StreamInv
<1>3. ASSUME NEW n \in Names, PodRuns(n) \/ PodEnds(n) \/ PodGone(n) PROVE StreamInv'
  BY <1>1, <1>3 DEF PodRuns, PodEnds, PodGone
<1>4. ASSUME NEW n \in Names, Evict(n) \/ InformerEvent(n) \/ Relist(n) \/ Resync(n) \/ HandlerEvent(n)
      PROVE  StreamInv'
  BY <1>2, <1>4 DEF Evict, InformerEvent, Relist, Resync, HandlerEvent, cluster, logger
<1>5. ASSUME NEW b \in Builds, NEW n \in Names, Build(b, n) \/ ImageBuild(b, n) PROVE StreamInv'
  <2>1. pc[b] = "idle" /\ name' = [name EXCEPT ![b] = n] /\ UNCHANGED <<pod, log>>
    BY <1>5 DEF Build, ImageBuild, cluster, logger
  <2>2. log[b] = "none"
    BY <2>1 DEF WaitInv, WaitOf, Fresh
  <2> QED BY <2>1, <2>2 DEF StreamInv, TypeOK
<1>6. ASSUME NEW b \in Builds, Create(b) \/ CreateFails(b) PROVE StreamInv'
  <2>1. name' = name /\ name[b] \in Names
    BY <1>6 DEF Create, CreateFails, TypeOK
  <2>2. SetPod(name[b], "pending") \/ UNCHANGED <<pod, log>>
    BY <1>6 DEF Create, CreateFails
  <2> QED BY <1>1, <1>2, <2>1, <2>2
<1>7. ASSUME NEW b \in Builds,
             \/ \E n \in Names : StopJob(b, n)
             \/ StopForget(b) \/ ExecJob(b) \/ Receive(b) \/ DeleteJob(b) \/ DeleteForget(b) \/ Timeout(b)
      PROVE  StreamInv'
  BY <1>2, <1>7 DEF StopJob, StopForget, ExecJob, Receive, DeleteJob, DeleteForget, Timeout, cluster, logger
<1>8. ASSUME NEW b \in Builds, Enter(b) \/ LogEnd(b) \/ LogBreaks(b) PROVE StreamInv'
  <2>1. /\ \E l \in {"wait", "eof", "done"} : log' = [log EXCEPT ![b] = l]
        /\ UNCHANGED <<pod, name>>
    BY <1>8 DEF Enter, LogEnd, LogBreaks, cluster
  <2> QED BY <1>2, <2>1 DEF TypeOK
<1>9. ASSUME NEW b \in Builds, LogOpen(b) PROVE StreamInv'
  <2>1. /\ log' = [log EXCEPT ![b] = IF pod[name[b]] = "running" THEN "stream" ELSE "eof"]
        /\ UNCHANGED <<pod, name>>
    BY <1>9 DEF LogOpen, cluster
  <2> QED BY <2>1 DEF StreamInv, TypeOK
<1>10. CASE UNCHANGED vars
  BY <1>2, <1>10 DEF vars
<1> QED BY <1>3, <1>4, <1>5, <1>6, <1>7, <1>8, <1>9, <1>10 DEF Next, BuildStep, LogStep

\* waitingComplete (code_build.go:449) returns: a build whose pod has ended by itself
\* never waits for what nobody will send.  The end that came before its channel
\* was entered is still in the informer, and the end of the log is never lost.
THEOREM NoResultLost == Spec => []ResultOwed
<1> DEFINE Inv == Mirror /\ WaitInv /\ StreamInv
<1>1. Init => Inv
  BY DEF Init, Mirror, LastSeen, WaitInv, WaitOf, Fresh, StreamInv
<1>2. TypeOK /\ Inv /\ [Next]_vars => Inv'
  BY MirrorStep, WaitStep, StreamStep
<1>3. TypeOK /\ Inv => ResultOwed
  <2> SUFFICES ASSUME TypeOK, Inv, NEW b \in Builds, HasResult(b)
               PROVE  /\ LastSeen(name[b]) \in Ended
                      /\ log[b] \in {"wait", "eof"} \/ LogTold(b)
                      /\ ~(jobDone[b] /\ logDone[b])
    BY DEF ResultOwed
  <2>1. pc[b] = "wait" /\ pod[name[b]] \in Ended /\ name[b] \in Names
    BY DEF HasResult, TypeOK
  <2>2. LastSeen(name[b]) \in Ended
    BY <2>1 DEF Mirror
  <2>3. log[b] # "stream"
    BY <2>1 DEF StreamInv, Ended
  <2> QED BY <2>1, <2>2, <2>3 DEF WaitInv, WaitOf, TypeOK
<1> QED BY <1>1, <1>2, <1>3, JobTypeCorrect, PTL DEF Spec
=============================================================================
