-------------------------- MODULE GatewaySyncProofs --------------------------
(***************************************************************************)
(* Proofs about GatewaySync for any ingresses, services, rules and         *)
(* certificates, any capacity of the ring, any time and any number of      *)
(* changes and faults.                                                     *)
(***************************************************************************)
EXTENDS GatewaySync, FiniteSetTheorems, SequenceTheorems, TLAPS

\* The virtual services if the node has the address of the hosted rules or not.
ServersAt(i, up) ==
    {[key |-> k, rule |-> i[k], cert |-> IF i[k].tls THEN sslStore[k] ELSE None] :
        k \in {k \in Keys : /\ i[k] # None
                            /\ ep[ServiceOf[k]] \in Addrs
                            /\ i[k].hosted => up}}

\* Something that ends in an element of the queue that a sync of time t does not
\* make superfluous.  A change of a secret no ingress names, or of an address no
\* ingress names, is none.
Due(t) ==
    \/ ingQ # <<>> \/ epQ > 0
    \/ \E h \in Handlers : hpc[h] \in {"read", "write", "add", "push"}
    \/ hpc["ip"] = "next" /\ ipTodo # {}
    \/ hpc["sec"] \in {"refs", "refsGone"} /\ hkey["sec"] \in secretMap
    \/ ring > 0
    \/ \E n \in DOMAIN queue : queue[n] >= t

\* What the node has, or had before a change loopUpdateIngress has still to see.
Up(up) == up = hostUp \/ ipQ > 0

Fits(S) == \E up \in BOOLEAN : Up(up) /\ S = ServersAt(ing, up)
Loaded(S) == \A k \in Kinds : \/ Matches(running[k], OfKind(S, k))
                              \/ k \in cfgFailed /\ \E c \in refused : Equals(c, Config(S))
Sent(S) == \A k \in Kinds :
    LET want == OfKind(PoolsOf(S), k) IN k \in poolFailed \/ want = {} \/ ngx[k] = want

\* Time does not run backwards; a queue that is shut down is shut down for good.
ClockInv ==
    /\ lastSync <= now /\ ts <= now
    /\ qdown => shutting

\* Certificates are those of secrets an ingress is known to name.
KeyInv ==
    /\ \A k \in Keys : sslStore[k] # None => k \in secretMap
    /\ \A h \in Handlers : /\ hpc[h] \in {"refs", "refsGone", "read", "write", "add", "push"} => hkey[h] \in Keys
                           /\ hpc[h] \in {"read", "write", "add"} => hkey[h] \in secretMap

\* Configurations are finite.
FiniteInv ==
    /\ IsFiniteSet(vs)
    /\ rcfg # None => \A k \in Kinds : IsFiniteSet(rcfg[k])

\* nginx runs what it accepts; rcfg tells what nginx runs of the kinds it did not
\* refuse, and was refused if it does not tell all.
RcfgInv ==
    /\ Accepts(running)
    /\ rcfg # None => /\ rcfg = running \/ rcfg \in refused
                      /\ \A k \in Kinds : /\ k \in cfgFailed \/ running[k] = rcfg[k]
                                          /\ OfKind(rcfg[k], k) = rcfg[k]

\* What the sync holds, and at its end nginx, is current, or an event is due.
SyncInv ==
    shutting \/
    /\ pc = "idle" => Due(lastSync) \/ \E S \in SUBSET Server : Fits(S) /\ Loaded(S) /\ Sent(S)
    /\ pc = "valid" => Due(ts) \/ seen = ing
    /\ pc = "pools" => Due(ts) \/ Fits(vs)
    /\ pc = "push" => Due(ts) \/ (Fits(vs) /\ pools = PoolsOf(vs))
    /\ pc = "persist" => Due(ts) \/ (Fits(vs) /\ Sent(vs))

\* The ingresses are listed before they are looked at.
SeenInv == pc = "valid" => seen \in [Keys -> Rules \cup {None}]

IInv == TypeOK /\ ClockInv /\ KeyInv /\ SeenInv /\ FiniteInv /\ RcfgInv /\ SyncInv

-----------------------------------------------------------------------------
\* What the assumption says of the constants.
LEMMA Constants ==
    /\ IsFiniteSet(Keys) /\ IsFiniteSet(Services) /\ ServiceOf \in [Keys -> Services]
    /\ \A r \in Rules : r.kind \in Kinds /\ r.tls \in BOOLEAN /\ r.hosted \in BOOLEAN
    /\ None \notin Rules /\ None \notin Certs /\ None \notin Addrs /\ None \notin Keys
    /\ None \notin [Kinds -> SUBSET Server]
    /\ RingCap \in Nat /\ RingCap > 0 /\ MaxNow \in Nat /\ Day \in Nat
BY GatewayAssumption

\* Servers and pools have their types.
LEMMA ServersType ==
    ASSUME TypeOK, NEW i \in [Keys -> Rules \cup {None}], NEW up
    PROVE  ServersAt(i, up) \in SUBSET Server
BY Constants DEF ServersAt, Server, TypeOK

LEMMA ServersHere == \A i : Servers(i) = ServersAt(i, hostUp)
BY DEF Servers, ServersAt

LEMMA PoolsType ==
    ASSUME TypeOK, NEW S \in SUBSET Server
    PROVE  PoolsOf(S) \in SUBSET Pool
<1> SUFFICES ASSUME NEW v \in S, ep[ServiceOf[v.key]] # None
             PROVE  [key |-> v.key, rule |-> v.rule, ssl |-> v.cert # None, addr |-> ep[ServiceOf[v.key]]] \in Pool
  BY DEF PoolsOf
<1>1. v.key \in Keys /\ v.rule \in Rules
  BY DEF Server
<1>2. ep[ServiceOf[v.key]] \in Addrs \cup {"unready"}
  BY <1>1, Constants DEF TypeOK
<1>3. (v.cert # None) \in BOOLEAN
  OBVIOUS
<1> QED BY <1>1, <1>2, <1>3 DEF Pool

LEMMA KindType ==
    /\ \A S \in SUBSET Server : \A k : OfKind(S, k) \in SUBSET Server
    /\ \A S \in SUBSET Pool : \A k : OfKind(S, k) \in SUBSET Pool
BY DEF OfKind

\* What Append and Tail do to the elements of a sequence.
LEMMA AppendType ==
    ASSUME NEW S, NEW s \in Seq(S), NEW e \in S
    PROVE  /\ Append(s, e) \in Seq(S) /\ Append(s, e) # <<>>
           /\ Len(s) + 1 \in DOMAIN Append(s, e) /\ Append(s, e)[Len(s) + 1] = e
           /\ \A n \in DOMAIN s : n \in DOMAIN Append(s, e) /\ Append(s, e)[n] = s[n]
OBVIOUS

LEMMA TailType ==
    ASSUME NEW S, NEW s \in Seq(S), s # <<>>
    PROVE  /\ Tail(s) \in Seq(S) /\ Head(s) \in S /\ 1 \in DOMAIN s /\ Head(s) = s[1]
           /\ \A n \in DOMAIN s : n # 1 => n - 1 \in DOMAIN Tail(s) /\ Tail(s)[n - 1] = s[n]
           /\ \A n \in DOMAIN Tail(s) : n + 1 \in DOMAIN s /\ Tail(s)[n] = s[n + 1]
OBVIOUS

-----------------------------------------------------------------------------
\* A list of the elements of a set of keys is a sequence.
LEMMA OrdersType ==
    ASSUME NEW S \in SUBSET Keys, NEW s \in Orders(S)
    PROVE  \E n \in Nat : s \in [1 .. n -> Keys] /\ DOMAIN s = 1 .. n /\ \A m \in 1 .. n : s[m] \in S
<1>1. Cardinality(S) \in Nat
  BY Constants, FS_Subset, FS_CardinalityType
<1>2. s \in [1 .. Cardinality(S) -> S]
  BY DEF Orders
<1> QED BY <1>1, <1>2

\* Types of the initial state.
LEMMA InitType == Init => TypeOK
<1> SUFFICES ASSUME Init PROVE TypeOK
  OBVIOUS
<1>1. /\ ing \in [Keys -> Rules \cup {None}] /\ ep \in [Services -> Addrs \cup {None, "unready"}]
      /\ sec \in [Keys -> Certs \cup {None}] /\ hostUp \in BOOLEAN
      /\ changes \in Seq(SUBSET Sorts) /\ faults \in Nat
  <2>1. PICK b \in Boots : /\ ing = b.ing /\ ep = b.ep /\ sec = b.sec /\ hostUp = b.hostUp
                           /\ changes = b.changes /\ faults = b.faults
    BY DEF Init
  <2>2. b \in [ing : [Keys -> Rules \cup {None}], ep : [Services -> Addrs \cup {None, "unready"}],
               sec : [Keys -> Certs \cup {None}], hostUp : BOOLEAN,
               changes : Seq(SUBSET Sorts), faults : Nat]
    BY <2>1, GatewayAssumption
  <2> QED BY <2>1, <2>2
<1>2. ingQ \in Seq([key : Keys, rule : Rules \cup {None}])
  <2>1. PICK s \in Orders({k \in Keys : ing[k] # None}) :
           ingQ = [n \in DOMAIN s |-> [key |-> s[n], rule |-> ing[s[n]]]]
    BY DEF Init
  <2>2. PICK n \in Nat : s \in [1 .. n -> Keys] /\ DOMAIN s = 1 .. n
    BY OrdersType
  <2>3. ingQ \in [1 .. n -> [key : Keys, rule : Rules \cup {None}]]
    BY <1>1, <2>1, <2>2
  <2> QED BY <2>3, SeqDef
<1>3. secQ \in Seq([key : Keys, gone : BOOLEAN])
  <2>1. PICK s \in Orders({k \in Keys : sec[k] # None}) :
           secQ = [n \in DOMAIN s |-> [key |-> s[n], gone |-> FALSE]]
    BY DEF Init
  <2>2. PICK n \in Nat : s \in [1 .. n -> Keys] /\ DOMAIN s = 1 .. n
    BY OrdersType
  <2>3. secQ \in [1 .. n -> [key : Keys, gone : BOOLEAN]]
    BY <2>1, <2>2
  <2> QED BY <2>3, SeqDef
<1>4. epQ \in Nat
  <2>1. {s \in Services : ep[s] # None} \in SUBSET Services
    OBVIOUS
  <2>2. IsFiniteSet({s \in Services : ep[s] # None})
    BY <2>1, Constants, FS_Subset
  <2> QED BY <2>2, FS_CardinalityType DEF Init
<1>5. queue \in Seq(Nat) /\ ring \in 0 .. RingCap
  BY Constants DEF Init
<1>6. /\ hpc \in [Handlers -> {"idle", "refs", "refsGone", "next", "read", "write", "add", "push"}]
      /\ hkey \in [Handlers -> Keys \cup {None}] /\ hcert \in [Handlers -> Certs \cup {None}]
      /\ sslStore \in [Keys -> Certs \cup {None}]
  BY DEF Init
<1>7. /\ disk \in [Kinds -> (SUBSET Server) \cup {None}] /\ running \in [Kinds -> (SUBSET Server) \cup {None}]
      /\ ngx \in [Kinds -> SUBSET Pool]
  <2>1. {} \in SUBSET Server /\ {} \in SUBSET Pool
    OBVIOUS
  <2> QED BY <2>1 DEF Init
<1>8. shutting \in BOOLEAN /\ qdown \in BOOLEAN
  BY DEF Init
<1> QED BY <1>1, <1>2, <1>3, <1>4, <1>5, <1>6, <1>7, <1>8 DEF Init, TypeOK

\* The cluster keeps the types.
LEMMA ClusterType == ASSUME TypeOK, Cluster PROVE TypeOK'
<1>0. ASSUME NEW sort, Change(sort) PROVE changes' \in Seq(SUBSET Sorts)
  BY <1>0, TailType DEF Change, TypeOK
<1>1. ASSUME NEW k \in Keys, IngressChange(k) PROVE TypeOK'
  <2>1. PICK r \in Rules \cup {None} : ing' = [ing EXCEPT ![k] = r] /\ ingQ' = Append(ingQ, [key |-> k, rule |-> r])
    BY <1>1 DEF IngressChange
  <2>2. ing' \in [Keys -> Rules \cup {None}] /\ ingQ' \in Seq([key : Keys, rule : Rules \cup {None}])
    BY <2>1, AppendType DEF TypeOK
  <2> QED BY <1>0, <1>1, <2>2 DEF IngressChange, TypeOK, handlers, certs, tasks, worker, nginx, control
<1>2. ASSUME NEW k \in Keys, SecretChange(k) PROVE TypeOK'
  <2>1. PICK c \in Certs \cup {None} : sec' = [sec EXCEPT ![k] = c] /\ secQ' = Append(secQ, [key |-> k, gone |-> c = None])
    BY <1>2 DEF SecretChange
  <2>2. (c = None) \in BOOLEAN
    OBVIOUS
  <2>3. [key |-> k, gone |-> c = None] \in [key : Keys, gone : BOOLEAN]
    BY <2>2
  <2>4. sec' \in [Keys -> Certs \cup {None}] /\ secQ' \in Seq([key : Keys, gone : BOOLEAN])
    BY <2>1, <2>3, AppendType DEF TypeOK
  <2>5. raced' \subseteq Keys
    BY <1>2 DEF SecretChange, TypeOK
  <2> QED BY <1>0, <1>2, <2>4, <2>5 DEF SecretChange, TypeOK, handlers, certs, tasks, worker, nginx, control
<1>3. ASSUME NEW s \in Services, EndpointChange(s) PROVE TypeOK'
  <2>1. ep' \in [Services -> Addrs \cup {None, "unready"}]
    BY <1>3 DEF EndpointChange, TypeOK
  <2> QED BY <1>0, <1>3, <2>1 DEF EndpointChange, TypeOK, handlers, certs, tasks, worker, nginx, control
<1>4. CASE LoopCheckIPs
  <2>1. hostUp' \in BOOLEAN
    BY <1>4 DEF LoopCheckIPs
  <2> QED BY <1>0, <1>4, <2>1 DEF LoopCheckIPs, TypeOK, handlers, certs, tasks, worker, nginx, control
<1> QED BY <1>1, <1>2, <1>3, <1>4 DEF Cluster

\* A handler's own variables keep their types.
LEMMA GotoType ==
    ASSUME TypeOK, NEW h \in Handlers, NEW p \in {"idle", "refs", "refsGone", "next", "read", "write", "add", "push"},
           Goto(h, p)
    PROVE  hpc' \in [Handlers -> {"idle", "refs", "refsGone", "next", "read", "write", "add", "push"}]
BY DEF TypeOK, Goto

LEMMA ReturnType ==
    ASSUME TypeOK, NEW h \in Handlers, Return(h)
    PROVE  /\ hpc' \in [Handlers -> {"idle", "refs", "refsGone", "next", "read", "write", "add", "push"}]
           /\ hkey' \in [Handlers -> Keys \cup {None}] /\ hcert' \in [Handlers -> Certs \cup {None}]
BY DEF TypeOK, Goto, Return

LEMMA PushedType == ASSUME TypeOK PROVE Pushed \in 0 .. RingCap /\ Pushed > 0
BY Constants DEF TypeOK, Pushed

\* The handlers keep the types.
LEMMA HandleType == ASSUME TypeOK, KeyInv, NEW h \in Handlers, Handle(h) PROVE TypeOK'
<1>h. "ing" \in Handlers /\ "sec" \in Handlers /\ "ip" \in Handlers
  BY DEF Handlers
<1>1. CASE IngHandle
  <2>1. /\ Tail(ingQ) \in Seq([key : Keys, rule : Rules \cup {None}])
        /\ Head(ingQ) \in [key : Keys, rule : Rules \cup {None}]
    BY <1>1, TailType DEF TypeOK, IngHandle
  <2>2. hpc' \in [Handlers -> {"idle", "refs", "refsGone", "next", "read", "write", "add", "push"}]
    BY <1>1, <1>h, GotoType DEF IngHandle
  <2>3. hkey' \in [Handlers -> Keys \cup {None}] /\ secretMap' \subseteq Keys
    BY <1>1, <2>1 DEF IngHandle, TypeOK
  <2> QED BY <1>1, <2>1, <2>2, <2>3 DEF IngHandle, TypeOK, caches, tasks, worker, nginx, control
<1>2. CASE SecHandle
  <2>1. /\ Tail(secQ) \in Seq([key : Keys, gone : BOOLEAN]) /\ Head(secQ) \in [key : Keys, gone : BOOLEAN]
    BY <1>2, TailType DEF TypeOK, SecHandle
  <2>2. hpc' \in [Handlers -> {"idle", "refs", "refsGone", "next", "read", "write", "add", "push"}]
    BY <1>2, <1>h, GotoType DEF SecHandle
  <2>3. hkey' \in [Handlers -> Keys \cup {None}]
    BY <1>2, <2>1 DEF SecHandle, TypeOK
  <2>4. sslStore' \in [Keys -> Certs \cup {None}]
    BY <1>2, <2>1 DEF SecHandle, TypeOK
  <2> QED BY <1>2, <2>1, <2>2, <2>3, <2>4 DEF SecHandle, TypeOK, caches, tasks, worker, nginx, control
<1>3. CASE SecRefs
  <2>1. /\ hpc' \in [Handlers -> {"idle", "refs", "refsGone", "next", "read", "write", "add", "push"}]
        /\ hkey' \in [Handlers -> Keys \cup {None}] /\ hcert' \in [Handlers -> Certs \cup {None}]
    <3>1. CASE Return("sec")
      BY <3>1, <1>h, ReturnType
    <3>2. CASE hkey["sec"] \in secretMap /\ UNCHANGED <<hkey, hcert>>
               /\ Goto("sec", IF hpc["sec"] = "refs" /\ ing[hkey["sec"]] # None THEN "read" ELSE "push")
      BY <3>2, <1>h, GotoType DEF TypeOK
    <3> QED BY <1>3, <3>1, <3>2 DEF SecRefs
  <2> QED BY <1>3, <2>1 DEF SecRefs, TypeOK, caches, notices, certs, tasks, worker, nginx, control
<1>4. CASE IpHandle
  <2>1. hpc' \in [Handlers -> {"idle", "refs", "refsGone", "next", "read", "write", "add", "push"}]
    BY <1>4, <1>h, GotoType DEF IpHandle
  <2>2. ipTodo' \subseteq Keys /\ ipQ' \in Nat
    BY <1>4 DEF IpHandle, TypeOK
  <2> QED BY <1>4, <2>1, <2>2 DEF IpHandle, TypeOK, caches, certs, tasks, worker, nginx, control
<1>5. CASE IpNext
  <2>1. hpc' \in [Handlers -> {"idle", "refs", "refsGone", "next", "read", "write", "add", "push"}]
    BY <1>5, <1>h, GotoType DEF IpNext
  <2>2. ipTodo' \subseteq Keys /\ hkey' \in [Handlers -> Keys \cup {None}]
    BY <1>5 DEF IpNext, TypeOK
  <2> QED BY <1>5, <2>1, <2>2 DEF IpNext, TypeOK, caches, notices, certs, tasks, worker, nginx, control
<1>6. CASE SyncSecretRead(h)
  <2>1. hkey[h] \in Keys
    BY <1>6 DEF KeyInv, SyncSecretRead
  <2>2. hpc' \in [Handlers -> {"idle", "refs", "refsGone", "next", "read", "write", "add", "push"}]
    BY <1>6, GotoType DEF SyncSecretRead
  <2>3. hcert' \in [Handlers -> Certs \cup {None}]
    BY <1>6, <2>1 DEF SyncSecretRead, TypeOK
  <2> QED BY <1>6, <2>2, <2>3 DEF SyncSecretRead, TypeOK, caches, notices, certs, tasks, worker, nginx, control
<1>7. CASE SyncSecretDelete(h) \/ SyncSecretAdd(h)
  <2>1. hkey[h] \in Keys
    BY <1>7 DEF KeyInv, SyncSecretDelete, SyncSecretAdd
  <2>2. hpc' \in [Handlers -> {"idle", "refs", "refsGone", "next", "read", "write", "add", "push"}]
    BY <1>7, GotoType DEF SyncSecretDelete, SyncSecretAdd
  <2>3. sslStore' \in [Keys -> Certs \cup {None}]
    BY <1>7, <2>1 DEF SyncSecretDelete, SyncSecretAdd, TypeOK
  <2> QED BY <1>7, <2>2, <2>3 DEF SyncSecretDelete, SyncSecretAdd, TypeOK, caches, notices, tasks, worker, nginx, control
<1>8. CASE PushEvent(h)
  <2>1. /\ hpc' \in [Handlers -> {"idle", "refs", "refsGone", "next", "read", "write", "add", "push"}]
        /\ hkey' \in [Handlers -> Keys \cup {None}] /\ hcert' \in [Handlers -> Certs \cup {None}]
    BY <1>8, ReturnType DEF PushEvent
  <2>2. ring' \in 0 .. RingCap
    BY <1>8, PushedType DEF PushEvent
  <2> QED BY <1>8, <2>1, <2>2 DEF PushEvent, TypeOK, caches, notices, certs, worker, nginx, control
<1> QED BY <1>1, <1>2, <1>3, <1>4, <1>5, <1>6, <1>7, <1>8 DEF Handle

\* The files that WriteServer leaves.
LEMMA FilesType ==
    ASSUME NEW d \in [Kinds -> (SUBSET Server) \cup {None}], NEW k \in Kinds, NEW S \in SUBSET Server
    PROVE  WriteServer(d, k, S) \in [Kinds -> (SUBSET Server) \cup {None}]
<1> DEFINE new == [d EXCEPT ![k] = S]
<1>1. new \in [Kinds -> (SUBSET Server) \cup {None}]
  OBVIOUS
<1>2. WriteServer(d, k, S) = new \/ WriteServer(d, k, S) = d
  BY DEF WriteServer
<1> QED BY <1>1, <1>2

\* The end of a sync.
LEMMA SyncedType ==
    ASSUME TypeOK, Synced
    PROVE  /\ pc' = "idle" /\ lastSync' = ts /\ lastSync' \in Nat /\ ts' = 0 /\ ts' \in Nat
           /\ seen' = None /\ vs' \subseteq Server /\ pools' \subseteq Pool
BY DEF TypeOK, Synced

\* The queue and the worker keep the types.
LEMMA WorkerType ==
    ASSUME TypeOK, SeenInv, EpHandle \/ HandleEvent \/ Worker \/ Shutdown \/ Close
    PROVE  TypeOK'
<1>1. CASE EpHandle
  <2>1. ring' \in 0 .. RingCap /\ epQ' \in Nat
    BY <1>1, PushedType DEF EpHandle, TypeOK
  <2> QED BY <1>1, <2>1 DEF EpHandle, TypeOK, caches, handlers, certs, worker, nginx, control
<1>2. CASE HandleEvent
  <2>1. ring' \in 0 .. RingCap
    BY <1>2, Constants DEF HandleEvent, TypeOK
  <2>2. queue' \in Seq(Nat)
    BY <1>2, AppendType DEF HandleEvent, TypeOK
  <2> QED BY <1>2, <2>1, <2>2 DEF HandleEvent, TypeOK, caches, notices, handlers, certs, worker, nginx, control
<1>3. CASE Get
  <2>1. queue' \in Seq(Nat)
    BY <1>3, TailType DEF Get, TypeOK
  <2>2. now' \in Nat /\ ts' \in Nat
    BY <1>3 DEF Get, TypeOK, Tick
  <2>3. pc' \in {"idle", "list"}
    BY <1>3 DEF Get
  <2> QED BY <1>3, <2>1, <2>2, <2>3 DEF Get, TypeOK, caches, notices, handlers, certs, nginx, control
<1>4. CASE ListIngresses
  <2>1. CASE Synced
    BY <1>4, <2>1, SyncedType DEF ListIngresses, TypeOK, caches, notices, handlers, certs, nginx, control
  <2>2. CASE pc' = "valid" /\ seen' = ing /\ UNCHANGED <<lastSync, ts, vs, pools>>
    BY <1>4, <2>2 DEF ListIngresses, TypeOK, caches, notices, handlers, certs, nginx, control
  <2> QED BY <1>4, <2>1, <2>2 DEF ListIngresses
<1>5. CASE ListVirtualService
  <2>1. vs' \subseteq Server
    <3>1. seen \in [Keys -> Rules \cup {None}]
      BY <1>5 DEF ListVirtualService, SeenInv
    <3> QED BY <1>5, <3>1, ServersHere, ServersType DEF ListVirtualService
  <2> QED BY <1>5, <2>1 DEF ListVirtualService, TypeOK, caches, notices, handlers, certs, tasks, nginx, control
<1>6. CASE ListPool
  <2>1. pools' \subseteq Pool
    BY <1>6, PoolsType DEF ListPool, TypeOK
  <2> QED BY <1>6, <2>1 DEF ListPool, TypeOK, caches, notices, handlers, certs, tasks, nginx, control
<1>7. CASE UpdatePools
  <2>1. ngx' \in [Kinds -> SUBSET Pool]
    BY <1>7, KindType DEF UpdatePools, TypeOK
  <2>2. poolFailed' \subseteq Kinds /\ faults' \in Nat
    BY <1>7 DEF UpdatePools, TypeOK
  <2> QED BY <1>7, <2>1, <2>2 DEF UpdatePools, TypeOK, caches, notices, handlers, certs, tasks, control
<1>8. CASE Persist
  <2> DEFINE cfg == Config(vs)
             files == WriteServer(WriteServer(disk, "l7", cfg["l7"]), "l4", cfg["l4"])
  <2>1. cfg \in [Kinds -> SUBSET Server] /\ cfg["l7"] \in SUBSET Server /\ cfg["l4"] \in SUBSET Server
    BY KindType DEF TypeOK, Kinds, Config
  <2>2. files \in [Kinds -> (SUBSET Server) \cup {None}]
    <3>1. WriteServer(disk, "l7", cfg["l7"]) \in [Kinds -> (SUBSET Server) \cup {None}]
      BY <2>1, FilesType DEF TypeOK, Kinds
    <3> QED BY <2>1, <3>1, FilesType DEF Kinds
  <2>3. /\ disk' = disk \/ disk' = files
        /\ running' = running \/ running' = files
        /\ rcfg' = rcfg \/ rcfg' = cfg
        /\ cfgFailed' \subseteq Kinds /\ refused' \subseteq refused \cup {cfg}
    BY <1>8 DEF Persist, TypeOK
  <2>4. faults' \in Nat
    BY <1>8 DEF Persist, TypeOK
  <2>5. /\ disk' \in [Kinds -> (SUBSET Server) \cup {None}] /\ running' \in [Kinds -> (SUBSET Server) \cup {None}]
        /\ rcfg' = None \/ rcfg' \in [Kinds -> SUBSET Server]
        /\ refused' \subseteq [Kinds -> SUBSET Server]
    BY <2>1, <2>2, <2>3 DEF TypeOK
  <2>6. Synced
    BY <1>8 DEF Persist
  <2> HIDE DEF cfg, files
  <2> QED BY <1>8, <2>3, <2>4, <2>5, <2>6, SyncedType DEF Persist, TypeOK, caches, notices, handlers, certs, control
<1>9. CASE WorkerQuits
  BY <1>9 DEF WorkerQuits, TypeOK, caches, notices, handlers, certs, tasks, nginx, control
<1>10. CASE Shutdown
  BY <1>10 DEF Shutdown, TypeOK, caches, notices, handlers, certs, tasks, worker, nginx
<1>11. CASE Close
  <2>1. <<>> \in Seq([key : Keys, rule : Rules \cup {None}]) /\ <<>> \in Seq([key : Keys, gone : BOOLEAN])
    OBVIOUS
  <2> QED BY <1>11, <2>1 DEF Close, TypeOK, caches, handlers, certs, tasks, worker, nginx
<1> QED BY <1>1, <1>2, <1>3, <1>4, <1>5, <1>6, <1>7, <1>8, <1>9, <1>10, <1>11 DEF Worker

\* Every step keeps the types.
LEMMA NextType == ASSUME TypeOK, KeyInv, SeenInv, [Next]_vars PROVE TypeOK'
<1>1. CASE UNCHANGED vars
  BY <1>1 DEF vars, TypeOK, caches, notices, handlers, certs, tasks, worker, nginx, control
<1> QED BY <1>1, ClusterType, HandleType, WorkerType DEF Next, Gateway

-----------------------------------------------------------------------------
\* The handler that moves on, and the others.
LEMMA GotoIs ==
    ASSUME TypeOK, NEW h \in Handlers, NEW p, Goto(h, p)
    PROVE  hpc'[h] = p /\ \A g \in Handlers \ {h} : hpc'[g] = hpc[g]
BY DEF TypeOK, Goto

LEMMA ReturnIs ==
    ASSUME TypeOK, NEW h \in Handlers, Return(h)
    PROVE  /\ hpc'[h] = IF h = "ip" THEN "next" ELSE "idle"
           /\ \A g \in Handlers \ {h} : hpc'[g] = hpc[g] /\ hkey'[g] = hkey[g] /\ hcert'[g] = hcert[g]
BY DEF TypeOK, Goto, Return

LEMMA HandlerNames == "ing" \in Handlers /\ "sec" \in Handlers /\ "ip" \in Handlers
BY DEF Handlers

\* A step of one handler keeps what the handlers know of their keys.
LEMMA KeyKept ==
    ASSUME KeyInv, NEW h \in Handlers, secretMap \subseteq secretMap',
           \A k \in Keys : sslStore'[k] = sslStore[k] \/ sslStore'[k] = None \/ k \in secretMap',
           \A g \in Handlers \ {h} : hpc'[g] = hpc[g] /\ hkey'[g] = hkey[g],
           hpc'[h] \in {"refs", "refsGone", "read", "write", "add", "push"} => hkey'[h] \in Keys,
           hpc'[h] \in {"read", "write", "add"} => hkey'[h] \in secretMap'
    PROVE  KeyInv'
BY DEF KeyInv

LEMMA KeyStep == ASSUME TypeOK, KeyInv, [Next]_vars PROVE KeyInv'
<1> USE HandlerNames
<1>0. ASSUME UNCHANGED <<hpc, hkey, sslStore, secretMap>> PROVE KeyInv'
  BY <1>0 DEF KeyInv
<1>1. CASE IngHandle
  <2> DEFINE n == Head(ingQ)
  <2>1. n \in [key : Keys, rule : Rules \cup {None}]
    BY <1>1, TailType DEF TypeOK, IngHandle
  <2>2. /\ hkey' = [hkey EXCEPT !["ing"] = n.key] /\ secretMap \subseteq secretMap' /\ sslStore' = sslStore
        /\ Goto("ing", IF n.rule # None /\ n.key \in secretMap' THEN "read" ELSE "push")
    BY <1>1 DEF IngHandle
  <2>3. hkey'["ing"] \in Keys /\ hkey'["ing"] = n.key /\ \A g \in Handlers \ {"ing"} : hkey'[g] = hkey[g]
    BY <2>1, <2>2 DEF TypeOK
  <2>4. /\ hpc'["ing"] = IF n.rule # None /\ n.key \in secretMap' THEN "read" ELSE "push"
        /\ \A g \in Handlers \ {"ing"} : hpc'[g] = hpc[g]
    BY <2>2, GotoIs
  <2> HIDE DEF n
  <2> QED BY <2>2, <2>3, <2>4, KeyKept
<1>2. CASE SecHandle
  <2> DEFINE n == Head(secQ)
  <2>1. n \in [key : Keys, gone : BOOLEAN]
    BY <1>2, TailType DEF TypeOK, SecHandle
  <2>2. /\ hkey' = [hkey EXCEPT !["sec"] = n.key] /\ secretMap' = secretMap
        /\ Goto("sec", IF n.gone THEN "refsGone" ELSE "refs")
        /\ sslStore' = IF n.gone THEN [sslStore EXCEPT ![n.key] = None] ELSE sslStore
    BY <1>2 DEF SecHandle
  <2>3. hkey'["sec"] \in Keys /\ \A g \in Handlers \ {"sec"} : hkey'[g] = hkey[g]
    BY <2>1, <2>2 DEF TypeOK
  <2>4. hpc'["sec"] \in {"refs", "refsGone"} /\ \A g \in Handlers \ {"sec"} : hpc'[g] = hpc[g]
    BY <2>2, GotoIs
  <2>5. \A k \in Keys : sslStore'[k] = sslStore[k] \/ sslStore'[k] = None
    BY <2>1, <2>2 DEF TypeOK
  <2> QED BY <2>2, <2>3, <2>4, <2>5, KeyKept
<1>3. CASE SecRefs
  <2>1. UNCHANGED <<sslStore, secretMap>> /\ hkey["sec"] \in Keys
    BY <1>3 DEF SecRefs, certs, KeyInv
  <2>2. CASE Return("sec")
    BY <2>1, <2>2, ReturnIs, KeyKept
  <2>3. CASE hkey["sec"] \in secretMap /\ UNCHANGED <<hkey, hcert>>
             /\ Goto("sec", IF hpc["sec"] = "refs" /\ ing[hkey["sec"]] # None THEN "read" ELSE "push")
    BY <2>1, <2>3, GotoIs, KeyKept
  <2> QED BY <1>3, <2>2, <2>3 DEF SecRefs
<1>4. CASE IpHandle
  BY <1>4, GotoIs, KeyKept DEF IpHandle, certs
<1>5. CASE IpNext
  <2>1. UNCHANGED <<sslStore, secretMap>>
    BY <1>5 DEF IpNext, certs
  <2>2. CASE Goto("ip", "idle") /\ UNCHANGED <<hkey, ipTodo>>
    BY <2>1, <2>2, GotoIs, KeyKept
  <2>3. ASSUME NEW k \in ipTodo, hkey' = [hkey EXCEPT !["ip"] = k],
               Goto("ip", IF k \in secretMap THEN "read" ELSE "push")
        PROVE  KeyInv'
    <3>1. k \in Keys /\ hkey'["ip"] = k /\ \A g \in Handlers \ {"ip"} : hkey'[g] = hkey[g]
      BY <2>3 DEF TypeOK
    <3> QED BY <2>1, <2>3, <3>1, GotoIs, KeyKept
  <2> QED BY <1>5, <2>2, <2>3 DEF IpNext
<1>6. ASSUME NEW h \in Handlers, SyncSecretRead(h) PROVE KeyInv'
  <2>1. /\ UNCHANGED <<hkey, sslStore, secretMap>> /\ hkey[h] \in Keys /\ hkey[h] \in secretMap
        /\ Goto(h, IF sec[hkey[h]] = None THEN "push" ELSE "write")
    BY <1>6 DEF SyncSecretRead, certs, KeyInv
  <2> QED BY <2>1, GotoIs, KeyKept
<1>7. ASSUME NEW h \in Handlers, SyncSecretDelete(h) \/ SyncSecretAdd(h) PROVE KeyInv'
  <2>1. /\ UNCHANGED <<hkey, secretMap>> /\ hkey[h] \in Keys /\ hkey[h] \in secretMap
        /\ Goto(h, "add") \/ Goto(h, "push")
        /\ \E c : sslStore' = [sslStore EXCEPT ![hkey[h]] = c]
    BY <1>7 DEF SyncSecretDelete, SyncSecretAdd, KeyInv
  <2>2. \A k \in Keys : sslStore'[k] = sslStore[k] \/ k \in secretMap
    BY <2>1 DEF TypeOK
  <2> QED BY <2>1, <2>2, GotoIs, KeyKept
<1>8. ASSUME NEW h \in Handlers, PushEvent(h) PROVE KeyInv'
  <2>1. UNCHANGED <<sslStore, secretMap>> /\ Return(h)
    BY <1>8 DEF PushEvent, certs
  <2> QED BY <2>1, ReturnIs, KeyKept
<1>9. CASE Cluster
  BY <1>0, <1>9 DEF Cluster, IngressChange, SecretChange, EndpointChange, LoopCheckIPs, handlers, certs
<1>10. CASE EpHandle \/ HandleEvent \/ Shutdown \/ Close \/ UNCHANGED vars
  BY <1>0, <1>10 DEF EpHandle, HandleEvent, Shutdown, Close, vars, handlers, certs
<1>11. CASE Worker
  BY <1>0, <1>11 DEF Worker, Get, ListIngresses, ListVirtualService, ListPool, UpdatePools, Persist,
                     WorkerQuits, handlers, certs
<1> QED BY <1>1, <1>2, <1>3, <1>4, <1>5, <1>6, <1>7, <1>8, <1>9, <1>10, <1>11 DEF Next, Gateway, Handle

\* Everything but the worker and Close leaves the worker, nginx and the clock.
LEMMA WorkerLeft ==
    ASSUME Cluster \/ (\E h \in Handlers : Handle(h)) \/ EpHandle \/ HandleEvent
    PROVE  UNCHANGED <<worker, nginx, lastSync, now, control>>
BY DEF Cluster, Handle, IngressChange, SecretChange, EndpointChange, LoopCheckIPs, IngHandle, SecHandle,
       SecRefs, IpHandle, IpNext, SyncSecretRead, SyncSecretDelete, SyncSecretAdd, PushEvent, EpHandle, HandleEvent,
       worker, nginx, tasks, control

LEMMA ClockStep == ASSUME TypeOK, ClockInv, SeenInv, [Next]_vars PROVE ClockInv' /\ SeenInv'
<1>1. CASE Cluster \/ (\E h \in Handlers : Handle(h)) \/ EpHandle \/ HandleEvent
  BY <1>1, WorkerLeft DEF ClockInv, SeenInv, worker, control
<1>2. CASE Get
  <2>1. now' >= now /\ lastSync' = lastSync /\ UNCHANGED control /\ (ts' = ts \/ ts' = now')
    BY <1>2 DEF Get, Tick, TypeOK
  <2>2. now \in Nat /\ now' \in Nat /\ lastSync \in Nat /\ ts \in Nat
    BY <1>2 DEF Get, Tick, TypeOK
  <2>3. pc' # "valid"
    BY <1>2 DEF Get
  <2> QED BY <2>1, <2>2, <2>3 DEF ClockInv, SeenInv, control
<1>3. CASE ListIngresses
  <2>1. now' = now /\ UNCHANGED control
    BY <1>3 DEF ListIngresses
  <2>2. CASE Synced
    BY <2>1, <2>2 DEF Synced, ClockInv, SeenInv, TypeOK, control
  <2>3. CASE pc' = "valid" /\ seen' = ing /\ UNCHANGED <<lastSync, ts, vs, pools>>
    BY <2>1, <2>3 DEF ClockInv, SeenInv, TypeOK, control
  <2> QED BY <1>3, <2>2, <2>3 DEF ListIngresses
<1>4. CASE Persist
  BY <1>4 DEF Persist, Synced, ClockInv, SeenInv, TypeOK, control
<1>5. CASE ListVirtualService \/ ListPool \/ UpdatePools \/ WorkerQuits
  BY <1>5 DEF ListVirtualService, ListPool, UpdatePools, WorkerQuits, ClockInv, SeenInv, tasks, control
<1>6. CASE Shutdown \/ Close
  BY <1>6 DEF Shutdown, Close, ClockInv, SeenInv, tasks, worker
<1>7. CASE UNCHANGED vars
  BY <1>7 DEF vars, ClockInv, SeenInv, tasks, worker, control
<1> QED BY <1>1, <1>2, <1>3, <1>4, <1>5, <1>6, <1>7 DEF Next, Gateway, Worker

\* The virtual services are finitely many.
LEMMA ServersFinite == ASSUME NEW i, NEW up PROVE IsFiniteSet(ServersAt(i, up))
<1> DEFINE K == {k \in Keys : i[k] # None /\ ep[ServiceOf[k]] \in Addrs /\ (i[k].hosted => up)}
           f == [k \in K |-> [key |-> k, rule |-> i[k], cert |-> IF i[k].tls THEN sslStore[k] ELSE None]]
<1>1. IsFiniteSet(K)
  BY Constants, FS_Subset
<1>2. f \in Surjection(K, ServersAt(i, up))
  <2>1. \A S : S = ServersAt(i, up) => f \in [K -> S] /\ \A x \in S : \E k \in K : f[k] = x
    BY DEF ServersAt
  <2> HIDE DEF f
  <2> QED BY <2>1 DEF Surjection
<1> HIDE DEF K, f
<1> QED BY <1>1, <1>2, FS_Surjection

\* Config.Equals looks one way only; that is enough if no two servers of the
\* first configuration are alike.
LEMMA OneWayIsEnough ==
    ASSUME NEW S, NEW T, IsFiniteSet(T), Cardinality(S) = Cardinality(T),
           \A v \in S : \E w \in T : Alike(v, w),
           \A v, w \in S : Alike(v, w) => v = w
    PROVE  Matches(S, T)
<1> DEFINE f == [v \in S |-> CHOOSE w \in T : Alike(v, w)]
<1>1. f \in [S -> T] /\ \A v \in S : Alike(v, f[v])
  OBVIOUS
<1> HIDE DEF f
<1>2. \A v, w, x : Alike(v, x) /\ Alike(w, x) => Alike(v, w)
  BY DEF Alike
<1>3. f \in Injection(S, T)
  BY <1>1, <1>2 DEF Injection, IsInjective
<1>4. f \in Surjection(S, T)
  BY <1>3, FS_Injection
<1> QED BY <1>1, <1>4 DEF Matches, Surjection

\* A set matches itself.
LEMMA MatchesItself == \A S : Matches(S, S)
BY DEF Matches, Alike

\* Of what nginx accepts no two servers are alike.
LEMMA NoneAlike ==
    ASSUME NEW d, Accepts(d), NEW k \in Kinds, d[k] \in SUBSET Server, OfKind(d[k], k) = d[k]
    PROVE  \A v, w \in d[k] : Alike(v, w) => v = w
<1>1. CASE k = "l4"
  <2>1. d["l4"] # None
    BY <1>1, GatewayAssumption
  <2> QED BY <1>1, <2>1 DEF Accepts, Alike
<1>2. CASE k = "l7"
  <2> SUFFICES ASSUME NEW v \in d[k], NEW w \in d[k], Alike(v, w) PROVE v = w
    OBVIOUS
  <2>1. v.rule.kind = "l7"
    BY <1>2 DEF OfKind
  <2>2. v.key = w.key /\ v.rule = w.rule /\ v.cert = w.cert
    BY <2>1 DEF Alike
  <2> QED BY <2>2 DEF Server
<1> QED BY <1>1, <1>2 DEF Kinds

\* What Persist leaves in nginx is what rcfg says, and what the caches asked for,
\* or nginx refused it.
LEMMA PersistLoads ==
    ASSUME TypeOK, FiniteInv, RcfgInv, Persist
    PROVE  /\ RcfgInv'
           /\ \A k \in Kinds :
                \/ Matches(running'[k], OfKind(vs, k))
                \/ k \in cfgFailed' /\ \E c \in refused' : Equals(c, Config(vs))
           /\ running' = running \/ \A k \in Kinds : k \in cfgFailed' \/ running'[k] = OfKind(vs, k)
<1> DEFINE cfg == Config(vs)
           files == WriteServer(WriteServer(disk, "l7", cfg["l7"]), "l4", cfg["l4"])
<1>1. \A k \in Kinds : cfg[k] = OfKind(vs, k) /\ OfKind(cfg[k], k) = cfg[k] /\ cfg[k] \in SUBSET Server
  BY DEF Config, OfKind, TypeOK
<1>2. cfg # None /\ cfg \in [Kinds -> SUBSET Server]
  <2>1. cfg \in [Kinds -> SUBSET Server]
    BY KindType DEF TypeOK, Config
  <2> QED BY <2>1, Constants
<1>3. \A k \in Kinds : IsFiniteSet(cfg[k])
  <2>1. \A k \in Kinds : cfg[k] \in SUBSET vs
    BY <1>1 DEF OfKind
  <2> QED BY <2>1, FS_Subset DEF FiniteInv
<1>4. Equals(cfg, cfg)
  BY DEF Equals, Alike
<1>5. CASE rcfg # None /\ Equals(rcfg, cfg) /\ UNCHANGED <<rcfg, running, cfgFailed, refused>>
  <2>1. RcfgInv'
    BY <1>5 DEF RcfgInv, Accepts, OfKind
  <2>2. ASSUME NEW k \in Kinds, running[k] = rcfg[k] PROVE Matches(running[k], OfKind(vs, k))
    <3>1. \A v, w \in rcfg[k] : Alike(v, w) => v = w
      <4>1. OfKind(rcfg[k], k) = rcfg[k] /\ rcfg[k] \in SUBSET Server /\ Accepts(running)
        BY <1>5 DEF RcfgInv, TypeOK
      <4>2. running[k] \in SUBSET Server /\ OfKind(running[k], k) = running[k]
        BY <2>2, <4>1
      <4>3. \A v, w \in running[k] : Alike(v, w) => v = w
        BY <4>1, <4>2, NoneAlike
      <4> QED BY <2>2, <4>3
    <3>2. /\ Cardinality(rcfg[k]) = Cardinality(cfg[k])
          /\ \A v \in rcfg[k] : \E w \in cfg[k] : Alike(v, w)
      BY <1>5 DEF Equals
    <3>3. IsFiniteSet(cfg[k])
      BY <1>3
    <3> HIDE DEF cfg
    <3> QED BY <1>1, <2>2, <3>1, <3>2, <3>3, OneWayIsEnough
  <2>3. CASE rcfg = running
    BY <1>5, <2>1, <2>2, <2>3
  <2>4. CASE rcfg \in refused
    <3>1. \A k \in Kinds : k \in cfgFailed \/ running[k] = rcfg[k]
      BY <1>5 DEF RcfgInv
    <3> QED BY <1>5, <2>1, <2>2, <2>4, <3>1
  <2> QED BY <1>5, <2>3, <2>4 DEF RcfgInv
<1>6. CASE /\ Accepts(files) /\ running' = files /\ rcfg' = cfg
           /\ cfgFailed' = {k \in Kinds : files[k] # cfg[k]}
           /\ refused' = IF files = cfg THEN {} ELSE refused \cup {cfg}
  <2> HIDE DEF cfg, files
  <2>1. Accepts(running)'
    BY <1>6 DEF Accepts
  <2>2. RcfgInv'
    BY <1>1, <1>6, <2>1 DEF RcfgInv, OfKind
  <2>3. \A k \in Kinds : running'[k] = cfg[k] \/ (k \in cfgFailed' /\ cfg \in refused')
    BY <1>6
  <2>4. \A k \in Kinds : \/ Matches(running'[k], OfKind(vs, k))
                         \/ k \in cfgFailed' /\ \E c \in refused' : Equals(c, cfg)
    BY <1>1, <1>4, <2>3, MatchesItself
  <2> QED BY <1>1, <2>2, <2>3, <2>4 DEF cfg
<1>7. CASE cfgFailed' = Kinds /\ refused' = refused \cup {cfg} /\ UNCHANGED <<rcfg, running>>
  <2> HIDE DEF cfg
  <2>1. RcfgInv'
    BY <1>7 DEF RcfgInv, Accepts, OfKind
  <2>2. \A k \in Kinds : k \in cfgFailed' /\ \E c \in refused' : Equals(c, cfg)
    BY <1>4, <1>7
  <2> QED BY <1>7, <2>1, <2>2 DEF cfg
<1> QED BY <1>5, <1>6, <1>7 DEF Persist

\* The worker keeps the configurations finite.
LEMMA FiniteStep == ASSUME TypeOK, FiniteInv, [Next]_vars PROVE FiniteInv'
<1>1. CASE Cluster \/ (\E h \in Handlers : Handle(h)) \/ EpHandle \/ HandleEvent
  BY <1>1, WorkerLeft DEF FiniteInv, worker, nginx
<1>2. CASE Get \/ ListPool \/ UpdatePools \/ WorkerQuits
  BY <1>2 DEF Get, ListPool, UpdatePools, WorkerQuits, FiniteInv, nginx
<1>3. CASE Shutdown \/ Close \/ UNCHANGED vars
  BY <1>3 DEF Shutdown, Close, vars, FiniteInv, worker, nginx
<1>4. CASE ListIngresses
  BY <1>4, FS_EmptySet DEF ListIngresses, Synced, FiniteInv, nginx
<1>5. CASE ListVirtualService
  <2>1. IsFiniteSet(vs') /\ rcfg' = rcfg
    BY <1>5, ServersHere, ServersFinite DEF ListVirtualService, nginx
  <2> QED BY <2>1 DEF FiniteInv
<1>6. CASE Persist
  <2>1. vs' = {} /\ (rcfg' = rcfg \/ rcfg' = Config(vs))
    BY <1>6 DEF Persist, Synced
  <2>2. \A k \in Kinds : IsFiniteSet(Config(vs)[k])
    <3>1. \A k \in Kinds : Config(vs)[k] \in SUBSET vs
      BY DEF Config, OfKind
    <3> QED BY <3>1, FS_Subset DEF FiniteInv
  <2> QED BY <2>1, <2>2, FS_EmptySet DEF FiniteInv
<1> QED BY <1>1, <1>2, <1>3, <1>4, <1>5, <1>6 DEF Next, Gateway, Worker

LEMMA RcfgStep == ASSUME TypeOK, FiniteInv, RcfgInv, [Next]_vars PROVE RcfgInv'
<1>0. ASSUME UNCHANGED <<rcfg, cfgFailed, running, refused>> PROVE RcfgInv'
  BY <1>0 DEF RcfgInv, Accepts, OfKind
<1>1. CASE Cluster \/ (\E h \in Handlers : Handle(h)) \/ EpHandle \/ HandleEvent
  BY <1>0, <1>1, WorkerLeft DEF nginx
<1>2. CASE Get \/ ListIngresses \/ ListVirtualService \/ ListPool \/ UpdatePools \/ WorkerQuits
  BY <1>0, <1>2 DEF Get, ListIngresses, ListVirtualService, ListPool, UpdatePools, WorkerQuits, nginx
<1>3. CASE Shutdown \/ Close \/ UNCHANGED vars
  BY <1>0, <1>3 DEF Shutdown, Close, vars, nginx
<1> QED BY <1>1, <1>2, <1>3, PersistLoads DEF Next, Gateway, Worker

-----------------------------------------------------------------------------
\* The caches ask for the same servers and pools as before.
Same ==
    /\ UNCHANGED <<ing, ep, sslStore>>
    /\ \A up \in BOOLEAN : Up(up) =>
          \E w \in BOOLEAN : Up(w)' /\ ServersAt(ing, w) = ServersAt(ing, up)

\* Nothing that Due and the servers depend on but secQ, sec and the history.
LEMMA StillSame ==
    ASSUME UNCHANGED <<ing, ep, sslStore, hostUp, ipQ>>
    PROVE  Same
BY DEF Same, Up

\* While the gateway is open every step of the cluster, of the handlers and of
\* handleEvent keeps a due event due, and makes one due when it changes what the
\* caches ask for.
LEMMA EnvDue ==
    ASSUME TypeOK, TypeOK', KeyInv, ClockInv, ~shutting, NEW t \in Nat, t <= now,
           Cluster \/ (\E h \in Handlers : Handle(h)) \/ EpHandle \/ HandleEvent
    PROVE  Due(t)' \/ (~Due(t) /\ Same)
<1> USE HandlerNames
<1>1. ASSUME NEW k \in Keys, IngressChange(k) PROVE Due(t)'
  <2>1. PICK r \in Rules \cup {None} : ingQ' = Append(ingQ, [key |-> k, rule |-> r])
    BY <1>1 DEF IngressChange
  <2>2. ingQ' # <<>>
    <3>1. [key |-> k, rule |-> r] \in [key : Keys, rule : Rules \cup {None}]
      OBVIOUS
    <3>2. ingQ \in Seq([key : Keys, rule : Rules \cup {None}])
      BY DEF TypeOK
    <3>3. Append(ingQ, [key |-> k, rule |-> r]) # <<>>
      BY <3>1, <3>2, AppendType
    <3> QED BY <2>1, <3>3
  <2> QED BY <2>2 DEF Due
<1>2. ASSUME NEW s \in Services, EndpointChange(s) PROVE Due(t)'
  BY <1>2 DEF EndpointChange, Due, TypeOK
<1>3. ASSUME NEW k \in Keys, SecretChange(k) PROVE (Due(t) <=> Due(t)') /\ Same
  <2>1. UNCHANGED <<ing, ep, hostUp, ingQ, epQ, ipQ, hpc, hkey, ipTodo, secretMap, sslStore, ring, queue>>
    BY <1>3 DEF SecretChange, handlers, certs, tasks
  <2> QED BY <2>1, StillSame DEF Due
<1>4. CASE LoopCheckIPs
  <2>1. UNCHANGED <<ing, ep, ingQ, epQ, hpc, hkey, ipTodo, secretMap, sslStore, ring, queue>>
    BY <1>4 DEF LoopCheckIPs, handlers, certs, tasks
  <2>2. ipQ' > 0
    BY <1>4 DEF LoopCheckIPs, TypeOK
  <2>3. Same
    BY <2>1, <2>2 DEF Same, Up
  <2> QED BY <2>1, <2>3 DEF Due
<1>5. CASE IngHandle
  <2>1. hpc'["ing"] \in {"read", "push"}
    BY <1>5, GotoIs DEF IngHandle
  <2> QED BY <2>1 DEF Due
<1>6. CASE SecHandle
  <2> DEFINE n == Head(secQ)
  <2>1. n \in [key : Keys, gone : BOOLEAN]
    BY <1>6, TailType DEF TypeOK, SecHandle
  <2>2. /\ hpc["sec"] = "idle" /\ hkey' = [hkey EXCEPT !["sec"] = n.key]
        /\ Goto("sec", IF n.gone THEN "refsGone" ELSE "refs")
        /\ sslStore' = IF n.gone THEN [sslStore EXCEPT ![n.key] = None] ELSE sslStore
        /\ UNCHANGED <<ing, ep, hostUp, ingQ, epQ, ipQ, ipTodo, secretMap, ring, queue>>
    BY <1>6 DEF SecHandle, caches, tasks
  <2>3. hkey'["sec"] = n.key /\ \A g \in Handlers \ {"sec"} : hkey'[g] = hkey[g]
    BY <2>1, <2>2 DEF TypeOK
  <2>4. hpc'["sec"] \in {"refs", "refsGone"} /\ \A g \in Handlers \ {"sec"} : hpc'[g] = hpc[g]
    BY <2>2, GotoIs
  <2>5. CASE n.key \in secretMap
    BY <2>2, <2>3, <2>4, <2>5 DEF Due
  <2>6. CASE n.key \notin secretMap
    <3>1. sslStore[n.key] = None
      BY <2>1, <2>6 DEF KeyInv
    <3>2. sslStore' = sslStore
      BY <2>1, <2>2, <3>1 DEF TypeOK
    <3>3. Due(t) => Due(t)'
      BY <2>2, <2>4 DEF Due, Handlers
    <3> QED BY <2>2, <3>2, <3>3, StillSame
  <2> QED BY <2>5, <2>6
<1>7. CASE SecRefs
  <2>1. UNCHANGED <<ing, ep, sslStore, hostUp, ingQ, epQ, ipQ, ipTodo, secretMap, ring, queue>>
        /\ hpc["sec"] \in {"refs", "refsGone"}
    BY <1>7 DEF SecRefs, caches, notices, certs, tasks
  <2>2. CASE hkey["sec"] \notin secretMap /\ Return("sec")
    <3>1. \A g \in Handlers \ {"sec"} : hpc'[g] = hpc[g]
      BY <2>2, ReturnIs
    <3>2. Due(t) => Due(t)'
      BY <2>1, <2>2, <3>1 DEF Due, Handlers
    <3> QED BY <2>1, <3>2, StillSame
  <2>3. CASE Goto("sec", IF hpc["sec"] = "refs" /\ ing[hkey["sec"]] # None THEN "read" ELSE "push")
    <3>1. hpc'["sec"] \in {"read", "push"}
      BY <2>3, GotoIs
    <3> QED BY <3>1 DEF Due
  <2> QED BY <1>7, <2>2, <2>3 DEF SecRefs
<1>8. CASE IpHandle
  <2>1. /\ UNCHANGED <<ing, ep, sslStore, hostUp, ingQ, epQ, hkey, secretMap, ring, queue>>
        /\ hpc["ip"] = "idle" /\ Goto("ip", "next")
        /\ ipTodo' = {k \in Keys : ing[k] # None /\ ing[k].hosted}
    BY <1>8 DEF IpHandle, caches, certs, tasks
  <2>2. hpc'["ip"] = "next" /\ \A g \in Handlers \ {"ip"} : hpc'[g] = hpc[g]
    BY <2>1, GotoIs
  <2>3. CASE ipTodo' # {}
    BY <2>2, <2>3 DEF Due
  <2>4. CASE ipTodo' = {}
    <3>1. \A k \in Keys : ing[k] # None => ~ing[k].hosted
      BY <2>1, <2>4
    <3>2. \A up, w \in BOOLEAN : ServersAt(ing, w) = ServersAt(ing, up)
      BY <3>1 DEF ServersAt
    <3>3. hostUp' \in BOOLEAN /\ Up(hostUp)'
      BY <2>1 DEF Up, TypeOK
    <3>4. Same
      BY <2>1, <3>2, <3>3 DEF Same, Up, TypeOK
    <3>5. Due(t) => Due(t)'
      BY <2>1, <2>2 DEF Due, Handlers
    <3> QED BY <3>4, <3>5
  <2> QED BY <2>3, <2>4
<1>9. CASE IpNext
  <2>1. UNCHANGED <<ing, ep, sslStore, hostUp, ingQ, epQ, ipQ, secretMap, ring, queue>>
    BY <1>9 DEF IpNext, caches, notices, certs, tasks
  <2>2. CASE ipTodo = {} /\ Goto("ip", "idle") /\ UNCHANGED <<hkey, ipTodo>>
    <3>1. \A g \in Handlers \ {"ip"} : hpc'[g] = hpc[g]
      BY <2>2, GotoIs
    <3>2. Due(t) => Due(t)'
      BY <1>9, <2>1, <2>2, <3>1 DEF Due, Handlers, IpNext
    <3> QED BY <2>1, <3>2, StillSame
  <2>3. ASSUME NEW k \in ipTodo, Goto("ip", IF k \in secretMap THEN "read" ELSE "push") PROVE Due(t)'
    <3>1. hpc'["ip"] \in {"read", "push"}
      BY <2>3, GotoIs
    <3> QED BY <3>1 DEF Due
  <2> QED BY <1>9, <2>2, <2>3 DEF IpNext
<1>10. ASSUME NEW h \in Handlers, SyncSecretRead(h) \/ SyncSecretDelete(h) \/ SyncSecretAdd(h) PROVE Due(t)'
  <2>1. hpc'[h] \in {"push", "add", "write"}
    BY <1>10, GotoIs DEF SyncSecretRead, SyncSecretDelete, SyncSecretAdd
  <2> QED BY <2>1 DEF Due
<1>11. ASSUME (\E h \in Handlers : PushEvent(h)) \/ EpHandle PROVE Due(t)'
  <2>1. ring' > 0
    BY <1>11, PushedType DEF PushEvent, EpHandle
  <2> QED BY <2>1 DEF Due
<1>12. CASE HandleEvent
  <2>1. queue' = Append(queue, now)
    BY <1>12 DEF HandleEvent, ClockInv
  <2>2. queue \in Seq(Nat) /\ now \in Nat
    BY DEF TypeOK
  <2>3. Len(queue) + 1 \in DOMAIN queue' /\ queue'[Len(queue) + 1] = now
    BY <2>1, <2>2, AppendType
  <2> QED BY <2>3 DEF Due
<1> QED BY <1>1, <1>2, <1>3, <1>4, <1>5, <1>6, <1>7, <1>8, <1>9, <1>10, <1>11, <1>12 DEF Cluster, Handle

\* If the caches ask for the same, what fitted fits, and what was sent is current.
LEMMA SameFits ==
    ASSUME Same, UNCHANGED <<nginx>>
    PROVE  \A S : /\ Fits(S) => Fits(S)'
                  /\ PoolsOf(S)' = PoolsOf(S)
                  /\ Loaded(S) => Loaded(S)'
                  /\ Sent(S) => Sent(S)'
<1>1. \A w : ServersAt(ing, w)' = ServersAt(ing, w)
  BY DEF Same, ServersAt
<1>2. \A S : Fits(S) => Fits(S)'
  BY <1>1 DEF Same, Fits
<1>3. \A S : PoolsOf(S)' = PoolsOf(S)
  BY DEF Same, PoolsOf
<1>4. \A S : Loaded(S) => Loaded(S)'
  BY DEF Loaded, nginx, Matches, Alike, Equals, Config, OfKind
<1>5. \A S, k : OfKind(PoolsOf(S), k)' = OfKind(PoolsOf(S), k)
  BY <1>3 DEF OfKind
<1>6. \A S : Sent(S) => Sent(S)'
  BY <1>5 DEF Sent, nginx
<1> QED BY <1>2, <1>3, <1>4, <1>6

LEMMA EnvSync ==
    ASSUME TypeOK, TypeOK', KeyInv, ClockInv, SyncInv,
           Cluster \/ (\E h \in Handlers : Handle(h)) \/ EpHandle \/ HandleEvent
    PROVE  SyncInv'
<1>1. UNCHANGED <<pc, ts, seen, vs, pools, nginx, lastSync, shutting>>
  BY WorkerLeft DEF worker, control
<1>2. CASE shutting
  BY <1>1, <1>2 DEF SyncInv
<1>3. CASE ~shutting
  <2>1. ts \in Nat /\ lastSync \in Nat /\ ts <= now /\ lastSync <= now
    BY DEF TypeOK, ClockInv
  <2>2. Due(lastSync)' \/ (~Due(lastSync) /\ Same)
    <3>1. PICK t \in Nat : t = lastSync
      BY <2>1
    <3>2. Due(t)' \/ (~Due(t) /\ Same)
      BY <1>3, <2>1, <3>1, EnvDue
    <3> QED BY <3>1, <3>2, <1>1 DEF Due
  <2>3. Due(ts)' \/ (~Due(ts) /\ Same)
    <3>1. PICK t \in Nat : t = ts
      BY <2>1
    <3>2. Due(t)' \/ (~Due(t) /\ Same)
      BY <1>3, <2>1, <3>1, EnvDue
    <3> QED BY <3>1, <3>2, <1>1 DEF Due
  <2>4. pc' = "idle" => Due(lastSync)' \/ \E S \in SUBSET Server : (Fits(S) /\ Loaded(S) /\ Sent(S))'
    BY <1>1, <1>3, <2>2, SameFits DEF SyncInv
  <2>5. pc' = "valid" => Due(ts)' \/ seen' = ing'
    BY <1>1, <1>3, <2>3 DEF SyncInv, Same
  <2>6. pc' = "pools" => Due(ts)' \/ Fits(vs)'
    <3>1. CASE Same
      <4>1. Fits(vs) => \E up \in BOOLEAN : Up(up)' /\ vs = ServersAt(ing, up)'
        BY <3>1, <1>1, SameFits DEF Fits
      <4>2. Fits(vs) => Fits(vs)'
        BY <4>1, <1>1 DEF Fits
      <4> QED BY <4>2, <1>1, <1>3, <2>3 DEF SyncInv
    <3> QED BY <3>1, <2>3
  <2>7. pc' = "push" => Due(ts)' \/ (Fits(vs)' /\ pools' = PoolsOf(vs)')
    <3>1. CASE Same
      <4>1. Fits(vs) => \E up \in BOOLEAN : Up(up)' /\ vs = ServersAt(ing, up)'
        BY <3>1, <1>1, SameFits DEF Fits
      <4>2. Fits(vs) => Fits(vs)'
        BY <4>1, <1>1 DEF Fits
      <4>3. PoolsOf(vs)' = PoolsOf(vs)
        BY <3>1, <1>1 DEF Same, PoolsOf
      <4> QED BY <4>2, <4>3, <1>1, <1>3, <2>3 DEF SyncInv
    <3> QED BY <3>1, <2>3
  <2>8. pc' = "persist" => Due(ts)' \/ (Fits(vs)' /\ Sent(vs)')
    <3>1. CASE Same
      <4>1. Fits(vs) => \E up \in BOOLEAN : Up(up)' /\ vs = ServersAt(ing, up)'
        BY <3>1, <1>1, SameFits DEF Fits
      <4>2. Fits(vs) => Fits(vs)'
        BY <4>1, <1>1 DEF Fits
      <4>3. PoolsOf(vs)' = PoolsOf(vs)
        BY <3>1, <1>1 DEF Same, PoolsOf
      <4>4. Sent(vs) => Sent(vs)'
        BY <4>3, <1>1 DEF Sent, OfKind, nginx
      <4> QED BY <4>2, <4>4, <1>1, <1>3, <2>3 DEF SyncInv
    <3> QED BY <3>1, <2>3
  <2> QED BY <2>4, <2>5, <2>6, <2>7, <2>8 DEF SyncInv
<1> QED BY <1>2, <1>3

\* The worker: each step reads what is current, or an event is due.
LEMMA WorkerSync ==
    ASSUME TypeOK, TypeOK', ClockInv, FiniteInv, RcfgInv, SeenInv, SyncInv, Worker
    PROVE  SyncInv'
<1> SUFFICES ASSUME ~shutting PROVE SyncInv'
  <2>1. shutting' = shutting
    BY DEF Worker, Get, ListIngresses, ListVirtualService, ListPool, UpdatePools, Persist, WorkerQuits, control
  <2> QED BY <2>1 DEF SyncInv
<1>0. ASSUME UNCHANGED <<caches, notices, handlers, certs, ring, queue>>
      PROVE  /\ \A t : Due(t)' = Due(t)
             /\ \A w : ServersAt(ing, w)' = ServersAt(ing, w)
             /\ \A S : PoolsOf(S)' = PoolsOf(S)
             /\ \A S : Fits(S)' <=> Fits(S)
  <2>1. \A w : ServersAt(ing, w)' = ServersAt(ing, w)
    BY <1>0 DEF ServersAt, caches, certs
  <2>2. \A t : Due(t)' = Due(t)
    BY <1>0 DEF Due, notices, handlers, certs
  <2>3. \A S : PoolsOf(S)' = PoolsOf(S)
    BY <1>0 DEF PoolsOf, caches
  <2>4. \A S : Fits(S)' <=> Fits(S)
    BY <1>0, <2>1 DEF Fits, Up, caches, notices
  <2> QED BY <2>1, <2>2, <2>3, <2>4
<1>1. CASE Get
  <2>1. CASE pc' = "list"
    BY <2>1 DEF SyncInv
  <2>2. CASE pc' # "list"
    <3>1. /\ pc' = pc /\ pc = "idle" /\ ts' = ts /\ Skips
          /\ queue' = Tail(queue) /\ queue # <<>>
          /\ UNCHANGED <<caches, notices, handlers, certs, ring, lastSync, seen, vs, pools, nginx, control>>
      BY <1>1, <2>2 DEF Get
    <3>2. queue \in Seq(Nat) /\ Head(queue) = queue[1] /\ Head(queue) \in Nat /\ lastSync \in Nat
      BY <3>1, TailType DEF TypeOK
    <3>3. (\E n \in DOMAIN queue : queue[n] >= lastSync) => \E n \in DOMAIN queue' : queue'[n] >= lastSync
      <4> SUFFICES ASSUME NEW n \in DOMAIN queue, queue[n] >= lastSync
                   PROVE  \E m \in DOMAIN queue' : queue'[m] >= lastSync
        OBVIOUS
      <4>1. n # 1
        BY <3>1, <3>2 DEF Skips
      <4>2. n - 1 \in DOMAIN queue' /\ queue'[n - 1] = queue[n]
        BY <3>1, <3>2, <4>1, TailType
      <4> QED BY <4>2
    <3>4. Due(lastSync) => Due(lastSync)'
      BY <3>1, <3>3 DEF Due, notices, handlers, certs
    <3>5. Same
      BY <3>1, StillSame DEF caches, notices, certs
    <3>6. (\E S \in SUBSET Server : Fits(S) /\ Loaded(S) /\ Sent(S))
            => \E S \in SUBSET Server : (Fits(S) /\ Loaded(S) /\ Sent(S))'
      BY <3>1, <3>5, SameFits
    <3> QED BY <3>1, <3>4, <3>6 DEF SyncInv
  <2> QED BY <2>1, <2>2
<1>2. CASE ListIngresses
  <2>1. ~qdown
    BY DEF ClockInv
  <2>2. pc' = "valid" /\ seen' = ing /\ ing' = ing
    BY <1>2, <2>1 DEF ListIngresses, caches
  <2> QED BY <2>2 DEF SyncInv
<1>3. CASE ListVirtualService
  <2>1. /\ pc = "valid" /\ pc' = "pools" /\ vs' = ServersAt(seen, hostUp) /\ ts' = ts
        /\ UNCHANGED <<caches, notices, handlers, certs, ring, queue>>
    BY <1>3, ServersHere DEF ListVirtualService, tasks
  <2>2. CASE Due(ts)
    <3>1. Due(ts)'
      BY <2>1, <2>2 DEF Due, notices, handlers, certs
    <3> QED BY <2>1, <3>1 DEF SyncInv
  <2>3. CASE ~Due(ts)
    <3>1. seen = ing
      BY <2>1, <2>3 DEF SyncInv
    <3>2. vs' = ServersAt(ing, hostUp) /\ hostUp \in BOOLEAN /\ Up(hostUp)
      BY <2>1, <3>1 DEF Up, TypeOK
    <3>3. vs' = ServersAt(ing, hostUp)' /\ hostUp' \in BOOLEAN /\ Up(hostUp)'
      BY <2>1, <3>2 DEF Up, ServersAt, caches, certs
    <3>4. Fits(vs)'
      BY <3>3 DEF Fits
    <3> QED BY <2>1, <3>4 DEF SyncInv
  <2> QED BY <2>2, <2>3
<1>4. CASE ListPool
  <2>1. /\ pc = "pools" /\ pc' = "push" /\ vs' = vs /\ pools' = PoolsOf(vs) /\ ts' = ts
        /\ UNCHANGED <<caches, notices, handlers, certs, ring, queue>>
    BY <1>4 DEF ListPool, tasks
  <2>2. Due(ts)' = Due(ts)
    BY <2>1 DEF Due, notices, handlers, certs
  <2>3. PoolsOf(vs)' = PoolsOf(vs)
    BY <2>1 DEF PoolsOf, caches
  <2>4. Fits(vs)' <=> Fits(vs)
    BY <2>1, <1>0 DEF Fits, Up, caches, notices
  <2> QED BY <2>1, <2>2, <2>3, <2>4 DEF SyncInv
<1>5. CASE UpdatePools
  <2>1. /\ pc = "push" /\ pc' = "persist" /\ vs' = vs /\ ts' = ts
        /\ UNCHANGED <<caches, notices, handlers, certs, ring, queue>>
        /\ \A k \in Kinds : k \in poolFailed' \/ OfKind(pools, k) = {} \/ ngx'[k] = OfKind(pools, k)
    BY <1>5 DEF UpdatePools, tasks
  <2>2. Due(ts)' = Due(ts)
    BY <2>1 DEF Due, notices, handlers, certs
  <2>3. PoolsOf(vs)' = PoolsOf(vs)
    BY <2>1 DEF PoolsOf, caches
  <2>4. Fits(vs)' <=> Fits(vs)
    BY <2>1, <1>0 DEF Fits, Up, caches, notices
  <2>5. pools = PoolsOf(vs) => Sent(vs)'
    BY <2>1, <2>3 DEF Sent, OfKind
  <2> QED BY <2>1, <2>2, <2>4, <2>5 DEF SyncInv
<1>6. CASE Persist
  <2>1. /\ pc = "persist" /\ pc' = "idle" /\ lastSync' = ts
        /\ UNCHANGED <<caches, notices, handlers, certs, ring, queue, ngx, poolFailed>>
    BY <1>6 DEF Persist, Synced
  <2>2. Due(lastSync)' = Due(ts)
    BY <2>1 DEF Due, notices, handlers, certs
  <2>3. CASE Due(ts)
    BY <2>1, <2>2, <2>3 DEF SyncInv
  <2>4. CASE ~Due(ts)
    <3>1. PICK S \in SUBSET Server : S = vs
      BY DEF TypeOK
    <3>2. Fits(S) /\ Sent(S)
      BY <2>1, <2>4, <3>1 DEF SyncInv
    <3>3. Fits(S)' /\ PoolsOf(S)' = PoolsOf(S)
      BY <2>1, <3>2, <1>0
    <3>4. Loaded(S)'
      <4>1. \A k \in Kinds :
               \/ Matches(running'[k], OfKind(S, k))
               \/ k \in cfgFailed' /\ \E c \in refused' : Equals(c, Config(S))
        BY <1>6, <3>1, PersistLoads
      <4> QED BY <4>1 DEF Loaded, Matches, Alike, Equals, Config, OfKind
    <3>5. Sent(S)'
      BY <2>1, <3>2, <3>3 DEF Sent, OfKind
    <3> QED BY <2>1, <3>3, <3>4, <3>5 DEF SyncInv
  <2> QED BY <2>3, <2>4
<1>7. CASE WorkerQuits
  <2>1. pc' = "quit"
    BY <1>7 DEF WorkerQuits
  <2> QED BY <2>1 DEF SyncInv
<1> QED BY <1>1, <1>2, <1>3, <1>4, <1>5, <1>6, <1>7 DEF Worker

\* The initial state satisfies the invariant: initial-sync is queued.
LEMMA InitInv == Init => IInv
<1> SUFFICES ASSUME Init PROVE IInv
  OBVIOUS
<1>1. ClockInv /\ SeenInv /\ FiniteInv /\ RcfgInv
  <2>1. Accepts(running)
    BY DEF Init, Accepts, Kinds
  <2> QED BY <2>1, FS_EmptySet DEF Init, ClockInv, SeenInv, FiniteInv, RcfgInv
<1>2. KeyInv
  BY DEF Init, KeyInv
<1>3. pc = "idle" /\ 1 \in DOMAIN queue /\ queue[1] >= lastSync
  BY Constants DEF Init
<1>4. SyncInv
  BY <1>3 DEF SyncInv, Due
<1> QED BY <1>1, <1>2, <1>4, InitType DEF IInv

\* Every step keeps the invariant.
LEMMA NextInv == IInv /\ [Next]_vars => IInv'
<1> SUFFICES ASSUME IInv, [Next]_vars PROVE IInv'
  OBVIOUS
<1>1. TypeOK' /\ KeyInv' /\ ClockInv' /\ SeenInv' /\ FiniteInv' /\ RcfgInv'
  BY NextType, KeyStep, ClockStep, FiniteStep, RcfgStep DEF IInv
<1>2. CASE Cluster \/ (\E h \in Handlers : Handle(h)) \/ EpHandle \/ HandleEvent
  BY <1>1, <1>2, EnvSync DEF IInv
<1>3. CASE Worker
  BY <1>1, <1>3, WorkerSync DEF IInv
<1>4. CASE Close \/ Shutdown
  <2>1. shutting'
    BY <1>4 DEF Close, Shutdown
  <2> QED BY <1>1, <2>1 DEF IInv, SyncInv
<1>5. CASE UNCHANGED vars
  <2>1. /\ UNCHANGED <<ing, ep, sec, hostUp, ingQ, epQ, secQ, ipQ, hpc, hkey, hcert, ipTodo, secretMap,
                       sslStore, ring, queue, lastSync, now>>
        /\ UNCHANGED <<pc, ts, seen, vs, pools, rcfg, disk, running, ngx, cfgFailed, poolFailed, refused, shutting>>
    BY <1>5 DEF vars, caches, notices, handlers, certs, tasks, worker, nginx, control
  <2>2. SyncInv'
    <3>1. \A S : Loaded(S) => Loaded(S)'
      BY <2>1 DEF Loaded, Matches, Alike, Equals, Config, OfKind
    <3>2. \A S : Sent(S) => Sent(S)'
      BY <2>1 DEF Sent, PoolsOf, OfKind
    <3>3. \A S : Fits(S) => Fits(S)'
      BY <2>1 DEF Fits, Up, ServersAt
    <3>4. (Fits(vs) => Fits(vs)') /\ (Sent(vs) => Sent(vs)') /\ PoolsOf(vs)' = PoolsOf(vs)
      BY <2>1 DEF Fits, Up, ServersAt, Sent, PoolsOf, OfKind
    <3>5. (Due(ts) => Due(ts)') /\ (Due(lastSync) => Due(lastSync)')
      BY <2>1 DEF Due
    <3> QED BY <2>1, <3>1, <3>2, <3>3, <3>4, <3>5 DEF IInv, SyncInv
  <2> QED BY <1>1, <2>2 DEF IInv
<1>6. SyncInv'
  BY <1>2, <1>3, <1>4, <1>5 DEF Next, Gateway, IInv
<1> QED BY <1>1, <1>6 DEF IInv

\* The invariant holds in every reachable state.
THEOREM GatewayInvariant == Spec => []IInv
BY InitInv, NextInv, PTL DEF Spec

\* Types of the state of the handlers, the queue and the worker are kept.
THEOREM GatewayTypeCorrect == Spec => []TypeOK
BY GatewayInvariant, PTL DEF IInv

\* What is due is an event that is coming.
LEMMA DueComes == ASSUME NEW t, Due(t) PROVE EventComing(t)
BY HandlerNames DEF Due, EventComing

\* When the gateway is at rest nginx runs what the caches ask for.
THEOREM NoUpdateLost == Spec => []NoLostUpdate
<1>1. IInv => NoLostUpdate
  <2> SUFFICES ASSUME IInv, pc = "idle", ~EventComing(lastSync), ~shutting
               PROVE  \A k \in Kinds : ServersCurrent(k) /\ PoolsCurrent(k)
    BY DEF NoLostUpdate, Quiet
  <2>1. ~Due(lastSync) /\ ~(ipQ > 0)
    BY HandlerNames DEF Due, EventComing
  <2>2. PICK S \in SUBSET Server : Fits(S) /\ Loaded(S) /\ Sent(S)
    BY <2>1 DEF IInv, SyncInv
  <2>3. S = Servers(ing)
    BY <2>1, <2>2, ServersHere DEF Fits, Up
  <2>4. \A k \in Kinds : Wanted[k] = OfKind(S, k) /\ Wanted = Config(S)
    BY <2>3 DEF Wanted, Config
  <2> QED BY <2>2, <2>3, <2>4 DEF Loaded, Sent, ServersCurrent, PoolsCurrent
<1> QED BY <1>1, GatewayInvariant, PTL

\* A server that nginx starts to run finds its pool there, or an event is coming.
THEOREM PoolsBeforeServers == Spec => PoolBeforeServer
<1> DEFINE A == \A k \in Kinds \ (cfgFailed' \cup poolFailed') :
                  \A v \in running'[k] \ running[k] :
                     \/ \E p \in ngx'[k] : p.key = v.key /\ p.rule = v.rule
                     \/ EventComing(ts) \/ shutting
<1>1. ASSUME IInv, Persist, ~shutting, ~EventComing(ts),
             NEW k \in Kinds \ (cfgFailed' \cup poolFailed'), NEW v \in running'[k] \ running[k]
      PROVE  \E p \in ngx'[k] : p.key = v.key /\ p.rule = v.rule
  <2>1. pc = "persist" /\ ngx' = ngx /\ poolFailed' = poolFailed
    BY <1>1 DEF Persist
  <2>2. ~Due(ts)
    BY <1>1, HandlerNames DEF Due, EventComing
  <2>3. Fits(vs) /\ Sent(vs)
    BY <1>1, <2>1, <2>2 DEF IInv, SyncInv
  <2>4. v \in vs /\ v.rule.kind = k
    BY <1>1, PersistLoads DEF IInv, OfKind
  <2>5. ep[ServiceOf[v.key]] # None
    <3>1. ep[ServiceOf[v.key]] \in Addrs
      BY <2>3, <2>4 DEF Fits, ServersAt
    <3> QED BY <3>1, Constants
  <2> DEFINE p == [key |-> v.key, rule |-> v.rule, ssl |-> v.cert # None, addr |-> ep[ServiceOf[v.key]]]
  <2>6. p \in PoolsOf(vs)
    BY <2>4, <2>5 DEF PoolsOf
  <2>7. p.key = v.key /\ p.rule = v.rule
    OBVIOUS
  <2> HIDE DEF p
  <2>8. p \in OfKind(PoolsOf(vs), k)
    BY <2>4, <2>6, <2>7 DEF OfKind
  <2>9. ngx[k] = OfKind(PoolsOf(vs), k)
    BY <1>1, <2>1, <2>3, <2>8 DEF Sent
  <2> QED BY <2>1, <2>7, <2>8, <2>9
<1>2. ASSUME IInv, Next PROVE A
  <2>1. CASE Persist
    BY <1>1, <1>2, <2>1
  <2>2. CASE ~Persist
    <3>1. CASE Cluster \/ (\E h \in Handlers : Handle(h)) \/ EpHandle \/ HandleEvent
      BY <3>1, WorkerLeft DEF nginx
    <3>2. CASE Get \/ ListIngresses \/ ListVirtualService \/ ListPool \/ UpdatePools \/ WorkerQuits
      BY <3>2 DEF Get, ListIngresses, ListVirtualService, ListPool, UpdatePools, WorkerQuits, nginx
    <3>3. CASE Shutdown \/ Close
      BY <3>3 DEF Shutdown, Close, nginx
    <3> QED BY <1>2, <2>2, <3>1, <3>2, <3>3 DEF Next, Gateway, Worker
  <2> QED BY <2>1, <2>2
<1>3. IInv /\ [Next]_vars => [A]_vars
  BY <1>2
<1> QED BY <1>3, GatewayInvariant, PTL DEF Spec, PoolBeforeServer

-----------------------------------------------------------------------------
\* Changes of the secret and of the ingress k that the handlers have still to
\* see.  The last of the secret tells whether it exists.
HasSec(k) == \E i \in DOMAIN secQ : secQ[i].key = k
Pend(k) == \E i \in DOMAIN secQ :
    /\ secQ[i].key = k /\ secQ[i].gone = (sec[k] = None)
    /\ \A j \in DOMAIN secQ : j > i => secQ[j].key # k
IngPend(k) == \E i \in DOMAIN ingQ : ingQ[i].key = k /\ ingQ[i].rule = ing[k]
IngDue(k) == \E i \in DOMAIN ingQ : ingQ[i].key = k /\ ingQ[i].rule # None

At(h, k, P) == hkey[h] = k /\ hpc[h] \in P

\* The certificate of a secret whose change no handler has overtaken: a deleted
\* secret's is forgotten, what a handler is going to write is the secret's, what
\* is in use for an ingress is, and an ingress with a certificate is known to
\* name its secret; or the change is pending.
CertOf(k) ==
    /\ sec[k] = None => sslStore[k] = None \/ Pend(k)
    /\ \A h \in {"ing", "ip"} : At(h, k, {"write", "add"}) => hcert[h] = sec[k]
    /\ At("sec", k, {"write", "add"}) => hcert["sec"] = sec[k] \/ Pend(k)
    /\ k \in secretMap /\ ing[k] # None =>
          \/ sslStore[k] = sec[k] \/ Pend(k) \/ At("sec", k, {"refs", "read", "write", "add"})
          \/ IngDue(k) \/ At("ing", k, {"read", "write", "add"}) \/ At("ip", k, {"add"})
    /\ ing[k] # None /\ ing[k].tls => k \in secretMap \/ IngPend(k)

CertInv ==
    shutting \/
    /\ \A h \in Handlers : hpc[h] \in {"write", "add"} => hcert[h] # None
    /\ \A k \in Keys : (HasSec(k) => Pend(k)) /\ (k \notin raced => CertOf(k))

\* The queue of the secret after a change and after a handler has taken one.
LEMMA PendAppend ==
    ASSUME TypeOK, NEW k \in Keys, NEW c \in Certs \cup {None}, sec' = [sec EXCEPT ![k] = c],
           secQ' = Append(secQ, [key |-> k, gone |-> c = None])
    PROVE  /\ Pend(k)'
           /\ \A m \in Keys \ {k} : (HasSec(m)' => HasSec(m)) /\ (Pend(m) => Pend(m)')
<1> DEFINE e == [key |-> k, gone |-> c = None]
<1>1. e \in [key : Keys, gone : BOOLEAN] /\ e.key = k /\ e.gone = (c = None)
  <2>1. (c = None) \in BOOLEAN
    OBVIOUS
  <2> QED BY <2>1
<1>2. secQ \in Seq([key : Keys, gone : BOOLEAN])
  BY DEF TypeOK
<1> HIDE DEF e
<1>3. secQ' = Append(secQ, e)
  BY DEF e
<1>4. /\ DOMAIN secQ = 1 .. Len(secQ) /\ DOMAIN secQ' = 1 .. Len(secQ) + 1 /\ Len(secQ) \in Nat
      /\ secQ'[Len(secQ) + 1] = e
      /\ \A n \in 1 .. Len(secQ) : secQ'[n] = secQ[n]
  BY <1>1, <1>2, <1>3
<1>5. sec'[k] = c /\ \A m \in Keys \ {k} : sec'[m] = sec[m]
  BY DEF TypeOK
<1>6. Pend(k)'
  BY <1>1, <1>4, <1>5 DEF Pend
<1>7. ASSUME NEW m \in Keys \ {k} PROVE (HasSec(m)' => HasSec(m)) /\ (Pend(m) => Pend(m)')
  BY <1>1, <1>4, <1>5, <1>7 DEF Pend, HasSec
<1> QED BY <1>6, <1>7

LEMMA PendTail ==
    ASSUME TypeOK, secQ # <<>>, secQ' = Tail(secQ), sec' = sec
    PROVE  \A m \in Keys :
              /\ HasSec(m)' => HasSec(m)
              /\ Pend(m) => \/ Pend(m)'
                            \/ Head(secQ).key = m /\ Head(secQ).gone = (sec[m] = None) /\ ~HasSec(m)'
<1> SUFFICES ASSUME NEW m \in Keys
             PROVE  /\ HasSec(m)' => HasSec(m)
                    /\ Pend(m) => \/ Pend(m)'
                                  \/ Head(secQ).key = m /\ Head(secQ).gone = (sec[m] = None) /\ ~HasSec(m)'
  OBVIOUS
<1>1. secQ \in Seq([key : Keys, gone : BOOLEAN])
  BY DEF TypeOK
<1>2. /\ Head(secQ) = secQ[1]
      /\ \A n \in DOMAIN secQ : n # 1 => n - 1 \in DOMAIN secQ' /\ secQ'[n - 1] = secQ[n]
      /\ \A n \in DOMAIN secQ' : n + 1 \in DOMAIN secQ /\ secQ'[n] = secQ[n + 1]
      /\ DOMAIN secQ \subseteq Nat /\ DOMAIN secQ' \subseteq Nat \ {0}
  BY <1>1, TailType
<1>3. HasSec(m)' => HasSec(m)
  BY <1>2 DEF HasSec
<1>4. ASSUME NEW i \in DOMAIN secQ, secQ[i].key = m, secQ[i].gone = (sec[m] = None),
             \A j \in DOMAIN secQ : j > i => secQ[j].key # m
      PROVE  \/ Pend(m)'
             \/ Head(secQ).key = m /\ Head(secQ).gone = (sec[m] = None) /\ ~HasSec(m)'
  <2>1. CASE i = 1
    <3>1. \A n \in DOMAIN secQ' : secQ'[n].key # m
      <4> SUFFICES ASSUME NEW n \in DOMAIN secQ' PROVE secQ'[n].key # m
        OBVIOUS
      <4>1. n + 1 \in DOMAIN secQ /\ n + 1 > i /\ secQ'[n] = secQ[n + 1]
        BY <1>2, <2>1
      <4> QED BY <1>4, <4>1
    <3> QED BY <1>2, <1>4, <2>1, <3>1 DEF HasSec
  <2>2. CASE i # 1
    <3>1. i - 1 \in DOMAIN secQ' /\ secQ'[i - 1] = secQ[i]
      BY <1>2, <2>2
    <3>2. \A n \in DOMAIN secQ' : n > i - 1 => secQ'[n].key # m
      <4> SUFFICES ASSUME NEW n \in DOMAIN secQ', n > i - 1 PROVE secQ'[n].key # m
        OBVIOUS
      <4>1. n + 1 \in DOMAIN secQ /\ n + 1 > i /\ secQ'[n] = secQ[n + 1]
        BY <1>2
      <4> QED BY <1>4, <4>1
    <3> QED BY <1>4, <3>1, <3>2 DEF Pend
  <2> QED BY <2>1, <2>2
<1> QED BY <1>3, <1>4 DEF Pend

\* The queue of the ingress after a change and after a handler has taken one.
LEMMA IngAppend ==
    ASSUME TypeOK, NEW k \in Keys, NEW r \in Rules \cup {None}, ing' = [ing EXCEPT ![k] = r],
           ingQ' = Append(ingQ, [key |-> k, rule |-> r])
    PROVE  /\ IngPend(k)' /\ (r # None => IngDue(k)')
           /\ \A m \in Keys \ {k} : (IngPend(m) => IngPend(m)') /\ (IngDue(m) => IngDue(m)')
<1>1. [key |-> k, rule |-> r] \in [key : Keys, rule : Rules \cup {None}]
  OBVIOUS
<1>2. ingQ \in Seq([key : Keys, rule : Rules \cup {None}])
  BY DEF TypeOK
<1>3. /\ Len(ingQ) + 1 \in DOMAIN ingQ' /\ ingQ'[Len(ingQ) + 1] = [key |-> k, rule |-> r]
      /\ \A n \in DOMAIN ingQ : n \in DOMAIN ingQ' /\ ingQ'[n] = ingQ[n]
  BY <1>1, <1>2, AppendType
<1>4. ing'[k] = r /\ \A m \in Keys \ {k} : ing'[m] = ing[m]
  BY DEF TypeOK
<1>5. IngPend(k)' /\ (r # None => IngDue(k)')
  BY <1>3, <1>4 DEF IngPend, IngDue
<1>6. ASSUME NEW m \in Keys \ {k} PROVE (IngPend(m) => IngPend(m)') /\ (IngDue(m) => IngDue(m)')
  BY <1>3, <1>4, <1>6 DEF IngPend, IngDue
<1> QED BY <1>5, <1>6

LEMMA IngTail ==
    ASSUME TypeOK, ingQ # <<>>, ingQ' = Tail(ingQ), ing' = ing
    PROVE  \A m \in Keys :
              /\ IngPend(m) => IngPend(m)' \/ (Head(ingQ).key = m /\ Head(ingQ).rule = ing[m])
              /\ IngDue(m) => IngDue(m)' \/ (Head(ingQ).key = m /\ Head(ingQ).rule # None)
<1>1. ingQ \in Seq([key : Keys, rule : Rules \cup {None}])
  BY DEF TypeOK
<1>2. /\ Head(ingQ) = ingQ[1]
      /\ \A n \in DOMAIN ingQ : n # 1 => n - 1 \in DOMAIN ingQ' /\ ingQ'[n - 1] = ingQ[n]
  BY <1>1, TailType
<1>3. ASSUME NEW m \in Keys, NEW n \in DOMAIN ingQ, ingQ[n].key = m, ingQ[n].rule = ing[m]
      PROVE  IngPend(m)' \/ (Head(ingQ).key = m /\ Head(ingQ).rule = ing[m])
  BY <1>2, <1>3 DEF IngPend
<1>4. ASSUME NEW m \in Keys, NEW n \in DOMAIN ingQ, ingQ[n].key = m, ingQ[n].rule # None
      PROVE  IngDue(m)' \/ (Head(ingQ).key = m /\ Head(ingQ).rule # None)
  BY <1>2, <1>4 DEF IngDue
<1> QED BY <1>3, <1>4 DEF IngPend, IngDue

\* In the initial state every secret and every ingress has its change pending.
LEMMA InitCert == Init => CertInv
<1> SUFFICES ASSUME Init PROVE CertInv
  OBVIOUS
<1>t. TypeOK
  BY InitType
<1>1. ASSUME NEW k \in Keys, HasSec(k) PROVE Pend(k)
  <2> DEFINE S == {m \in Keys : sec[m] # None}
  <2>1. PICK s \in Orders(S) : secQ = [n \in DOMAIN s |-> [key |-> s[n], gone |-> FALSE]]
    BY DEF Init
  <2>2. IsFiniteSet(S) /\ Cardinality(S) \in Nat
    <3>1. S \in SUBSET Keys
      OBVIOUS
    <3> QED BY <3>1, Constants, FS_Subset, FS_CardinalityType
  <2>3. s \in [1 .. Cardinality(S) -> S] /\ \A x \in S : \E n \in DOMAIN s : s[n] = x
    BY DEF Orders
  <2> HIDE DEF S
  <2>4. IsFiniteSet(1 .. Cardinality(S)) /\ Cardinality(1 .. Cardinality(S)) = Cardinality(S)
    <3>1. 1 \in Int /\ Cardinality(S) \in Int
      BY <2>2
    <3> QED BY <2>2, <3>1, FS_Interval
  <2>5. s \in Surjection(1 .. Cardinality(S), S)
    BY <2>3 DEF Surjection
  <2>6. s \in Injection(1 .. Cardinality(S), S)
    BY <2>2, <2>4, <2>5, FS_SurjSameCardinalityImpliesInj
  <2>7. \A i, j \in 1 .. Cardinality(S) : s[i] = s[j] => i = j
    BY <2>6 DEF Injection, IsInjective
  <2>8. DOMAIN secQ = 1 .. Cardinality(S)
        /\ \A n \in 1 .. Cardinality(S) : secQ[n].key = s[n] /\ secQ[n].gone = FALSE
    BY <2>1, <2>3
  <2>9. PICK i \in 1 .. Cardinality(S) : s[i] = k
    BY <1>1, <2>8 DEF HasSec
  <2>10. sec[k] # None
    BY <2>3, <2>9 DEF S
  <2>11. \A j \in 1 .. Cardinality(S) : j > i => s[j] # k
    BY <2>2, <2>7, <2>9
  <2>12. (sec[k] = None) = FALSE
    BY <2>10
  <2>13. secQ[i].key = k /\ secQ[i].gone = (sec[k] = None)
    BY <2>8, <2>9, <2>12
  <2>14. \A j \in DOMAIN secQ : j > i => secQ[j].key # k
    BY <2>8, <2>11
  <2> QED BY <2>8, <2>13, <2>14 DEF Pend
<1>2. ASSUME NEW k \in Keys, ing[k] # None PROVE IngPend(k)
  <2>1. PICK s \in Orders({m \in Keys : ing[m] # None}) :
           ingQ = [n \in DOMAIN s |-> [key |-> s[n], rule |-> ing[s[n]]]]
    BY DEF Init
  <2>2. PICK n \in DOMAIN s : s[n] = k
    BY <1>2 DEF Orders
  <2> QED BY <2>1, <2>2 DEF IngPend
<1>3. /\ \A h \in Handlers : hpc[h] = "idle"
      /\ secretMap = {} /\ \A k \in Keys : sslStore[k] = None
  BY DEF Init
<1>4. ASSUME NEW k \in Keys PROVE CertOf(k)
  BY <1>2, <1>3, HandlerNames DEF CertOf, At
<1> QED BY <1>1, <1>3, <1>4 DEF CertInv

\* What a step leaves alone of the secret, the ingress and the handlers of k.
SecLeft == UNCHANGED <<sec, secQ>>
IngLeft == UNCHANGED <<ing, ingQ>>

LEMMA Left ==
    /\ SecLeft => \A k : Pend(k)' = Pend(k) /\ HasSec(k)' = HasSec(k) /\ sec'[k] = sec[k]
    /\ IngLeft => \A k : IngPend(k)' = IngPend(k) /\ IngDue(k)' = IngDue(k) /\ ing'[k] = ing[k]
BY DEF SecLeft, IngLeft, Pend, HasSec, IngPend, IngDue

\* A step of handler h leaves the others where they are.
LEMMA OthersStay ==
    ASSUME TypeOK, NEW h \in Handlers, NEW p, Goto(h, p)
    PROVE  hpc'[h] = p /\ \A g \in Handlers \ {h} : hpc'[g] = hpc[g]
BY DEF Goto, TypeOK

\* A change of a secret leaves it pending, or raced.
LEMMA CertSecretChange ==
    ASSUME IInv, CertInv, NEW k \in Keys, SecretChange(k)
    PROVE  CertInv'
<1> SUFFICES ASSUME ~shutting PROVE CertInv'
  BY DEF SecretChange, Change
<1>1. PICK c \in Certs \cup {None} : sec' = [sec EXCEPT ![k] = c] /\ secQ' = Append(secQ, [key |-> k, gone |-> c = None])
  BY DEF SecretChange
<1>2. Pend(k)' /\ \A m \in Keys \ {k} : (HasSec(m)' => HasSec(m)) /\ (Pend(m) => Pend(m)')
  BY <1>1, PendAppend DEF IInv
<1>3. \A m \in Keys \ {k} : sec'[m] = sec[m]
  BY <1>1 DEF IInv, TypeOK
<1>4. /\ UNCHANGED <<hpc, hkey, hcert, secretMap, sslStore>> /\ IngLeft
      /\ \A h \in {"ing", "ip"} : hpc[h] \in {"write", "add"} /\ hkey[h] = k => k \in raced'
      /\ raced \subseteq raced'
  BY DEF SecretChange, handlers, certs, IngLeft
<1>5. \A m : IngPend(m)' = IngPend(m) /\ IngDue(m)' = IngDue(m) /\ ing'[m] = ing[m]
  BY <1>4, Left
<1>6. ASSUME k \notin raced' PROVE CertOf(k)'
  <2>1. CertOf(k)
    BY <1>4, <1>6 DEF CertInv
  <2> QED BY <1>2, <1>4, <1>5, <1>6, <2>1 DEF CertOf, At
<1>7. ASSUME NEW m \in Keys \ {k}, m \notin raced' PROVE CertOf(m)'
  <2>1. CertOf(m)
    BY <1>4, <1>7 DEF CertInv
  <2> QED BY <1>2, <1>3, <1>4, <1>5, <2>1 DEF CertOf, At
<1>8. \A m \in Keys : HasSec(m)' => Pend(m)'
  BY <1>2 DEF CertInv
<1>9. \A h \in Handlers : hpc'[h] \in {"write", "add"} => hcert'[h] # None
  BY <1>4 DEF CertInv
<1> QED BY <1>6, <1>7, <1>8, <1>9 DEF CertInv

\* A change of an ingress leaves its handler to look at its secret.
LEMMA CertIngressChange ==
    ASSUME IInv, CertInv, NEW k \in Keys, IngressChange(k)
    PROVE  CertInv'
<1> SUFFICES ASSUME ~shutting PROVE CertInv'
  BY DEF IngressChange, Change
<1>1. PICK r \in Rules \cup {None} : ing' = [ing EXCEPT ![k] = r] /\ ingQ' = Append(ingQ, [key |-> k, rule |-> r])
  BY DEF IngressChange
<1>2. /\ IngPend(k)' /\ (r # None => IngDue(k)')
      /\ \A m \in Keys \ {k} : (IngPend(m) => IngPend(m)') /\ (IngDue(m) => IngDue(m)')
  BY <1>1, IngAppend DEF IInv
<1>3. ing'[k] = r /\ \A m \in Keys \ {k} : ing'[m] = ing[m]
  BY <1>1 DEF IInv, TypeOK
<1>4. UNCHANGED <<hpc, hkey, hcert, secretMap, sslStore, raced>> /\ SecLeft
  BY DEF IngressChange, handlers, certs, SecLeft
<1>5. \A m : Pend(m)' = Pend(m) /\ HasSec(m)' = HasSec(m) /\ sec'[m] = sec[m]
  BY <1>4, Left
<1>6. ASSUME k \notin raced PROVE CertOf(k)'
  <2>1. CertOf(k)
    BY <1>6 DEF CertInv
  <2> QED BY <1>2, <1>3, <1>4, <1>5, <2>1 DEF CertOf, At
<1>7. ASSUME NEW m \in Keys \ {k}, m \notin raced PROVE CertOf(m)'
  <2>1. CertOf(m)
    BY <1>7 DEF CertInv
  <2> QED BY <1>2, <1>3, <1>4, <1>5, <2>1 DEF CertOf, At
<1> QED BY <1>4, <1>5, <1>6, <1>7 DEF CertInv

\* The handler of an ingress enters it in the map before it looks at the secret.
LEMMA CertIngHandle ==
    ASSUME IInv, CertInv, IngHandle
    PROVE  CertInv'
<1> SUFFICES ASSUME ~shutting PROVE CertInv'
  <2>1. shutting' = shutting
    BY DEF IngHandle, control
  <2> QED BY <2>1 DEF CertInv
<1> DEFINE n == Head(ingQ)
<1>1. /\ \A m \in Keys : /\ IngPend(m) => IngPend(m)' \/ (n.key = m /\ n.rule = ing[m])
                         /\ IngDue(m) => IngDue(m)' \/ (n.key = m /\ n.rule # None)
  BY IngTail DEF IInv, IngHandle, caches
<1>2. /\ hpc["ing"] = "idle" /\ SecLeft /\ ing' = ing
      /\ UNCHANGED <<hcert, sslStore, raced>>
      /\ hkey' = [hkey EXCEPT !["ing"] = n.key]
      /\ secretMap' = secretMap \cup {k \in {n.key} : n.rule # None /\ n.rule.tls}
      /\ Goto("ing", IF n.rule # None /\ n.key \in secretMap' THEN "read" ELSE "push")
  BY DEF IngHandle, caches, SecLeft
<1> HIDE DEF n
<1>3. /\ hkey'["ing"] = n.key /\ \A g \in Handlers \ {"ing"} : hkey'[g] = hkey[g]
      /\ hpc'["ing"] = (IF n.rule # None /\ n.key \in secretMap' THEN "read" ELSE "push")
      /\ \A g \in Handlers \ {"ing"} : hpc'[g] = hpc[g]
  BY <1>2, HandlerNames, OthersStay DEF IInv, TypeOK
<1>4. \A m : Pend(m)' = Pend(m) /\ HasSec(m)' = HasSec(m) /\ sec'[m] = sec[m]
  BY <1>2, Left
<1>5. ASSUME NEW m \in Keys, m \notin raced PROVE CertOf(m)'
  <2>1. CertOf(m)
    BY <1>5 DEF CertInv
  <2>2. /\ \A P : At("sec", m, P)' = At("sec", m, P) /\ At("ip", m, P)' = At("ip", m, P)
        /\ ~At("ing", m, {"write", "add"})' /\ ~At("ing", m, {"read", "write", "add"})
    BY <1>2, <1>3, HandlerNames DEF At, Handlers
  <2>3. ing'[m] # None /\ ing'[m].tls => m \in secretMap' \/ IngPend(m)'
    BY <1>1, <1>2, <2>1 DEF CertOf
  <2>4. m \in secretMap' /\ IngDue(m) => IngDue(m)' \/ At("ing", m, {"read", "write", "add"})'
    BY <1>1, <1>2, <1>3 DEF At
  <2>5. m \in secretMap' \ secretMap => At("ing", m, {"read", "write", "add"})'
    BY <1>2, <1>3 DEF At
  <2> QED BY <1>2, <1>4, <2>1, <2>2, <2>3, <2>4, <2>5 DEF CertOf
<1>6. \A h \in Handlers : hpc'[h] \in {"write", "add"} => hcert'[h] # None
  BY <1>2, <1>3 DEF CertInv
<1> QED BY <1>2, <1>4, <1>5, <1>6 DEF CertInv

\* The handler of a secret forgets the certificate of a deleted one.
LEMMA CertSecHandle ==
    ASSUME IInv, CertInv, SecHandle
    PROVE  CertInv'
<1> SUFFICES ASSUME ~shutting PROVE CertInv'
  <2>1. shutting' = shutting
    BY DEF SecHandle, control
  <2> QED BY <2>1 DEF CertInv
<1> DEFINE n == Head(secQ)
<1>1. \A m \in Keys :
         /\ HasSec(m)' => HasSec(m)
         /\ Pend(m) => Pend(m)' \/ (n.key = m /\ n.gone = (sec[m] = None) /\ ~HasSec(m)')
  BY PendTail DEF IInv, SecHandle, caches
<1>2. /\ hpc["sec"] = "idle" /\ IngLeft /\ sec' = sec
      /\ UNCHANGED <<hcert, secretMap, raced>>
      /\ hkey' = [hkey EXCEPT !["sec"] = n.key]
      /\ sslStore' = IF n.gone THEN [sslStore EXCEPT ![n.key] = None] ELSE sslStore
      /\ Goto("sec", IF n.gone THEN "refsGone" ELSE "refs")
  BY DEF SecHandle, caches, IngLeft
<1>3. n \in [key : Keys, gone : BOOLEAN] /\ HasSec(n.key)
  <2>1. secQ \in Seq([key : Keys, gone : BOOLEAN]) /\ secQ # <<>>
    BY DEF IInv, TypeOK, SecHandle
  <2>2. n \in [key : Keys, gone : BOOLEAN] /\ 1 \in DOMAIN secQ /\ n = secQ[1]
    BY <2>1, TailType
  <2> QED BY <2>2 DEF HasSec
<1> HIDE DEF n
<1>4. /\ hkey'["sec"] = n.key /\ \A g \in Handlers \ {"sec"} : hkey'[g] = hkey[g]
      /\ hpc'["sec"] = (IF n.gone THEN "refsGone" ELSE "refs")
      /\ \A g \in Handlers \ {"sec"} : hpc'[g] = hpc[g]
  BY <1>2, HandlerNames, OthersStay DEF IInv, TypeOK
<1>5. \A m : IngPend(m)' = IngPend(m) /\ IngDue(m)' = IngDue(m) /\ ing'[m] = ing[m]
  BY <1>2, Left
<1>6. /\ \A m \in Keys \ {n.key} : sslStore'[m] = sslStore[m]
      /\ n.gone => sslStore'[n.key] = None
      /\ ~n.gone => sslStore' = sslStore
  BY <1>2, <1>3 DEF IInv, TypeOK
<1>7. ASSUME NEW m \in Keys, m \notin raced PROVE CertOf(m)'
  <2>1. CertOf(m)
    BY <1>7 DEF CertInv
  <2>2. /\ \A P : At("ing", m, P)' = At("ing", m, P) /\ At("ip", m, P)' = At("ip", m, P)
        /\ ~At("sec", m, {"write", "add"})' /\ ~At("sec", m, {"refs", "read", "write", "add"})
    BY <1>2, <1>4, HandlerNames DEF At, Handlers
  <2>3. CASE m # n.key
    <3>1. Pend(m) => Pend(m)'
      BY <1>1, <2>3
    <3> QED BY <1>2, <1>5, <1>6, <2>1, <2>2, <2>3, <3>1 DEF CertOf
  <2>4. CASE m = n.key
    <3>1. Pend(m)' \/ n.gone = (sec[m] = None)
      BY <1>1, <1>3, <2>4 DEF CertInv
    <3>2. CASE n.gone
      <4>1. sslStore'[m] = None /\ (Pend(m)' \/ sslStore'[m] = sec[m])
        BY <1>6, <2>4, <3>1, <3>2
      <4> QED BY <1>2, <1>5, <2>1, <2>2, <4>1 DEF CertOf
    <3>3. CASE ~n.gone
      <4>1. At("sec", m, {"refs", "read", "write", "add"})'
        BY <1>4, <2>4, <3>3 DEF At
      <4>2. Pend(m)' \/ sec[m] # None
        BY <1>3, <3>1, <3>3
      <4> QED BY <1>2, <1>5, <2>1, <2>2, <4>1, <4>2 DEF CertOf
    <3> QED BY <3>2, <3>3
  <2> QED BY <2>3, <2>4
<1>8. \A h \in Handlers : hpc'[h] \in {"write", "add"} => hcert'[h] # None
  BY <1>2, <1>4 DEF CertInv
<1>9. \A m \in Keys : HasSec(m)' => Pend(m)'
  BY <1>1 DEF CertInv
<1> QED BY <1>2, <1>7, <1>8, <1>9 DEF CertInv

\* A step of a handler that changes no certificate and leaves no reading or
\* writing of one undone.
LEMMA CertHandlerMoves ==
    ASSUME IInv, CertInv, SecLeft, IngLeft, UNCHANGED <<secretMap, sslStore, raced, shutting>>,
           NEW h \in Handlers, \A g \in Handlers \ {h} : hpc'[g] = hpc[g] /\ hkey'[g] = hkey[g] /\ hcert'[g] = hcert[g],
           hpc[h] # "add", hpc'[h] \notin {"write", "add"},
           \A m \in Keys \ raced :
              At(h, m, {"refs", "read", "write", "add"}) =>
                 \/ m \notin secretMap \/ ing[m] = None
                 \/ At(h, m, {"refs", "read", "write", "add"})' /\ (hpc[h] = "refs" \/ hpc'[h] # "refs")
                 \/ sslStore[m] = sec[m] \/ Pend(m)
    PROVE  CertInv'
<1> SUFFICES ASSUME ~shutting PROVE CertInv'
  BY DEF CertInv
<1>1. \A m : Pend(m)' = Pend(m) /\ HasSec(m)' = HasSec(m) /\ sec'[m] = sec[m]
  BY Left
<1>2. \A m : IngPend(m)' = IngPend(m) /\ IngDue(m)' = IngDue(m) /\ ing'[m] = ing[m]
  BY Left
<1>3. ASSUME NEW m \in Keys, m \notin raced PROVE CertOf(m)'
  <2>1. CertOf(m)
    BY <1>3 DEF CertInv
  <2>2. ~At(h, m, {"write", "add"})'
    BY DEF At
  <2>3. \A g \in Handlers \ {h} : \A P : At(g, m, P)' = At(g, m, P)
    BY DEF At
  <2>4. /\ sec'[m] = None => sslStore'[m] = None \/ Pend(m)'
        /\ ing'[m] # None /\ ing'[m].tls => m \in secretMap' \/ IngPend(m)'
    BY <1>1, <1>2, <2>1 DEF CertOf
  <2>5. \A g \in {"ing", "ip"} : At(g, m, {"write", "add"})' => hcert'[g] = sec'[m]
    BY <1>1, <2>1, <2>2, <2>3, HandlerNames DEF CertOf, Handlers
  <2>6. At("sec", m, {"write", "add"})' => hcert'["sec"] = sec'[m] \/ Pend(m)'
    BY <1>1, <2>1, <2>2, <2>3, HandlerNames DEF CertOf
  <2>7. ASSUME m \in secretMap, ing[m] # None
        PROVE  \/ sslStore[m] = sec[m] \/ Pend(m) \/ At("sec", m, {"refs", "read", "write", "add"})'
               \/ IngDue(m) \/ At("ing", m, {"read", "write", "add"})' \/ At("ip", m, {"add"})'
    <3>1. \/ sslStore[m] = sec[m] \/ Pend(m) \/ At("sec", m, {"refs", "read", "write", "add"})
          \/ IngDue(m) \/ At("ing", m, {"read", "write", "add"}) \/ At("ip", m, {"add"})
      BY <2>1, <2>7 DEF CertOf
    <3>2. At("sec", m, {"refs", "read", "write", "add"})
             => sslStore[m] = sec[m] \/ Pend(m) \/ At("sec", m, {"refs", "read", "write", "add"})'
      BY <1>3, <2>3, <2>7, HandlerNames
    <3>3. At("ing", m, {"read", "write", "add"})
             => sslStore[m] = sec[m] \/ Pend(m) \/ At("ing", m, {"read", "write", "add"})'
      <4>1. CASE h = "ing"
        BY <1>3, <2>7, <4>1 DEF At
      <4>2. CASE h # "ing"
        BY <2>3, <4>2, HandlerNames
      <4> QED BY <4>1, <4>2
    <3>4. At("ip", m, {"add"}) => At("ip", m, {"add"})'
      <4>1. At("ip", m, {"add"}) => h # "ip"
        BY DEF At
      <4> QED BY <2>3, <4>1, HandlerNames
    <3> QED BY <3>1, <3>2, <3>3, <3>4
  <2> QED BY <1>1, <1>2, <2>4, <2>5, <2>6, <2>7 DEF CertOf
<1>4. \A g \in Handlers : hpc'[g] \in {"write", "add"} => hcert'[g] # None
  BY DEF CertInv
<1> QED BY <1>1, <1>3, <1>4 DEF CertInv

\* The steps of handlers between their reading and writing of secrets.
LEMMA CertMoves ==
    ASSUME IInv, CertInv, NEW h \in Handlers,
           \/ h = "sec" /\ SecRefs
           \/ h = "ip" /\ (IpHandle \/ IpNext)
           \/ PushEvent(h)
    PROVE  CertInv'
<1>1. /\ SecLeft /\ IngLeft /\ UNCHANGED <<secretMap, sslStore, raced, shutting>>
  BY DEF SecRefs, IpHandle, IpNext, PushEvent, SecLeft, IngLeft, caches, notices, certs, control
<1>2. \A g \in Handlers \ {h} : hpc'[g] = hpc[g] /\ hkey'[g] = hkey[g] /\ hcert'[g] = hcert[g]
  BY DEF SecRefs, IpHandle, IpNext, PushEvent, Return, Goto, IInv, TypeOK
<1>3. CASE h = "sec" /\ SecRefs
  <2>1. CASE hkey["sec"] \notin secretMap /\ Return("sec")
    <3>1. hpc'["sec"] = "idle" /\ hpc["sec"] # "add"
      BY <1>3, <2>1 DEF SecRefs, Return, Goto, IInv, TypeOK
    <3>2. \A m \in Keys \ raced : At("sec", m, {"refs", "read", "write", "add"}) => m \notin secretMap
      BY <2>1 DEF At
    <3> QED BY <1>1, <1>2, <1>3, <3>1, <3>2, CertHandlerMoves
  <2>2. CASE /\ hkey["sec"] \in secretMap /\ UNCHANGED <<hkey, hcert>>
             /\ Goto("sec", IF hpc["sec"] = "refs" /\ ing[hkey["sec"]] # None THEN "read" ELSE "push")
    <3>1. /\ hpc["sec"] \in {"refs", "refsGone"}
          /\ hpc'["sec"] = (IF hpc["sec"] = "refs" /\ ing[hkey["sec"]] # None THEN "read" ELSE "push")
      BY <1>3, <2>2, OthersStay DEF SecRefs, IInv
    <3>2. \A m \in Keys \ raced : At("sec", m, {"refs", "read", "write", "add"}) =>
             ing[m] = None \/ (At("sec", m, {"refs", "read", "write", "add"})' /\ hpc["sec"] = "refs")
      BY <2>2, <3>1 DEF At
    <3> QED BY <1>1, <1>2, <1>3, <3>1, <3>2, CertHandlerMoves
  <2> QED BY <1>3, <2>1, <2>2 DEF SecRefs
<1>4. CASE (h = "ip" /\ (IpHandle \/ IpNext)) \/ PushEvent(h)
  <2>1. hpc[h] \in {"idle", "next", "push"} /\ hpc'[h] \notin {"write", "add"}
    BY <1>4, OthersStay DEF IpHandle, IpNext, PushEvent, Return, IInv
  <2>2. \A m \in Keys \ raced : ~At(h, m, {"refs", "read", "write", "add"})
    BY <2>1 DEF At
  <2> QED BY <1>1, <1>2, <2>1, <2>2, CertHandlerMoves
<1> QED BY <1>3, <1>4

\* A handler reads the secret as it is.
LEMMA CertRead ==
    ASSUME IInv, CertInv, NEW h \in Handlers, SyncSecretRead(h)
    PROVE  CertInv'
<1> DEFINE k == hkey[h]
<1>0. k \in Keys /\ hpc[h] = "read"
  BY DEF IInv, KeyInv, SyncSecretRead
<1>1. SecLeft /\ IngLeft /\ UNCHANGED <<hkey, secretMap, sslStore, raced, shutting>>
  BY DEF SyncSecretRead, SecLeft, IngLeft, caches, notices, certs, control
<1>2. /\ \A g \in Handlers \ {h} : hpc'[g] = hpc[g] /\ hkey'[g] = hkey[g] /\ hcert'[g] = hcert[g]
      /\ hcert'[h] = sec[k] /\ hpc'[h] = (IF sec[k] = None THEN "push" ELSE "write")
  BY <1>0, OthersStay DEF SyncSecretRead, IInv, TypeOK
<1>3. CASE shutting
  BY <1>1, <1>3 DEF CertInv
<1>4. CASE ~shutting /\ sec[k] = None
  <2>1. \A m \in Keys \ raced : At(h, m, {"refs", "read", "write", "add"}) => sslStore[m] = sec[m] \/ Pend(m)
    <3> SUFFICES ASSUME NEW m \in Keys \ raced, m = k PROVE sslStore[m] = sec[m] \/ Pend(m)
      BY DEF At
    <3>1. CertOf(m)
      BY <1>4 DEF CertInv
    <3> QED BY <1>4, <3>1 DEF CertOf
  <2>2. hpc'[h] \notin {"write", "add"} /\ hpc[h] # "add"
    BY <1>0, <1>2, <1>4
  <2> QED BY <1>1, <1>2, <2>1, <2>2, CertHandlerMoves
<1>5. CASE ~shutting /\ sec[k] # None
  <2>1. \A m : Pend(m)' = Pend(m) /\ HasSec(m)' = HasSec(m) /\ sec'[m] = sec[m]
    BY <1>1, Left
  <2>2. \A m : IngPend(m)' = IngPend(m) /\ IngDue(m)' = IngDue(m) /\ ing'[m] = ing[m]
    BY <1>1, Left
  <2>3. ASSUME NEW m \in Keys, m \notin raced PROVE CertOf(m)'
    <3>1. CertOf(m)
      BY <1>5, <2>3 DEF CertInv
    <3>2. /\ \A g \in Handlers \ {h} : \A P : At(g, m, P)' = At(g, m, P)
          /\ At(h, m, {"write", "add"})' => hcert'[h] = sec[m]
      BY <1>1, <1>2 DEF At
    <3>3. /\ At("sec", m, {"refs", "read", "write", "add"}) => At("sec", m, {"refs", "read", "write", "add"})'
          /\ At("ing", m, {"read", "write", "add"}) => At("ing", m, {"read", "write", "add"})'
      BY <1>1, <1>2, <1>5, HandlerNames DEF At
    <3>4. /\ \A g \in {"ing", "ip"} : At(g, m, {"write", "add"})' => hcert'[g] = sec[m]
          /\ At("sec", m, {"write", "add"})' => hcert'["sec"] = sec[m] \/ Pend(m)
      BY <1>2, <3>1, <3>2, HandlerNames DEF CertOf, Handlers
    <3>5. At("ip", m, {"add"}) => At("ip", m, {"add"})'
      BY <1>0, <1>1, <1>2, HandlerNames DEF At
    <3> QED BY <1>1, <2>1, <2>2, <3>1, <3>3, <3>4, <3>5 DEF CertOf
  <2>4. \A g \in Handlers : hpc'[g] \in {"write", "add"} => hcert'[g] # None
    BY <1>2, <1>5 DEF CertInv
  <2> QED BY <1>1, <1>5, <2>1, <2>3, <2>4 DEF CertInv
<1> QED BY <1>3, <1>4, <1>5

\* A handler that has deleted the certificate is going to add it.
LEMMA CertDelete ==
    ASSUME IInv, CertInv, NEW h \in Handlers, SyncSecretDelete(h)
    PROVE  CertInv'
<1> DEFINE k == hkey[h]
<1>0. k \in Keys /\ hpc[h] = "write"
  BY DEF IInv, KeyInv, SyncSecretDelete
<1>1. SecLeft /\ IngLeft /\ UNCHANGED <<hkey, hcert, secretMap, raced, shutting>>
  BY DEF SyncSecretDelete, SecLeft, IngLeft, caches, notices, control
<1>2. /\ \A g \in Handlers \ {h} : hpc'[g] = hpc[g] /\ hkey'[g] = hkey[g] /\ hcert'[g] = hcert[g]
      /\ hpc'[h] = "add"
  BY <1>1, OthersStay DEF SyncSecretDelete, IInv
<1>3. sslStore'[k] = None /\ \A m \in Keys \ {k} : sslStore'[m] = sslStore[m]
  BY <1>0 DEF SyncSecretDelete, IInv, TypeOK
<1> SUFFICES ASSUME ~shutting PROVE CertInv'
  BY <1>1 DEF CertInv
<1>4. \A m : Pend(m)' = Pend(m) /\ HasSec(m)' = HasSec(m) /\ sec'[m] = sec[m]
  BY <1>1, Left
<1>5. \A m : IngPend(m)' = IngPend(m) /\ IngDue(m)' = IngDue(m) /\ ing'[m] = ing[m]
  BY <1>1, Left
<1>6. ASSUME NEW m \in Keys, m \notin raced PROVE CertOf(m)'
  <2>1. CertOf(m)
    BY <1>6 DEF CertInv
  <2>2. /\ \A g \in Handlers : /\ At(g, m, {"write", "add"})' = At(g, m, {"write", "add"})
                               /\ At(g, m, {"read", "write", "add"})' = At(g, m, {"read", "write", "add"})
                               /\ At(g, m, {"refs", "read", "write", "add"})' = At(g, m, {"refs", "read", "write", "add"})
                               /\ At(g, m, {"add"}) => At(g, m, {"add"})'
    BY <1>0, <1>1, <1>2 DEF At
  <2>3. /\ \A g \in {"ing", "ip"} : At(g, m, {"write", "add"})' => hcert'[g] = sec[m]
        /\ At("sec", m, {"write", "add"})' => hcert'["sec"] = sec[m] \/ Pend(m)
    BY <1>1, <2>1, <2>2, HandlerNames DEF CertOf
  <2>4. CASE m = k
    <3>1. \/ At("sec", m, {"refs", "read", "write", "add"})' \/ At("ing", m, {"read", "write", "add"})'
          \/ At("ip", m, {"add"})'
      BY <1>1, <1>2, <2>4 DEF At, Handlers
    <3> QED BY <1>1, <1>3, <1>4, <1>5, <2>1, <2>3, <2>4, <3>1 DEF CertOf
  <2>5. CASE m # k
    <3>1. sslStore'[m] = sslStore[m]
      BY <1>3, <2>5
    <3> QED BY <1>1, <1>4, <1>5, <2>1, <2>2, <2>3, <3>1, HandlerNames DEF CertOf
  <2> QED BY <2>4, <2>5
<1>7. \A g \in Handlers : hpc'[g] \in {"write", "add"} => hcert'[g] # None
  BY <1>0, <1>1, <1>2 DEF CertInv
<1> QED BY <1>1, <1>4, <1>6, <1>7 DEF CertInv

\* A handler adds what the secret still is, unless the secret's own handler
\* has still to look at it.
LEMMA CertAdd ==
    ASSUME IInv, CertInv, NEW h \in Handlers, SyncSecretAdd(h)
    PROVE  CertInv'
<1> DEFINE k == hkey[h]
<1>0. k \in Keys /\ hpc[h] = "add"
  BY DEF IInv, KeyInv, SyncSecretAdd
<1>1. SecLeft /\ IngLeft /\ UNCHANGED <<hkey, hcert, secretMap, raced, shutting>>
  BY DEF SyncSecretAdd, SecLeft, IngLeft, caches, notices, control
<1>2. /\ \A g \in Handlers \ {h} : hpc'[g] = hpc[g] /\ hkey'[g] = hkey[g] /\ hcert'[g] = hcert[g]
      /\ hpc'[h] = "push"
  BY <1>1, OthersStay DEF SyncSecretAdd, IInv
<1>3. sslStore'[k] = hcert[h] /\ \A m \in Keys \ {k} : sslStore'[m] = sslStore[m]
  BY <1>0 DEF SyncSecretAdd, IInv, TypeOK
<1> SUFFICES ASSUME ~shutting PROVE CertInv'
  BY <1>1 DEF CertInv
<1>4. \A m : Pend(m)' = Pend(m) /\ HasSec(m)' = HasSec(m) /\ sec'[m] = sec[m]
  BY <1>1, Left
<1>5. \A m : IngPend(m)' = IngPend(m) /\ IngDue(m)' = IngDue(m) /\ ing'[m] = ing[m]
  BY <1>1, Left
<1>6. ASSUME NEW m \in Keys, m \notin raced PROVE CertOf(m)'
  <2>1. CertOf(m)
    BY <1>6 DEF CertInv
  <2>2. /\ \A g \in Handlers \ {h} : \A P : At(g, m, P)' = At(g, m, P)
        /\ ~At(h, m, {"write", "add"})'
    BY <1>1, <1>2 DEF At
  <2>3. /\ \A g \in {"ing", "ip"} : At(g, m, {"write", "add"})' => hcert'[g] = sec[m]
        /\ At("sec", m, {"write", "add"})' => hcert'["sec"] = sec[m] \/ Pend(m)
    BY <1>2, <2>1, <2>2, HandlerNames DEF CertOf, Handlers
  <2>4. CASE m = k
    <3>1. hcert[h] = sec[m] \/ Pend(m)
      BY <1>0, <2>1, <2>4, HandlerNames DEF CertOf, At, Handlers
    <3> QED BY <1>1, <1>3, <1>4, <1>5, <2>1, <2>3, <2>4, <3>1 DEF CertOf, CertInv
  <2>5. CASE m # k
    <3>1. \A P : At(h, m, P)' = At(h, m, P)
      BY <1>1, <2>5 DEF At
    <3>2. \A g \in Handlers : \A P : At(g, m, P)' = At(g, m, P)
      BY <2>2, <3>1
    <3>3. sslStore'[m] = sslStore[m]
      BY <1>3, <2>5
    <3> QED BY <1>1, <1>4, <1>5, <2>1, <2>3, <3>2, <3>3, HandlerNames DEF CertOf
  <2> QED BY <2>4, <2>5
<1>7. \A g \in Handlers : hpc'[g] \in {"write", "add"} => hcert'[g] # None
  BY <1>1, <1>2 DEF CertInv
<1> QED BY <1>1, <1>4, <1>6, <1>7 DEF CertInv

\* The other steps change nothing of it.
LEMMA CertLeft ==
    ASSUME CertInv, SecLeft, IngLeft, UNCHANGED <<hpc, hkey, hcert, secretMap, sslStore, raced, shutting>>
    PROVE  CertInv'
BY Left DEF CertInv, CertOf, At

LEMMA NextCert == IInv /\ CertInv /\ [Next]_vars => CertInv'
<1> SUFFICES ASSUME IInv, CertInv, [Next]_vars PROVE CertInv'
  OBVIOUS
<1>1. CASE \E k \in Keys : IngressChange(k) \/ SecretChange(k)
  BY <1>1, CertIngressChange, CertSecretChange
<1>2. ASSUME NEW h \in Handlers, Handle(h) PROVE CertInv'
  BY <1>2, CertIngHandle, CertSecHandle, CertMoves, CertRead, CertDelete, CertAdd DEF Handle
<1>3. CASE (\E s \in Services : EndpointChange(s)) \/ LoopCheckIPs \/ EpHandle \/ HandleEvent
  BY <1>3, CertLeft DEF EndpointChange, LoopCheckIPs, EpHandle, HandleEvent, SecLeft, IngLeft, caches, notices,
                        handlers, certs, control
<1>4. CASE Worker
  <2>1. UNCHANGED <<caches, notices, handlers, certs, raced, control>>
    BY <1>4 DEF Worker, Get, ListIngresses, ListVirtualService, ListPool, UpdatePools, Persist, WorkerQuits
  <2> QED BY <2>1, CertLeft DEF SecLeft, IngLeft, caches, notices, handlers, certs, control
<1>5. CASE Close \/ Shutdown
  BY <1>5 DEF Close, Shutdown, CertInv
<1>6. CASE UNCHANGED vars
  BY <1>6, CertLeft DEF vars, SecLeft, IngLeft, caches, notices, handlers, certs, control
<1> QED BY <1>1, <1>2, <1>3, <1>4, <1>5, <1>6 DEF Next, Cluster, Gateway

\* The certificate in use for an ingress is its secret's whichever of the two
\* came first, unless the secret changed between a handler's reading and writing.
THEOREM CertsFollow == Spec => []CertFollows
<1>1. Spec => [](IInv /\ CertInv)
  BY InitInv, NextInv, InitCert, NextCert, PTL DEF Spec
<1>2. IInv /\ CertInv => CertFollows
  <2> SUFFICES ASSUME IInv, CertInv, ~shutting, secQ = <<>>, ingQ = <<>>,
                      \A h \in Handlers : hpc[h] \in {"idle", "next"},
                      NEW k \in Keys \ raced, ing[k] # None, ing[k].tls
               PROVE  sslStore[k] = sec[k]
    BY DEF CertFollows
  <2>1. CertOf(k)
    BY DEF CertInv
  <2>2. ~Pend(k) /\ ~IngPend(k) /\ ~IngDue(k)
    BY DEF Pend, IngPend, IngDue
  <2>3. \A h \in Handlers : /\ ~At(h, k, {"refs", "read", "write", "add"}) /\ ~At(h, k, {"read", "write", "add"})
                              /\ ~At(h, k, {"add"})
    BY DEF At
  <2> QED BY <2>1, <2>2, <2>3, HandlerNames DEF CertOf
<1> QED BY <1>1, <1>2, PTL
-----------------------------------------------------------------------------
\* The running configuration, and what the roll-back of writeFile is good for.

\* rcfg is the running configuration as long as nginx has not refused the last
\* one it was given (controller.go:68, and the run gateway_rcfg for when it has).
THEOREM RunningUnlessRefused == Spec => [](cfgFailed = {} => RunningConfiguration)
<1>1. IInv => (cfgFailed = {} => RunningConfiguration)
  <2> SUFFICES ASSUME IInv, cfgFailed = {}, rcfg # None PROVE rcfg = running
    BY DEF RunningConfiguration
  <2>1. rcfg \in [Kinds -> SUBSET Server] /\ running \in [Kinds -> (SUBSET Server) \cup {None}]
    BY DEF IInv, TypeOK
  <2>2. \A k \in Kinds : running[k] = rcfg[k]
    BY DEF IInv, RcfgInv
  <2> QED BY <2>1, <2>2
<1> QED BY <1>1, GatewayInvariant, PTL

\* There is a file of every kind, and nginx takes them.
GoodFiles == (\A k \in Kinds : disk[k] # None) /\ Accepts(disk)

\* writeFile keeps files good: what nginx refuses is put back.
LEMMA WriteKeepsGood ==
    ASSUME NEW d, DOMAIN d = Kinds, \A k \in Kinds : d[k] # None, Accepts(d),
           NEW k \in Kinds, NEW S, S # None
    PROVE  LET e == WriteServer(d, k, S)
           IN  DOMAIN e = Kinds /\ (\A j \in Kinds : e[j] # None) /\ Accepts(e)
<1> DEFINE new == [d EXCEPT ![k] = S]
<1>1. DOMAIN new = Kinds /\ \A j \in Kinds : new[j] # None
  OBVIOUS
<1>2. WriteServer(d, k, S) = IF Accepts(new) THEN new ELSE d
  BY DEF WriteServer
<1> HIDE DEF new
<1> QED BY <1>1, <1>2

\* A gateway that once had files nginx takes never leaves nginx with files it
\* refuses, so no later reload fails because of them: "rollback if error"
\* (templete_manage.go:253).  At the start, without old files, this is not so.
THEOREM GoodFilesStay == Spec => [][GoodFiles => GoodFiles']_vars
<1>1. ASSUME TypeOK, Persist, GoodFiles PROVE GoodFiles'
  <2> DEFINE cfg == Config(vs)
             e == WriteServer(disk, "l7", cfg["l7"])
             files == WriteServer(e, "l4", cfg["l4"])
  <2>1. "l7" \in Kinds /\ "l4" \in Kinds /\ DOMAIN disk = Kinds
    BY <1>1 DEF Kinds, TypeOK
  <2>2. cfg["l7"] # None /\ cfg["l4"] # None
    <3>1. \A k \in Kinds : OfKind(vs, k) \in SUBSET Server
      BY <1>1 DEF OfKind, TypeOK
    <3>2. \A S \in SUBSET Server : S # None
      BY GatewayAssumption
    <3> QED BY <2>1, <3>1, <3>2 DEF Config
  <2>3. disk' \in {disk, files}
    BY <1>1 DEF Persist
  <2> HIDE DEF cfg
  <2>4. DOMAIN e = Kinds /\ (\A j \in Kinds : e[j] # None) /\ Accepts(e)
    BY <1>1, <2>1, <2>2, WriteKeepsGood DEF GoodFiles
  <2> HIDE DEF e
  <2>5. (\A j \in Kinds : files[j] # None) /\ Accepts(files)
    BY <2>1, <2>2, <2>4, WriteKeepsGood
  <2> HIDE DEF files
  <2> QED BY <1>1, <2>3, <2>5 DEF GoodFiles, Accepts
<1>2. ASSUME TypeOK, Next, GoodFiles PROVE GoodFiles'
  <2>0. ASSUME UNCHANGED disk PROVE GoodFiles'
    BY <1>2, <2>0 DEF GoodFiles, Accepts
  <2>1. CASE Cluster \/ (\E h \in Handlers : Handle(h)) \/ EpHandle \/ HandleEvent
    BY <2>0, <2>1, WorkerLeft DEF nginx
  <2>2. CASE Get \/ ListIngresses \/ ListVirtualService \/ ListPool \/ UpdatePools \/ WorkerQuits
    BY <2>0, <2>2 DEF Get, ListIngresses, ListVirtualService, ListPool, UpdatePools, WorkerQuits, nginx
  <2>3. CASE Shutdown \/ Close
    BY <2>0, <2>3 DEF Shutdown, Close, nginx
  <2> QED BY <1>1, <1>2, <2>1, <2>2, <2>3 DEF Next, Gateway, Worker
<1>3. TypeOK /\ [Next]_vars => [GoodFiles => GoodFiles']_vars
  BY <1>2
<1> QED BY <1>3, GatewayTypeCorrect, PTL DEF Spec
==============================================================================
