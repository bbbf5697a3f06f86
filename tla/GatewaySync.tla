---------------------------- MODULE GatewaySync -----------------------------
(***************************************************************************)
(* How the gateway brings nginx to what the cluster asks for: the          *)
(* informers of gateway/store with their handlers, the certificates they   *)
(* keep, the ring of events, the time-stamped task queue of                *)
(* util/ingress-nginx/task, and the one worker that runs syncGateway: it   *)
(* lists the virtual services, lists the pools, pushes the pools to nginx, *)
(* and, if the servers differ from the running configuration, writes the   *)
(* configuration files and reloads nginx.                                  *)
(* The informers mirror the API server in order; their caches are the      *)
(* environment's to change.                                                *)
(***************************************************************************)
EXTENDS Naturals, Sequences, FiniteSets

CONSTANTS Keys,        \* namespace/name of ingresses; the platform gives the secret
                       \* of an ingress the name of the ingress
          Services,    \* namespace/name of endpoints
          ServiceOf,   \* the service an ingress sends its traffic to
          Rules,       \* what an ingress may say
          Listens,     \* what servers listen on
          Certs,       \* contents of secrets
          Addrs,       \* ready addresses of endpoints
          None,
          RingCap,     \* capacity of updateCh
          Boots,       \* what the caches may hold when the gateway starts, and, as
                       \* bounds, which sorts of changes may follow one after the
                       \* other and how many calls may fail
          Day,         \* the 24 hours that EnqueueTask adds
          MaxNow       \* bound of the clock

Kinds == {"l7", "l4"}
Sorts == {"ing", "ep", "sec", "ip"}

\* Virtual services, as nginx gets them, and pools.
Server == [key : Keys, rule : Rules, cert : Certs \cup {None}]
Pool == [key : Keys, rule : Rules, ssl : BOOLEAN, addr : Addrs \cup {"unready"}]

ASSUME GatewayAssumption ==
    /\ IsFiniteSet(Keys) /\ IsFiniteSet(Services)
    /\ ServiceOf \in [Keys -> Services]
    /\ Rules \subseteq [kind : Kinds, tls : BOOLEAN, hosted : BOOLEAN, listen : Listens]
    \* hosted: an l4 rule that names an address of one node
    /\ \A r \in Rules : r.hosted => r.kind = "l4"
    /\ \A r \in Rules : r.tls => r.kind = "l7"
    /\ Boots \subseteq [ing : [Keys -> Rules \cup {None}],
                        ep : [Services -> Addrs \cup {None, "unready"}],
                        sec : [Keys -> Certs \cup {None}],
                        hostUp : BOOLEAN,
                        changes : Seq(SUBSET Sorts), faults : Nat]
    /\ None \notin Rules /\ None \notin Certs /\ None \notin Addrs /\ None \notin Keys
    /\ None \notin [Kinds -> SUBSET Server] /\ \A S \in SUBSET Server : S # None
    /\ RingCap \in Nat \ {0} /\ Day \in Nat
    /\ MaxNow \in Nat

\* The goroutines that run the handlers of ingresses and of secrets, and
\* loopUpdateIngress.
Handlers == {"ing", "sec", "ip"}

VARIABLES
    ing, ep, sec,     \* the informers' caches
    hostUp,           \* the node has the address that hosted rules name
    ingQ, epQ, secQ, ipQ,    \* changes their handlers have still to run for
    hpc, hkey, hcert, \* where a handler is, for which key, with which certificate
    ipTodo,           \* ingresses that loopUpdateIngress has still to send
    secretMap,        \* secretIngressMap: the ingresses known to name a secret
    sslStore,         \* the certificates in use
    ring,             \* number of events in updateCh
    queue,            \* time stamps of the elements of the task queue
    lastSync, now,
    pc, ts,           \* the worker
    seen, vs, pools,  \* what its sync has read
    rcfg, disk, running,   \* servers: rcfg, the files, what nginx has loaded
    ngx,              \* pools: what nginx has been sent
    cfgFailed, poolFailed, \* history: kinds whose last update nginx did not take
    refused,          \* history: configurations nginx did not take, since it last took one
    raced,            \* history: secrets changed while a handler held the old content
    shutting, qdown,
    changes, faults   \* of the cluster, and of calls, that may still come

caches == <<ing, ep, sec, hostUp>>
notices == <<ingQ, epQ, secQ, ipQ>>
handlers == <<hpc, hkey, hcert, ipTodo>>
certs == <<secretMap, sslStore>>
tasks == <<ring, queue, lastSync, now>>
worker == <<pc, ts, seen, vs, pools>>
nginx == <<rcfg, disk, running, ngx, cfgFailed, poolFailed, refused>>
control == <<shutting, qdown>>
vars == <<caches, notices, handlers, certs, tasks, worker, nginx, raced, control, changes, faults>>

\* Sequences that hold every element of S once.
Orders(S) == {s \in [1 .. Cardinality(S) -> S] : \A x \in S : \E n \in DOMAIN s : s[n] = x}

\* Start returns from store.Run when the caches are filled; the handlers have
\* still to run for everything in them, and initial-sync is queued.
Init ==
    /\ \E b \in Boots : ing = b.ing /\ ep = b.ep /\ sec = b.sec /\ hostUp = b.hostUp
                     /\ changes = b.changes /\ faults = b.faults
    /\ \E s \in Orders({k \in Keys : ing[k] # None}) :
          ingQ = [n \in DOMAIN s |-> [key |-> s[n], rule |-> ing[s[n]]]]
    /\ epQ = Cardinality({s \in Services : ep[s] # None})
    /\ \E s \in Orders({k \in Keys : sec[k] # None}) :
          secQ = [n \in DOMAIN s |-> [key |-> s[n], gone |-> FALSE]]
    /\ ipQ = 0
    /\ hpc = [h \in Handlers |-> "idle"]
    /\ hkey = [h \in Handlers |-> None] /\ hcert = [h \in Handlers |-> None]
    /\ ipTodo = {}
    /\ secretMap = {} /\ sslStore = [k \in Keys |-> None]
    /\ ring = 0 /\ queue = <<Day>> /\ lastSync = 0 /\ now = 0
    /\ pc = "idle" /\ ts = 0 /\ seen = None /\ vs = {} /\ pools = {}
    /\ rcfg = None
    /\ disk = [k \in Kinds |-> None] /\ running = [k \in Kinds |-> {}]
    /\ ngx = [k \in Kinds |-> {}]
    /\ cfgFailed = {} /\ poolFailed = {} /\ refused = {}
    /\ raced = {}
    /\ shutting = FALSE /\ qdown = FALSE

-----------------------------------------------------------------------------
\* The cluster: an informer changes its cache and then notifies its handlers.

Change(sort) == changes # <<>> /\ sort \in Head(changes) /\ changes' = Tail(changes) /\ ~shutting

IngressChange(k) ==
    /\ Change("ing")
    /\ \E r \in (Rules \cup {None}) \ {ing[k]} :
          /\ ing' = [ing EXCEPT ![k] = r]
          /\ ingQ' = Append(ingQ, [key |-> k, rule |-> r])
    /\ UNCHANGED <<ep, sec, hostUp, epQ, secQ, ipQ, handlers, certs, tasks, worker, nginx, raced, control, faults>>

EndpointChange(s) ==
    /\ Change("ep")
    /\ \E a \in (Addrs \cup {None, "unready"}) \ {ep[s]} : ep' = [ep EXCEPT ![s] = a]
    /\ epQ' = epQ + 1
    /\ UNCHANGED <<ing, sec, hostUp, ingQ, secQ, ipQ, handlers, certs, tasks, worker, nginx, raced, control, faults>>

SecretChange(k) ==
    /\ Change("sec")
    /\ \E c \in (Certs \cup {None}) \ {sec[k]} :
          /\ sec' = [sec EXCEPT ![k] = c]
          /\ secQ' = Append(secQ, [key |-> k, gone |-> c = None])
    /\ raced' = raced \cup {x \in {k} : \E h \in {"ing", "ip"} : hpc[h] \in {"write", "add"} /\ hkey[h] = x}
    /\ UNCHANGED <<ing, ep, hostUp, ingQ, epQ, ipQ, handlers, certs, tasks, worker, nginx, control, faults>>

\* LoopCheckIPs compares the node's addresses with the ones it knows; it holds
\* the lock that IPInCurrentHost needs until the event is sent and the addresses
\* are replaced.  An address that is still there is reported again.
LoopCheckIPs ==
    /\ Change("ip")
    /\ \E up \in BOOLEAN :
          /\ up \/ hostUp
          /\ hostUp' = up
    /\ ipQ' = ipQ + 1
    /\ UNCHANGED <<ing, ep, sec, ingQ, epQ, secQ, handlers, certs, tasks, worker, nginx, raced, control, faults>>

-----------------------------------------------------------------------------
\* The handlers.

Goto(h, p) == hpc' = [hpc EXCEPT ![h] = p]

\* The handler returns, or loopUpdateIngress goes on with its list.
Return(h) ==
    /\ Goto(h, IF h = "ip" THEN "next" ELSE "idle")
    /\ hkey' = [hkey EXCEPT ![h] = None] /\ hcert' = [hcert EXCEPT ![h] = None]

\* Mutant: the channel grows.
M_Pushed == ring + 1

\* updateCh is a ring: when it is full the oldest event makes room.
Pushed == IF ring < RingCap THEN ring + 1 ELSE RingCap

\* Mutant: the secrets are looked up before the ingress is entered in the map.
M_IngHandle ==
    /\ hpc["ing"] = "idle" /\ ingQ # <<>>
    /\ LET n == Head(ingQ) IN
          /\ hkey' = [hkey EXCEPT !["ing"] = n.key]
          /\ secretMap' = secretMap \cup {k \in {n.key} : n.rule # None /\ n.rule.tls}
          /\ Goto("ing", IF n.rule # None /\ n.key \in secretMap THEN "read" ELSE "push")
    /\ ingQ' = Tail(ingQ)
    /\ UNCHANGED <<caches, epQ, secQ, ipQ, hcert, ipTodo, sslStore, tasks, worker, nginx, raced, control, changes, faults>>

\* AddFunc, UpdateFunc and DeleteFunc of ingresses.
IngHandle ==
    /\ hpc["ing"] = "idle" /\ ingQ # <<>>
    /\ LET n == Head(ingQ) IN
          /\ hkey' = [hkey EXCEPT !["ing"] = n.key]
          /\ secretMap' = secretMap \cup {k \in {n.key} : n.rule # None /\ n.rule.tls}
          /\ Goto("ing", IF n.rule # None /\ n.key \in secretMap' THEN "read" ELSE "push")
    /\ ingQ' = Tail(ingQ)
    /\ UNCHANGED <<caches, epQ, secQ, ipQ, hcert, ipTodo, sslStore, tasks, worker, nginx, raced, control, changes, faults>>

\* AddFunc and UpdateFunc of secrets, and DeleteFunc, which starts by
\* forgetting the certificate.
SecHandle ==
    /\ hpc["sec"] = "idle" /\ secQ # <<>>
    /\ LET n == Head(secQ) IN
          /\ hkey' = [hkey EXCEPT !["sec"] = n.key]
          /\ sslStore' = IF n.gone THEN [sslStore EXCEPT ![n.key] = None] ELSE sslStore
          /\ Goto("sec", IF n.gone THEN "refsGone" ELSE "refs")
    /\ secQ' = Tail(secQ)
    /\ UNCHANGED <<caches, ingQ, epQ, ipQ, hcert, ipTodo, secretMap, tasks, worker, nginx, raced, control, changes, faults>>

\* Only a secret that an ingress is known to name makes an event.
SecRefs ==
    /\ hpc["sec"] \in {"refs", "refsGone"}
    /\ LET k == hkey["sec"] IN
          \/ k \notin secretMap /\ Return("sec")
          \/ /\ k \in secretMap
             /\ Goto("sec", IF hpc["sec"] = "refs" /\ ing[k] # None THEN "read" ELSE "push")
             /\ UNCHANGED <<hkey, hcert>>
    /\ UNCHANGED <<caches, notices, ipTodo, certs, tasks, worker, nginx, raced, control, changes, faults>>

\* loopUpdateIngress, for every ingress that names the address of the event.
IpHandle ==
    /\ hpc["ip"] = "idle" /\ ipQ > 0
    /\ ipQ' = ipQ - 1
    /\ ipTodo' = {k \in Keys : ing[k] # None /\ ing[k].hosted}
    /\ Goto("ip", "next")
    /\ UNCHANGED <<caches, ingQ, epQ, secQ, hkey, hcert, certs, tasks, worker, nginx, raced, control, changes, faults>>

IpNext ==
    /\ hpc["ip"] = "next"
    /\ \/ /\ ipTodo = {}
          /\ Goto("ip", "idle")
          /\ UNCHANGED <<hkey, ipTodo>>
       \/ \E k \in ipTodo :
             /\ ipTodo' = ipTodo \ {k}
             /\ hkey' = [hkey EXCEPT !["ip"] = k]
             /\ Goto("ip", IF k \in secretMap THEN "read" ELSE "push")
    /\ UNCHANGED <<caches, notices, hcert, certs, tasks, worker, nginx, raced, control, changes, faults>>

\* syncSecret reads the secret from the cache ...
SyncSecretRead(h) ==
    /\ hpc[h] = "read"
    /\ hcert' = [hcert EXCEPT ![h] = sec[hkey[h]]]
    /\ Goto(h, IF sec[hkey[h]] = None THEN "push" ELSE "write")
    /\ UNCHANGED <<caches, notices, hkey, ipTodo, certs, tasks, worker, nginx, raced, control, changes, faults>>

\* ... and deletes the certificate that is in use: SSLCert.Equals never finds a
\* certificate equal to what was read again, its test of the common names is the
\* wrong way round ...
SyncSecretDelete(h) ==
    /\ hpc[h] = "write"
    /\ sslStore' = [sslStore EXCEPT ![hkey[h]] = None]
    /\ Goto(h, "add")
    /\ UNCHANGED <<caches, notices, hkey, hcert, ipTodo, secretMap, tasks, worker, nginx, raced, control, changes, faults>>

\* ... before it adds the one it has read.
SyncSecretAdd(h) ==
    /\ hpc[h] = "add"
    /\ sslStore' = [sslStore EXCEPT ![hkey[h]] = hcert[h]]
    /\ Goto(h, "push")
    /\ UNCHANGED <<caches, notices, hkey, hcert, ipTodo, secretMap, tasks, worker, nginx, raced, control, changes, faults>>

PushEvent(h) ==
    /\ hpc[h] = "push"
    /\ ring' = Pushed
    /\ Return(h)
    /\ UNCHANGED <<caches, notices, ipTodo, certs, queue, lastSync, now, worker, nginx, raced, control, changes, faults>>

\* Mutant: endpoints that become ready make no event.
M_EpHandle ==
    /\ epQ > 0
    /\ epQ' = epQ - 1
    /\ ring' = IF \E s \in Services : ep[s] \in Addrs THEN ring ELSE Pushed
    /\ UNCHANGED <<caches, ingQ, secQ, ipQ, handlers, certs, queue, lastSync, now, worker, nginx, raced, control, changes, faults>>

\* The handlers of endpoints do nothing else.
EpHandle ==
    /\ epQ > 0
    /\ epQ' = epQ - 1
    /\ ring' = Pushed
    /\ UNCHANGED <<caches, ingQ, secQ, ipQ, handlers, certs, queue, lastSync, now, worker, nginx, raced, control, changes, faults>>

-----------------------------------------------------------------------------
\* The task queue.

\* The clock is read when an element is queued and when the worker gets one.
\* Letting it advance at the second alone gives every order of the two readings.
Tick == {t \in {now, now + 1} : t <= MaxNow}

\* handleEvent enqueues a skippable element.
HandleEvent ==
    /\ ring > 0
    /\ ring' = ring - 1
    /\ queue' = IF shutting \/ qdown THEN queue ELSE Append(queue, now)
    /\ UNCHANGED <<caches, notices, handlers, certs, lastSync, now, worker, nginx, raced, control, changes, faults>>

\* Mutant: an element as old as the last sync is skipped too.
M_Skips == lastSync >= Head(queue)

\* The worker skips an element older than the start of the last sync.
Skips == lastSync > Head(queue)

\* The time of the sync is the time before it reads anything.
Get ==
    /\ pc = "idle" /\ queue # <<>>
    /\ queue' = Tail(queue)
    /\ \E t \in Tick :
          /\ now' = t
          /\ IF Skips THEN UNCHANGED <<pc, ts>> ELSE pc' = "list" /\ ts' = t
    /\ UNCHANGED <<caches, notices, handlers, certs, ring, lastSync, seen, vs, pools, nginx, raced, control, changes, faults>>

\* The end of the sync: it returns nil on every path.
Synced ==
    /\ pc' = "idle" /\ lastSync' = ts
    /\ ts' = 0 /\ seen' = None /\ vs' = {} /\ pools' = {}

-----------------------------------------------------------------------------
\* syncGateway.

\* The virtual services of ingresses i: those with a ready endpoint, and l4
\* rules only where this node has their address.
Servers(i) ==
    {[key |-> k, rule |-> i[k], cert |-> IF i[k].tls THEN sslStore[k] ELSE None] :
        k \in {k \in Keys : /\ i[k] # None
                            /\ ep[ServiceOf[k]] \in Addrs
                            /\ i[k].hosted => hostUp}}

\* The pools of virtual services S; endpoints without a ready address give a
\* pool without nodes.
PoolsOf(S) ==
    {[key |-> v.key, rule |-> v.rule, ssl |-> v.cert # None, addr |-> ep[ServiceOf[v.key]]] :
        v \in {v \in S : ep[ServiceOf[v.key]] # None}}

OfKind(S, k) == {x \in S : x.rule.kind = k}

\* The configuration of virtual services S.
Config(S) == [k \in Kinds |-> OfKind(S, k)]

\* ListVirtualService lists the ingresses; a queue that is shutting down ends
\* the sync before.
ListIngresses ==
    /\ pc = "list"
    /\ IF qdown THEN Synced
                ELSE pc' = "valid" /\ seen' = ing /\ UNCHANGED <<lastSync, ts, vs, pools>>
    /\ UNCHANGED <<caches, notices, handlers, certs, ring, queue, now, nginx, raced, control, changes, faults>>

\* It looks up their endpoints, certificates and addresses.
ListVirtualService ==
    /\ pc = "valid"
    /\ vs' = Servers(seen)
    /\ pc' = "pools"
    /\ UNCHANGED <<caches, notices, handlers, certs, tasks, ts, seen, pools, nginx, raced, control, changes, faults>>

\* Mutant: ListPool before ListVirtualService, with the backends of the last sync.
M_ListPool ==
    /\ pc = "pools"
    /\ pools' = IF rcfg = None THEN {} ELSE PoolsOf(rcfg["l7"] \cup rcfg["l4"])
    /\ pc' = "push"
    /\ UNCHANGED <<caches, notices, handlers, certs, tasks, ts, seen, vs, nginx, raced, control, changes, faults>>

\* ListPool reads the endpoints again, for the backends that ListVirtualService
\* left in the package's maps.
ListPool ==
    /\ pc = "pools"
    /\ pools' = PoolsOf(vs)
    /\ pc' = "push"
    /\ UNCHANGED <<caches, notices, handlers, certs, tasks, ts, seen, vs, nginx, raced, control, changes, faults>>

\* UpdatePools sends the pools of a kind when there are any; errors are logged.
UpdatePools ==
    /\ pc = "push"
    /\ \E fail \in SUBSET {k \in Kinds : OfKind(pools, k) # {}} :
          /\ IF fail = {} THEN UNCHANGED faults
                          ELSE faults > 0 /\ faults' = faults - 1
          /\ ngx' = [k \in Kinds |-> IF k \in fail \/ OfKind(pools, k) = {}
                                       THEN ngx[k] ELSE OfKind(pools, k)]
          /\ poolFailed' = fail
    /\ pc' = "persist"
    /\ UNCHANGED <<caches, notices, handlers, certs, tasks, ts, seen, vs, pools, rcfg, disk, running, cfgFailed, refused, raced, control, changes>>

\* nginx refuses a configuration in which two stream servers listen on the same.
Accepts(d) == d["l4"] = None \/ \A v, w \in d["l4"] : v.rule.listen = w.rule.listen => v = w

\* writeFile puts the old file back when nginx refuses the new one, if there is
\* an old one; its error goes no further than WriteServer.
WriteServer(d, k, S) ==
    LET new == [d EXCEPT ![k] = S]
    IN  IF Accepts(new) \/ d[k] = None THEN new ELSE d

\* VirtualService.Equals: a stream server has what it listens on and its service,
\* and nothing of its ingress.
Alike(v, w) ==
    /\ v.rule = w.rule /\ v.cert = w.cert /\ ServiceOf[v.key] = ServiceOf[w.key]
    /\ v.rule.kind = "l7" => v.key = w.key

\* Config.Equals: as many servers, and each of c's is found among d's.
Equals(c, d) ==
    \A k \in Kinds : /\ Cardinality(c[k]) = Cardinality(d[k])
                     /\ \A v \in c[k] : \E w \in d[k] : Alike(v, w)

\* Compare with rcfg, and PersistConfig if it differs.  A certificate that was
\* synchronised again differs from itself.
Persist ==
    /\ pc = "persist"
    /\ LET cfg == Config(vs)
           files == WriteServer(WriteServer(disk, "l7", cfg["l7"]), "l4", cfg["l4"])
           same == rcfg # None /\ Equals(rcfg, cfg)
           differs == ~same \/ \E v \in vs : v.cert # None
       IN  \/ /\ same
              /\ UNCHANGED <<rcfg, disk, running, cfgFailed, refused, faults>>
           \/ /\ differs /\ Accepts(files)
              /\ disk' = files /\ running' = files /\ rcfg' = cfg
              /\ cfgFailed' = {k \in Kinds : files[k] # cfg[k]}
              /\ refused' = IF files = cfg THEN {} ELSE refused \cup {cfg}
              /\ UNCHANGED faults
           \* Reload fails.
           \/ /\ differs
              /\ IF Accepts(files) THEN faults > 0 /\ faults' = faults - 1
                                   ELSE UNCHANGED faults
              /\ disk' = files /\ cfgFailed' = Kinds /\ refused' = refused \cup {cfg}
              /\ UNCHANGED <<rcfg, running>>
    /\ Synced
    /\ UNCHANGED <<caches, notices, handlers, certs, ring, queue, now, ngx, poolFailed, raced, control, changes>>

-----------------------------------------------------------------------------
\* Close stops the informers, with what their handlers have still to run for, and
\* leaves it to a goroutine to shut the queue down.
Close ==
    /\ ~shutting /\ shutting' = TRUE
    /\ ingQ' = <<>> /\ secQ' = <<>> /\ epQ' = 0
    /\ UNCHANGED <<caches, ipQ, handlers, certs, tasks, worker, nginx, raced, qdown, changes, faults>>

Shutdown ==
    /\ shutting /\ ~qdown /\ qdown' = TRUE
    /\ UNCHANGED <<caches, notices, handlers, certs, tasks, worker, nginx, raced, shutting, changes, faults>>

WorkerQuits ==
    /\ pc = "idle" /\ queue = <<>> /\ qdown
    /\ pc' = "quit"
    /\ UNCHANGED <<caches, notices, handlers, certs, tasks, ts, seen, vs, pools, nginx, raced, control, changes, faults>>

-----------------------------------------------------------------------------
Cluster ==
    \/ \E k \in Keys : IngressChange(k) \/ SecretChange(k)
    \/ \E s \in Services : EndpointChange(s)
    \/ LoopCheckIPs

Handle(h) ==
    \/ h = "ing" /\ IngHandle
    \/ h = "sec" /\ (SecHandle \/ SecRefs)
    \/ h = "ip" /\ (IpHandle \/ IpNext)
    \/ SyncSecretRead(h) \/ SyncSecretDelete(h) \/ SyncSecretAdd(h) \/ PushEvent(h)

Worker ==
    \/ Get \/ ListIngresses \/ ListVirtualService \/ ListPool \/ UpdatePools \/ Persist
    \/ WorkerQuits

Gateway ==
    \/ \E h \in Handlers : Handle(h)
    \/ EpHandle \/ HandleEvent \/ Worker \/ Shutdown

Next == Cluster \/ Gateway \/ Close

Spec == Init /\ [][Next]_vars

\* While the gateway's goroutines have anything to do, one of them goes on.
\* Nothing makes the cluster change or the gateway close.
Fairness == WF_vars(Gateway)

FairSpec == Spec /\ Fairness

-----------------------------------------------------------------------------
\* Types of the state of the handlers, the queue and the worker.
TypeOK ==
    /\ ing \in [Keys -> Rules \cup {None}]
    /\ ep \in [Services -> Addrs \cup {None, "unready"}]
    /\ sec \in [Keys -> Certs \cup {None}]
    /\ hostUp \in BOOLEAN
    /\ ingQ \in Seq([key : Keys, rule : Rules \cup {None}])
    /\ secQ \in Seq([key : Keys, gone : BOOLEAN])
    /\ epQ \in Nat /\ ipQ \in Nat
    /\ hpc \in [Handlers -> {"idle", "refs", "refsGone", "next", "read", "write", "add", "push"}]
    /\ hkey \in [Handlers -> Keys \cup {None}]
    /\ hcert \in [Handlers -> Certs \cup {None}]
    /\ ipTodo \subseteq Keys /\ secretMap \subseteq Keys /\ raced \subseteq Keys
    /\ sslStore \in [Keys -> Certs \cup {None}]
    /\ ring \in 0 .. RingCap
    /\ queue \in Seq(Nat) /\ lastSync \in Nat /\ now \in Nat /\ ts \in Nat
    /\ pc \in {"idle", "list", "valid", "pools", "push", "persist", "quit"}
    /\ seen = None \/ seen \in [Keys -> Rules \cup {None}]
    /\ vs \subseteq Server /\ pools \subseteq Pool
    /\ rcfg = None \/ rcfg \in [Kinds -> SUBSET Server]
    /\ disk \in [Kinds -> (SUBSET Server) \cup {None}]
    /\ running \in [Kinds -> (SUBSET Server) \cup {None}]
    /\ ngx \in [Kinds -> SUBSET Pool]
    /\ cfgFailed \subseteq Kinds /\ poolFailed \subseteq Kinds /\ refused \subseteq [Kinds -> SUBSET Server]
    /\ shutting \in BOOLEAN /\ qdown \in BOOLEAN
    /\ changes \in Seq(SUBSET Sorts) /\ faults \in Nat

\* An event that no sync started at or before time t has answered.
EventComing(t) ==
    \/ ingQ # <<>> \/ epQ > 0 \/ secQ # <<>> \/ ipQ > 0
    \/ \E h \in Handlers : hpc[h] # "idle"
    \/ ring > 0
    \/ \E n \in DOMAIN queue : queue[n] >= t

Quiet == pc = "idle" /\ ~EventComing(lastSync)

Wanted == Config(Servers(ing))

\* S has the servers of T, whatever ingresses they come from.
Matches(S, T) ==
    /\ Cardinality(S) = Cardinality(T)
    /\ \A v \in S : \E w \in T : Alike(v, w)
    /\ \A w \in T : \E v \in S : Alike(v, w)

\* nginx has the servers of kind k that the caches ask for, or refused a
\* configuration that Config.Equals does not tell from what they ask for.
ServersCurrent(k) ==
    \/ Matches(running[k], Wanted[k])
    \/ k \in cfgFailed /\ \E c \in refused : Equals(c, Wanted)

\* nginx has the pools of kind k that the caches ask for.
PoolsCurrent(k) ==
    LET want == OfKind(PoolsOf(Servers(ing)), k)
    IN  k \in poolFailed \/ want = {} \/ ngx[k] = want

\* No change is lost: when the handlers, the ring and the worker are at rest and
\* every element left in the queue would be skipped, nginx runs what the caches
\* ask for, whatever was skipped, dropped from the ring or changed in the middle
\* of a sync; servers are excepted only if nginx refused them, or others that
\* Config.Equals takes for them, and has taken no configuration since.
NoLostUpdate == Quiet /\ ~shutting => \A k \in Kinds : ServersCurrent(k) /\ PoolsCurrent(k)

\* The certificate in use for an ingress is its secret's whichever of the two
\* came first, unless the secret changed between the moment the ingress's
\* handler read it and the moment it wrote it.
CertFollows ==
    ~shutting /\ secQ = <<>> /\ ingQ = <<>> /\ (\A h \in Handlers : hpc[h] \in {"idle", "next"}) =>
        \A k \in Keys \ raced : ing[k] # None /\ ing[k].tls => sslStore[k] = sec[k]

\* A server that nginx starts to run finds its pool there, unless nginx refused
\* the pools, or the store changed during the sync and an event will start
\* another, which closing may prevent.
PoolBeforeServer ==
    [][\A k \in Kinds \ (cfgFailed' \cup poolFailed') :
         \A v \in running'[k] \ running[k] :
            \/ \E p \in ngx'[k] : p.key = v.key /\ p.rule = v.rule
            \/ EventComing(ts) \/ shutting]_vars

\* The gateway comes to rest: with nginx running what the caches ask for, or,
\* once it is closed, with the worker gone, which Shutdown waits for.
Settles ==
    <>[](IF shutting THEN pc = "quit"
         ELSE Quiet /\ \A k \in Kinds : ServersCurrent(k) /\ PoolsCurrent(k))

\* rcfg is what its declaration calls it, the running configuration.
RunningConfiguration == rcfg # None => rcfg = running

=============================================================================
