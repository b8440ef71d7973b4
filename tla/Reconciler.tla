----------------------------- MODULE Reconciler -----------------------------
(***************************************************************************)
(* The control loop of the operator                                        *)
(* (operator/controllers/collectormonitor_controller.go): the single       *)
(* worker that reconciles CollectorMonitors, the informer cache it reads,  *)
(* the API objects it writes, and the registry of OpAMP clients.           *)
(*                                                                         *)
(* One Reconcile is five steps, one per call that reads or writes shared   *)
(* state, so that edits of the API, deletions, watch events and crashes    *)
(* fall between any two of them:                                           *)
(*                                                                         *)
(*   Fetch -> DiscoverWorkload -> DiscoverConfigMap                        *)
(*         -> EnsureOpAMPConnection -> UpdateStatus                        *)
(*                                                                         *)
(* reportFleetHealth and detectDrift run before UpdateStatus; their errors *)
(* are logged and dropped, so they never change what Reconcile does next.  *)
(*                                                                         *)
(* A resource version is abstracted to two facts: inSync (does the cache   *)
(* hold the latest version?) and latest (does Reconcile's copy?).  A time  *)
(* stamp is abstracted to a bit that flips when it is written again.       *)
(***************************************************************************)
EXTENDS Naturals, FiniteSets

CONSTANTS
    Monitors,       \* keys namespace/name of CollectorMonitors
    ConfigMaps,     \* names of ConfigMaps
    Modes,          \* values of spec.emergencyMode.enabled
    None,           \* nil, "not found", "not set"
    MaxFaults       \* budget of edits, failures and restarts (bounds the model)

(* spec.emergencyMode.enabled is *bool: true, false or absent. *)
ASSUME ModesAssumption == Modes \subseteq {"on", "off", "unset"}
ASSUME MaxFaultsAssumption == MaxFaults \in Nat
-----------------------------------------------------------------------------
(* The CollectorMonitor resource *)

MonitorSpec == [configMap : ConfigMaps \cup {None}, emergency : Modes]

ConditionTypes == {"Active", "Discovered", "ConfigMapResolved", "OpAMPConnected"}

Condition == [type : ConditionTypes, status : BOOLEAN, since : {0, 1}]

MonitorStatus ==
    [phase : {"", "Active"}, ref : ConfigMaps \cup {None}, conds : SUBSET Condition]

CollectorMonitor == [spec : MonitorSpec, status : MonitorStatus]

(* What the closures of an OpAMP client capture: the monitor it was made for. *)
Captured == [spec : MonitorSpec, ref : ConfigMaps \cup {None}]

NewStatus == [phase |-> "", ref |-> None, conds |-> {}]

ASSUME NoneAssumption ==
    None \notin Monitors \cup ConfigMaps \cup CollectorMonitor \cup Captured
-----------------------------------------------------------------------------
VARIABLES
    api,        \* api[m]: CollectorMonitor m in the API server, or None
    cache,      \* cache[m]: the informer's copy of it, or None
    inSync,     \* the monitors whose cached copy is the latest version
    queued,     \* keys in the workqueue (dirty set)
    timers,     \* keys waiting in the delaying queue (RequeueAfter, back-off)
    pc,         \* what the worker does next
    req,        \* the key being reconciled, or None
    monitor,    \* Reconcile's local copy of the resource, or None
    latest,     \* is that copy the latest version?
    clients,    \* opampClients[m], as what its closures captured, or None
    started,    \* opampStarted
    sockets,    \* sockets[m]: OpAMP connections running for m
    workloads,  \* the monitors whose workload selector matches something
    configMaps, \* the ConfigMaps that exist
    secrets,    \* the monitors whose auth secret can be read
    faults      \* how much of the budget is used

apiVars == <<api, cache, inSync>>
queueVars == <<queued, timers>>
workerVars == <<pc, req, monitor, latest>>
registryVars == <<clients, started, sockets>>
clusterVars == <<workloads, configMaps, secrets>>
vars == <<apiVars, queueVars, workerVars, registryVars, clusterVars, faults>>

ResourcesOK ==
    /\ api \in [Monitors -> CollectorMonitor \cup {None}]
    /\ cache \in [Monitors -> CollectorMonitor \cup {None}]
    /\ inSync \subseteq Monitors

QueueOK ==
    /\ queued \subseteq Monitors
    /\ timers \subseteq Monitors

WorkerOK ==
    /\ pc \in {"idle", "discover", "resolve", "connect", "status"}
    /\ req \in Monitors \cup {None}
    /\ monitor \in CollectorMonitor \cup {None}
    /\ pc = "idle" <=> req = None
    /\ req = None <=> monitor = None
    /\ latest \in BOOLEAN

RegistryOK ==
    /\ clients \in [Monitors -> Captured \cup {None}]
    /\ started \subseteq Monitors
    /\ sockets \in [Monitors -> Nat]

ClusterOK ==
    /\ workloads \subseteq Monitors
    /\ configMaps \subseteq ConfigMaps
    /\ secrets \subseteq Monitors
    /\ faults \in 0..MaxFaults

(* The types of the variables; the worker is idle exactly when it has neither a
   key nor a copy, and no connection count goes below zero. *)
TypeOK == ResourcesOK /\ QueueOK /\ WorkerOK /\ RegistryOK /\ ClusterOK

Exists(m) == api[m] # None

(* The operator starts in a cluster where some monitors exist, never
   reconciled; every one of them is queued by the informer's first listing. *)
Init ==
    /\ api \in [Monitors -> [spec : MonitorSpec, status : {NewStatus}] \cup {None}]
    /\ cache = api
    /\ inSync = Monitors
    /\ queued = {m \in Monitors : Exists(m)}
    /\ timers = {}
    /\ pc = "idle"
    /\ req = None
    /\ monitor = None
    /\ latest = FALSE
    /\ clients = [m \in Monitors |-> None]
    /\ started = {}
    /\ sockets = [m \in Monitors |-> 0]
    /\ workloads \in SUBSET Monitors
    /\ configMaps \in SUBSET ConfigMaps
    /\ secrets \in SUBSET Monitors
    /\ faults = 0

Spend ==
    /\ faults < MaxFaults
    /\ faults' = faults + 1
-----------------------------------------------------------------------------
(* The cluster around the operator *)

(* A write of api[m] by someone: the cache is behind until Watch, and the
   copy of a Reconcile in progress is no longer the latest version. *)
Write(m, object) ==
    /\ api' = [api EXCEPT ![m] = object]
    /\ inSync' = inSync \ {m}
    /\ latest' = (latest /\ req # m)
    /\ UNCHANGED <<cache, queueVars, pc, req, monitor, registryVars, clusterVars>>

(* kubectl apply: creates the resource or replaces its spec, never its status
   (the status is a subresource). *)
Apply(m, spec) ==
    /\ Spend
    /\ IF Exists(m)
       THEN /\ api[m].spec # spec
            /\ Write(m, [api[m] EXCEPT !.spec = spec])
       ELSE Write(m, [spec |-> spec, status |-> NewStatus])

Delete(m) ==
    /\ Spend
    /\ Exists(m)
    /\ Write(m, None)

Toggle(S, x) == (S \ {x}) \cup ({x} \ S)

(* A workload matching m's selector appears or disappears.  The controller
   does not watch workloads: nothing is queued. *)
ToggleWorkload(m) ==
    /\ Spend
    /\ workloads' = Toggle(workloads, m)
    /\ UNCHANGED <<apiVars, queueVars, workerVars, registryVars, configMaps, secrets>>

(* So for the secret with m's credential. *)
ToggleSecret(m) ==
    /\ Spend
    /\ secrets' = Toggle(secrets, m)
    /\ UNCHANGED <<apiVars, queueVars, workerVars, registryVars, workloads, configMaps>>

(* mapConfigMapToMonitors: the cached monitors whose resolved or selected
   ConfigMap is c. *)
MapConfigMapToMonitors(c) ==
    {m \in Monitors : /\ cache[m] # None
                      /\ c \in {cache[m].status.ref, cache[m].spec.configMap}}

(* ConfigMap c appears or disappears, or its content changes.  The informer's
   handler queues the monitors it maps to. *)
ConfigMapEvent(c) ==
    /\ Spend
    /\ \/ configMaps' = Toggle(configMaps, c)
       \/ c \in configMaps /\ configMaps' = configMaps
    /\ queued' = queued \cup MapConfigMapToMonitors(c)
    /\ UNCHANGED <<apiVars, timers, workerVars, registryVars, workloads, secrets>>

(* The informer catches up with m and its handler queues m.  Several writes
   may be seen as one: a deletion and a re-creation look like an update. *)
Watch(m) ==
    /\ m \notin inSync
    /\ cache' = [cache EXCEPT ![m] = api[m]]
    /\ inSync' = inSync \cup {m}
    /\ queued' = queued \cup {m}
    /\ UNCHANGED <<api, timers, workerVars, registryVars, clusterVars, faults>>

TimerFires(m) ==
    /\ m \in timers
    /\ timers' = timers \ {m}
    /\ queued' = queued \cup {m}
    /\ UNCHANGED <<apiVars, workerVars, registryVars, clusterVars, faults>>

(* A process starts: registry, queue and connections are gone, the informer
   lists every monitor anew. *)
Boot ==
    /\ cache' = api
    /\ inSync' = Monitors
    /\ queued' = {m \in Monitors : Exists(m)}
    /\ timers' = {}
    /\ pc' = "idle" /\ req' = None /\ monitor' = None /\ latest' = FALSE
    /\ clients' = [m \in Monitors |-> None]
    /\ started' = {}
    /\ sockets' = [m \in Monitors |-> 0]
    /\ UNCHANGED api

(* The process dies (crash, eviction, upgrade) and starts again. *)
Restart ==
    /\ Spend
    /\ Boot
    /\ UNCHANGED clusterVars
-----------------------------------------------------------------------------
(* The worker *)

Continue(step) ==
    /\ pc' = step
    /\ UNCHANGED <<req, latest>>

(* Reconcile returns; its local copy is dropped with everything set in it. *)
Return ==
    /\ pc' = "idle"
    /\ req' = None
    /\ monitor' = None
    /\ latest' = FALSE

(* Mutant of ReturnAndRequeue: a return path without requeue. *)
ReturnOnly ==
    /\ Return
    /\ UNCHANGED queueVars

(* Return with RequeueAfter, or with an error that the workqueue retries after
   a back-off: the key waits in the delaying queue. *)
ReturnAndRequeue ==
    /\ Return
    /\ timers' = timers \cup {req}
    /\ UNCHANGED queued

(* Mutant of SetCondition: every call stamps a new LastTransitionTime. *)
ReplaceCondition(conds, type, status) ==
    LET old == {c \in conds : c.type = type}
        now == IF \E c \in old : c.since = 0 THEN 1 ELSE 0
    IN  (conds \ old) \cup {[type |-> type, status |-> status, since |-> now]}

(* setCondition: LastTransitionTime moves only if the status does. *)
SetCondition(conds, type, status) ==
    LET old == {c \in conds : c.type = type}
        now == IF \E c \in old : c.since = 0 THEN 1 ELSE 0
        cond == [type |-> type, status |-> status, since |-> now]
    IN  IF \E c \in old : c.status = status
        THEN conds
        ELSE (conds \ old) \cup {cond}

(* Mutants of CleanupOpAMPClient: it does nothing; it does not check that there
   is a client; it forgets to clear opampStarted. *)
CleanupNothing(m) == UNCHANGED <<sockets, clients, started>>

CleanupUnchecked(m) ==
    /\ sockets' = [sockets EXCEPT ![m] = @ - 1]
    /\ clients' = [clients EXCEPT ![m] = None]
    /\ started' = started \ {m}

CleanupKeepsStarted(m) ==
    /\ sockets' = [sockets EXCEPT ![m] = IF clients[m] # None THEN @ - 1 ELSE @]
    /\ clients' = [clients EXCEPT ![m] = None]
    /\ UNCHANGED started

(* cleanupOpAMPClient: stop and forget m's client, if it has one. *)
CleanupOpAMPClient(m) ==
    /\ IF clients[m] # None
       THEN /\ sockets' = [sockets EXCEPT ![m] = @ - 1]
            /\ clients' = [clients EXCEPT ![m] = None]
       ELSE UNCHANGED <<sockets, clients>>
    /\ started' = started \ {m}

(* Reconcile reads the monitor from the cache. *)
Fetch(m) ==
    /\ pc = "idle"
    /\ m \in queued
    /\ queued' = queued \ {m}
    /\ \/ /\ cache[m] # None
          /\ pc' = "discover"
          /\ req' = m
          /\ monitor' = cache[m]
          /\ latest' = (m \in inSync)
          /\ UNCHANGED registryVars
       \/ /\ cache[m] = None
          /\ CleanupOpAMPClient(m)
          /\ UNCHANGED workerVars
    /\ UNCHANGED <<apiVars, timers, clusterVars, faults>>

(* The read fails with something other than NotFound. *)
FetchFails(m) ==
    /\ Spend
    /\ pc = "idle"
    /\ m \in queued
    /\ queued' = queued \ {m}
    /\ timers' = timers \cup {m}
    /\ UNCHANGED <<apiVars, workerVars, registryVars, clusterVars>>

(* discoverWorkload; on failure the Discovered condition is set in the local
   copy, which is dropped, and the key is retried after 30s. *)
DiscoverWorkload ==
    /\ pc = "discover"
    /\ \/ /\ req \in workloads
          /\ Continue("resolve")
          /\ UNCHANGED <<monitor, queueVars>>
       \/ /\ req \notin workloads
          /\ ReturnAndRequeue
    /\ UNCHANGED <<apiVars, registryVars, clusterVars, faults>>

(* discoverConfigMap: the ConfigMap the spec names.  Without a name the code
   always fails ("auto-discovery not yet implemented").  On failure the
   ConfigMapResolved condition is lost as above. *)
DiscoverConfigMap ==
    /\ pc = "resolve"
    /\ LET cm == monitor.spec.configMap
       IN  \/ /\ cm \in configMaps
              /\ monitor' = [monitor EXCEPT !.status.ref = cm]
              /\ Continue("connect")
              /\ UNCHANGED queueVars
           \/ /\ cm \notin configMaps
              /\ ReturnAndRequeue
    /\ UNCHANGED <<apiVars, registryVars, clusterVars, faults>>

(* Mutant of Connected: the check of opampStarted is lost. *)
NeverConnected(m) == FALSE

(* ensureOpAMPConnection has run for this key before. *)
Connected(m) == m \in started

(* ensureOpAMPConnection, under opampMu: nothing if the key has a client, else
   read the secret, make a client whose callbacks capture this copy of the
   monitor, start it and register it. *)
EnsureOpAMPConnection ==
    /\ pc = "connect"
    /\ \/ /\ Connected(req)
          /\ Continue("status")
          /\ UNCHANGED <<monitor, queueVars, registryVars>>
       \/ /\ ~Connected(req)
          /\ req \in secrets
          /\ clients' = [clients EXCEPT ![req] =
                            [spec |-> monitor.spec, ref |-> monitor.status.ref]]
          /\ started' = started \cup {req}
          /\ sockets' = [sockets EXCEPT ![req] = @ + 1]
          /\ Continue("status")
          /\ UNCHANGED <<monitor, queueVars>>
       \/ /\ ~Connected(req)
          /\ req \notin secrets
          /\ ReturnAndRequeue
          /\ UNCHANGED registryVars
    /\ UNCHANGED <<apiVars, clusterVars, faults>>

(* client.Start returns an error: nothing is registered, retry after 10s. *)
StartFails ==
    /\ Spend
    /\ pc = "connect"
    /\ ~Connected(req)
    /\ req \in secrets
    /\ ReturnAndRequeue
    /\ UNCHANGED <<apiVars, registryVars, clusterVars>>

(* Mutant of ActiveStatus: the monitor is read again before the write, so the
   name discoverConfigMap left in the local copy is lost. *)
ActiveStatusReread ==
    [cache[req].status EXCEPT !.phase = "Active",
                              !.conds = SetCondition(@, "Active", TRUE)]

(* The status Reconcile has computed. *)
ActiveStatus ==
    [monitor.status EXCEPT !.phase = "Active",
                           !.conds = SetCondition(@, "Active", TRUE)]

(* Mutant of Accepted: the write carries no resource version. *)
AcceptedIfExists == Exists(req)

(* The API server accepts a write of the copy: nobody has written since. *)
Accepted == latest

(* Status().Update: refused with a conflict or NotFound unless the copy is the
   latest version; otherwise it replaces the status.  Writing what is there
   already makes no new version and no watch event.  The key is due again after
   60s, or after a back-off if the write was refused. *)
UpdateStatus ==
    /\ pc = "status"
    /\ \/ /\ Accepted
          /\ api[req].status # ActiveStatus
          /\ api' = [api EXCEPT ![req].status = ActiveStatus]
          /\ inSync' = inSync \ {req}
       \/ /\ Accepted
          /\ api[req].status = ActiveStatus
          /\ UNCHANGED <<api, inSync>>
       \/ /\ ~Accepted
          /\ UNCHANGED <<api, inSync>>
    /\ ReturnAndRequeue
    /\ UNCHANGED <<cache, registryVars, clusterVars, faults>>

(* The update fails for a reason of its own. *)
UpdateFails ==
    /\ Spend
    /\ pc = "status"
    /\ ReturnAndRequeue
    /\ UNCHANGED <<apiVars, registryVars, clusterVars>>
-----------------------------------------------------------------------------
Environment ==
    \/ \E m \in Monitors : \/ \E s \in MonitorSpec : Apply(m, s)
                           \/ Delete(m)
                           \/ ToggleWorkload(m)
                           \/ ToggleSecret(m)
    \/ \E c \in ConfigMaps : ConfigMapEvent(c)

Step == DiscoverWorkload \/ DiscoverConfigMap \/ EnsureOpAMPConnection \/ UpdateStatus

Failure == (\E m \in Monitors : FetchFails(m)) \/ StartFails \/ UpdateFails

Next ==
    \/ Environment
    \/ \E m \in Monitors : Watch(m) \/ TimerFires(m) \/ Fetch(m)
    \/ Step
    \/ Failure
    \/ Restart

(* Watches deliver, timers fire, and the worker never stops inside a
   Reconcile.  The workqueue is FIFO and has one worker, so a key that stays
   queued is taken even though the worker is busy in between: strong fairness. *)
Fairness ==
    /\ WF_vars(Step)
    /\ \A m \in Monitors : WF_vars(Watch(m)) /\ WF_vars(TimerFires(m)) /\ SF_vars(Fetch(m))

Spec == Init /\ [][Next]_vars /\ Fairness
-----------------------------------------------------------------------------
(* Safety *)

(* The registry and the connections that run agree for every monitor: a client
   that is registered has exactly one running connection, an unregistered one
   has none, whatever edits, failures, deletions and re-creations the monitor
   went through (ensureOpAMPConnection and cleanupOpAMPClient; no connection
   leaks and none is opened twice). *)
OneClientPerMonitor ==
    \A m \in Monitors :
        /\ sockets[m] = IF m \in started THEN 1 ELSE 0
        /\ m \in started <=> clients[m] # None

(* No lost wake-up: a monitor that exists, or whose client is still open, is
   queued, waits for a timer, is being reconciled, or has a watch event on its
   way.  There is no periodic resync to repair a missing requeue in Reconcile's
   return paths. *)
NeverForgotten ==
    \A m \in Monitors :
        Exists(m) \/ clients[m] # None =>
            m \in queued \/ m \in timers \/ req = m \/ m \notin inSync

(* A status that is written names the ConfigMap of the spec it is written next
   to: Reconcile reads, works and writes without a lock, and only the resource
   version keeps the result of an old spec out of a newer one. *)
StatusMatchesSpec ==
    [][\A m \in Monitors :
          /\ Exists(m)
          /\ Exists(m)'
          /\ api'[m].status # api[m].status
          => api'[m].status.ref = api'[m].spec.configMap]_api

(* The status of m says that Reconcile has succeeded for its current spec. *)
Settled(m) ==
    /\ Exists(m)
    /\ api[m].status.phase = "Active"
    /\ api[m].status.ref = api[m].spec.configMap
    /\ \E c \in api[m].status.conds : c.type = "Active" /\ c.status

(* A status that says so is never written again for the same spec: the write that
   settles it queues the monitor once more (the controller has no predicate on
   its own writes), and if Reconcile then wrote anything new - a time stamp, say -
   it would wake itself for ever. *)
SettledStays ==
    [][\A m \in Monitors :
          Settled(m) /\ Exists(m)' /\ api'[m].spec = api[m].spec => api'[m] = api[m]]_api

(* What Reconcile needs to succeed for m is there. *)
Healthy(m) ==
    /\ Exists(m)
    /\ api[m].spec.configMap \in configMaps
    /\ m \in workloads
    /\ m \in secrets

(* Reconcile has succeeded for m: it is connected, and its status names the
   ConfigMap of its current spec. *)
Done(m) ==
    /\ Exists(m)
    /\ api[m].status.phase = "Active"
    /\ api[m].status.ref = api[m].spec.configMap
    /\ sockets[m] = 1

(* The steps a Reconcile in progress still has to take. *)
StepsLeft ==
    CASE pc = "idle" -> 0
      [] pc = "discover" -> 4
      [] pc = "resolve" -> 3
      [] pc = "connect" -> 2
      [] pc = "status" -> 1

(* How far a healthy m is from done: a watch event, the rest of a Reconcile that
   works on an old copy, a timer, its turn in the queue, and a Reconcile. *)
Distance(m) ==
    IF Done(m) THEN 0
    ELSE IF m \notin inSync THEN 10
    ELSE IF req = m THEN (IF latest THEN StepsLeft ELSE 5 + StepsLeft)
    ELSE IF m \in queued THEN 5
    ELSE 6

(* The step takes what m waits for. *)
Served(m) ==
    IF m \notin inSync THEN m \in inSync'
    ELSE IF req = m THEN pc' # pc
    ELSE IF m \in queued THEN req' = m
    ELSE m \in queued'

(* As long as m is healthy and nothing fails, no step - its own, of another
   monitor, an old Reconcile that ends late - takes it further away from being
   done, and every step that m waits for brings it closer.  So ten of them are
   enough, and a monitor that is done stays so: no write, no conflict and no
   second connection undoes it. *)
ComesCloser ==
    [][\A m \in Monitors :
          Healthy(m) /\ UNCHANGED faults =>
              /\ Distance(m)' <= Distance(m)
              /\ Served(m) /\ ~Done(m) => Distance(m)' < Distance(m)]_vars

(* How far a deleted m is from being closed: a watch event, the rest of a
   Reconcile that has read the old copy and may still connect, a timer, and the
   Reconcile that sees NotFound. *)
ClosingDistance(m) ==
    IF m \notin inSync THEN 7
    ELSE IF req = m THEN 2 + StepsLeft
    ELSE IF sockets[m] = 0 THEN 0
    ELSE IF m \in queued THEN 1
    ELSE 2

(* The step takes what the closing of m waits for. *)
Closing(m) ==
    IF m \notin inSync THEN m \in inSync'
    ELSE IF req = m THEN pc' # pc
    ELSE IF m \in queued THEN m \notin queued'
    ELSE m \in queued'

(* As long as m stays deleted and nothing fails, no step - the end of a Reconcile
   that connects m although it is gone among them - takes it further away from
   being closed, and every step that m waits for brings it closer; once closed
   it is not opened again. *)
DeletedComesCloser ==
    [][\A m \in Monitors :
          ~Exists(m) /\ UNCHANGED faults =>
              /\ ClosingDistance(m)' <= ClosingDistance(m)
              /\ Closing(m) /\ ClosingDistance(m) > 0 =>
                     ClosingDistance(m)' < ClosingDistance(m)]_vars

(* Liveness *)

(* A monitor whose workload, ConfigMap and secret stay available is connected in
   the end and its status names the ConfigMap of its current spec, whatever
   failed, conflicted or restarted before. *)
EventuallyActive ==
    \A m \in Monitors : <>[]Healthy(m) => <>[]Done(m)

(* The operator's own status write queues its own monitor again (the controller
   has no predicate on CollectorMonitor events); that loop comes to rest because
   a second write changes nothing. *)
StatusSettles == <>[][UNCHANGED api]_api

(* The connections of the operator are those the abstract specification
   promises. *)
Connections ==
    INSTANCE FleetConnections WITH wanted <- {m \in Monitors : Exists(m)},
                                   open <- sockets

ImplementsConnections == Connections!Spec
-----------------------------------------------------------------------------
(* Statements of the documentation that the code does not satisfy *)

(* The gate of OnEmergencyCmd reads the captured copy of the spec. *)
GateOpen(spec) == spec.emergency # "off"

(* types.go: EmergencyMode, "When disabled, the Operator is read-only".  Once
   emergency mode stays off in a healthy monitor, its client comes to refuse
   emergency commands. *)
GateFollowsSpec ==
    \A m \in Monitors :
        <>[](Healthy(m) /\ ~GateOpen(api[m].spec)) =>
            <>[](clients[m] # None /\ ~GateOpen(clients[m].spec))
=============================================================================
