---------------------------- MODULE FleetReport -----------------------------
(***************************************************************************)
(* What the server is told about a fleet: discoverWorkload,                *)
(* discoverConfigMap, reportFleetHealth and detectDrift in                 *)
(* operator/controllers/collectormonitor_controller.go on one side, and    *)
(* SetHealth, SetEffectiveConfig and getEffectiveConfig of                 *)
(* pkg/opamp/client.go on the other.                                       *)
(*                                                                         *)
(* One monitor, whose resource does not change (Reconciler is about that), *)
(* is reconciled again and again:                                          *)
(*                                                                         *)
(*   DiscoverWorkload -> DiscoverConfigMap -> EnsureOpAMPConnection        *)
(*     -> ReportHealth -> ReportConfig -> DetectDrift                      *)
(*                                                                         *)
(* while workloads, pods and the configuration change, the informer caches *)
(* lag behind, and the connection breaks and comes back.  The client keeps *)
(* the last health and configuration; opamp-go sends what was set since    *)
(* the last message (dirty), and everything after a reconnect.             *)
(***************************************************************************)
EXTENDS Naturals, FiniteSets

CONSTANTS
    Workloads,      \* workloads that match the monitor's labels and name
    Order,          \* Order[w]: 1 DaemonSet, 2 Deployment, 3 StatefulSet
    Pods,
    Owner,          \* Owner[p]: the workload whose selector matches pod p
    Labelled,       \* does the monitor have workloadSelector.matchLabels?
    Selected,       \* the pods that carry these labels (not the workload's selector)
    DriftDetection, \* spec.driftDetection.enabled
    None,           \* "does not exist", nil, "not told"
    Empty,          \* no text under the key, no annotation, ""
    MaxFaults       \* budget of changes, failures and restarts (bounds the model)

ASSUME OrderAssumption == Order \in [Workloads -> 1..3]
ASSUME PodsAssumption == IsFiniteSet(Pods)
ASSUME OwnerAssumption == Owner \in [Pods -> Workloads]
ASSUME SelectedAssumption == Labelled \in BOOLEAN /\ Selected \subseteq Pods
ASSUME DriftDetectionAssumption == DriftDetection \in BOOLEAN
ASSUME MaxFaultsAssumption == MaxFaults \in Nat

(* The texts a configuration can have; an edit makes one that is new.  A hash
   stands for the text it was computed from. *)
Text == 0..MaxFaults

Pod == [ready : BOOLEAN, hash : Text \cup {Empty}]

(* A health report: the pods with their readiness, and the aggregate, which is
   healthy only if there are pods and all of them are ready. *)
Health ==
    {h \in [healthy : BOOLEAN, pods : SUBSET Pods, ready : SUBSET Pods] :
        /\ h.ready \subseteq h.pods
        /\ h.healthy <=> h.pods # {} /\ h.ready = h.pods}

ASSUME SentinelAssumption ==
    /\ None \notin Text \cup Pod \cup Health \cup Workloads \cup {Empty}
    /\ Empty \notin Text
-----------------------------------------------------------------------------
VARIABLES
    workloads,      \* the workloads that exist
    pods,           \* pods[p]: pod p, or None
    config,         \* the text in the ConfigMap; Empty without the key, None if deleted
    seenWorkloads,  \* the informers' copies of these
    seenPods,
    seenConfig,
    pc,             \* what the worker does next
    workload,       \* Reconcile's workload, or None
    copy,           \* Reconcile's ConfigMap, or None
    client,         \* the workload the OpAMP client was made for, or None
    link,           \* is it connected?
    health,         \* the health it was given, or None for the initial one
    effective,      \* its effectiveConfig, Empty at first
    announced,      \* the configuration that opamp-go sends next or sent last
    dirty,          \* what it has not sent yet
    told,           \* what the server was told last
    alarm,          \* did the last drift check record an event? (history)
    faults          \* how much of the budget is used

clusterVars == <<workloads, pods, config>>
cacheVars == <<seenWorkloads, seenPods, seenConfig>>
workerVars == <<pc, workload, copy>>
clientVars == <<client, link, health, effective, announced, dirty>>
vars == <<clusterVars, cacheVars, workerVars, clientVars, told, alarm, faults>>

ClusterOK(W, P, C) ==
    /\ W \subseteq Workloads
    /\ P \in [Pods -> Pod \cup {None}]
    /\ C \in Text \cup {Empty, None}

WorkerOK ==
    /\ pc \in {"idle", "discover", "resolve", "connect", "health", "config", "drift"}
    /\ workload \in Workloads \cup {None}
    /\ copy \in Text \cup {Empty, None}
    /\ pc \in {"idle", "discover"} <=> workload = None
    /\ pc \in {"health", "config", "drift"} => client # None

ClientOK ==
    /\ client \in Workloads \cup {None}
    /\ link \in BOOLEAN
    /\ health \in Health \cup {None}
    /\ effective \in Text \cup {Empty}
    /\ announced \in Text \cup {Empty}
    /\ dirty \subseteq {"health", "config"}
    /\ client = None => ~link

(* The types of the variables.  Health, the type of a report, says that a fleet
   is called healthy only if it has pods and all are ready; and a report is made
   only when there is a client to make it to. *)
TypeOK ==
    /\ ClusterOK(workloads, pods, config)
    /\ ClusterOK(seenWorkloads, seenPods, seenConfig)
    /\ WorkerOK /\ ClientOK
    /\ told \in [health : Health \cup {None}, config : Text \cup {Empty}]
    /\ alarm \in BOOLEAN
    /\ faults \in 0..MaxFaults

Init ==
    /\ workloads \in SUBSET Workloads
    /\ pods \in [Pods -> {None, [ready |-> TRUE, hash |-> 0]}]
    /\ config = 0
    /\ seenWorkloads = workloads /\ seenPods = pods /\ seenConfig = config
    /\ pc = "idle" /\ workload = None /\ copy = None
    /\ client = None /\ link = FALSE
    /\ health = None /\ effective = Empty /\ announced = Empty /\ dirty = {}
    /\ told = [health |-> None, config |-> Empty]
    /\ alarm = FALSE
    /\ faults = 0

Spend ==
    /\ faults < MaxFaults
    /\ faults' = faults + 1
-----------------------------------------------------------------------------
(* The cluster and the informers *)

ToggleWorkload(w) ==
    /\ Spend
    /\ workloads' = (workloads \ {w}) \cup ({w} \ workloads)
    /\ UNCHANGED <<pods, config, cacheVars, workerVars, clientVars, told, alarm>>

(* A pod disappears, changes its readiness, or starts; a pod that starts may
   carry the hash of the configuration as annotation. *)
ChangePod(p) ==
    /\ Spend
    /\ \/ /\ pods[p] # None
          /\ pods' = [pods EXCEPT ![p] = None]
       \/ /\ pods[p] # None
          /\ pods' = [pods EXCEPT ![p].ready = ~@]
       \/ /\ pods[p] = None
          /\ \E hash \in {Empty} \cup ({config} \cap Text) :
                pods' = [pods EXCEPT ![p] = [ready |-> FALSE, hash |-> hash]]
    /\ UNCHANGED <<workloads, config, cacheVars, workerVars, clientVars, told, alarm>>

(* The ConfigMap gets a new text, loses its key, or is deleted. *)
EditConfig ==
    /\ Spend
    /\ config' \in {faults', Empty, None} \ {config}
    /\ UNCHANGED <<workloads, pods, cacheVars, workerVars, clientVars, told, alarm>>

WatchWorkloads ==
    /\ seenWorkloads # workloads
    /\ seenWorkloads' = workloads
    /\ UNCHANGED <<clusterVars, seenPods, seenConfig, workerVars, clientVars, told, alarm, faults>>

WatchPods ==
    /\ seenPods # pods
    /\ seenPods' = pods
    /\ UNCHANGED <<clusterVars, seenWorkloads, seenConfig, workerVars, clientVars, told, alarm, faults>>

WatchConfig ==
    /\ seenConfig # config
    /\ seenConfig' = config
    /\ UNCHANGED <<clusterVars, seenWorkloads, seenPods, workerVars, clientVars, told, alarm, faults>>

(* The process dies and starts again, with new informers and without a client. *)
Restart ==
    /\ Spend
    /\ seenWorkloads' = workloads /\ seenPods' = pods /\ seenConfig' = config
    /\ pc' = "idle" /\ workload' = None /\ copy' = None
    /\ client' = None /\ link' = FALSE
    /\ health' = None /\ effective' = Empty /\ announced' = Empty /\ dirty' = {}
    /\ UNCHANGED <<clusterVars, told, alarm>>
-----------------------------------------------------------------------------
(* The connection *)

(* opamp-go connects; its first message holds the whole state, the effective
   configuration as getEffectiveConfig returns it. *)
Connect ==
    /\ client # None
    /\ ~link
    /\ link' = TRUE
    /\ dirty' = {"health", "config"}
    /\ announced' = effective
    /\ UNCHANGED <<clusterVars, cacheVars, workerVars, client, health, effective, told, alarm, faults>>

Disconnect ==
    /\ Spend
    /\ link
    /\ link' = FALSE
    /\ UNCHANGED <<clusterVars, cacheVars, workerVars, client, health, effective, announced, dirty,
                   told, alarm>>

(* The next message reaches the server. *)
Deliver ==
    /\ link
    /\ dirty # {}
    /\ told' = [health |-> IF "health" \in dirty THEN health ELSE told.health,
                config |-> IF "config" \in dirty THEN announced ELSE told.config]
    /\ dirty' = {}
    /\ UNCHANGED <<clusterVars, cacheVars, workerVars, client, link, health, effective, announced,
                   alarm, faults>>

(* Mutant of SetHealth: the health is kept for the next connection only. *)
SetHealthQuiet(h) ==
    /\ health' = h
    /\ UNCHANGED dirty

(* Client.SetHealth *)
SetHealth(h) ==
    /\ health' = h
    /\ dirty' = dirty \cup {"health"}

(* Mutant of SetEffectiveConfig: the server is told, but the text is not stored
   where getEffectiveConfig finds it. *)
SetEffectiveConfigUnstored(text) ==
    /\ UNCHANGED effective
    /\ announced' = effective
    /\ dirty' = dirty \cup {"config"}

(* Client.SetEffectiveConfig stores the text, then has opamp-go ask for it. *)
SetEffectiveConfig(text) ==
    /\ effective' = text
    /\ announced' = text
    /\ dirty' = dirty \cup {"config"}
-----------------------------------------------------------------------------
(* The worker *)

Continue(step) ==
    /\ pc' = step
    /\ UNCHANGED <<workload, copy>>

Return ==
    /\ pc' = "idle"
    /\ workload' = None
    /\ copy' = None

(* Reconcile is called again: module Reconciler shows that its key is never
   forgotten. *)
Reconcile ==
    /\ pc = "idle"
    /\ Continue("discover")
    /\ UNCHANGED <<clusterVars, cacheVars, clientVars, told, alarm, faults>>

(* DaemonSets are searched first, then Deployments, then StatefulSets. *)
FirstKind(W) == {w \in W : \A v \in W : Order[w] <= Order[v]}

(* discoverWorkload takes the first of a list that is in no particular order. *)
DiscoverWorkload ==
    /\ pc = "discover"
    /\ \/ /\ pc' = "resolve"
          /\ workload' \in FirstKind(seenWorkloads)
          /\ UNCHANGED copy
       \/ /\ seenWorkloads = {}
          /\ Return
    /\ UNCHANGED <<clusterVars, cacheVars, clientVars, told, alarm, faults>>

(* discoverConfigMap, for a monitor that names its ConfigMap. *)
DiscoverConfigMap ==
    /\ pc = "resolve"
    /\ \/ /\ seenConfig # None
          /\ pc' = "connect"
          /\ copy' = seenConfig
          /\ UNCHANGED workload
       \/ /\ seenConfig = None
          /\ Return
    /\ UNCHANGED <<clusterVars, cacheVars, clientVars, told, alarm, faults>>

(* The client is made once, for the workload found then; its failures are in
   Reconciler. *)
EnsureOpAMPConnection ==
    /\ pc = "connect"
    /\ client' = IF client = None THEN workload ELSE client
    /\ Continue("health")
    /\ UNCHANGED <<clusterVars, cacheVars, link, health, effective, announced, dirty, told, alarm,
                   faults>>

(* Mutant of Aggregate: a fleet without pods is healthy. *)
AggregateAll(total, ready) == IF ready = total THEN "healthy" ELSE "degraded"

(* The aggregate health of a fleet. *)
Aggregate(total, ready) ==
    CASE total = 0                    -> "unknown"
      [] total > 0 /\ ready = total   -> "healthy"
      [] 0 < ready /\ ready < total   -> "degraded"
      [] OTHER                        -> "unhealthy"

(* What reportFleetHealth computes from the pods in P of workload w, as SetHealth
   sends it: of the aggregate only "healthy or not" is left. *)
HealthOf(P, w) ==
    LET mine == {p \in Pods : Owner[p] = w /\ P[p] # None}
        ready == {p \in mine : P[p].ready}
    IN  [healthy |-> Aggregate(Cardinality(mine), Cardinality(ready)) = "healthy",
         pods |-> mine,
         ready |-> ready]

(* reportFleetHealth up to SetHealth *)
ReportHealth ==
    /\ pc = "health"
    /\ SetHealth(HealthOf(seenPods, workload))
    /\ Continue("config")
    /\ UNCHANGED <<clusterVars, cacheVars, client, link, effective, announced, told, alarm, faults>>

(* The list of pods or SetHealth fails: reportFleetHealth returns, Reconcile goes
   on. *)
ReportFails ==
    /\ Spend
    /\ pc = "health"
    /\ Continue("drift")
    /\ UNCHANGED <<clusterVars, cacheVars, clientVars, told, alarm>>

(* The rest of reportFleetHealth: the ConfigMap is read again.  If it is gone or
   has no such key the client keeps the text it has. *)
ReportConfig ==
    /\ pc = "config"
    /\ \/ /\ seenConfig \in Text
          /\ SetEffectiveConfig(seenConfig)
       \/ /\ seenConfig \notin Text
          /\ UNCHANGED <<effective, announced, dirty>>
    /\ Continue("drift")
    /\ UNCHANGED <<clusterVars, cacheVars, client, link, health, told, alarm, faults>>

(* UpdateEffectiveConfig fails: the text is stored, but not announced.  Reconcile
   goes on; a reconnect or the next report makes up for it. *)
ReportConfigFails ==
    /\ Spend
    /\ pc = "config"
    /\ seenConfig \in Text
    /\ effective' = seenConfig
    /\ Continue("drift")
    /\ UNCHANGED <<clusterVars, cacheVars, client, link, health, announced, dirty, told, alarm>>

(* Mutant of Drifted: a pod without annotation is taken for a drifted one. *)
DriftedOrUnknown(hash, text) == hash # text

(* A pod without annotation says nothing. *)
Drifted(hash, text) == hash \notin {Empty, text}

(* The ready pods that the monitor's labels match, of whatever workload; without
   labels none is looked for. *)
Candidates(P) == {p \in Selected : Labelled /\ P[p] # None /\ P[p].ready}

(* detectDrift compares the ConfigMap read at the beginning with the annotation
   of the first candidate.  An empty text, missing labels and no candidate are
   errors, which are dropped. *)
DetectDrift ==
    /\ pc = "drift"
    /\ \/ /\ DriftDetection
          /\ copy \in Text
          /\ \E p \in Candidates(seenPods) : alarm' = Drifted(seenPods[p].hash, copy)
       \/ /\ DriftDetection
          /\ copy \notin Text \/ Candidates(seenPods) = {}
          /\ alarm' = FALSE
       \/ /\ ~DriftDetection
          /\ UNCHANGED alarm
    /\ Return
    /\ UNCHANGED <<clusterVars, cacheVars, clientVars, told, faults>>

(* The list of pods fails, which is an error that is dropped, too. *)
DriftFails ==
    /\ Spend
    /\ pc = "drift"
    /\ DriftDetection /\ Labelled /\ copy \in Text
    /\ alarm' = FALSE
    /\ Return
    /\ UNCHANGED <<clusterVars, cacheVars, clientVars, told>>
-----------------------------------------------------------------------------
Step ==
    \/ Reconcile \/ DiscoverWorkload \/ DiscoverConfigMap \/ EnsureOpAMPConnection
    \/ ReportHealth \/ ReportConfig \/ DetectDrift

Failure == ReportFails \/ ReportConfigFails \/ DriftFails

Informers == WatchWorkloads \/ WatchPods \/ WatchConfig

Environment ==
    \/ \E w \in Workloads : ToggleWorkload(w)
    \/ \E p \in Pods : ChangePod(p)
    \/ EditConfig
    \/ Disconnect

Next == Step \/ Failure \/ Informers \/ Connect \/ Deliver \/ Environment \/ Restart

(* The worker goes on and is woken again (RequeueAfter), watches deliver, and
   opamp-go connects and sends as long as it has to. *)
Fairness ==
    /\ WF_vars(Step)
    /\ WF_vars(WatchWorkloads) /\ WF_vars(WatchPods) /\ WF_vars(WatchConfig)
    /\ WF_vars(Connect) /\ WF_vars(Deliver)

Spec == Init /\ [][Next]_vars /\ Fairness
-----------------------------------------------------------------------------
(* Safety *)

(* While the connection is up and nothing waits to be sent, the server has what
   opamp-go was given last, however often the connection broke in between and
   wherever in a report it broke (SetHealth and SetEffectiveConfig trigger a
   message, getEffectiveConfig serves the reconnect). *)
ServerKnows ==
    client # None /\ link =>
        /\ "health" \notin dirty => told.health = health
        /\ "config" \notin dirty => told.config = announced

Reportable == workloads # {} /\ config \in Text

(* The informers have caught up. *)
Synced == seenWorkloads = workloads /\ seenPods = pods /\ seenConfig = config

HealthIsRight(h) == \E w \in FirstKind(workloads) : h = HealthOf(pods, w)

TextIsRight(text) == text = config

(* The client has the text, and opamp-go was told so. *)
ConfigIsRight == TextIsRight(effective) /\ TextIsRight(announced)

(* The workload Reconcile works on, if any, is one that the monitor selects now. *)
Fresh == workload # None => workload \in FirstKind(workloads)

(* The steps of Reconcile from its beginning. *)
Position ==
    CASE pc = "idle" -> 0
      [] pc = "discover" -> 1
      [] pc = "resolve" -> 2
      [] pc = "connect" -> 3
      [] pc = "health" -> 4
      [] pc = "config" -> 5
      [] pc = "drift" -> 6

(* reportFleetHealth has read the pods. *)
Reported == pc \in {"config", "drift"}

(* The steps until the client has the right report for good: the rest of a
   Reconcile that works on an old workload or has reported old pods, and one more
   up to reportFleetHealth. *)
ReportLeft ==
    IF HealthIsRight(health) /\ ConfigIsRight /\ (Fresh \/ Reported) THEN 0
    ELSE IF (Fresh /\ ~Reported) \/ (HealthIsRight(health) /\ pc = "config") THEN 6 - Position
    ELSE 13 - Position

(* The steps until the server has it. *)
Distance ==
    IF ReportLeft > 0 THEN ReportLeft + 2
    ELSE IF HealthIsRight(told.health) /\ TextIsRight(told.config) THEN 0
    ELSE IF link THEN 1 ELSE 2

(* The step takes what the report waits for: the worker, the connection or the
   next message. *)
Served ==
    IF ReportLeft > 0 THEN pc' # pc
    ELSE IF link THEN dirty' = {} ELSE link'

(* As long as the cluster rests and nothing fails, no step - a report that began
   with an old workload, a message with an old health, a reconnect in between -
   takes the server further away from the right report, and each step the report
   waits for brings it closer; so fifteen of them are enough, and then every
   later message tells the same. *)
ComesCloser ==
    [][Reportable /\ Synced /\ UNCHANGED <<clusterVars, faults>> =>
           /\ Distance' <= Distance
           /\ Distance > 0 /\ Served => Distance' < Distance]_vars

AllDrift ==
    /\ Candidates(pods) # {}
    /\ \A p \in Candidates(pods) : pods[p].hash \notin {Empty, config}
NoneDrifts == \A p \in Candidates(pods) : pods[p].hash \in {Empty, config}

(* The last check was right about the pods it may take; those of the workload that
   do not carry the monitor's labels are never checked.  If some pods drift and
   others do not, it depends on the pod it takes. *)
AlarmIsRight == (AllDrift => alarm) /\ (NoneDrifts => ~alarm)

(* The check under way, if any, compares with the present text. *)
CopyIsFresh == pc \in {"connect", "health", "config", "drift"} => copy = config

(* The steps until the alarm is right for good: the rest of a Reconcile that has
   read an old text, and one whole Reconcile. *)
AlarmLeft ==
    IF AlarmIsRight /\ CopyIsFresh THEN 0
    ELSE IF CopyIsFresh THEN 7 - Position
    ELSE 14 - Position

(* As long as the cluster rests and nothing fails, every step of the worker brings
   the drift alarm closer to being right, although a check that began with an old
   text may still make it wrong, and no step - not the end of that check, nor a
   check that finds nothing new - takes it away again. *)
AlarmComesRight ==
    [][DriftDetection /\ Reportable /\ Synced /\ UNCHANGED <<clusterVars, faults>> =>
           /\ AlarmLeft' <= AlarmLeft
           /\ AlarmLeft > 0 /\ pc' # pc => AlarmLeft' < AlarmLeft]_vars

(* Liveness *)

(* A monitor that stays reportable is reported as it is: the server comes to know
   the current text and the current pods of a workload the monitor selects,
   whatever was stale, lost or restarted before. *)
ServerUpToDate ==
    <>[]Reportable =>
        <>[](HealthIsRight(told.health) /\ TextIsRight(told.config))

(* Drift of the pods that carry the monitor's labels, if it stays, is reported at
   every check, and false alarms (a check reads the ConfigMap and the pods at
   different times, from caches) come to an end. *)
DriftSettles ==
    DriftDetection =>
        /\ <>[](Reportable /\ AllDrift) => <>[]alarm
        /\ <>[](Reportable /\ NoneDrifts) => <>[]~alarm
=============================================================================
