------------------------- MODULE FleetReportProofs --------------------------
(***************************************************************************)
(* Proofs about FleetReport, for any workloads, pods and budget: the       *)
(* reports are well formed, and the server knows what opamp-go was given   *)
(* whenever nothing waits to be sent.  TypeOK and ServerKnows together are *)
(* inductive: that a client without connection is not yet in ServerKnows'  *)
(* scope when it is made is a part of TypeOK.                              *)
(***************************************************************************)
EXTENDS FleetReport, FiniteSetTheorems, TLAPS

IInv == TypeOK /\ ServerKnows

(* Counting ready pods tells whether all are ready: the aggregate computed from
   two numbers is the one the type of a report asks for. *)
LEMMA HealthOfType ==
    ASSUME NEW P \in [Pods -> Pod \cup {None}], NEW w \in Workloads
    PROVE  HealthOf(P, w) \in Health
<1> DEFINE mine == {p \in Pods : Owner[p] = w /\ P[p] # None}
           ready == {p \in mine : P[p].ready}
<1>1. /\ mine \in SUBSET Pods /\ ready \in SUBSET mine
      /\ IsFiniteSet(mine) /\ IsFiniteSet(ready)
  <2>1. mine \in SUBSET Pods /\ ready \in SUBSET mine
    OBVIOUS
  <2>2. IsFiniteSet(mine)
    BY <2>1, PodsAssumption, FS_Subset
  <2>3. QED
    BY <2>1, <2>2, FS_Subset
<1>2. Cardinality(mine) \in Nat /\ Cardinality(ready) \in Nat
  BY <1>1, FS_CardinalityType
<1>3. Cardinality(mine) = 0 <=> mine = {}
  BY <1>1, FS_EmptySet
<1>4. Cardinality(ready) = Cardinality(mine) <=> ready = mine
  BY <1>1, FS_Subset
<1>5. Aggregate(Cardinality(mine), Cardinality(ready)) = "healthy"
        <=> mine # {} /\ ready = mine
  <2> DEFINE n == Cardinality(mine)
             k == Cardinality(ready)
  <2>1. n \in Nat /\ k \in Nat /\ (n = 0 <=> mine = {}) /\ (k = n <=> ready = mine)
    BY <1>2, <1>3, <1>4
  <2> HIDE DEF mine, ready, n, k
  <2>2. Aggregate(n, k) = "healthy" <=> n # 0 /\ k = n
    BY <2>1 DEF Aggregate
  <2>3. QED
    BY <2>1, <2>2 DEF n, k
<1>6. HealthOf(P, w) = [healthy |-> Aggregate(Cardinality(mine), Cardinality(ready)) = "healthy",
                        pods |-> mine, ready |-> ready]
  BY DEF HealthOf
<1>7. ready \in SUBSET Pods
  BY <1>1
<1> DEFINE healthy == Aggregate(Cardinality(mine), Cardinality(ready)) = "healthy"
           h == [healthy |-> healthy, pods |-> mine, ready |-> ready]
<1> HIDE DEF mine, ready, healthy
<1>8. healthy \in BOOLEAN
  BY DEF healthy
<1>9. h \in [healthy : BOOLEAN, pods : SUBSET Pods, ready : SUBSET Pods]
  BY <1>1, <1>7, <1>8
<1>10. h.ready \subseteq h.pods /\ (h.healthy <=> h.pods # {} /\ h.ready = h.pods)
  BY <1>1, <1>5 DEF healthy
<1>11. h \in Health
  BY <1>9, <1>10 DEF Health
<1>12. QED
  BY <1>6, <1>11 DEF healthy

LEMMA InitIInv == Init => IInv
<1> SUFFICES ASSUME Init PROVE IInv
  OBVIOUS
<1>1. 0 \in Text
  BY MaxFaultsAssumption DEF Text
<1>2. [ready |-> TRUE, hash |-> 0] \in Pod
  BY <1>1 DEF Pod
<1>3. pods \in [Pods -> Pod \cup {None}]
  BY <1>2 DEF Init
<1>4. /\ ClusterOK(workloads, pods, config)
      /\ ClusterOK(seenWorkloads, seenPods, seenConfig)
  BY <1>1, <1>3 DEF Init, ClusterOK
<1>5. WorkerOK /\ ClientOK
  BY DEF Init, WorkerOK, ClientOK
<1>6. /\ told \in [health : Health \cup {None}, config : Text \cup {Empty}]
      /\ alarm \in BOOLEAN
      /\ faults \in 0..MaxFaults
  <2>1. told = [health |-> None, config |-> Empty] /\ alarm = FALSE /\ faults = 0
    BY DEF Init
  <2>2. told \in [health : Health \cup {None}, config : Text \cup {Empty}] /\ alarm \in BOOLEAN
    BY <2>1
  <2>3. faults \in 0..MaxFaults
    BY <2>1, MaxFaultsAssumption
  <2>4. QED
    BY <2>2, <2>3
<1>7. QED
  BY <1>4, <1>5, <1>6 DEF IInv, TypeOK, Init, ServerKnows

LEMMA SpendType == ASSUME faults \in 0..MaxFaults, Spend PROVE faults' \in 0..MaxFaults
  BY MaxFaultsAssumption DEF Spend
-----------------------------------------------------------------------------
(* The cluster changes, the informers follow. *)
LEMMA ClusterIInv ==
    ASSUME IInv, ClusterOK(workloads, pods, config)',
           ClusterOK(seenWorkloads, seenPods, seenConfig)', faults' \in 0..MaxFaults,
           UNCHANGED <<workerVars, clientVars, told, alarm>>
    PROVE  IInv'
<1> USE DEF workerVars, clientVars
<1>1. TypeOK'
  BY DEF IInv, TypeOK, WorkerOK, ClientOK
<1>2. ServerKnows'
  BY DEF IInv, ServerKnows
<1>3. QED
  BY <1>1, <1>2 DEF IInv

LEMMA ToggleWorkloadIInv == ASSUME IInv, NEW w \in Workloads, ToggleWorkload(w) PROVE IInv'
<1>1. ClusterOK(workloads, pods, config)' /\ ClusterOK(seenWorkloads, seenPods, seenConfig)'
  BY DEF IInv, TypeOK, ClusterOK, ToggleWorkload, cacheVars
<1>2. QED
  BY <1>1, ClusterIInv, SpendType DEF IInv, TypeOK, ToggleWorkload

LEMMA ChangePodIInv == ASSUME IInv, NEW p \in Pods, ChangePod(p) PROVE IInv'
<1>1. pods' \in [Pods -> Pod \cup {None}]
  <2>1. CASE pods[p] # None
    <3>1. pods[p] \in Pod
      BY <2>1 DEF IInv, TypeOK, ClusterOK
    <3>2. [pods[p] EXCEPT !.ready = ~@] \in Pod
      BY <3>1 DEF Pod
    <3>3. \/ pods' = [pods EXCEPT ![p] = None]
          \/ pods' = [pods EXCEPT ![p] = [pods[p] EXCEPT !.ready = ~@]]
      BY <2>1 DEF ChangePod
    <3>4. QED
      BY <3>2, <3>3 DEF IInv, TypeOK, ClusterOK
  <2>2. CASE pods[p] = None
    <3>1. PICK hash \in {Empty} \cup ({config} \cap Text) :
              pods' = [pods EXCEPT ![p] = [ready |-> FALSE, hash |-> hash]]
      BY <2>2 DEF ChangePod
    <3>2. [ready |-> FALSE, hash |-> hash] \in Pod
      BY <3>1 DEF Pod
    <3>3. QED
      BY <3>1, <3>2 DEF IInv, TypeOK, ClusterOK
  <2>3. QED
    BY <2>1, <2>2
<1>2. ClusterOK(workloads, pods, config)' /\ ClusterOK(seenWorkloads, seenPods, seenConfig)'
  BY <1>1 DEF IInv, TypeOK, ClusterOK, ChangePod, cacheVars
<1>3. QED
  BY <1>2, ClusterIInv, SpendType DEF IInv, TypeOK, ChangePod

LEMMA EditConfigIInv == ASSUME IInv, EditConfig PROVE IInv'
<1>1. faults' \in 0..MaxFaults
  BY SpendType DEF IInv, TypeOK, EditConfig
<1>2. ClusterOK(workloads, pods, config)' /\ ClusterOK(seenWorkloads, seenPods, seenConfig)'
  BY <1>1 DEF IInv, TypeOK, ClusterOK, EditConfig, cacheVars, Text
<1>3. QED
  BY <1>1, <1>2, ClusterIInv DEF EditConfig

LEMMA InformersIInv == ASSUME IInv, Informers PROVE IInv'
<1>1. ClusterOK(workloads, pods, config)' /\ ClusterOK(seenWorkloads, seenPods, seenConfig)'
  BY DEF IInv, TypeOK, ClusterOK, Informers, WatchWorkloads, WatchPods, WatchConfig, clusterVars
<1>2. QED
  BY <1>1, ClusterIInv DEF IInv, TypeOK, Informers, WatchWorkloads, WatchPods, WatchConfig

LEMMA RestartIInv == ASSUME IInv, Restart PROVE IInv'
<1>1. TypeOK'
  BY SpendType DEF IInv, TypeOK, ClusterOK, WorkerOK, ClientOK, Restart, clusterVars
<1>2. QED
  BY <1>1 DEF IInv, Restart, ServerKnows
-----------------------------------------------------------------------------
(* The connection. *)
LEMMA ConnectionIInv == ASSUME IInv, Connect \/ Disconnect \/ Deliver PROVE IInv'
<1> USE DEF clusterVars, cacheVars, workerVars
<1>1. CASE Connect
  BY <1>1 DEF Connect, IInv, TypeOK, ClusterOK, WorkerOK, ClientOK, ServerKnows
<1>2. CASE Disconnect
  <2>1. faults' \in 0..MaxFaults
    BY <1>2, SpendType DEF Disconnect, IInv, TypeOK
  <2>2. link' = FALSE /\ UNCHANGED <<clusterVars, cacheVars, workerVars, client, health,
                                    effective, announced, dirty, told, alarm>>
    BY <1>2 DEF Disconnect
  <2>3. ClientOK'
    BY <2>2 DEF IInv, TypeOK, ClientOK
  <2>4. TypeOK'
    BY <2>1, <2>2, <2>3 DEF IInv, TypeOK, ClusterOK, WorkerOK
  <2>5. QED
    BY <2>2, <2>4 DEF IInv, ServerKnows
<1>3. CASE Deliver
  BY <1>3 DEF Deliver, IInv, TypeOK, ClusterOK, WorkerOK, ClientOK, ServerKnows
<1>4. QED
  BY <1>1, <1>2, <1>3
-----------------------------------------------------------------------------
(* The worker. *)
LEMMA DiscoveryIInv ==
    ASSUME IInv, Reconcile \/ DiscoverWorkload \/ DiscoverConfigMap \/ ReportFails PROVE IInv'
<1> USE DEF clusterVars, cacheVars, clientVars, Continue, Return
<1>1. UNCHANGED <<clusterVars, cacheVars, clientVars, told, alarm>> /\ faults' \in 0..MaxFaults
  BY SpendType DEF IInv, TypeOK, Reconcile, DiscoverWorkload, DiscoverConfigMap, ReportFails
<1>2. WorkerOK'
  <2>1. WorkerOK /\ None \notin Workloads
    BY SentinelAssumption DEF IInv, TypeOK
  <2>2. CASE Reconcile \/ ReportFails
    BY <2>1, <2>2 DEF WorkerOK, Reconcile, ReportFails
  <2>3. CASE DiscoverWorkload
    <3>1. FirstKind(seenWorkloads) \subseteq Workloads
      BY DEF IInv, TypeOK, ClusterOK, FirstKind
    <3>2. QED
      BY <2>1, <2>3, <3>1 DEF WorkerOK, DiscoverWorkload
  <2>4. CASE DiscoverConfigMap
    <3>1. seenConfig \in Text \cup {Empty, None}
      BY DEF IInv, TypeOK, ClusterOK
    <3>2. QED
      BY <2>1, <2>4, <3>1 DEF WorkerOK, DiscoverConfigMap
  <2>5. QED
    BY <2>2, <2>3, <2>4
<1>3. TypeOK'
  BY <1>1, <1>2 DEF IInv, TypeOK, ClusterOK, ClientOK
<1>4. QED
  BY <1>1, <1>3 DEF IInv, ServerKnows

LEMMA EnsureOpAMPConnectionIInv == ASSUME IInv, EnsureOpAMPConnection PROVE IInv'
<1> USE DEF EnsureOpAMPConnection, Continue, clusterVars, cacheVars
<1>1. workload \in Workloads /\ workload # None
  BY DEF IInv, TypeOK, WorkerOK
<1>2. TypeOK'
  BY <1>1 DEF IInv, TypeOK, ClusterOK, WorkerOK, ClientOK
<1>3. QED
  BY <1>2 DEF IInv, TypeOK, ClientOK, ServerKnows

LEMMA ReportHealthIInv == ASSUME IInv, ReportHealth PROVE IInv'
<1> USE DEF ReportHealth, SetHealth, Continue, clusterVars, cacheVars
<1>1. HealthOf(seenPods, workload) \in Health
  BY HealthOfType DEF IInv, TypeOK, ClusterOK, WorkerOK
<1>2. TypeOK'
  BY <1>1 DEF IInv, TypeOK, ClusterOK, WorkerOK, ClientOK
<1>3. QED
  BY <1>2 DEF IInv, ServerKnows

LEMMA ReportConfigIInv == ASSUME IInv, ReportConfig PROVE IInv'
<1> USE DEF ReportConfig, SetEffectiveConfig, Continue, clusterVars, cacheVars
<1>1. TypeOK'
  BY DEF IInv, TypeOK, ClusterOK, WorkerOK, ClientOK
<1>2. QED
  BY <1>1 DEF IInv, ServerKnows

LEMMA ReportConfigFailsIInv == ASSUME IInv, ReportConfigFails PROVE IInv'
<1> USE DEF ReportConfigFails, Continue, clusterVars, cacheVars
<1>1. faults' \in 0..MaxFaults
  BY SpendType DEF IInv, TypeOK
<1>2. WorkerOK' /\ ClientOK'
  BY DEF IInv, TypeOK, WorkerOK, ClientOK
<1>3. TypeOK'
  BY <1>1, <1>2 DEF IInv, TypeOK, ClusterOK
<1>4. QED
  BY <1>3 DEF IInv, ServerKnows

LEMMA DetectDriftIInv == ASSUME IInv, DetectDrift PROVE IInv'
<1> USE DEF DetectDrift, Return, clusterVars, cacheVars, clientVars
<1>1. alarm' \in BOOLEAN
  BY DEF IInv, TypeOK, Drifted
<1>2. TypeOK'
  BY <1>1 DEF IInv, TypeOK, ClusterOK, WorkerOK, ClientOK
<1>3. QED
  BY <1>2 DEF IInv, ServerKnows

LEMMA DriftFailsIInv == ASSUME IInv, DriftFails PROVE IInv'
<1> USE DEF DriftFails, Return, clusterVars, cacheVars, clientVars
<1>1. faults' \in 0..MaxFaults
  BY SpendType DEF IInv, TypeOK
<1>2. WorkerOK' /\ ClientOK'
  BY DEF IInv, TypeOK, WorkerOK, ClientOK
<1>3. TypeOK'
  BY <1>1, <1>2 DEF IInv, TypeOK, ClusterOK
<1>4. QED
  BY <1>3 DEF IInv, ServerKnows

LEMMA NextIInv == ASSUME IInv, [Next]_vars PROVE IInv'
<1>1. CASE Step
  BY <1>1, DiscoveryIInv, EnsureOpAMPConnectionIInv, ReportHealthIInv, ReportConfigIInv,
     DetectDriftIInv DEF Step
<1>2. CASE Failure
  BY <1>2, DiscoveryIInv, ReportConfigFailsIInv, DriftFailsIInv DEF Failure
<1>3. CASE Informers \/ Connect \/ Deliver \/ Restart
  BY <1>3, InformersIInv, ConnectionIInv, RestartIInv
<1>4. CASE Environment
  BY <1>4, ToggleWorkloadIInv, ChangePodIInv, EditConfigIInv, ConnectionIInv DEF Environment
<1>5. CASE UNCHANGED vars
  BY <1>5, ClusterIInv DEF IInv, TypeOK, ClusterOK, vars, clusterVars, cacheVars
<1>6. QED
  BY <1>1, <1>2, <1>3, <1>4, <1>5 DEF Next
-----------------------------------------------------------------------------
(* Type correctness: every report the server is told is well formed, and a fleet
   is called healthy only if it has pods and all of them are ready. *)
THEOREM TypeCorrect == Spec => []TypeOK
<1>1. Init => IInv
  BY InitIInv
<1>2. IInv /\ [Next]_vars => IInv'
  BY NextIInv
<1>3. IInv => TypeOK
  BY DEF IInv
<1>4. QED
  BY <1>1, <1>2, <1>3, PTL DEF Spec

(* Whatever the order of reports, deliveries, disconnections and restarts, the
   server has what opamp-go was given as soon as nothing waits to be sent. *)
THEOREM NothingForgotten == Spec => []ServerKnows
<1>1. Init => IInv
  BY InitIInv
<1>2. IInv /\ [Next]_vars => IInv'
  BY NextIInv
<1>3. IInv => ServerKnows
  BY DEF IInv
<1>4. QED
  BY <1>1, <1>2, <1>3, PTL DEF Spec
-----------------------------------------------------------------------------
(* The report comes closer to the server. *)

(* What ComesCloser says of a step. *)
Closer ==
    /\ Distance' <= Distance
    /\ Distance > 0 /\ Served => Distance' < Distance

(* The cluster and the informers' copies of it are at rest. *)
Quiet == Reportable /\ Synced /\ UNCHANGED <<clusterVars, faults>>

LEMMA PositionAt ==
    /\ pc = "idle" => Position = 0
    /\ pc = "discover" => Position = 1
    /\ pc = "resolve" => Position = 2
    /\ pc = "connect" => Position = 3
    /\ pc = "health" => Position = 4
    /\ pc = "config" => Position = 5
    /\ pc = "drift" => Position = 6
  BY DEF Position

LEMMA PositionAfter ==
    /\ pc' = "idle" => Position' = 0
    /\ pc' = "discover" => Position' = 1
    /\ pc' = "resolve" => Position' = 2
    /\ pc' = "connect" => Position' = 3
    /\ pc' = "health" => Position' = 4
    /\ pc' = "config" => Position' = 5
    /\ pc' = "drift" => Position' = 6
  BY DEF Position

(* Up to reportFleetHealth, Reconcile goes on without touching the report. *)
LEMMA EarlyStepCloser ==
    ASSUME Quiet, UNCHANGED <<health, effective, announced>>, ~Reported, ~Reported', Fresh => Fresh',
           NEW k \in 0..3, k = Position, k + 1 = Position'
    PROVE  /\ ReportLeft = 0 => ReportLeft' = 0
           /\ ReportLeft > 0 => ReportLeft' \in 0..(ReportLeft - 1)
<1> DEFINE right == HealthIsRight(health) /\ ConfigIsRight
<1>1. right' = right
  BY DEF Quiet, clusterVars, HealthIsRight, ConfigIsRight, TextIsRight
<1> HIDE DEF right
<1>2. pc # "config" /\ pc' # "config"
  BY DEF Reported
<1>3. ReportLeft = IF right /\ Fresh THEN 0 ELSE IF Fresh THEN 6 - k ELSE 13 - k
  BY <1>2 DEF ReportLeft, right
<1>4. ReportLeft' = IF right' /\ Fresh' THEN 0 ELSE IF Fresh' THEN 6 - (k + 1) ELSE 13 - (k + 1)
  BY <1>2 DEF ReportLeft, right
<1>5. QED
  BY <1>1, <1>3, <1>4

(* The steps of the worker. *)
LEMMA StepCloser ==
    ASSUME IInv, IInv', Quiet, Step
    PROVE  /\ ReportLeft = 0 => ReportLeft' = 0
           /\ ReportLeft > 0 => ReportLeft' \in 0..(ReportLeft - 1)
<1> USE DEF Continue, Return, clientVars, clusterVars, cacheVars
<1>1. WorkerOK /\ WorkerOK'
  BY DEF IInv, TypeOK
<1>2. CASE Reconcile
  <2>1. pc = "idle" /\ pc' = "discover" /\ UNCHANGED <<health, effective, announced>> /\ Fresh'
    BY <1>1, <1>2 DEF Reconcile, WorkerOK, Fresh
  <2>2. QED
    BY <2>1, PositionAt, PositionAfter, EarlyStepCloser DEF Reported
<1>3. CASE DiscoverWorkload
  <2>1. pc = "discover" /\ pc' = "resolve" /\ UNCHANGED <<health, effective, announced>> /\ Fresh'
    BY <1>3 DEF DiscoverWorkload, Fresh, Quiet, Reportable, Synced
  <2>2. QED
    BY <2>1, PositionAt, PositionAfter, EarlyStepCloser DEF Reported
<1>4. CASE DiscoverConfigMap
  <2>1. config # None
    BY SentinelAssumption DEF Quiet, Reportable
  <2>2. pc = "resolve" /\ pc' = "connect" /\ UNCHANGED <<health, effective, announced>> /\ Fresh' = Fresh
    BY <1>4, <2>1 DEF DiscoverConfigMap, Fresh, Quiet, Reportable, Synced
  <2>3. QED
    BY <2>2, PositionAt, PositionAfter, EarlyStepCloser DEF Reported
<1>5. CASE EnsureOpAMPConnection
  <2>1. pc = "connect" /\ pc' = "health" /\ UNCHANGED <<health, effective, announced>> /\ Fresh' = Fresh
    BY <1>5 DEF EnsureOpAMPConnection, Fresh, Quiet
  <2>2. QED
    BY <2>1, PositionAt, PositionAfter, EarlyStepCloser DEF Reported
<1>6. CASE ReportHealth
  <2>1. /\ pc = "health" /\ pc' = "config" /\ Position = 4 /\ Position' = 5
        /\ Reported' /\ ~Reported
        /\ Fresh' = Fresh /\ ConfigIsRight' = ConfigIsRight
    BY <1>6, PositionAt, PositionAfter 
       DEF ReportHealth, SetHealth, Reported, Fresh, Quiet, ConfigIsRight, TextIsRight
  <2>2. Fresh => HealthIsRight(health)'
    BY <1>1, <1>6, <2>1, SentinelAssumption
       DEF WorkerOK, Fresh, HealthIsRight, ReportHealth, SetHealth, Quiet, Synced
  <2>3. ReportLeft \in {0, 2, 9} /\ (ReportLeft \in {0, 2} => Fresh)
        /\ (ReportLeft = 0 => ConfigIsRight)
    BY <2>1 DEF ReportLeft
  <2>4. ReportLeft' = IF HealthIsRight(health)'
                      THEN IF ConfigIsRight' THEN 0 ELSE 1
                      ELSE 8
    BY <2>1 DEF ReportLeft
  <2>5. QED
    BY <2>1, <2>2, <2>3, <2>4
<1>7. CASE ReportConfig
  <2>1. /\ pc = "config" /\ pc' = "drift" /\ Position = 5 /\ Position' = 6
        /\ Reported /\ Reported'
        /\ HealthIsRight(health)' = HealthIsRight(health)
    BY <1>7, PositionAt, PositionAfter DEF ReportConfig, SetEffectiveConfig, Reported, Quiet, HealthIsRight
  <2>2. ConfigIsRight'
    BY <1>7 DEF ReportConfig, SetEffectiveConfig, Quiet, Reportable, Synced, ConfigIsRight,
       TextIsRight
  <2>3. ReportLeft = IF HealthIsRight(health)
                     THEN IF ConfigIsRight THEN 0 ELSE 1
                     ELSE 8
    BY <2>1 DEF ReportLeft
  <2>4. ReportLeft' = IF HealthIsRight(health)' THEN 0 ELSE 7
    BY <2>1, <2>2 DEF ReportLeft
  <2>5. QED
    BY <2>1, <2>3, <2>4
<1>8. CASE DetectDrift
  <2>1. /\ pc = "drift" /\ pc' = "idle" /\ Position = 6 /\ Position' = 0
        /\ Reported /\ ~Reported' /\ Fresh'
        /\ HealthIsRight(health)' = HealthIsRight(health)
        /\ ConfigIsRight' = ConfigIsRight
    BY <1>8, PositionAt, PositionAfter 
       DEF DetectDrift, Reported, Quiet, HealthIsRight, ConfigIsRight, TextIsRight, Fresh
  <2>2. ReportLeft = IF HealthIsRight(health) /\ ConfigIsRight THEN 0 ELSE 7
    BY <2>1 DEF ReportLeft
  <2>3. ReportLeft' = IF HealthIsRight(health)' /\ ConfigIsRight' THEN 0 ELSE 6
    BY <2>1 DEF ReportLeft
  <2>4. QED
    BY <2>1, <2>2, <2>3
<1>9. QED
  BY <1>2, <1>3, <1>4, <1>5, <1>6, <1>7, <1>8 DEF Step

LEMMA ReportLeftBound == ASSUME WorkerOK PROVE ReportLeft \in 0..13
<1>1. PICK k \in 0..6 : k = Position
  BY PositionAt DEF WorkerOK
<1>2. QED
  BY <1>1 DEF ReportLeft

(* A step that leaves the client's report alone. *)
LEMMA SameReport ==
    ASSUME Quiet, UNCHANGED <<health, effective, announced, pc, workload>>
    PROVE  ReportLeft' = ReportLeft
<1>1. /\ HealthIsRight(health)' = HealthIsRight(health)
      /\ ConfigIsRight' = ConfigIsRight
      /\ Fresh' = Fresh /\ Reported' = Reported /\ Position' = Position
  BY DEF Quiet, clusterVars, HealthIsRight, ConfigIsRight, TextIsRight, Fresh, Reported, Position
<1>2. QED
  BY <1>1 DEF ReportLeft

(* A reconnect announces what the client has. *)
LEMMA ConnectReport ==
    ASSUME WorkerOK, Quiet, Connect, NEW r \in 0..13, r = ReportLeft
    PROVE  ReportLeft' = r \/ ReportLeft' = 0
<1>1. CASE ~TextIsRight(effective) \/ ConfigIsRight
  <2>1. /\ HealthIsRight(health)' = HealthIsRight(health)
        /\ ConfigIsRight' = ConfigIsRight
        /\ Fresh' = Fresh /\ Reported' = Reported /\ Position' = Position /\ UNCHANGED pc
    BY <1>1 DEF Connect, Quiet, clusterVars, workerVars, HealthIsRight, ConfigIsRight,
       TextIsRight, Fresh, Reported, Position
  <2>2. QED
    BY <2>1 DEF ReportLeft
<1>2. CASE TextIsRight(effective) /\ ~ConfigIsRight
  <2>1. /\ HealthIsRight(health)' = HealthIsRight(health)
        /\ ConfigIsRight'
        /\ Fresh' = Fresh /\ Reported' = Reported /\ Position' = Position /\ UNCHANGED pc
    BY <1>2 DEF Connect, Quiet, clusterVars, workerVars, HealthIsRight, ConfigIsRight,
       TextIsRight, Fresh, Reported, Position
  <2>2. QED
    BY <1>2, <2>1 DEF ReportLeft
<1>3. QED
  BY <1>1, <1>2

LEMMA SameTold ==
    ASSUME Quiet, UNCHANGED told
    PROVE  /\ HealthIsRight(told.health)' = HealthIsRight(told.health)
           /\ TextIsRight(told.config)' = TextIsRight(told.config)
  BY DEF Quiet, clusterVars, HealthIsRight, TextIsRight

LEMMA NothingLeft ==
    ASSUME WorkerOK, ReportLeft = 0
    PROVE  HealthIsRight(health) /\ ConfigIsRight
<1>1. PICK k \in 0..6 : k = Position
  BY PositionAt DEF WorkerOK
<1>2. pc = "config" => k = 5
  BY <1>1, PositionAt
<1>3. ~Reported => k # 6
  BY <1>1, PositionAt DEF WorkerOK, Reported
<1>4. QED
  BY <1>1, <1>2, <1>3 DEF ReportLeft

(* If the client has the right report and the server has not, something waits to
   be sent. *)
LEMMA SomethingToSend ==
    ASSUME IInv, ReportLeft = 0, Distance > 0, link
    PROVE  dirty # {}
<1>1. HealthIsRight(health) /\ ConfigIsRight
  BY NothingLeft DEF IInv, TypeOK
<1>2. ~(HealthIsRight(told.health) /\ TextIsRight(told.config))
  BY DEF Distance
<1>3. dirty = {} => told.health = health /\ told.config = announced
  BY DEF IInv, TypeOK, ClientOK, ServerKnows
<1>4. QED
  BY <1>1, <1>2, <1>3 DEF ConfigIsRight

(* So a step that sends nothing and leaves the connection as it is does not serve
   a report that waits for them. *)
LEMMA NotSent ==
    ASSUME IInv, ReportLeft = 0, Distance > 0, UNCHANGED link, dirty \subseteq dirty'
    PROVE  ~Served
<1>1. Served = IF link THEN dirty' = {} ELSE link'
  BY DEF Served
<1>2. link \in BOOLEAN
  BY DEF IInv, TypeOK, ClientOK
<1>3. QED
  BY <1>1, <1>2, SomethingToSend

LEMMA NextCloser == ASSUME IInv, IInv', Quiet, [Next]_vars PROVE Closer
<1> DEFINE toldRight == HealthIsRight(told.health) /\ TextIsRight(told.config)
<1>1. PICK r \in 0..13 : r = ReportLeft
  BY ReportLeftBound DEF IInv, TypeOK
<1>2. Distance = IF r > 0 THEN r + 2 ELSE IF toldRight THEN 0 ELSE IF link THEN 1 ELSE 2
  BY <1>1 DEF Distance
<1>3. CASE Step
  <2>1. UNCHANGED <<link, told>> /\ dirty \subseteq dirty'
    BY <1>3 DEF Step, Reconcile, DiscoverWorkload, DiscoverConfigMap, EnsureOpAMPConnection,
                ReportHealth, SetHealth, ReportConfig, SetEffectiveConfig, DetectDrift, clientVars
  <2>2. toldRight' = toldRight
    BY <2>1, SameTold
  <2>3. PICK q \in 0..13 : q = ReportLeft' /\ (r = 0 => q = 0) /\ (r > 0 => q < r)
    BY <1>1, <1>3, StepCloser
  <2>4. Distance' = IF q > 0 THEN q + 2 ELSE IF toldRight' THEN 0 ELSE IF link' THEN 1 ELSE 2
    BY <2>3 DEF Distance
  <2>5. CASE r > 0
    <3> HIDE DEF toldRight
    <3>1. PICK d \in Nat : d = Distance' /\ (d <= 2 \/ d = q + 2)
      BY <2>4
    <3>2. Distance = r + 2
      BY <1>2, <2>5
    <3>3. q < r
      BY <2>3, <2>5
    <3>4. d = q + 2 \/ d \in 0..2
      BY <3>1
    <3>5. d < r + 2
      BY <2>5, <3>3, <3>4
    <3>6. QED
      BY <3>1, <3>2, <3>5 DEF Closer
  <2>6. CASE r = 0
    <3>1. Distance' = Distance /\ Distance \in 0..2
      <4> HIDE DEF toldRight
      <4>1. link' = link
        BY <2>1
      <4>2. QED
        BY <1>2, <2>2, <2>3, <2>4, <2>6, <4>1
    <3>2. Distance > 0 => ~Served
      BY <1>1, <2>1, <2>6, NotSent
    <3>3. QED
      BY <3>1, <3>2 DEF Closer
  <2>7. QED
    BY <2>5, <2>6
<1>4. CASE Connect
  <2>1. PICK q \in 0..13 : q = ReportLeft' /\ (q = r \/ q = 0)
    BY <1>1, <1>4, ConnectReport DEF IInv, TypeOK
  <2>2. toldRight' = toldRight
    BY <1>4, SameTold DEF Connect
  <2>3. Distance' = IF q > 0 THEN q + 2 ELSE IF toldRight' THEN 0 ELSE IF link' THEN 1 ELSE 2
    BY <2>1 DEF Distance
  <2>4. ~link /\ link' /\ (r > 0 => ~Served)
    BY <1>1, <1>4 DEF Connect, Served, workerVars
  <2> HIDE DEF toldRight
  <2>5. CASE r > 0
    <3>1. Distance = r + 2
      BY <1>2, <2>5
    <3>2. Distance' \in 0..2 \/ Distance' = r + 2
      <4>1. CASE q = r
        BY <2>3, <2>5, <4>1
      <4>2. CASE q = 0
        BY <2>3, <4>2
      <4>3. QED
        BY <2>1, <4>1, <4>2
    <3>3. Distance' <= r + 2
      BY <2>5, <3>2
    <3>4. QED
      BY <2>4, <2>5, <3>1, <3>3 DEF Closer
  <2>6. CASE r = 0
    <3>1. Distance = IF toldRight THEN 0 ELSE 2
      BY <1>2, <2>4, <2>6
    <3>2. Distance' = IF toldRight THEN 0 ELSE 1
      <4>1. q = 0 /\ link'
        BY <2>1, <2>4, <2>6
      <4>2. Distance' = IF toldRight' THEN 0 ELSE 1
        BY <2>3, <4>1
      <4>3. QED
        BY <2>2, <4>2
    <3>3. PICK d \in {0, 2}, e \in {0, 1} :
              d = Distance /\ e = Distance' /\ e <= d /\ (d > 0 => e < d)
      BY <3>1, <3>2
    <3>4. QED
      BY <3>3 DEF Closer
  <2>7. QED
    BY <2>5, <2>6
<1>5. CASE Deliver
  <2>1. r = ReportLeft' /\ UNCHANGED <<pc, link>> /\ link
    BY <1>1, <1>5, SameReport DEF Deliver, workerVars
  <2>2. CASE r > 0
    <3>1. Distance' = r + 2 /\ ~Served
      BY <1>1, <2>1, <2>2 DEF Distance, Served
    <3>2. QED
      BY <1>2, <2>2, <3>1 DEF Closer
  <2>3. CASE r = 0
    <3>1. told'.health = health' /\ told'.config = announced'
      BY <1>5 DEF Deliver, IInv, TypeOK, ClientOK, ServerKnows
    <3>2. HealthIsRight(health)' /\ TextIsRight(announced)'
      <4>1. HealthIsRight(health) /\ ConfigIsRight
        BY <1>1, <2>3, NothingLeft DEF IInv, TypeOK
      <4>2. QED
        BY <1>5, <4>1 DEF Deliver, Quiet, clusterVars, HealthIsRight, ConfigIsRight, TextIsRight
    <3>3. Distance' = 0
      BY <2>1, <2>3, <3>1, <3>2 DEF Distance, HealthIsRight, TextIsRight
    <3> HIDE DEF toldRight
    <3>4. QED
      BY <1>2, <2>3, <3>3 DEF Closer
  <2>4. QED
    BY <2>2, <2>3
<1>6. CASE UNCHANGED vars
  <2>1. r = ReportLeft' /\ toldRight' = toldRight /\ UNCHANGED <<pc, link, dirty>>
    BY <1>1, <1>6, SameReport, SameTold DEF vars, workerVars, clientVars
  <2>2. Distance' = Distance
    BY <1>1, <2>1 DEF Distance
  <2>3. Distance > 0 => ~Served
    <3>1. CASE r > 0
      BY <1>1, <2>1, <3>1 DEF Served
    <3>2. CASE r = 0
      BY <1>1, <2>1, <3>2, NotSent
    <3>3. QED
      BY <3>1, <3>2
  <2> HIDE DEF toldRight
  <2>4. Distance \in 0..15
    BY <1>2
  <2>5. QED
    BY <2>2, <2>3, <2>4 DEF Closer
<1>7. ~Spend /\ ~Informers
  BY MaxFaultsAssumption DEF Quiet, Spend, IInv, TypeOK, Informers, WatchWorkloads, WatchPods,
     WatchConfig, Synced
<1>8. QED
  BY <1>3, <1>4, <1>5, <1>6, <1>7
     DEF Next, Failure, ReportFails, ReportConfigFails, DriftFails, Environment,
         ToggleWorkload, ChangePod, EditConfig, Disconnect, Restart

(* While the cluster rests, every step of the worker, the connection or a message
   brings the server closer to the right report and none takes it away: the
   safety core of ServerUpToDate, which adds that those steps are taken. *)
THEOREM ReportComesCloser == Spec => ComesCloser
<1>1. Init => IInv
  BY InitIInv
<1>2. IInv /\ [Next]_vars => IInv'
  BY NextIInv
<1>3. IInv /\ IInv' /\ [Next]_vars =>
          [Reportable /\ Synced /\ UNCHANGED <<clusterVars, faults>> =>
               /\ Distance' <= Distance
               /\ Distance > 0 /\ Served => Distance' < Distance]_vars
  BY NextCloser DEF Closer, Quiet
<1>4. QED
  BY <1>1, <1>2, <1>3, PTL DEF Spec, ComesCloser
-----------------------------------------------------------------------------
(* The drift alarm comes closer to being right. *)

(* What AlarmComesRight says of a step. *)
AlarmCloser ==
    /\ AlarmLeft' <= AlarmLeft
    /\ AlarmLeft > 0 /\ pc' # pc => AlarmLeft' < AlarmLeft

LEMMA AlarmIsRightDepends ==
    ASSUME Quiet, UNCHANGED alarm
    PROVE  AlarmIsRight' = AlarmIsRight
<1>1. AllDrift' = AllDrift /\ NoneDrifts' = NoneDrifts
  BY DEF Quiet, clusterVars, AllDrift, NoneDrifts, Candidates
<1>2. QED
  BY <1>1 DEF AlarmIsRight

(* Up to the check, Reconcile goes on without touching the alarm. *)
LEMMA EarlyStepAlarm ==
    ASSUME Quiet, UNCHANGED alarm, CopyIsFresh => CopyIsFresh',
           NEW k \in 0..5, k = Position, k + 1 = Position'
    PROVE  AlarmCloser
<1> DEFINE right == AlarmIsRight
           fresh == CopyIsFresh
<1>1. right' = right /\ (fresh => fresh')
  BY AlarmIsRightDepends
<1>2. AlarmLeft = IF right /\ fresh THEN 0 ELSE IF fresh THEN 7 - k ELSE 14 - k
  BY DEF AlarmLeft
<1>3. AlarmLeft' = IF right' /\ fresh' THEN 0 ELSE IF fresh' THEN 7 - (k + 1) ELSE 14 - (k + 1)
  BY DEF AlarmLeft
<1> HIDE DEF right, fresh
<1>4. PICK a \in 0..14, b \in 0..14 :
          /\ a = AlarmLeft /\ b = AlarmLeft'
          /\ b <= a /\ (a > 0 => b < a)
  BY <1>1, <1>2, <1>3
<1>5. QED
  BY <1>4 DEF AlarmCloser

(* A check that compares with the present text makes the alarm right. *)
LEMMA CheckIsRight ==
    ASSUME DriftDetection, Quiet, DetectDrift, CopyIsFresh
    PROVE  AlarmIsRight'
<1>1. copy = config /\ copy \in Text
  BY DEF DetectDrift, CopyIsFresh, Quiet, Reportable
<1>2. seenPods = pods /\ UNCHANGED <<pods, config>>
  BY DEF Quiet, Synced, clusterVars
<1>3. CASE Candidates(pods) = {}
  <2>1. alarm' = FALSE
    BY <1>1, <1>2, <1>3 DEF DetectDrift
  <2>2. ~AllDrift'
    BY <1>2, <1>3 DEF AllDrift, Candidates
  <2>3. QED
    BY <2>1, <2>2 DEF AlarmIsRight
<1>4. CASE Candidates(pods) # {}
  <2>1. PICK p \in Candidates(pods) : alarm' = (pods[p].hash \notin {Empty, config})
    BY <1>1, <1>2, <1>4 DEF DetectDrift, Drifted
  <2>2. Candidates(pods)' = Candidates(pods)
    BY <1>2 DEF Candidates
  <2>3. AllDrift' => pods[p].hash \notin {Empty, config}
    BY <1>2, <2>1, <2>2 DEF AllDrift
  <2>4. NoneDrifts' => pods[p].hash \in {Empty, config}
    BY <1>2, <2>1, <2>2 DEF NoneDrifts
  <2>5. QED
    BY <2>1, <2>3, <2>4 DEF AlarmIsRight
<1>5. QED
  BY <1>3, <1>4

(* The check itself ends the Reconcile: whatever it compared with, the next one
   reads the text anew. *)
LEMMA DetectDriftAlarm ==
    ASSUME DriftDetection, Quiet, DetectDrift
    PROVE  AlarmCloser
<1>1. pc = "drift" /\ pc' = "idle" /\ Position = 6 /\ Position' = 0
  BY PositionAt, PositionAfter DEF DetectDrift, Return
<1>2. CopyIsFresh'
  BY <1>1 DEF CopyIsFresh
<1>3. AlarmLeft' = IF AlarmIsRight' THEN 0 ELSE 7
  BY <1>1, <1>2 DEF AlarmLeft
<1>4. CASE CopyIsFresh
  <2>1. AlarmLeft' = 0
    BY <1>3, <1>4, CheckIsRight
  <2>2. AlarmLeft \in {0, 1}
    BY <1>1, <1>4 DEF AlarmLeft
  <2>3. QED
    BY <2>1, <2>2 DEF AlarmCloser
<1>5. CASE ~CopyIsFresh
  <2>1. AlarmLeft = 8
    BY <1>1, <1>5 DEF AlarmLeft
  <2>2. AlarmLeft' \in {0, 7}
    BY <1>3
  <2>3. QED
    BY <2>1, <2>2 DEF AlarmCloser
<1>6. QED
  BY <1>4, <1>5

LEMMA StepAlarm == ASSUME IInv, DriftDetection, Quiet, Step PROVE AlarmCloser
<1> USE DEF Continue, Return
<1>1. CASE Reconcile
  <2>1. pc = "idle" /\ pc' = "discover" /\ UNCHANGED alarm /\ CopyIsFresh'
    BY <1>1 DEF Reconcile, CopyIsFresh
  <2>2. QED
    BY <2>1, PositionAt, PositionAfter, EarlyStepAlarm
<1>2. CASE DiscoverWorkload
  <2>1. pc = "discover" /\ pc' = "resolve" /\ UNCHANGED alarm /\ CopyIsFresh'
    BY <1>2 DEF DiscoverWorkload, CopyIsFresh, Quiet, Reportable, Synced
  <2>2. QED
    BY <2>1, PositionAt, PositionAfter, EarlyStepAlarm
<1>3. CASE DiscoverConfigMap
  <2>1. config # None /\ seenConfig = config /\ config' = config
    BY SentinelAssumption DEF Quiet, Reportable, Synced, clusterVars
  <2>2. pc = "resolve" /\ pc' = "connect" /\ UNCHANGED alarm /\ copy' = config'
    BY <1>3, <2>1 DEF DiscoverConfigMap
  <2>3. CopyIsFresh'
    BY <2>2 DEF CopyIsFresh
  <2>4. QED
    BY <2>2, <2>3, PositionAt, PositionAfter, EarlyStepAlarm
<1>4. CASE EnsureOpAMPConnection \/ ReportHealth \/ ReportConfig
  <2>1. /\ \/ pc = "connect" /\ pc' = "health"
           \/ pc = "health" /\ pc' = "config"
           \/ pc = "config" /\ pc' = "drift"
        /\ UNCHANGED <<alarm, copy, config>>
    BY <1>4 DEF EnsureOpAMPConnection, ReportHealth, ReportConfig, clusterVars
  <2>2. CopyIsFresh => CopyIsFresh'
    BY <2>1 DEF CopyIsFresh
  <2>3. QED
    BY <2>1, <2>2, PositionAt, PositionAfter, EarlyStepAlarm
<1>5. CASE DetectDrift
  BY <1>5, DetectDriftAlarm
<1>6. QED
  BY <1>1, <1>2, <1>3, <1>4, <1>5 DEF Step

(* A step that leaves the worker alone leaves the alarm as right as it was. *)
LEMMA SameAlarm ==
    ASSUME WorkerOK, Quiet, UNCHANGED <<pc, copy, alarm>>
    PROVE  AlarmCloser
<1>1. AlarmIsRight' = AlarmIsRight /\ CopyIsFresh' = CopyIsFresh /\ Position' = Position
  BY AlarmIsRightDepends DEF Quiet, clusterVars, CopyIsFresh, Position
<1>2. AlarmLeft' = AlarmLeft
  BY <1>1 DEF AlarmLeft
<1>3. PICK k \in 0..6 : k = Position
  BY PositionAt DEF WorkerOK
<1>4. AlarmLeft \in 0..14
  BY <1>3 DEF AlarmLeft
<1>5. QED
  BY <1>2, <1>4 DEF AlarmCloser

LEMMA NextAlarm == ASSUME IInv, DriftDetection, Quiet, [Next]_vars PROVE AlarmCloser
<1>1. CASE Connect \/ Deliver \/ UNCHANGED vars
  BY <1>1, SameAlarm DEF Connect, Deliver, vars, workerVars, IInv, TypeOK
<1>2. ~Spend /\ ~Informers
  BY MaxFaultsAssumption DEF Quiet, Spend, IInv, TypeOK, Informers, WatchWorkloads, WatchPods,
     WatchConfig, Synced
<1>3. QED
  BY <1>1, <1>2, StepAlarm
     DEF Next, Failure, ReportFails, ReportConfigFails, DriftFails, Environment,
         ToggleWorkload, ChangePod, EditConfig, Disconnect, Restart

(* While the cluster rests, every step of the worker brings the drift alarm closer
   to being right, across the end of a check that began with an old text: the
   safety core of DriftSettles. *)
THEOREM AlarmComesCloser == Spec => AlarmComesRight
<1>1. Init => IInv
  BY InitIInv
<1>2. IInv /\ [Next]_vars => IInv'
  BY NextIInv
<1>3. IInv /\ [Next]_vars =>
          [DriftDetection /\ Reportable /\ Synced /\ UNCHANGED <<clusterVars, faults>> =>
               /\ AlarmLeft' <= AlarmLeft
               /\ AlarmLeft > 0 /\ pc' # pc => AlarmLeft' < AlarmLeft]_vars
  BY NextAlarm DEF AlarmCloser, Quiet
<1>4. QED
  BY <1>1, <1>2, <1>3, PTL DEF Spec, AlarmComesRight
=============================================================================
