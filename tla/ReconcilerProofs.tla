-------------------------- MODULE ReconcilerProofs --------------------------
(***************************************************************************)
(* Proofs about Reconciler, for every set of monitors and ConfigMaps, every *)
(* set of modes and every budget.                                          *)
(*                                                                         *)
(* The invariants of the runs are not inductive by themselves: a client is *)
(* stopped only if its key is in the registry, and a key is dropped from   *)
(* the queue only if the cache says that the monitor is gone.  IInv adds   *)
(* what relates the three copies of a monitor: API, cache and worker.      *)
(***************************************************************************)
EXTENDS Reconciler, TLAPS

(* A cached copy that is in sync is the API's. *)
CacheFresh == \A m \in inSync : cache[m] = api[m]

(* A worker's copy that is the latest version has the API's spec. *)
CopyFresh ==
    latest => /\ req # None
              /\ Exists(req)
              /\ monitor.spec = api[req].spec

(* Past discoverConfigMap, the copy's ref is resolved from the copy's spec. *)
RefResolved ==
    pc \in {"connect", "status"} => monitor.status.ref = monitor.spec.configMap

IInv ==
    /\ TypeOK
    /\ CacheFresh
    /\ CopyFresh
    /\ RefResolved
    /\ OneClientPerMonitor
    /\ NeverForgotten
-----------------------------------------------------------------------------
(* setCondition yields a list of conditions. *)
LEMMA SetConditionType ==
    ASSUME NEW conds \in SUBSET Condition, NEW type \in ConditionTypes, NEW status \in BOOLEAN
    PROVE  SetCondition(conds, type, status) \in SUBSET Condition
  BY DEF SetCondition, Condition

(* The status that Reconcile computes is a status. *)
LEMMA ActiveStatusType ==
    ASSUME WorkerOK, monitor # None
    PROVE  /\ ActiveStatus \in MonitorStatus
           /\ ActiveStatus.ref = monitor.status.ref
<1>1. /\ monitor.status \in MonitorStatus
      /\ monitor.status.conds \in SUBSET Condition
  BY DEF WorkerOK, CollectorMonitor, MonitorStatus
<1>2. SetCondition(monitor.status.conds, "Active", TRUE) \in SUBSET Condition
  BY <1>1, SetConditionType DEF ConditionTypes
<1>3. QED
  BY <1>1, <1>2 DEF ActiveStatus, MonitorStatus

LEMMA InitIInv == Init => IInv
<1> SUFFICES ASSUME Init PROVE IInv
  OBVIOUS
<1> USE DEF Init
<1>1. ResourcesOK
  <2>1. NewStatus \in MonitorStatus
    BY DEF NewStatus, MonitorStatus
  <2>2. api \in [Monitors -> CollectorMonitor \cup {None}]
    BY <2>1 DEF CollectorMonitor
  <2>3. QED
    BY <2>2 DEF ResourcesOK
<1>2. QueueOK /\ WorkerOK /\ RegistryOK
  BY NoneAssumption DEF QueueOK, WorkerOK, RegistryOK
<1>3. ClusterOK
  BY MaxFaultsAssumption DEF ClusterOK
<1>4. CacheFresh /\ CopyFresh /\ RefResolved
  BY DEF CacheFresh, CopyFresh, RefResolved
<1>5. OneClientPerMonitor /\ NeverForgotten
  BY DEF OneClientPerMonitor, NeverForgotten, Exists
<1>6. QED
  BY <1>1, <1>2, <1>3, <1>4, <1>5 DEF IInv, TypeOK
-----------------------------------------------------------------------------
(* The cluster around the operator. *)

LEMMA SpendType == ASSUME ClusterOK, Spend PROVE faults' \in 0..MaxFaults
  BY MaxFaultsAssumption DEF ClusterOK, Spend

LEMMA WriteIInv ==
    ASSUME IInv, NEW m \in Monitors, NEW object \in CollectorMonitor \cup {None},
           Write(m, object), Spend
    PROVE  IInv'
<1> USE DEF IInv, TypeOK, Write
<1>1. ResourcesOK'
  BY DEF ResourcesOK
<1>2. QueueOK'
  BY DEF QueueOK, queueVars
<1>3. WorkerOK'
  BY DEF WorkerOK
<1>4. RegistryOK'
  BY DEF RegistryOK, registryVars
<1>5. ClusterOK'
  BY SpendType DEF ClusterOK, clusterVars
<1>6. CacheFresh'
  BY DEF CacheFresh, ResourcesOK
<1>7. CopyFresh' /\ RefResolved'
  BY DEF CopyFresh, RefResolved, Exists, ResourcesOK, WorkerOK
<1>8. OneClientPerMonitor'
  BY DEF OneClientPerMonitor, registryVars
<1>9. NeverForgotten'
  BY DEF NeverForgotten, Exists, ResourcesOK, registryVars, queueVars
<1>10. QED
  BY <1>1, <1>2, <1>3, <1>4, <1>5, <1>6, <1>7, <1>8, <1>9

LEMMA ApplyIInv ==
    ASSUME IInv, NEW m \in Monitors, NEW s \in MonitorSpec, Apply(m, s)
    PROVE  IInv'
<1>1. NewStatus \in MonitorStatus
  BY DEF NewStatus, MonitorStatus
<1>2. CASE Exists(m)
  <2>1. [api[m] EXCEPT !.spec = s] \in CollectorMonitor
    BY <1>2 DEF IInv, TypeOK, ResourcesOK, Exists, CollectorMonitor
  <2>2. QED
    BY <1>2, <2>1, WriteIInv DEF Apply
<1>3. CASE ~Exists(m)
  <2>1. [spec |-> s, status |-> NewStatus] \in CollectorMonitor
    BY <1>1 DEF CollectorMonitor
  <2>2. QED
    BY <1>3, <2>1, WriteIInv DEF Apply
<1>4. QED
  BY <1>2, <1>3

LEMMA DeleteIInv ==
    ASSUME IInv, NEW m \in Monitors, Delete(m)
    PROVE  IInv'
  BY WriteIInv DEF Delete

(* Workloads, secrets, ConfigMaps and the queue may change in any way that keeps
   their types and drops no key from the queue. *)
LEMMA ClusterIInv ==
    ASSUME IInv, ClusterOK', queued \subseteq queued', queued' \subseteq Monitors,
           UNCHANGED <<apiVars, timers, workerVars, registryVars>>
    PROVE  IInv'
<1> USE DEF IInv, TypeOK, apiVars, workerVars, registryVars
<1>1. ResourcesOK' /\ QueueOK' /\ WorkerOK' /\ RegistryOK'
  BY DEF ResourcesOK, QueueOK, WorkerOK, RegistryOK
<1>2. CacheFresh' /\ CopyFresh' /\ RefResolved'
  BY DEF CacheFresh, CopyFresh, RefResolved, Exists
<1>3. OneClientPerMonitor'
  BY DEF OneClientPerMonitor
<1>4. NeverForgotten'
  BY DEF NeverForgotten, Exists
<1>5. QED
  BY <1>1, <1>2, <1>3, <1>4

LEMMA ToggleIInv ==
    ASSUME IInv, NEW m \in Monitors, ToggleWorkload(m) \/ ToggleSecret(m)
    PROVE  IInv'
<1>1. ClusterOK'
  BY SpendType DEF IInv, TypeOK, ClusterOK, ToggleWorkload, ToggleSecret, Toggle
<1>2. queued' = queued /\ queued \subseteq Monitors
  BY DEF IInv, TypeOK, QueueOK, ToggleWorkload, ToggleSecret, queueVars
<1>3. UNCHANGED <<apiVars, timers, workerVars, registryVars>>
  BY DEF ToggleWorkload, ToggleSecret, queueVars
<1>4. QED
  BY <1>1, <1>2, <1>3, ClusterIInv

LEMMA ConfigMapEventIInv ==
    ASSUME IInv, NEW c \in ConfigMaps, ConfigMapEvent(c)
    PROVE  IInv'
<1>1. ClusterOK'
  BY SpendType DEF IInv, TypeOK, ClusterOK, ConfigMapEvent, Toggle
<1>2. queued \subseteq queued' /\ queued' \subseteq Monitors
  BY DEF IInv, TypeOK, QueueOK, ConfigMapEvent, MapConfigMapToMonitors
<1>3. QED
  BY <1>1, <1>2, ClusterIInv DEF ConfigMapEvent

LEMMA WatchIInv ==
    ASSUME IInv, NEW m \in Monitors, Watch(m)
    PROVE  IInv'
<1> USE DEF IInv, TypeOK, Watch, workerVars, registryVars, clusterVars
<1>1. ResourcesOK' /\ QueueOK' /\ WorkerOK' /\ RegistryOK' /\ ClusterOK'
  BY DEF ResourcesOK, QueueOK, WorkerOK, RegistryOK, ClusterOK
<1>2. CacheFresh' /\ CopyFresh' /\ RefResolved'
  BY DEF CacheFresh, CopyFresh, RefResolved, Exists, ResourcesOK
<1>3. OneClientPerMonitor'
  BY DEF OneClientPerMonitor
<1>4. NeverForgotten'
  BY DEF NeverForgotten, Exists
<1>5. QED
  BY <1>1, <1>2, <1>3, <1>4

LEMMA TimerFiresIInv ==
    ASSUME IInv, NEW m \in Monitors, TimerFires(m)
    PROVE  IInv'
<1> USE DEF IInv, TypeOK, TimerFires, apiVars, workerVars, registryVars, clusterVars
<1>1. ResourcesOK' /\ QueueOK' /\ WorkerOK' /\ RegistryOK' /\ ClusterOK'
  BY DEF ResourcesOK, QueueOK, WorkerOK, RegistryOK, ClusterOK
<1>2. CacheFresh' /\ CopyFresh' /\ RefResolved'
  BY DEF CacheFresh, CopyFresh, RefResolved, Exists
<1>3. OneClientPerMonitor'
  BY DEF OneClientPerMonitor
<1>4. NeverForgotten'
  BY DEF NeverForgotten, Exists
<1>5. QED
  BY <1>1, <1>2, <1>3, <1>4

LEMMA BootIInv == ASSUME IInv, Boot, ClusterOK' PROVE IInv'
<1> USE DEF IInv, TypeOK, Boot
<1>1. ResourcesOK' /\ QueueOK' /\ RegistryOK'
  BY DEF ResourcesOK, QueueOK, RegistryOK
<1>2. WorkerOK'
  BY NoneAssumption DEF WorkerOK
<1>3. CacheFresh' /\ CopyFresh' /\ RefResolved'
  BY DEF CacheFresh, CopyFresh, RefResolved
<1>4. OneClientPerMonitor' /\ NeverForgotten'
  BY DEF OneClientPerMonitor, NeverForgotten, Exists
<1>5. QED
  BY <1>1, <1>2, <1>3, <1>4

LEMMA RestartIInv == ASSUME IInv, Restart PROVE IInv'
<1>1. ClusterOK'
  BY SpendType DEF IInv, TypeOK, ClusterOK, Restart, clusterVars
<1>2. QED
  BY <1>1, BootIInv DEF Restart
-----------------------------------------------------------------------------
(* The worker. *)

LEMMA FetchIInv ==
    ASSUME IInv, NEW m \in Monitors, Fetch(m)
    PROVE  IInv'
<1> USE DEF IInv, TypeOK, Fetch, apiVars, clusterVars
<1>1. req = None /\ monitor = None
  BY DEF WorkerOK
<1>2. ResourcesOK' /\ QueueOK' /\ ClusterOK' /\ CacheFresh'
  BY DEF ResourcesOK, QueueOK, ClusterOK, CacheFresh
<1>3. CASE cache[m] # None
  <2> USE <1>3 DEF registryVars
  <2>1. WorkerOK'
    <3>1. m # None /\ cache[m] \in CollectorMonitor
      BY NoneAssumption DEF ResourcesOK
    <3>2. latest' \in BOOLEAN
      <4>1. latest' = (m \in inSync)
        OBVIOUS
      <4>2. QED
        BY ONLY <4>1
    <3>3. pc' = "discover" /\ req' = m /\ monitor' = cache[m]
      OBVIOUS
    <3>4. QED
      BY <3>1, <3>2, <3>3 DEF WorkerOK
  <2>2. RegistryOK' /\ OneClientPerMonitor'
    BY DEF RegistryOK, OneClientPerMonitor
  <2>3. CopyFresh' /\ RefResolved'
    BY NoneAssumption DEF CopyFresh, RefResolved, CacheFresh, Exists
  <2>4. NeverForgotten'
    BY <1>1, NoneAssumption DEF NeverForgotten, Exists
  <2>5. QED
    BY <1>2, <2>1, <2>2, <2>3, <2>4
<1>4. CASE cache[m] = None
  <2> USE <1>4 DEF workerVars, CleanupOpAMPClient
  <2>1. WorkerOK' /\ CopyFresh' /\ RefResolved'
    BY DEF WorkerOK, CopyFresh, RefResolved, Exists
  <2>2. RegistryOK' /\ OneClientPerMonitor'
    BY DEF RegistryOK, OneClientPerMonitor
  <2>3. NeverForgotten'
    BY <1>1, NoneAssumption DEF NeverForgotten, Exists, CacheFresh, RegistryOK
  <2>4. QED
    BY <1>2, <2>1, <2>2, <2>3
<1>5. QED
  BY <1>3, <1>4

(* Reconcile gives up, whatever it has done to the cluster variables' budget:
   the key waits for a timer. *)
LEMMA GiveUpIInv ==
    ASSUME IInv, pc # "idle", ReturnAndRequeue, ClusterOK',
           UNCHANGED <<apiVars, registryVars>>
    PROVE  IInv'
<1> USE DEF IInv, TypeOK, ReturnAndRequeue, Return, apiVars, registryVars
<1>1. req \in Monitors
  BY NoneAssumption DEF WorkerOK
<1>2. ResourcesOK' /\ QueueOK' /\ WorkerOK' /\ RegistryOK'
  BY <1>1, NoneAssumption DEF ResourcesOK, QueueOK, WorkerOK, RegistryOK
<1>3. CacheFresh' /\ CopyFresh' /\ RefResolved'
  BY DEF CacheFresh, CopyFresh, RefResolved
<1>4. OneClientPerMonitor'
  BY DEF OneClientPerMonitor
<1>5. NeverForgotten'
  BY DEF NeverForgotten, Exists
<1>6. QED
  BY <1>2, <1>3, <1>4, <1>5

LEMMA FetchFailsIInv ==
    ASSUME IInv, NEW m \in Monitors, FetchFails(m)
    PROVE  IInv'
<1> USE DEF IInv, TypeOK, FetchFails, apiVars, workerVars, registryVars, clusterVars
<1>1. ResourcesOK' /\ QueueOK' /\ WorkerOK' /\ RegistryOK' /\ ClusterOK'
  BY SpendType DEF ResourcesOK, QueueOK, WorkerOK, RegistryOK, ClusterOK
<1>2. CacheFresh' /\ CopyFresh' /\ RefResolved'
  BY DEF CacheFresh, CopyFresh, RefResolved, Exists
<1>3. OneClientPerMonitor'
  BY DEF OneClientPerMonitor
<1>4. NeverForgotten'
  BY DEF NeverForgotten, Exists
<1>5. QED
  BY <1>1, <1>2, <1>3, <1>4

(* StartFails and UpdateFails only give up and spend budget. *)
LEMMA FailureIInv ==
    ASSUME IInv, StartFails \/ UpdateFails
    PROVE  IInv'
<1>1. ClusterOK'
  BY SpendType DEF IInv, TypeOK, ClusterOK, StartFails, UpdateFails, clusterVars
<1>2. pc # "idle" /\ ReturnAndRequeue /\ UNCHANGED <<apiVars, registryVars>>
  BY DEF StartFails, UpdateFails
<1>3. QED
  BY <1>1, <1>2, GiveUpIInv

(* The worker goes on to its next step with the queue and the API as they are:
   what is left to show of the copy and of the registry. *)
LEMMA ContinueIInv ==
    ASSUME IInv, NEW step \in {"resolve", "connect", "status"}, pc # "idle", Continue(step),
           monitor' \in CollectorMonitor, monitor'.spec = monitor.spec, RefResolved',
           RegistryOK', OneClientPerMonitor',
           \A m \in Monitors : m # req => clients'[m] = clients[m],
           UNCHANGED <<apiVars, queueVars, clusterVars, faults>>
    PROVE  IInv'
<1> USE DEF IInv, TypeOK, Continue, apiVars, queueVars, clusterVars
<1>1. req \in Monitors
  BY DEF WorkerOK
<1>2. ResourcesOK' /\ QueueOK' /\ ClusterOK'
  BY DEF ResourcesOK, QueueOK, ClusterOK
<1>3. WorkerOK'
  BY <1>1, NoneAssumption DEF WorkerOK
<1>4. CacheFresh' /\ CopyFresh'
  BY DEF CacheFresh, CopyFresh, Exists
<1>5. NeverForgotten'
  BY DEF NeverForgotten, Exists
<1>6. QED
  BY <1>2, <1>3, <1>4, <1>5

LEMMA DiscoverWorkloadIInv == ASSUME IInv, DiscoverWorkload PROVE IInv'
<1> USE DEF DiscoverWorkload
<1>1. CASE req \in workloads
  <2>1. monitor \in CollectorMonitor
    BY NoneAssumption DEF IInv, TypeOK, WorkerOK
  <2>2. Continue("resolve") /\ UNCHANGED <<monitor, apiVars, queueVars, clusterVars, faults>>
    BY <1>1, NoneAssumption DEF ReturnAndRequeue
  <2>3. RegistryOK' /\ OneClientPerMonitor' /\ clients' = clients
    BY DEF IInv, TypeOK, RegistryOK, OneClientPerMonitor, registryVars
  <2>4. RefResolved'
    BY <2>2 DEF RefResolved, Continue
  <2>5. QED
    BY <2>1, <2>2, <2>3, <2>4, ContinueIInv
<1>2. CASE req \notin workloads
  <2>1. ClusterOK'
    BY DEF IInv, TypeOK, ClusterOK, clusterVars
  <2>2. QED
    BY <1>2, <2>1, GiveUpIInv
<1>3. QED
  BY <1>1, <1>2

LEMMA DiscoverConfigMapIInv == ASSUME IInv, DiscoverConfigMap PROVE IInv'
<1> USE DEF DiscoverConfigMap
<1>1. monitor \in CollectorMonitor
  BY NoneAssumption DEF IInv, TypeOK, WorkerOK
<1>2. CASE monitor.spec.configMap \in configMaps
  <2>1. monitor' = [monitor EXCEPT !.status.ref = monitor.spec.configMap]
    BY <1>2
  <2>2. monitor.spec.configMap \in ConfigMaps
    BY <1>2 DEF IInv, TypeOK, ClusterOK
  <2>3. /\ monitor' \in CollectorMonitor
        /\ monitor'.spec = monitor.spec
        /\ monitor'.status.ref = monitor'.spec.configMap
    BY <1>1, <2>1, <2>2 DEF CollectorMonitor, MonitorStatus
  <2>4. Continue("connect") /\ UNCHANGED <<apiVars, queueVars, clusterVars, faults>>
    BY <1>2
  <2>5. RegistryOK' /\ OneClientPerMonitor' /\ clients' = clients
    BY DEF IInv, TypeOK, RegistryOK, OneClientPerMonitor, registryVars
  <2>6. RefResolved'
    BY <2>3 DEF RefResolved
  <2>7. QED
    BY <2>3, <2>4, <2>5, <2>6, ContinueIInv
<1>3. CASE monitor.spec.configMap \notin configMaps
  <2>1. ClusterOK'
    BY DEF IInv, TypeOK, ClusterOK, clusterVars
  <2>2. QED
    BY <1>3, <2>1, GiveUpIInv
<1>4. QED
  BY <1>2, <1>3

LEMMA EnsureOpAMPConnectionIInv == ASSUME IInv, EnsureOpAMPConnection PROVE IInv'
<1> USE DEF EnsureOpAMPConnection
<1>1. req \in Monitors /\ monitor \in CollectorMonitor
  BY NoneAssumption DEF IInv, TypeOK, WorkerOK
<1>2. CASE Connected(req)
  <2>1. Continue("status") /\ UNCHANGED <<monitor, apiVars, queueVars, clusterVars, faults, registryVars>>
    BY <1>2
  <2>2. RegistryOK' /\ OneClientPerMonitor' /\ clients' = clients
    BY <2>1 DEF IInv, TypeOK, RegistryOK, OneClientPerMonitor, registryVars
  <2>3. RefResolved'
    BY <2>1 DEF IInv, RefResolved
  <2>4. QED
    BY <1>1, <2>1, <2>2, <2>3, ContinueIInv
<1>3. CASE ~Connected(req) /\ req \in secrets
  <2>1. /\ clients' = [clients EXCEPT ![req] =
                          [spec |-> monitor.spec, ref |-> monitor.status.ref]]
        /\ started' = started \cup {req}
        /\ sockets' = [sockets EXCEPT ![req] = @ + 1]
        /\ Continue("status")
        /\ UNCHANGED <<monitor, apiVars, queueVars, clusterVars, faults>>
    BY <1>3
  <2>2. [spec |-> monitor.spec, ref |-> monitor.status.ref] \in Captured
    BY <1>1 DEF Captured, CollectorMonitor, MonitorStatus
  <2>3. RegistryOK'
    BY <1>1, <2>1, <2>2 DEF IInv, TypeOK, RegistryOK
  <2>4. OneClientPerMonitor'
    BY <1>1, <1>3, <2>1, <2>2, NoneAssumption
       DEF IInv, TypeOK, RegistryOK, OneClientPerMonitor, Connected
  <2>5. \A m \in Monitors : m # req => clients'[m] = clients[m]
    BY <2>1 DEF IInv, TypeOK, RegistryOK
  <2>6. RefResolved'
    BY <2>1 DEF IInv, RefResolved
  <2>7. QED
    BY <1>1, <2>1, <2>3, <2>4, <2>5, <2>6, ContinueIInv
<1>4. CASE ~Connected(req) /\ req \notin secrets
  <2>1. ClusterOK'
    BY DEF IInv, TypeOK, ClusterOK, clusterVars
  <2>2. QED
    BY <1>4, <2>1, GiveUpIInv
<1>5. QED
  BY <1>2, <1>3, <1>4

LEMMA UpdateStatusIInv == ASSUME IInv, UpdateStatus PROVE IInv'
<1> USE DEF UpdateStatus
<1>1. req \in Monitors /\ monitor # None
  BY NoneAssumption DEF IInv, TypeOK, WorkerOK
<1>2. ClusterOK'
  BY DEF IInv, TypeOK, ClusterOK, clusterVars
<1>3. CASE UNCHANGED <<api, inSync>>
  BY <1>2, <1>3, GiveUpIInv DEF apiVars
<1>4. CASE Accepted /\ api' = [api EXCEPT ![req].status = ActiveStatus] /\ inSync' = inSync \ {req}
  <2> USE <1>4 DEF IInv, TypeOK, ReturnAndRequeue, Return, registryVars
  <2>1. Exists(req) /\ api[req] \in CollectorMonitor
    BY <1>1 DEF CopyFresh, Accepted, Exists, ResourcesOK
  <2>2. [api[req] EXCEPT !.status = ActiveStatus] \in CollectorMonitor
    BY <1>1, <2>1, ActiveStatusType DEF CollectorMonitor
  <2>3. ResourcesOK'
    BY <1>1, <2>2 DEF ResourcesOK
  <2>4. QueueOK' /\ RegistryOK' /\ OneClientPerMonitor'
    BY <1>1 DEF QueueOK, RegistryOK, OneClientPerMonitor
  <2>5. WorkerOK' /\ CopyFresh' /\ RefResolved'
    BY NoneAssumption DEF WorkerOK, CopyFresh, RefResolved
  <2>6. CacheFresh'
    BY DEF CacheFresh, ResourcesOK
  <2>7. NeverForgotten'
    BY <1>1, <2>1 DEF NeverForgotten, Exists, ResourcesOK
  <2>8. QED
    BY <1>2, <2>3, <2>4, <2>5, <2>6, <2>7
<1>5. QED
  BY <1>3, <1>4
-----------------------------------------------------------------------------
LEMMA NextIInv == IInv /\ [Next]_vars => IInv'
<1> SUFFICES ASSUME IInv, [Next]_vars PROVE IInv'
  OBVIOUS
<1>1. ASSUME NEW m \in Monitors, NEW s \in MonitorSpec, Apply(m, s) PROVE IInv'
  BY <1>1, ApplyIInv
<1>2. ASSUME NEW m \in Monitors, Delete(m) PROVE IInv'
  BY <1>2, DeleteIInv
<1>3. ASSUME NEW m \in Monitors, ToggleWorkload(m) \/ ToggleSecret(m) PROVE IInv'
  BY <1>3, ToggleIInv
<1>4. ASSUME NEW c \in ConfigMaps, ConfigMapEvent(c) PROVE IInv'
  BY <1>4, ConfigMapEventIInv
<1>5. ASSUME NEW m \in Monitors, Watch(m) PROVE IInv'
  BY <1>5, WatchIInv
<1>6. ASSUME NEW m \in Monitors, TimerFires(m) PROVE IInv'
  BY <1>6, TimerFiresIInv
<1>7. ASSUME NEW m \in Monitors, Fetch(m) PROVE IInv'
  BY <1>7, FetchIInv
<1>8. CASE Step
  BY <1>8, DiscoverWorkloadIInv, DiscoverConfigMapIInv, EnsureOpAMPConnectionIInv,
     UpdateStatusIInv DEF Step
<1>9. CASE Failure
  BY <1>9, FetchFailsIInv, FailureIInv DEF Failure
<1>10. CASE Restart
  BY <1>10, RestartIInv
<1>11. CASE UNCHANGED vars
  <2> USE <1>11 DEF vars, apiVars, queueVars, workerVars, registryVars, clusterVars
  <2>1. TypeOK'
    BY DEF IInv, TypeOK, ResourcesOK, QueueOK, WorkerOK, RegistryOK, ClusterOK
  <2>2. CacheFresh' /\ CopyFresh' /\ RefResolved'
    BY DEF IInv, CacheFresh, CopyFresh, RefResolved, Exists
  <2>3. OneClientPerMonitor' /\ NeverForgotten'
    BY DEF IInv, OneClientPerMonitor, NeverForgotten, Exists
  <2>4. QED
    BY <2>1, <2>2, <2>3 DEF IInv
<1>12. QED
  BY <1>1, <1>2, <1>3, <1>4, <1>5, <1>6, <1>7, <1>8, <1>9, <1>10, <1>11
     DEF Next, Environment

(* The strengthened invariant holds in every reachable state. *)
THEOREM InductiveInvariant == Spec => []IInv
  BY InitIInv, NextIInv, PTL DEF Spec

(* Every variable keeps its type, in particular no connection count drops below
   zero (cleanupOpAMPClient stops only what ensureOpAMPConnection started). *)
THEOREM TypeCorrect == Spec => []TypeOK
  BY InductiveInvariant, PTL DEF IInv

(* Exactly one connection runs for a registered client and none for any other
   monitor, for any number of monitors, edits, failures and restarts. *)
THEOREM OneClient == Spec => []OneClientPerMonitor
  BY InductiveInvariant, PTL DEF IInv

(* No monitor and no open client is ever forgotten by queue, timers, worker and
   watch together. *)
THEOREM NoLostWakeUp == Spec => []NeverForgotten
  BY InductiveInvariant, PTL DEF IInv

(* What StatusMatchesSpec says of a step. *)
Matches ==
    \A m \in Monitors :
        /\ Exists(m)
        /\ Exists(m)'
        /\ api'[m].status # api[m].status
        => api'[m].status.ref = api'[m].spec.configMap

(* The steps that write the API. *)
Writes ==
    \/ \E m \in Monitors : (\E s \in MonitorSpec : Apply(m, s)) \/ Delete(m)
    \/ UpdateStatus

LEMMA WritesMatch ==
    ASSUME IInv, Writes \/ UNCHANGED api
    PROVE  [Matches]_api
<1> USE DEF Matches
<1>1. CASE UNCHANGED api
  BY <1>1
<1>2. ASSUME NEW m \in Monitors, NEW s \in MonitorSpec, Apply(m, s) PROVE Matches
  <2>1. api \in [Monitors -> CollectorMonitor \cup {None}]
    BY DEF IInv, TypeOK, ResourcesOK
  <2>2. CASE Exists(m)
    BY <1>2, <2>1, <2>2 DEF Apply, Write, Exists, CollectorMonitor
  <2>3. CASE ~Exists(m)
    BY <1>2, <2>1, <2>3 DEF Apply, Write, Exists
  <2>4. QED
    BY <2>2, <2>3
<1>3. ASSUME NEW m \in Monitors, Delete(m) PROVE Matches
  BY <1>3 DEF IInv, TypeOK, ResourcesOK, Delete, Write, Exists
<1>4. CASE UpdateStatus
  <2>1. pc = "status" /\ req \in Monitors /\ monitor # None
    BY <1>4, NoneAssumption DEF UpdateStatus, IInv, TypeOK, WorkerOK
  <2>2. CASE latest /\ api' = [api EXCEPT ![req].status = ActiveStatus]
    <3>1. /\ api[req] \in CollectorMonitor
          /\ monitor.spec = api[req].spec
      BY <2>1, <2>2 DEF IInv, CopyFresh, TypeOK, ResourcesOK, Exists
    <3>2. ActiveStatus.ref = api[req].spec.configMap
      BY <2>1, <3>1, ActiveStatusType DEF IInv, TypeOK, RefResolved
    <3>3. api'[req].status = ActiveStatus /\ api'[req].spec = api[req].spec
      BY <2>1, <2>2, <3>1 DEF IInv, TypeOK, ResourcesOK, CollectorMonitor
    <3>4. \A m \in Monitors \ {req} : api'[m] = api[m]
      BY <2>2 DEF IInv, TypeOK, ResourcesOK
    <3>5. QED
      BY <3>2, <3>3, <3>4
  <2>3. QED
    BY <1>1, <1>4, <2>2 DEF UpdateStatus, Accepted
<1>5. QED
  BY <1>1, <1>2, <1>3, <1>4 DEF Writes

LEMMA OnlyWrites == ASSUME [Next]_vars PROVE Writes \/ UNCHANGED api
  BY DEF Next, Environment, Step, Failure, vars, apiVars, ToggleWorkload, ToggleSecret,
         ConfigMapEvent, Watch, TimerFires, Restart, Boot, Fetch, FetchFails, DiscoverWorkload,
         DiscoverConfigMap, EnsureOpAMPConnection, StartFails, UpdateFails, Writes

(* No status is written next to a spec it was not computed from. *)
THEOREM StatusFollowsSpec == Spec => StatusMatchesSpec
<1>1. IInv /\ [Next]_vars => [Matches]_api
  BY WritesMatch, OnlyWrites
<1>2. QED
  BY <1>1, InductiveInvariant, PTL DEF Spec, StatusMatchesSpec, Matches
-----------------------------------------------------------------------------
(* The connections of the operator implement FleetConnections. *)

existing == {m \in Monitors : Exists(m)}

(* A step that leaves api and sockets alone is a stutter of the abstraction. *)
LEMMA Stutter ==
    ASSUME UNCHANGED <<api, sockets>>
    PROVE  UNCHANGED Connections!vars
  BY DEF Connections!vars, Exists

(* A write of one monitor makes it wanted or unwanted, or is a stutter. *)
LEMMA WriteSimulates ==
    ASSUME IInv, NEW m \in Monitors, NEW object, api' = [api EXCEPT ![m] = object],
           UNCHANGED sockets
    PROVE  Connections!Want(m) \/ Connections!Unwant(m)
<1>1. /\ api'[m] = object
      /\ \A n \in Monitors \ {m} : api'[n] = api[n]
  BY DEF IInv, TypeOK, ResourcesOK
<1>2. CASE object # None
  <2>1. existing' = existing \cup {m}
    BY <1>1, <1>2 DEF existing, Exists
  <2>2. QED
    BY <2>1 DEF existing, Connections!Want
<1>3. CASE object = None
  <2>1. existing' = existing \ {m}
    BY <1>1, <1>3 DEF existing, Exists
  <2>2. QED
    BY <2>1 DEF existing, Connections!Unwant
<1>4. QED
  BY <1>2, <1>3

(* NotFound: the client that is stopped is the only one of its monitor. *)
LEMMA FetchSimulates ==
    ASSUME IInv, NEW m \in Monitors, Fetch(m)
    PROVE  Connections!Close(m) \/ UNCHANGED <<api, sockets>>
<1>1. UNCHANGED api
  BY DEF Fetch, apiVars
<1>2. CASE cache[m] = None /\ clients[m] # None
  <2>1. sockets[m] = 1 /\ sockets' = [sockets EXCEPT ![m] = sockets[m] - 1]
    BY <1>2 DEF IInv, OneClientPerMonitor, Fetch, CleanupOpAMPClient
  <2>2. QED
    BY <1>1, <2>1 DEF Connections!Close, Exists
<1>3. CASE ~(cache[m] = None /\ clients[m] # None)
  BY <1>1, <1>3 DEF Fetch, CleanupOpAMPClient, registryVars
<1>4. QED
  BY <1>2, <1>3

(* A client is started only for a key that has none. *)
LEMMA EnsureSimulates ==
    ASSUME IInv, EnsureOpAMPConnection
    PROVE  Connections!Open(req) \/ UNCHANGED <<api, sockets>>
<1>1. req \in Monitors /\ UNCHANGED api
  BY NoneAssumption DEF IInv, TypeOK, WorkerOK, EnsureOpAMPConnection, apiVars
<1>2. CASE ~Connected(req) /\ sockets' = [sockets EXCEPT ![req] = @ + 1]
  <2>1. sockets[req] = 0
    BY <1>1, <1>2 DEF IInv, OneClientPerMonitor, Connected
  <2>2. QED
    BY <1>1, <1>2, <2>1 DEF Connections!Open, Exists
<1>3. CASE UNCHANGED sockets
  BY <1>1, <1>3
<1>4. QED
  BY <1>2, <1>3 DEF EnsureOpAMPConnection, registryVars

LEMMA UpdateStatusSimulates ==
    ASSUME IInv, UpdateStatus
    PROVE  Connections!Want(req) \/ Connections!Unwant(req) \/ UNCHANGED <<api, sockets>>
<1>1. UNCHANGED sockets /\ req \in Monitors
  BY NoneAssumption DEF IInv, TypeOK, WorkerOK, UpdateStatus, registryVars
<1>2. CASE UNCHANGED api
  BY <1>1, <1>2
<1>3. CASE api' = [api EXCEPT ![req].status = ActiveStatus]
  BY <1>1, <1>3, WriteSimulates
<1>4. QED
  BY <1>2, <1>3 DEF UpdateStatus

LEMMA BootSimulates == ASSUME Boot PROVE Connections!Crash
<1>1. UNCHANGED existing /\ sockets' = [m \in Monitors |-> 0]
  BY DEF Boot, existing, Exists
<1>2. QED
  BY <1>1 DEF Connections!Crash, existing

LEMMA NextSimulates ==
    ASSUME IInv, [Next]_vars
    PROVE  [Connections!Next]_(Connections!vars)
<1> USE DEF Connections!Next
<1>1. ASSUME NEW m \in Monitors, NEW s \in MonitorSpec, Apply(m, s)
      PROVE  Connections!Next
  BY <1>1, WriteSimulates DEF Apply, Write, registryVars
<1>2. ASSUME NEW m \in Monitors, Delete(m)
      PROVE  Connections!Next
  BY <1>2, WriteSimulates DEF Delete, Write, registryVars
<1>3. ASSUME NEW m \in Monitors, Fetch(m)
      PROVE  [Connections!Next]_(Connections!vars)
  BY <1>3, FetchSimulates, Stutter
<1>4. CASE EnsureOpAMPConnection
  <2>1. req \in Monitors
    BY <1>4, NoneAssumption DEF IInv, TypeOK, WorkerOK, EnsureOpAMPConnection
  <2>2. QED
    BY <1>4, <2>1, EnsureSimulates, Stutter
<1>5. CASE UpdateStatus
  <2>1. req \in Monitors
    BY <1>5, NoneAssumption DEF IInv, TypeOK, WorkerOK, UpdateStatus
  <2>2. QED
    BY <1>5, <2>1, UpdateStatusSimulates, Stutter
<1>6. CASE Restart
  BY <1>6, BootSimulates DEF Restart
<1>7. CASE UNCHANGED <<api, sockets>>
  BY <1>7, Stutter
<1>8. QED
  BY <1>1, <1>2, <1>3, <1>4, <1>5, <1>6, <1>7
     DEF Next, Environment, Step, Failure, vars, apiVars, registryVars, ToggleWorkload,
         ToggleSecret, ConfigMapEvent, Watch, TimerFires, FetchFails, DiscoverWorkload,
         DiscoverConfigMap, StartFails, UpdateFails

(* Whatever happens to the monitors, the operator opens a connection only for a
   monitor that has none and closes only one that runs: the safety part of
   ImplementsConnections. *)
THEOREM RefinesConnections == Spec => Connections!Safe
<1>1. Init => Connections!Init
  BY DEF Init, Connections!Init
<1>2. IInv /\ [Next]_vars => [Connections!Next]_(Connections!vars)
  BY NextSimulates
<1>3. QED
  BY <1>1, <1>2, InductiveInvariant, PTL DEF Spec, Connections!Safe
-----------------------------------------------------------------------------
(* Healthy monitors come closer to being done.  Four more facts relate the
   worker's copy, the cache and the queue. *)
LapInv ==
    /\ latest => req \in inSync
    /\ \A m \in Monitors : Exists(m) /\ api[m].status.phase = "Active" => cache[m] # None
    /\ req # None /\ ~latest /\ req \in inSync => req \in queued
    /\ pc = "status" => req \in started

LEMMA InitLap == Init => LapInv
  BY DEF Init, LapInv, Exists, NewStatus

(* The part of the cluster that LapInv speaks of is as it was. *)
LEMMA SameLap ==
    ASSUME LapInv, UNCHANGED <<api, cache, inSync, req, latest, pc, started>>,
           queued \subseteq queued'
    PROVE  LapInv'
  BY DEF LapInv, Exists

LEMMA WriteLap ==
    ASSUME IInv, LapInv, NEW m \in Monitors, NEW object, Write(m, object),
           object # None /\ object.status.phase = "Active" =>
               Exists(m) /\ api[m].status.phase = "Active"
    PROVE  LapInv'
  BY DEF IInv, TypeOK, ResourcesOK, LapInv, Write, Exists, queueVars, registryVars

LEMMA ApplyLap ==
    ASSUME IInv, LapInv, NEW m \in Monitors, NEW s \in MonitorSpec, Apply(m, s)
    PROVE  LapInv'
<1>1. CASE Exists(m)
  <2>1. [api[m] EXCEPT !.spec = s].status = api[m].status
    BY <1>1 DEF IInv, TypeOK, ResourcesOK, Exists, CollectorMonitor
  <2>2. QED
    BY <1>1, <2>1, WriteLap DEF Apply
<1>2. CASE ~Exists(m)
  <2>1. [spec |-> s, status |-> NewStatus].status.phase # "Active"
    BY DEF NewStatus
  <2>2. QED
    BY <1>2, <2>1, WriteLap DEF Apply
<1>3. QED
  BY <1>1, <1>2

LEMMA FetchLap == ASSUME IInv, LapInv, NEW m \in Monitors, Fetch(m) PROVE LapInv'
<1>1. pc = "idle" /\ req = None /\ UNCHANGED <<api, cache, inSync>>
  BY DEF Fetch, apiVars, IInv, TypeOK, WorkerOK
<1>2. CASE cache[m] # None
  BY <1>1, <1>2 DEF Fetch, LapInv, Exists
<1>3. CASE cache[m] = None
  BY <1>1, <1>3 DEF Fetch, workerVars, LapInv, Exists
<1>4. QED
  BY <1>2, <1>3

(* Reconcile returns, having written nothing. *)
LEMMA ReturnLap ==
    ASSUME LapInv, Return, UNCHANGED <<api, cache, inSync>>
    PROVE  LapInv'
  BY DEF LapInv, Return, Exists

LEMMA StepLap == ASSUME IInv, LapInv, Step PROVE LapInv'
<1> USE DEF ReturnAndRequeue, Continue, apiVars, queueVars, registryVars
<1>1. req # None /\ req \in Monitors
  BY NoneAssumption DEF Step, DiscoverWorkload, DiscoverConfigMap, EnsureOpAMPConnection, UpdateStatus,
     IInv, TypeOK, WorkerOK
<1>2. CASE DiscoverWorkload
  BY <1>2, ReturnLap DEF DiscoverWorkload, LapInv, Exists
<1>3. CASE DiscoverConfigMap
  BY <1>3, ReturnLap DEF DiscoverConfigMap, LapInv, Exists
<1>4. CASE EnsureOpAMPConnection
  BY <1>4, ReturnLap DEF EnsureOpAMPConnection, Connected, LapInv, Exists
<1>5. CASE UpdateStatus
  <2>1. CASE UNCHANGED <<api, inSync>>
    BY <1>5, <2>1, ReturnLap DEF UpdateStatus
  <2>2. CASE Accepted /\ api' = [api EXCEPT ![req].status = ActiveStatus]
    <3>1. cache[req] # None
      BY <2>2 DEF Accepted, LapInv, IInv, CacheFresh, CopyFresh, Exists
    <3>2. \A m \in Monitors \ {req} : api'[m] = api[m]
      BY <2>2 DEF IInv, TypeOK, ResourcesOK
    <3>3. cache' = cache /\ req' = None /\ ~latest' /\ pc' = "idle"
      BY <1>5 DEF UpdateStatus, Return
    <3>4. QED
      BY <3>1, <3>2, <3>3 DEF LapInv, Exists
  <2>3. QED
    BY <1>5, <2>1, <2>2 DEF UpdateStatus
<1>6. QED
  BY <1>2, <1>3, <1>4, <1>5 DEF Step

LEMMA WatchLap == ASSUME IInv, LapInv, NEW m \in Monitors, Watch(m) PROVE LapInv'
  BY DEF Watch, LapInv, Exists, IInv, TypeOK, ResourcesOK, workerVars, registryVars

(* A call of Reconcile fails: it writes nothing. *)
LEMMA FailureLap == ASSUME IInv, LapInv, Failure PROVE LapInv'
<1> USE DEF apiVars, workerVars, registryVars
<1>1. ASSUME NEW m \in Monitors, FetchFails(m) PROVE LapInv'
  BY <1>1 DEF FetchFails, LapInv, Exists, IInv, TypeOK, WorkerOK
<1>2. CASE StartFails \/ UpdateFails
  BY <1>2, ReturnLap DEF StartFails, UpdateFails, ReturnAndRequeue
<1>3. QED
  BY <1>1, <1>2 DEF Failure

LEMMA BootLap == ASSUME LapInv, Boot PROVE LapInv'
  BY DEF LapInv, Boot, Exists

LEMMA NextLap == IInv /\ LapInv /\ [Next]_vars => LapInv'
<1> SUFFICES ASSUME IInv, LapInv, [Next]_vars PROVE LapInv'
  OBVIOUS
<1> USE DEF apiVars, queueVars, workerVars, registryVars, clusterVars
<1>1. ASSUME NEW m \in Monitors, NEW s \in MonitorSpec, Apply(m, s) PROVE LapInv'
  BY <1>1, ApplyLap
<1>2. ASSUME NEW m \in Monitors, Delete(m) PROVE LapInv'
  BY <1>2, WriteLap DEF Delete
<1>3. ASSUME NEW m \in Monitors, ToggleWorkload(m) \/ ToggleSecret(m) \/ TimerFires(m) PROVE LapInv'
  BY <1>3, SameLap DEF ToggleWorkload, ToggleSecret, TimerFires
<1>4. ASSUME NEW c \in ConfigMaps, ConfigMapEvent(c) PROVE LapInv'
  BY <1>4, SameLap DEF ConfigMapEvent
<1>5. CASE UNCHANGED vars
  BY <1>5, SameLap DEF vars
<1>6. QED
  BY <1>1, <1>2, <1>3, <1>4, <1>5, WatchLap, FetchLap, StepLap, FailureLap, BootLap
     DEF Next, Environment, Restart

LEMMA LapInvariant == Spec => []LapInv
  BY InitLap, NextLap, InductiveInvariant, PTL DEF Spec

(* What ComesCloser says of one monitor. *)
Closer(m) ==
    /\ Distance(m)' <= Distance(m)
    /\ Served(m) /\ ~Done(m) => Distance(m)' < Distance(m)

LEMMA StepsLeftAt ==
    /\ pc = "idle" => StepsLeft = 0
    /\ pc = "discover" => StepsLeft = 4
    /\ pc = "resolve" => StepsLeft = 3
    /\ pc = "connect" => StepsLeft = 2
    /\ pc = "status" => StepsLeft = 1
  BY DEF StepsLeft

LEMMA StepsLeftAfter ==
    /\ pc' = "idle" => StepsLeft' = 0
    /\ pc' = "discover" => StepsLeft' = 4
    /\ pc' = "resolve" => StepsLeft' = 3
    /\ pc' = "connect" => StepsLeft' = 2
    /\ pc' = "status" => StepsLeft' = 1
  BY DEF StepsLeft

LEMMA DistanceBound ==
    ASSUME WorkerOK, NEW m \in Monitors
    PROVE  Distance(m) \in 0..10 /\ StepsLeft \in 0..4
<1>1. StepsLeft \in 0..4
  BY StepsLeftAt DEF WorkerOK
<1>2. QED
  BY <1>1 DEF Distance

LEMMA DistanceBoundAfter ==
    ASSUME WorkerOK', NEW m \in Monitors
    PROVE  Distance(m)' \in 0..10 /\ StepsLeft' \in 0..4
<1>1. StepsLeft' \in 0..4
  BY StepsLeftAfter DEF WorkerOK
<1>2. PICK k \in 0..4 : k = StepsLeft'
  BY <1>1
<1>3. Distance(m)' \in {0, 5, 6, 10, k, 5 + k}
  BY <1>2 DEF Distance
<1>4. QED
  BY <1>1, <1>3

(* A step that m does not notice. *)
LEMMA Unnoticed ==
    ASSUME WorkerOK, NEW m \in Monitors,
           api'[m] = api[m], sockets'[m] = sockets[m],
           m \in inSync' <=> m \in inSync, m \in queued' <=> m \in queued,
           req' = m <=> req = m,
           req = m => UNCHANGED <<latest, pc>>
    PROVE  Closer(m)
<1>1. Done(m)' = Done(m)
  BY DEF Done, Exists
<1>2. Distance(m) \in 0..10
  BY DistanceBound
<1>3. req = m => StepsLeft' = StepsLeft
  BY DEF StepsLeft
<1>4. Distance(m)' = Distance(m)
  BY <1>1, <1>3 DEF Distance
<1>5. ~Served(m)
  BY DEF Served
<1>6. QED
  BY <1>2, <1>4, <1>5 DEF Closer

LEMMA WatchCloser ==
    ASSUME IInv, LapInv, NEW m \in Monitors, NEW n \in Monitors, Watch(n)
    PROVE  Closer(m)
<1> USE DEF Watch, workerVars, registryVars
<1>1. WorkerOK
  BY DEF IInv, TypeOK
<1>2. CASE n # m
  BY <1>1, <1>2, Unnoticed
<1>3. CASE n = m
  <2>1. Done(m)' = Done(m) /\ StepsLeft' = StepsLeft
    BY DEF Done, Exists, StepsLeft
  <2>2. m \notin inSync /\ m \in inSync' /\ m \in queued'
    BY <1>3
  <2>3. req = m => ~latest
    BY <2>2 DEF LapInv
  <2>4. StepsLeft \in 0..4
    BY <1>1, DistanceBound
  <2>5. CASE Done(m)
    BY <2>1, <2>5 DEF Closer, Distance
  <2>6. CASE ~Done(m)
    <3>1. Distance(m) = 10
      BY <2>2, <2>6 DEF Distance
    <3>2. Distance(m)' \in 5..9
      BY <2>1, <2>2, <2>3, <2>4, <2>6 DEF Distance
    <3>3. QED
      BY <3>1, <3>2 DEF Closer
  <2>7. QED
    BY <2>5, <2>6
<1>4. QED
  BY <1>2, <1>3

(* Keys are added to the queue. *)
LEMMA QueueGrowsCloser ==
    ASSUME WorkerOK, NEW m \in Monitors, queued \subseteq queued',
           UNCHANGED <<api, inSync, req, latest, pc, sockets>>
    PROVE  Closer(m)
<1>1. CASE m \in queued' <=> m \in queued
  BY <1>1, Unnoticed
<1>2. CASE m \in queued' /\ m \notin queued
  <2>1. Done(m)' = Done(m) /\ StepsLeft' = StepsLeft
    BY DEF Done, Exists, StepsLeft
  <2>2. CASE Done(m) \/ m \notin inSync \/ req = m
    <3>1. Distance(m)' = Distance(m)
      BY <2>1, <2>2 DEF Distance
    <3>2. Distance(m) \in 0..10
      BY DistanceBound
    <3>3. Served(m) => Done(m)
      BY <2>2 DEF Served
    <3>4. QED
      BY <3>1, <3>2, <3>3 DEF Closer
  <2>3. CASE ~(Done(m) \/ m \notin inSync \/ req = m)
    <3>1. Distance(m) = 6
      BY <1>2, <2>3 DEF Distance
    <3>2. Distance(m)' = 5
      BY <1>2, <2>1, <2>3 DEF Distance
    <3>3. QED
      BY <3>1, <3>2 DEF Closer
  <2>4. QED
    BY <2>2, <2>3
<1>3. QED
  BY <1>1, <1>2

LEMMA TimerFiresCloser ==
    ASSUME IInv, NEW m \in Monitors, NEW n \in Monitors, TimerFires(n)
    PROVE  Closer(m)
  BY QueueGrowsCloser DEF TimerFires, apiVars, workerVars, registryVars, IInv, TypeOK

(* The worker takes m only if nothing of an old Reconcile is left; what it finds
   in a cache that is behind cannot close the connection of a monitor that is
   done. *)
LEMMA FetchCloser ==
    ASSUME IInv, LapInv, NEW m \in Monitors, NEW n \in Monitors, Fetch(n), Healthy(m), WorkerOK'
    PROVE  Closer(m)
<1>1. WorkerOK /\ pc = "idle" /\ req = None /\ m # None /\ n # None
  BY NoneAssumption DEF Fetch, IInv, TypeOK, WorkerOK
<1>2. UNCHANGED <<api, inSync>> /\ queued' = queued \ {n} /\ n \in queued
  BY DEF Fetch, apiVars
<1>3. CASE n # m
  <2>1. sockets'[m] = sockets[m]
    BY <1>3 DEF Fetch, CleanupOpAMPClient, registryVars, IInv, TypeOK, RegistryOK
  <2>2. req' # m
    BY <1>1, <1>3 DEF Fetch, workerVars
  <2>3. QED
    BY <1>1, <1>2, <1>3, <2>1, <2>2, Unnoticed
<1>4. CASE n = m
  <2>1. CASE Done(m)
    <3>1. cache[m] # None
      BY <2>1 DEF LapInv, Done
    <3>2. Done(m)'
      BY <1>2, <1>4, <2>1, <3>1 DEF Fetch, registryVars, Done, Exists
    <3>3. QED
      BY <2>1, <3>2 DEF Closer, Distance
  <2>2. CASE ~Done(m) /\ m \notin inSync
    <3>1. Distance(m) = 10 /\ ~Served(m)
      BY <1>2, <2>2 DEF Distance, Served
    <3>2. Distance(m)' \in 0..10
      BY DistanceBoundAfter
    <3>3. QED
      BY <3>1, <3>2 DEF Closer
  <2>3. CASE ~Done(m) /\ m \in inSync
    <3>1. Distance(m) = 5
      BY <1>1, <1>2, <1>4, <2>3 DEF Distance
    <3>2. cache[m] # None
      BY <2>3 DEF IInv, CacheFresh, Healthy, Exists
    <3>3. req' = m /\ latest' /\ pc' = "discover" /\ m \in inSync'
      BY <1>2, <1>4, <2>3, <3>2 DEF Fetch
    <3>4. Distance(m)' \in {0, 4}
      BY <3>3, StepsLeftAfter DEF Distance
    <3>5. QED
      BY <3>1, <3>4 DEF Closer
  <2>4. QED
    BY <2>1, <2>2, <2>3
<1>5. QED
  BY <1>3, <1>4

(* The Reconcile of m goes on to its next step. *)
LEMMA ContinueCloser ==
    ASSUME IInv, LapInv, WorkerOK', NEW m \in Monitors, req = m, req' = req,
           UNCHANGED <<api, inSync, queued, latest>>,
           sockets'[m] = 1 \/ sockets'[m] = sockets[m],
           NEW s \in 0..4, NEW t \in 0..4, s = StepsLeft, t = StepsLeft', t < s
    PROVE  Closer(m)
<1>1. Done(m) => Done(m)'
  BY DEF Done, Exists
<1>2. CASE Done(m)
  BY <1>1, <1>2 DEF Closer, Distance
<1>3. CASE ~Done(m) /\ m \notin inSync
  <2>1. Distance(m) = 10 /\ ~Served(m)
    BY <1>3 DEF Distance, Served
  <2>2. Distance(m)' \in 0..10
    BY DistanceBoundAfter
  <2>3. QED
    BY <2>1, <2>2 DEF Closer
<1>4. CASE ~Done(m) /\ m \in inSync
  <2>1. Distance(m) = IF latest THEN s ELSE 5 + s
    BY <1>4 DEF Distance
  <2>2. Distance(m)' \in {0, IF latest THEN t ELSE 5 + t}
    BY <1>4 DEF Distance
  <2>3. QED
    BY <2>1, <2>2 DEF Closer
<1>5. QED
  BY <1>2, <1>3, <1>4

(* A Reconcile of m that works on an old copy returns: m is queued again. *)
LEMMA ReturnCloser ==
    ASSUME IInv, LapInv, WorkerOK', NEW m \in Monitors, req = m, ~latest, Return,
           UNCHANGED <<api, inSync, queued, sockets>>
    PROVE  Closer(m)
<1>1. Done(m)' = Done(m)
  BY DEF Done, Exists
<1>2. req' = None /\ m # None
  BY NoneAssumption DEF Return
<1>3. CASE Done(m)
  BY <1>1, <1>3 DEF Closer, Distance
<1>4. CASE ~Done(m) /\ m \notin inSync
  <2>1. Distance(m) = 10 /\ ~Served(m)
    BY <1>4 DEF Distance, Served
  <2>2. Distance(m)' = 10
    BY <1>1, <1>4 DEF Distance
  <2>3. QED
    BY <2>1, <2>2 DEF Closer
<1>5. CASE ~Done(m) /\ m \in inSync
  <2>1. m \in queued /\ pc # "idle"
    BY <1>2, <1>5 DEF LapInv, IInv, TypeOK, WorkerOK
  <2>2. PICK s \in 1..4 : s = StepsLeft
    BY <2>1, StepsLeftAt DEF IInv, TypeOK, WorkerOK
  <2>3. Distance(m) = 5 + s
    BY <1>5, <2>2 DEF Distance
  <2>4. Distance(m)' = 5
    BY <1>1, <1>2, <1>5, <2>1 DEF Distance
  <2>5. QED
    BY <2>3, <2>4 DEF Closer
<1>6. QED
  BY <1>3, <1>4, <1>5

(* A step of the worker for another monitor. *)
LEMMA OtherStepCloser ==
    ASSUME IInv, NEW m \in Monitors, req # m, Step
    PROVE  Closer(m)
<1> USE DEF Continue, Return, ReturnAndRequeue, apiVars, queueVars, registryVars
<1>1. WorkerOK /\ m # None
  BY NoneAssumption DEF IInv, TypeOK
<1>2. CASE DiscoverWorkload
  BY <1>1, <1>2, Unnoticed DEF DiscoverWorkload
<1>3. CASE DiscoverConfigMap
  BY <1>1, <1>3, Unnoticed DEF DiscoverConfigMap
<1>4. CASE EnsureOpAMPConnection
  BY <1>1, <1>4, Unnoticed DEF EnsureOpAMPConnection, IInv, TypeOK, RegistryOK
<1>5. CASE UpdateStatus
  BY <1>1, <1>5, Unnoticed DEF UpdateStatus, IInv, TypeOK, ResourcesOK
<1>6. QED
  BY <1>2, <1>3, <1>4, <1>5 DEF Step

(* The steps of m's own Reconcile: one on the latest copy goes on to the end,
   and its write makes m done. *)
LEMMA OwnStepCloser ==
    ASSUME IInv, LapInv, WorkerOK', NEW m \in Monitors, req = m, Step, Healthy(m)
    PROVE  Closer(m)
<1> USE DEF apiVars, queueVars, registryVars, ReturnAndRequeue
<1>1. latest => monitor.spec.configMap \in configMaps
  BY DEF IInv, CopyFresh, Healthy
<1>2. CASE DiscoverWorkload
  <2>1. pc' = "resolve" /\ UNCHANGED <<api, inSync, queued, latest, req, sockets>>
    BY <1>2 DEF DiscoverWorkload, Healthy, Continue
  <2>2. StepsLeft = 4 /\ StepsLeft' = 3
    BY <1>2, <2>1, StepsLeftAt, StepsLeftAfter DEF DiscoverWorkload
  <2>3. QED
    BY <2>1, <2>2, ContinueCloser
<1>3. CASE DiscoverConfigMap
  <2>1. CASE pc' = "connect" /\ UNCHANGED <<api, inSync, queued, latest, req, sockets>>
    <3>1. StepsLeft = 3 /\ StepsLeft' = 2
      BY <1>3, <2>1, StepsLeftAt, StepsLeftAfter DEF DiscoverConfigMap
    <3>2. QED
      BY <2>1, <3>1, ContinueCloser
  <2>2. CASE ~latest /\ Return /\ UNCHANGED <<api, inSync, queued, sockets>>
    BY <2>2, ReturnCloser
  <2>3. QED
    BY <1>1, <1>3, <2>1, <2>2 DEF DiscoverConfigMap, Continue
<1>4. CASE EnsureOpAMPConnection
  <2>1. pc' = "status" /\ UNCHANGED <<api, inSync, queued, latest, req>>
    BY <1>4 DEF EnsureOpAMPConnection, Healthy, Continue
  <2>2. sockets'[m] = 1 \/ sockets'[m] = sockets[m]
    BY <1>4 DEF EnsureOpAMPConnection, Connected, IInv, OneClientPerMonitor, TypeOK, RegistryOK, Healthy
  <2>3. StepsLeft = 2 /\ StepsLeft' = 1
    BY <1>4, <2>1, StepsLeftAt, StepsLeftAfter DEF EnsureOpAMPConnection
  <2>4. QED
    BY <2>1, <2>2, <2>3, ContinueCloser
<1>5. CASE UpdateStatus
  <2>1. CASE ~latest
    BY <1>5, <2>1, ReturnCloser DEF UpdateStatus, Accepted
  <2>2. CASE latest
    <3>1. Exists(m) /\ api[m] \in CollectorMonitor /\ monitor \in CollectorMonitor
      BY <2>2, NoneAssumption DEF IInv, CopyFresh, TypeOK, ResourcesOK, WorkerOK, Exists
    <3>2. ActiveStatus.ref = api[m].spec.configMap /\ ActiveStatus.phase = "Active"
      <4>1. ActiveStatus.ref = monitor.status.ref /\ monitor.status.ref = monitor.spec.configMap
        BY <1>5, <3>1, ActiveStatusType, NoneAssumption
           DEF IInv, TypeOK, RefResolved, UpdateStatus, WorkerOK
      <4>2. monitor.spec = api[m].spec
        BY <2>2 DEF IInv, CopyFresh
      <4>3. monitor.status \in MonitorStatus
        BY <3>1 DEF CollectorMonitor
      <4>4. QED
        BY <4>1, <4>2, <4>3 DEF ActiveStatus, MonitorStatus
    <3>3. api'[m].status = ActiveStatus /\ api'[m].spec = api[m].spec /\ api'[m] # None
      <4>1. CASE api' = [api EXCEPT ![m].status = ActiveStatus]
        <5>1. api'[m] = [api[m] EXCEPT !.status = ActiveStatus]
          BY <4>1 DEF IInv, TypeOK, ResourcesOK
        <5>2. ActiveStatus \in MonitorStatus
          BY <3>1, ActiveStatusType, NoneAssumption DEF IInv, TypeOK
        <5>3. api'[m] \in CollectorMonitor
          BY <3>1, <5>1, <5>2 DEF CollectorMonitor
        <5>4. QED
          BY <3>1, <5>1, <5>3, NoneAssumption DEF CollectorMonitor
      <4>2. CASE api[m].status = ActiveStatus /\ UNCHANGED api
        BY <3>1, <4>2 DEF Exists
      <4>3. QED
        BY <1>5, <2>2, <4>1, <4>2 DEF UpdateStatus, Accepted
    <3>4. sockets'[m] = 1
      BY <1>5 DEF UpdateStatus, LapInv, IInv, OneClientPerMonitor
    <3>5. Done(m)'
      BY <3>2, <3>3, <3>4 DEF Done, Exists
    <3>6. Distance(m)' = 0
      BY <3>5 DEF Distance
    <3>7. m \in inSync /\ StepsLeft = 1
      BY <1>5, <2>2, StepsLeftAt DEF LapInv, UpdateStatus
    <3>8. Distance(m) = IF Done(m) THEN 0 ELSE 1
      BY <2>2, <3>7 DEF Distance
    <3>9. QED
      BY <3>6, <3>8 DEF Closer
  <2>3. QED
    BY <2>1, <2>2
<1>6. QED
  BY <1>2, <1>3, <1>4, <1>5 DEF Step

LEMMA NextCloser ==
    ASSUME IInv, LapInv, WorkerOK', [Next]_vars, NEW m \in Monitors, Healthy(m), UNCHANGED faults
    PROVE  Closer(m)
<1>1. faults \in Nat /\ WorkerOK
  BY MaxFaultsAssumption DEF IInv, TypeOK, ClusterOK
<1>2. ~Spend
  BY <1>1 DEF Spend
<1>3. CASE UNCHANGED vars
  <2>1. UNCHANGED <<api, sockets, inSync, queued, req, latest, pc>>
    BY <1>3 DEF vars, apiVars, registryVars, queueVars, workerVars
  <2>2. QED
    BY <1>1, <2>1, QueueGrowsCloser
<1>4. CASE Step
  BY <1>4, OtherStepCloser, OwnStepCloser
<1>5. ASSUME NEW n \in Monitors, Watch(n) \/ TimerFires(n) \/ Fetch(n)
      PROVE  Closer(m)
  BY <1>5, WatchCloser, TimerFiresCloser, FetchCloser
<1>6. QED
  BY <1>2, <1>3, <1>4, <1>5
     DEF Next, Environment, Failure, Apply, Delete, ToggleWorkload, ToggleSecret,
         ConfigMapEvent, FetchFails, StartFails, UpdateFails, Restart

(* While m is healthy and nothing fails, every step that m waits for brings it
   closer to being connected with the right status, and no step takes it away:
   the safety core of EventuallyActive, which adds only that those steps are
   taken. *)
THEOREM HealthyComesCloser == Spec => ComesCloser
<1>1. IInv /\ LapInv /\ WorkerOK' /\ [Next]_vars =>
          [\A m \in Monitors :
              Healthy(m) /\ UNCHANGED faults =>
                  /\ Distance(m)' <= Distance(m)
                  /\ Served(m) /\ ~Done(m) => Distance(m)' < Distance(m)]_vars
  BY NextCloser DEF Closer
<1>2. IInv => WorkerOK
  BY DEF IInv, TypeOK
<1>3. QED
  BY <1>1, <1>2, InductiveInvariant, LapInvariant, PTL DEF Spec, ComesCloser
-----------------------------------------------------------------------------
(* A settled status stays.  What Reconcile has not touched in a copy that is the
   latest version is what the API holds. *)
CopyStatus ==
    latest => /\ monitor.status.phase = api[req].status.phase
              /\ monitor.status.conds = api[req].status.conds

LEMMA InitCopy == Init => CopyStatus
  BY DEF Init, CopyStatus

LEMMA SameCopy ==
    ASSUME CopyStatus, UNCHANGED <<api, req, latest, monitor>>
    PROVE  CopyStatus'
  BY DEF CopyStatus

LEMMA WriteCopy ==
    ASSUME IInv, CopyStatus, NEW m \in Monitors, NEW object, Write(m, object)
    PROVE  CopyStatus'
<1>1. latest' => latest /\ req # m /\ req' = req /\ monitor' = monitor
  BY DEF Write
<1>2. latest' => api'[req] = api[req]
  BY <1>1 DEF Write, IInv, TypeOK, ResourcesOK, WorkerOK, CopyFresh
<1>3. QED
  BY <1>1, <1>2 DEF CopyStatus

LEMMA FetchCopy == ASSUME IInv, CopyStatus, NEW m \in Monitors, Fetch(m) PROVE CopyStatus'
<1>1. CASE cache[m] # None
  BY <1>1 DEF Fetch, CopyStatus, apiVars, IInv, CacheFresh
<1>2. CASE cache[m] = None
  BY <1>2, SameCopy DEF Fetch, workerVars, apiVars
<1>3. QED
  BY <1>1, <1>2

LEMMA ReturnCopy == ASSUME Return PROVE CopyStatus'
  BY DEF Return, CopyStatus

(* discoverConfigMap changes the copy's ref only. *)
LEMMA ResolveCopy == ASSUME IInv, CopyStatus, DiscoverConfigMap PROVE CopyStatus'
<1>1. monitor \in CollectorMonitor
  BY NoneAssumption DEF IInv, TypeOK, WorkerOK, DiscoverConfigMap
<1>2. CASE monitor' = [monitor EXCEPT !.status.ref = monitor.spec.configMap]
           /\ UNCHANGED <<api, req, latest>>
  <2>1. /\ monitor'.status.phase = monitor.status.phase
        /\ monitor'.status.conds = monitor.status.conds
    BY <1>1, <1>2 DEF CollectorMonitor, MonitorStatus
  <2>2. QED
    BY <1>2, <2>1 DEF CopyStatus
<1>3. QED
  BY <1>2, ReturnCopy DEF DiscoverConfigMap, ReturnAndRequeue, Continue, apiVars

LEMMA StepCopy == ASSUME IInv, CopyStatus, Step PROVE CopyStatus'
<1> USE DEF ReturnAndRequeue, Continue, apiVars
<1>1. CASE DiscoverWorkload
  BY <1>1, SameCopy, ReturnCopy DEF DiscoverWorkload
<1>2. CASE EnsureOpAMPConnection
  BY <1>2, SameCopy, ReturnCopy DEF EnsureOpAMPConnection
<1>3. CASE UpdateStatus
  BY <1>3, ReturnCopy DEF UpdateStatus
<1>4. QED
  BY <1>1, <1>2, <1>3, ResolveCopy DEF Step

LEMMA FailureCopy == ASSUME CopyStatus, Failure PROVE CopyStatus'
<1>1. ASSUME NEW m \in Monitors, FetchFails(m) PROVE CopyStatus'
  BY <1>1, SameCopy DEF FetchFails, workerVars, apiVars
<1>2. CASE StartFails \/ UpdateFails
  BY <1>2, ReturnCopy DEF StartFails, UpdateFails, ReturnAndRequeue
<1>3. QED
  BY <1>1, <1>2 DEF Failure

LEMMA NextCopy == IInv /\ CopyStatus /\ [Next]_vars => CopyStatus'
<1> SUFFICES ASSUME IInv, CopyStatus, [Next]_vars PROVE CopyStatus'
  OBVIOUS
<1>1. ASSUME NEW m \in Monitors, (\E s \in MonitorSpec : Apply(m, s)) \/ Delete(m)
      PROVE  CopyStatus'
  BY <1>1, WriteCopy DEF Apply, Delete
<1>2. CASE UNCHANGED <<api, req, latest, monitor>>
  BY <1>2, SameCopy
<1>3. CASE Restart
  BY <1>3 DEF Restart, Boot, CopyStatus
<1>4. ASSUME NEW m \in Monitors, ToggleWorkload(m) \/ ToggleSecret(m) \/ Watch(m) \/ TimerFires(m)
      PROVE  CopyStatus'
  BY <1>2, <1>4 DEF ToggleWorkload, ToggleSecret, Watch, TimerFires, apiVars, workerVars
<1>5. ASSUME NEW c \in ConfigMaps, ConfigMapEvent(c) PROVE CopyStatus'
  BY <1>2, <1>5 DEF ConfigMapEvent, apiVars, workerVars
<1>6. CASE UNCHANGED vars
  BY <1>2, <1>6 DEF vars, apiVars, workerVars
<1>7. QED
  BY <1>1, <1>3, <1>4, <1>5, <1>6, FetchCopy, StepCopy, FailureCopy DEF Next, Environment

LEMMA CopyInvariant == Spec => []CopyStatus
  BY InitCopy, NextCopy, InductiveInvariant, PTL DEF Spec

(* An Active condition that is there is left as it is, time stamp and all. *)
LEMMA SetConditionSettles ==
    ASSUME NEW conds, \E c \in conds : c.type = "Active" /\ c.status = TRUE
    PROVE  SetCondition(conds, "Active", TRUE) = conds
  BY DEF SetCondition

(* What SettledStays says of a step. *)
Stays ==
    \A m \in Monitors :
        Settled(m) /\ Exists(m)' /\ api'[m].spec = api[m].spec => api'[m] = api[m]

(* Reconcile computes for a settled monitor the status it has. *)
LEMMA SettledStatus ==
    ASSUME IInv, CopyStatus, pc = "status", latest, Settled(req)
    PROVE  ActiveStatus = api[req].status
<1>1. req \in Monitors /\ monitor \in CollectorMonitor /\ api[req] \in CollectorMonitor
  BY NoneAssumption DEF IInv, TypeOK, WorkerOK, ResourcesOK, CopyFresh, Exists
<1>2. monitor.status.ref = api[req].status.ref
  BY DEF IInv, RefResolved, CopyFresh, Settled
<1>3. api[req].status \in MonitorStatus /\ monitor.status \in MonitorStatus
  BY <1>1 DEF CollectorMonitor
<1>4. api[req].status.phase = "Active" /\ monitor.status.conds = api[req].status.conds
  BY DEF CopyStatus, Settled
<1>5. \E c \in monitor.status.conds : c.type = "Active" /\ c.status = TRUE
  <2>1. PICK c \in api[req].status.conds : c.type = "Active" /\ c.status
    BY DEF Settled
  <2>2. c \in Condition
    BY <1>3, <2>1 DEF MonitorStatus
  <2>3. c.status = TRUE
    BY <2>1, <2>2 DEF Condition
  <2>4. QED
    BY <1>4, <2>1, <2>3
<1>6. SetCondition(monitor.status.conds, "Active", TRUE) = monitor.status.conds
  BY <1>5, SetConditionSettles
<1>7. ActiveStatus = [monitor.status EXCEPT !.phase = "Active", !.conds = monitor.status.conds]
  BY <1>6 DEF ActiveStatus
<1>8. QED
  BY <1>2, <1>3, <1>4, <1>7 DEF MonitorStatus

LEMMA WritesStay == ASSUME IInv, CopyStatus, Writes PROVE Stays
<1> USE DEF Stays
<1>1. api \in [Monitors -> CollectorMonitor \cup {None}]
  BY DEF IInv, TypeOK, ResourcesOK
<1>2. ASSUME NEW m \in Monitors, NEW s \in MonitorSpec, Apply(m, s) PROVE Stays
  <2>1. CASE Exists(m)
    <3>1. api[m] \in CollectorMonitor /\ api[m].spec # s
      BY <1>1, <1>2, <2>1 DEF Apply, Exists
    <3>2. api' = [api EXCEPT ![m] = [api[m] EXCEPT !.spec = s]]
      BY <1>2, <2>1 DEF Apply, Write
    <3>3. api'[m].spec # api[m].spec /\ \A n \in Monitors \ {m} : api'[n] = api[n]
      BY <1>1, <3>1, <3>2 DEF CollectorMonitor
    <3>4. QED
      BY <3>3
  <2>2. CASE ~Exists(m)
    BY <1>1, <1>2, <2>2 DEF Apply, Write, Exists, Settled
  <2>3. QED
    BY <2>1, <2>2
<1>3. ASSUME NEW m \in Monitors, Delete(m) PROVE Stays
  BY <1>1, <1>3 DEF Delete, Write, Exists
<1>4. CASE UpdateStatus
  <2>1. CASE UNCHANGED api
    BY <2>1
  <2>2. CASE Accepted /\ api[req].status # ActiveStatus /\ api' = [api EXCEPT ![req].status = ActiveStatus]
    <3>1. ~Settled(req)
      BY <1>4, <2>2, SettledStatus DEF Accepted, UpdateStatus
    <3>2. \A n \in Monitors \ {req} : api'[n] = api[n]
      BY <1>1, <2>2
    <3>3. QED
      BY <3>1, <3>2
  <2>3. QED
    BY <1>4, <2>1, <2>2 DEF UpdateStatus
<1>5. QED
  BY <1>2, <1>3, <1>4 DEF Writes

(* The operator's own write of a status does not make it write that status
   again: the safety core of StatusSettles. *)
THEOREM SettledStatusStays == Spec => SettledStays
<1>1. IInv /\ CopyStatus /\ [Next]_vars => [Stays]_api
  BY WritesStay, OnlyWrites
<1>2. QED
  BY <1>1, InductiveInvariant, CopyInvariant, PTL DEF Spec, SettledStays, Stays
-----------------------------------------------------------------------------
(* Deleted monitors come closer to being closed. *)

(* What DeletedComesCloser says of one monitor. *)
CloserToClosed(m) ==
    /\ ClosingDistance(m)' <= ClosingDistance(m)
    /\ Closing(m) /\ ClosingDistance(m) > 0 => ClosingDistance(m)' < ClosingDistance(m)

LEMMA ClosingBound ==
    ASSUME WorkerOK, NEW m \in Monitors
    PROVE  ClosingDistance(m) \in 0..7
<1>1. StepsLeft \in 0..4
  BY DistanceBound
<1>2. QED
  BY <1>1 DEF ClosingDistance

LEMMA ClosingBoundAfter ==
    ASSUME WorkerOK', NEW m \in Monitors
    PROVE  ClosingDistance(m)' \in 0..7
<1>1. PICK k \in 0..4 : k = StepsLeft'
  BY DistanceBoundAfter
<1>2. ClosingDistance(m)' \in {0, 1, 2, 7, 2 + k}
  BY <1>1 DEF ClosingDistance
<1>3. QED
  BY <1>2

(* As long as the cache is behind nothing can be further away. *)
LEMMA BehindCloser ==
    ASSUME WorkerOK', NEW m \in Monitors, m \notin inSync, m \notin inSync'
    PROVE  CloserToClosed(m)
<1>1. ClosingDistance(m) = 7 /\ ~Closing(m)
  BY DEF ClosingDistance, Closing
<1>2. ClosingDistance(m)' \in 0..7
  BY ClosingBoundAfter
<1>3. QED
  BY <1>1, <1>2 DEF CloserToClosed

(* The watch event that tells of the deletion. *)
LEMMA WatchCloses ==
    ASSUME WorkerOK', NEW m \in Monitors, m \notin inSync, m \in inSync'
    PROVE  CloserToClosed(m)
<1>1. ClosingDistance(m) = 7
  BY DEF ClosingDistance
<1>2. PICK k \in 0..4 : k = StepsLeft'
  BY DistanceBoundAfter
<1>3. ClosingDistance(m)' \in {0, 1, 2, 2 + k}
  BY <1>2 DEF ClosingDistance
<1>4. QED
  BY <1>1, <1>3 DEF CloserToClosed

(* A step that can at most add m to the queue. *)
LEMMA QueueGrowsCloses ==
    ASSUME WorkerOK, WorkerOK', NEW m \in Monitors, sockets'[m] = sockets[m],
           m \in inSync' <=> m \in inSync, m \in queued => m \in queued',
           req' = m <=> req = m, req = m => UNCHANGED pc
    PROVE  CloserToClosed(m)
<1>1. CASE m \notin inSync
  BY <1>1, BehindCloser
<1>2. CASE m \in inSync /\ req = m
  <2>1. StepsLeft' = StepsLeft
    BY <1>2 DEF StepsLeft
  <2>2. ClosingDistance(m)' = ClosingDistance(m) /\ ~Closing(m)
    BY <1>2, <2>1 DEF ClosingDistance, Closing
  <2>3. ClosingDistance(m) \in 0..7
    BY ClosingBound
  <2>4. QED
    BY <2>2, <2>3 DEF CloserToClosed
<1>3. CASE m \in inSync /\ req # m
  <2>1. ClosingDistance(m) = IF sockets[m] = 0 THEN 0 ELSE IF m \in queued THEN 1 ELSE 2
    BY <1>3 DEF ClosingDistance
  <2>2. ClosingDistance(m)' = IF sockets[m] = 0 THEN 0 ELSE IF m \in queued' THEN 1 ELSE 2
    BY <1>3 DEF ClosingDistance
  <2>3. Closing(m) => IF m \in queued THEN m \notin queued' ELSE m \in queued'
    BY <1>3 DEF Closing
  <2>4. QED
    BY <2>1, <2>2, <2>3 DEF CloserToClosed
<1>4. QED
  BY <1>1, <1>2, <1>3

LEMMA WatchOrTimerCloses ==
    ASSUME WorkerOK, WorkerOK', NEW m \in Monitors, NEW n \in Monitors, Watch(n) \/ TimerFires(n)
    PROVE  CloserToClosed(m)
<1> USE DEF apiVars, workerVars, registryVars
<1>1. CASE TimerFires(n)
  BY <1>1, QueueGrowsCloses DEF TimerFires
<1>2. CASE Watch(n) /\ m \notin inSync /\ m \in inSync'
  BY <1>2, WatchCloses
<1>3. CASE Watch(n) /\ ~(m \notin inSync /\ m \in inSync')
  BY <1>3, QueueGrowsCloses DEF Watch
<1>4. QED
  BY <1>1, <1>2, <1>3

(* What the worker finds of m in a cache that is up to date is NotFound. *)
LEMMA FetchCloses ==
    ASSUME IInv, WorkerOK', NEW m \in Monitors, ~Exists(m), NEW n \in Monitors, Fetch(n)
    PROVE  CloserToClosed(m)
<1>1. WorkerOK /\ req = None /\ m # None
  BY NoneAssumption DEF Fetch, IInv, TypeOK, WorkerOK
<1>2. inSync' = inSync /\ queued' = queued \ {n} /\ n \in queued
  BY DEF Fetch, apiVars
<1>3. CASE m \notin inSync
  BY <1>2, <1>3, BehindCloser
<1>4. CASE m \in inSync /\ n # m
  <2>1. sockets'[m] = sockets[m]
    BY <1>4 DEF Fetch, CleanupOpAMPClient, registryVars, IInv, TypeOK, RegistryOK
  <2>2. req' # m
    BY <1>1, <1>4 DEF Fetch, workerVars
  <2>3. QED
    BY <1>1, <1>2, <1>4, <2>1, <2>2, QueueGrowsCloses
<1>5. CASE m \in inSync /\ n = m
  <2>1. cache[m] = None
    BY <1>5 DEF IInv, CacheFresh, Exists
  <2>2. sockets[m] \in {0, 1} /\ sockets[m] = IF clients[m] # None THEN 1 ELSE 0
    BY DEF IInv, OneClientPerMonitor
  <2>3. sockets'[m] = 0
    BY <1>5, <2>1, <2>2 DEF Fetch, CleanupOpAMPClient, IInv, TypeOK, RegistryOK
  <2>4. req' # m
    BY <1>1, <1>5, <2>1 DEF Fetch, workerVars
  <2>5. ClosingDistance(m)' = 0
    BY <1>2, <1>5, <2>3, <2>4 DEF ClosingDistance
  <2>6. ClosingDistance(m) \in 0..7
    BY <1>1, ClosingBound
  <2>7. QED
    BY <2>5, <2>6 DEF CloserToClosed
<1>6. QED
  BY <1>3, <1>4, <1>5

(* The Reconcile of a deleted m works on an old copy.  It may still connect m, but
   it never writes, and m is queued for the Reconcile that closes it. *)
LEMMA OwnStepCloses ==
    ASSUME IInv, LapInv, WorkerOK', NEW m \in Monitors, ~Exists(m), req = m, Step
    PROVE  CloserToClosed(m)
<1> USE DEF apiVars, queueVars, ReturnAndRequeue
<1>1. ~latest
  BY DEF IInv, CopyFresh
<1>2. UNCHANGED <<inSync, queued>>
  BY <1>1 DEF Step, DiscoverWorkload, DiscoverConfigMap, EnsureOpAMPConnection, UpdateStatus, Accepted
<1>3. CASE m \notin inSync
  BY <1>2, <1>3, BehindCloser
<1>4. CASE m \in inSync
  <2>1. m \in queued /\ m # None
    BY <1>1, <1>4, NoneAssumption DEF LapInv
  <2>2. pc # "idle"
    BY DEF Step, DiscoverWorkload, DiscoverConfigMap, EnsureOpAMPConnection, UpdateStatus
  <2>3. PICK s \in 1..4 : s = StepsLeft
    BY <2>2, StepsLeftAt DEF IInv, TypeOK, WorkerOK
  <2>4. PICK t \in 0..4 : t = StepsLeft'
    BY DistanceBoundAfter
  <2>5. ClosingDistance(m) = 2 + s
    BY <1>4, <2>3 DEF ClosingDistance
  <2>6. CASE req' = m
    <3>1. ClosingDistance(m)' = 2 + t
      BY <1>2, <1>4, <2>4, <2>6 DEF ClosingDistance
    <3>2. \/ pc = "discover" /\ pc' = "resolve"
          \/ pc = "resolve" /\ pc' = "connect"
          \/ pc = "connect" /\ pc' = "status"
      BY <2>1, <2>6 DEF Step, DiscoverWorkload, DiscoverConfigMap, EnsureOpAMPConnection,
                        UpdateStatus, Continue, Return
    <3>3. t < s
      BY <2>3, <2>4, <3>2, StepsLeftAt, StepsLeftAfter
    <3>4. QED
      BY <2>5, <3>1, <3>3 DEF CloserToClosed
  <2>7. CASE req' # m
    <3>1. ClosingDistance(m)' \in {0, 1}
      BY <1>2, <1>4, <2>1, <2>7 DEF ClosingDistance
    <3>2. QED
      BY <2>5, <3>1 DEF CloserToClosed
  <2>8. QED
    BY <2>6, <2>7
<1>5. QED
  BY <1>3, <1>4

(* A step of the worker for another monitor. *)
LEMMA OtherStepCloses ==
    ASSUME IInv, WorkerOK', NEW m \in Monitors, req # m, Step
    PROVE  CloserToClosed(m)
<1> USE DEF Continue, Return, ReturnAndRequeue, apiVars, queueVars, registryVars
<1>1. WorkerOK /\ m # None
  BY NoneAssumption DEF IInv, TypeOK
<1>2. CASE DiscoverWorkload
  BY <1>1, <1>2, QueueGrowsCloses DEF DiscoverWorkload
<1>3. CASE DiscoverConfigMap
  BY <1>1, <1>3, QueueGrowsCloses DEF DiscoverConfigMap
<1>4. CASE EnsureOpAMPConnection
  BY <1>1, <1>4, QueueGrowsCloses DEF EnsureOpAMPConnection, IInv, TypeOK, RegistryOK
<1>5. CASE UpdateStatus
  BY <1>1, <1>5, QueueGrowsCloses DEF UpdateStatus
<1>6. QED
  BY <1>2, <1>3, <1>4, <1>5 DEF Step

LEMMA NextCloses ==
    ASSUME IInv, LapInv, WorkerOK', [Next]_vars, NEW m \in Monitors, ~Exists(m), UNCHANGED faults
    PROVE  CloserToClosed(m)
<1>1. faults \in Nat /\ WorkerOK
  BY MaxFaultsAssumption DEF IInv, TypeOK, ClusterOK
<1>2. ~Spend
  BY <1>1 DEF Spend
<1>3. CASE UNCHANGED vars
  <2>1. UNCHANGED <<sockets, inSync, queued, req, pc>>
    BY <1>3 DEF vars, apiVars, registryVars, queueVars, workerVars
  <2>2. QED
    BY <1>1, <2>1, QueueGrowsCloses
<1>4. CASE Step
  BY <1>4, OtherStepCloses, OwnStepCloses
<1>5. ASSUME NEW n \in Monitors, Watch(n) \/ TimerFires(n) \/ Fetch(n)
      PROVE  CloserToClosed(m)
  BY <1>1, <1>5, WatchOrTimerCloses, FetchCloses
<1>6. QED
  BY <1>2, <1>3, <1>4, <1>5
     DEF Next, Environment, Failure, Apply, Delete, ToggleWorkload, ToggleSecret,
         ConfigMapEvent, FetchFails, StartFails, UpdateFails, Restart

(* While a monitor stays deleted and nothing fails, every step its closing waits
   for brings that closer, and no step takes it away: the safety core of what
   ImplementsConnections promises of deleted monitors. *)
THEOREM DeletedIsClosedInSteps == Spec => DeletedComesCloser
<1>1. IInv /\ LapInv /\ WorkerOK' /\ [Next]_vars =>
          [\A m \in Monitors :
              ~Exists(m) /\ UNCHANGED faults =>
                  /\ ClosingDistance(m)' <= ClosingDistance(m)
                  /\ Closing(m) /\ ClosingDistance(m) > 0 =>
                         ClosingDistance(m)' < ClosingDistance(m)]_vars
  BY NextCloses DEF CloserToClosed
<1>2. IInv => WorkerOK
  BY DEF IInv, TypeOK
<1>3. QED
  BY <1>1, <1>2, InductiveInvariant, LapInvariant, PTL DEF Spec, DeletedComesCloser
=============================================================================
