--------------------------- MODULE OperatorProofs ---------------------------
(***************************************************************************)
(* Proofs about Operator, for any number of monitors, ConfigMaps, keys,    *)
(* workloads and commands and any budget: the invariants proved of the     *)
(* worker and of the callbacks on their own hold when they run side by     *)
(* side, and a callback is at work only for a client that is registered or *)
(* being stopped.                                                          *)
(***************************************************************************)
EXTENDS Operator, TLAPS

(* What the theorems of the two modules assume about their constants. *)
LEMMA ReconcilerAssumed ==
    /\ Modes \subseteq {"on", "off", "unset"}
    /\ MaxEdits \in Nat
    /\ None \notin Monitors \cup ConfigMaps \cup R!CollectorMonitor \cup R!Captured
  BY ModesAssumption, BoundsAssumption, SentinelAssumption

LEMMA EmergencyAssumed ==
    /\ CapturedBy \in [Client -> [emergency : {"on", "off", "unset"}, cm : ConfigMaps,
                                  key : Keys, workload : Workloads]]
    /\ Mounts \in [Workloads -> ConfigMaps]
    /\ CanPatch \in BOOLEAN
    /\ MaxCommands \in Nat /\ MaxMishaps \in Nat
    /\ None \notin E!Content \cup E!Data \cup Workloads
    /\ Git \notin E!Command
<1>1. CapturedBy \in [Client -> [emergency : {"on", "off", "unset"}, cm : ConfigMaps,
                                 key : Keys, workload : Workloads]]
  BY ModesAssumption, SelectorsAssumption DEF CapturedBy, Client
<1>2. QED
  BY <1>1, ModesAssumption, SelectorsAssumption, BoundsAssumption, SentinelAssumption
-----------------------------------------------------------------------------
(* The callbacks next to the worker. *)

(* A step of the operator that keeps Emergency's variables keeps all of them. *)
LEMMA EmergencyKept == ASSUME UNCHANGED emergencyVars PROVE UNCHANGED E!vars
  BY DEF emergencyVars, E!vars, E!cmVars, E!podVars, E!serverVars, E!handlerVars

(* Every step of the operator is a step of Emergency or none. *)
LEMMA EmergencyStepLemma == ASSUME [Next]_vars PROVE [E!Next]_(E!vars)
<1>1. ASSUME NEW m \in Monitors, Fetch(m) \/ WatchMonitor(m) \/ TimerFires(m)
      PROVE  UNCHANGED emergencyVars
  BY <1>1 DEF Fetch, WatchMonitor, TimerFires
<1>2. ASSUME NEW h \in Client, StopReturns(h) PROVE [E!Next]_(E!vars)
  BY <1>2, EmergencyKept DEF StopReturns, E!Next
<1>3. CASE Work \/ WorkFails \/ Around
  BY <1>3, EmergencyKept DEF Work, WorkFails, Around
<1>4. ASSUME NEW h \in Client, Callback(h) PROVE E!Next
  BY <1>4 DEF Callback, EmergencyStep, E!Next
<1>5. ASSUME NEW h \in Client, CallbackFails(h) \/ Message(h) PROVE E!Next
  BY <1>5 DEF CallbackFails, Message, E!Next
<1>6. ASSUME NEW h \in Client, FetchLogs(h) \/ SendPodLogs(h) PROVE UNCHANGED emergencyVars
  BY <1>6 DEF FetchLogs, SendPodLogs
<1>7. ASSUME NEW c \in ConfigMaps, WatchConfigMap(c) PROVE E!Next
  BY <1>7 DEF WatchConfigMap, E!Next, E!Cluster
<1>8. CASE Cluster
  BY <1>8 DEF Cluster, E!Next, E!Cluster
<1>9. CASE Restart
  BY <1>9 DEF Restart, E!Next
<1>10. CASE UNCHANGED vars
  BY <1>10, EmergencyKept DEF vars
<1>11. QED
  BY <1>1, <1>2, <1>3, <1>4, <1>5, <1>6, <1>7, <1>8, <1>9, <1>10, EmergencyKept
     DEF Next, AnyStep

LEMMA EmergencyInit == Init => E!Init
  BY DEF Init

(* The callbacks take the steps of module Emergency, so what is proved of Safe
   there holds here. *)
LEMMA EmergencySafe == Safe => E!Safe
<1>1. Init => E!Init
  BY EmergencyInit
<1>2. [Next]_vars => [E!Next]_(E!vars)
  BY EmergencyStepLemma
<1>3. QED
  BY <1>1, <1>2, PTL DEF Safe, E!Safe

LEMMA EmergencyInvariant == Safe => []E!IInv
  BY EmergencySafe, E!InductiveInvariant, EmergencyAssumed, PTL

(* In the operator as a whole an answer of success is true, and a client that
   captured emergencyMode.enabled = false writes nothing. *)
THEOREM AnswersAreTrue == Safe => [](E!AckedConfigReachesPods /\ E!ReadOnlyWhenOff)
<1>1. E!IInv => E!AckedConfigReachesPods /\ E!ReadOnlyWhenOff
  BY E!IInvSuffices, EmergencyAssumed
<1>2. QED
  BY <1>1, EmergencyInvariant, PTL

(* And an override is atomic, undoes nothing that others wrote, comes closer to an
   outcome and has one, although the worker stops and starts clients, and a panic of one
   callback ends the process with all of them. *)
THEOREM OverridesAreAtomic ==
    Safe => []E!OneOutcome /\ E!NoLostUpdate /\ E!CommandComesCloser /\ E!ImplementsOverrides
<1>1. E!Safe => []E!OneOutcome /\ E!NoLostUpdate /\ E!CommandComesCloser /\ E!ImplementsOverrides
  BY E!OneOutcomeAlways, E!OneKeyAlways, E!CommandAlwaysCloser, E!AtomicAlways, EmergencyAssumed
<1>2. QED
  BY <1>1, EmergencySafe
-----------------------------------------------------------------------------
(* The worker next to the callbacks. *)

(* What the callbacks and the cluster do is, for the worker, a change of the
   workloads and ConfigMaps it finds. *)
LEMMA OthersKeepWorker ==
    ASSUME R!IInv, queued \subseteq queued', queued' \subseteq Monitors,
           UNCHANGED <<api, cache, monitorsInSync, timers, step, req, monitor, latest,
                       clients, started, sockets, secrets, edits>>
    PROVE  R!IInv'
<1>1. R!ClusterOK'
  BY DEF R!IInv, R!TypeOK, R!ClusterOK
<1>2. UNCHANGED <<R!apiVars, timers, R!workerVars, R!registryVars>>
  BY DEF R!apiVars, R!workerVars, R!registryVars
<1>3. QED
  BY <1>1, <1>2, R!ClusterIInv, ReconcilerAssumed

LEMMA WorkerKept == ASSUME R!IInv, UNCHANGED reconcilerVars PROVE R!IInv'
<1>1. queued \subseteq Monitors
  BY DEF R!IInv, R!TypeOK, R!QueueOK
<1>2. QED
  BY <1>1, OthersKeepWorker DEF reconcilerVars

(* A process starts in a state that the invariant of the worker allows. *)
LEMMA ProcessStartsIInv == ASSUME R!IInv, ProcessStarts PROVE R!IInv'
<1>1. R!ClusterOK'
  BY DEF R!IInv, R!TypeOK, R!ClusterOK, ProcessStarts
<1>2. QED
  BY <1>1, R!BootIInv, ReconcilerAssumed DEF ProcessStarts

LEMMA ReconcilerStepLemma == ASSUME R!IInv, [Next]_vars PROVE R!IInv'
<1>1. ASSUME NEW m \in Monitors, Fetch(m) \/ WatchMonitor(m) \/ TimerFires(m) PROVE R!IInv'
  BY <1>1, R!FetchIInv, R!WatchIInv, R!TimerFiresIInv, ReconcilerAssumed
     DEF Fetch, WatchMonitor, TimerFires
<1>2. CASE Work
  BY <1>2, R!DiscoverWorkloadIInv, R!DiscoverConfigMapIInv, R!EnsureOpAMPConnectionIInv,
     R!UpdateStatusIInv, ReconcilerAssumed DEF Work, R!Step
<1>3. CASE WorkFails
  BY <1>3, R!FetchFailsIInv, R!FailureIInv, ReconcilerAssumed DEF WorkFails, R!Failure
<1>4. CASE Around
  BY <1>4, R!ApplyIInv, R!DeleteIInv, R!ToggleIInv, ReconcilerAssumed DEF Around
<1>5. ASSUME NEW h \in Client, Callback(h) PROVE R!IInv'
  BY <1>5, ProcessStartsIInv, WorkerKept DEF Callback, EmergencyStep
<1>6. ASSUME NEW h \in Client,
             CallbackFails(h) \/ FetchLogs(h) \/ SendPodLogs(h) \/ Message(h) \/ StopReturns(h)
      PROVE  R!IInv'
  BY <1>6, WorkerKept DEF CallbackFails, FetchLogs, SendPodLogs, Message, StopReturns
<1>7. ASSUME NEW c \in ConfigMaps, WatchConfigMap(c) PROVE R!IInv'
  <2>1. queued \subseteq queued' /\ queued' \subseteq Monitors
    BY <1>7 DEF WatchConfigMap, R!MapConfigMapToMonitors, R!IInv, R!TypeOK, R!QueueOK
  <2>2. QED
    BY <1>7, <2>1, OthersKeepWorker DEF WatchConfigMap
<1>8. CASE Cluster
  BY <1>8, WorkerKept DEF Cluster
<1>9. CASE Restart
  BY <1>9, ProcessStartsIInv DEF Restart
<1>10. CASE UNCHANGED vars
  BY <1>10, WorkerKept DEF vars
<1>11. QED
  BY <1>1, <1>2, <1>3, <1>4, <1>5, <1>6, <1>7, <1>8, <1>9, <1>10 DEF Next, AnyStep

LEMMA ReconcilerInvariant == Safe => []R!IInv
<1>1. Init => R!IInv
  BY R!InitIInv, ReconcilerAssumed DEF Init
<1>2. R!IInv /\ [Next]_vars => R!IInv'
  BY ReconcilerStepLemma
<1>3. QED
  BY <1>1, <1>2, PTL DEF Safe

(* In the operator as a whole, with panics that end the process and a worker that
   waits in Stop(), no connection leaks or is opened twice and no monitor is
   forgotten. *)
THEOREM WorkerIsSafe == Safe => [](R!OneClientPerMonitor /\ R!NeverForgotten)
<1>1. R!IInv => R!OneClientPerMonitor /\ R!NeverForgotten
  BY DEF R!IInv
<1>2. QED
  BY <1>1, ReconcilerInvariant, PTL

(* Only Reconcile and kubectl write CollectorMonitors. *)
LEMMA OnlyWrites == ASSUME [Next]_vars PROVE R!Writes \/ UNCHANGED api
<1>1. ASSUME NEW m \in Monitors, Fetch(m) \/ WatchMonitor(m) \/ TimerFires(m)
      PROVE  UNCHANGED api
  BY <1>1 DEF Fetch, WatchMonitor, TimerFires, R!Fetch, R!Watch, R!TimerFires, R!apiVars
<1>2. CASE Work
  BY <1>2 DEF Work, R!Step, R!DiscoverWorkload, R!DiscoverConfigMap, R!EnsureOpAMPConnection,
     R!Writes, R!apiVars
<1>3. CASE WorkFails
  BY <1>3 DEF WorkFails, R!Failure, R!FetchFails, R!StartFails, R!UpdateFails, R!apiVars
<1>4. CASE Around
  BY <1>4 DEF Around, R!Writes, R!ToggleSecret, R!apiVars
<1>5. ASSUME NEW h \in Client, Callback(h) PROVE UNCHANGED api
  BY <1>5 DEF Callback, EmergencyStep, ProcessStarts, R!Boot, reconcilerVars
<1>6. ASSUME NEW h \in Client,
             CallbackFails(h) \/ FetchLogs(h) \/ SendPodLogs(h) \/ Message(h) \/ StopReturns(h)
      PROVE  UNCHANGED api
  BY <1>6 DEF CallbackFails, FetchLogs, SendPodLogs, Message, StopReturns, reconcilerVars
<1>7. ASSUME NEW c \in ConfigMaps, WatchConfigMap(c) PROVE UNCHANGED api
  BY <1>7 DEF WatchConfigMap
<1>8. CASE Cluster \/ Restart \/ UNCHANGED vars
  BY <1>8 DEF Cluster, Restart, ProcessStarts, R!Boot, reconcilerVars, vars
<1>9. QED
  BY <1>1, <1>2, <1>3, <1>4, <1>5, <1>6, <1>7, <1>8 DEF Next, AnyStep

(* In the operator as a whole, too, no status is written next to a spec it was
   not computed from. *)
THEOREM StatusFollowsSpec == Safe => R!StatusMatchesSpec
<1>1. R!IInv /\ [Next]_vars => [R!Matches]_api
  BY OnlyWrites, R!WritesMatch, ReconcilerAssumed
<1>2. QED
  BY <1>1, ReconcilerInvariant, PTL DEF Safe, R!StatusMatchesSpec, R!Matches

(* What opens and closes connections: the worker for one monitor, or the end of
   the process for all. *)
LEMMA ConnectionsStep ==
    ASSUME R!IInv, [Next]_vars
    PROVE  [R!Connections!Next]_(R!Connections!vars)
<1> USE ReconcilerAssumed DEF R!Connections!Next
<1>1. ASSUME UNCHANGED <<api, sockets>> PROVE [R!Connections!Next]_(R!Connections!vars)
  BY <1>1, R!Stutter
<1>2. ASSUME ProcessStarts PROVE R!Connections!Next
  BY <1>2, R!BootSimulates DEF ProcessStarts
<1>3. ASSUME NEW m \in Monitors, Fetch(m) PROVE [R!Connections!Next]_(R!Connections!vars)
  BY <1>1, <1>3, R!FetchSimulates DEF Fetch
<1>4. ASSUME NEW m \in Monitors, WatchMonitor(m) \/ TimerFires(m) PROVE UNCHANGED <<api, sockets>>
  BY <1>4 DEF WatchMonitor, TimerFires, R!Watch, R!TimerFires, R!apiVars, R!registryVars
<1>5. CASE Work
  <2>1. R!Step /\ req \in Monitors
    BY <1>5 DEF Work, R!Step, R!DiscoverWorkload, R!DiscoverConfigMap, R!EnsureOpAMPConnection,
       R!UpdateStatus, R!IInv, R!TypeOK, R!WorkerOK
  <2>2. CASE R!DiscoverWorkload \/ R!DiscoverConfigMap
    BY <1>1, <2>2 DEF R!DiscoverWorkload, R!DiscoverConfigMap, R!apiVars, R!registryVars
  <2>3. CASE R!EnsureOpAMPConnection
    BY <1>1, <2>1, <2>3, R!EnsureSimulates
  <2>4. CASE R!UpdateStatus
    BY <1>1, <2>1, <2>4, R!UpdateStatusSimulates
  <2>5. QED
    BY <2>1, <2>2, <2>3, <2>4 DEF R!Step
<1>6. CASE WorkFails
  BY <1>1, <1>6 DEF WorkFails, R!Failure, R!FetchFails, R!StartFails, R!UpdateFails,
     R!apiVars, R!registryVars
<1>7. CASE Around
  <2>1. ASSUME NEW m \in Monitors, NEW s \in R!MonitorSpec, R!Apply(m, s)
        PROVE  R!Connections!Next
    BY <2>1, R!WriteSimulates DEF R!Apply, R!Write, R!registryVars
  <2>2. ASSUME NEW m \in Monitors, R!Delete(m) PROVE R!Connections!Next
    BY <2>2, R!WriteSimulates DEF R!Delete, R!Write, R!registryVars
  <2>3. ASSUME NEW m \in Monitors, R!ToggleSecret(m) PROVE UNCHANGED <<api, sockets>>
    BY <2>3 DEF R!ToggleSecret, R!apiVars, R!registryVars
  <2>4. QED
    BY <1>1, <1>7, <2>1, <2>2, <2>3 DEF Around
<1>8. ASSUME NEW h \in Client, Callback(h) PROVE [R!Connections!Next]_(R!Connections!vars)
  BY <1>1, <1>2, <1>8 DEF Callback, EmergencyStep, reconcilerVars
<1>9. ASSUME NEW h \in Client,
             CallbackFails(h) \/ FetchLogs(h) \/ SendPodLogs(h) \/ Message(h) \/ StopReturns(h)
      PROVE  UNCHANGED <<api, sockets>>
  BY <1>9 DEF CallbackFails, FetchLogs, SendPodLogs, Message, StopReturns, reconcilerVars
<1>10. ASSUME NEW c \in ConfigMaps, WatchConfigMap(c) PROVE UNCHANGED <<api, sockets>>
  BY <1>10 DEF WatchConfigMap
<1>11. CASE Cluster \/ UNCHANGED vars
  BY <1>1, <1>11 DEF Cluster, vars, reconcilerVars
<1>12. CASE Restart
  BY <1>2, <1>12 DEF Restart
<1>13. QED
  BY <1>1, <1>3, <1>4, <1>5, <1>6, <1>7, <1>8, <1>9, <1>10, <1>11, <1>12 DEF Next, AnyStep

(* In the operator as a whole a connection is opened only for a monitor that has
   none, and closed only where one runs. *)
THEOREM RefinesConnections == Safe => R!Connections!Safe
<1>1. Init => R!Connections!Init
  BY DEF Init, R!Init, R!Connections!Init
<1>2. R!IInv /\ [Next]_vars => [R!Connections!Next]_(R!Connections!vars)
  BY ConnectionsStep
<1>3. QED
  BY <1>1, <1>2, ReconcilerInvariant, PTL DEF Safe, R!Connections!Safe
-----------------------------------------------------------------------------
(* A healthy monitor comes closer to being done. *)

(* What happens to the worker while it does nothing: keys are added to its queue. *)
LEMMA OthersKeepLap ==
    ASSUME R!LapInv, queued \subseteq queued',
           UNCHANGED <<api, cache, monitorsInSync, req, latest, step, started>>
    PROVE  R!LapInv'
  BY R!SameLap, ReconcilerAssumed

LEMMA LapStep == ASSUME R!IInv, R!LapInv, [Next]_vars PROVE R!LapInv'
<1> USE ReconcilerAssumed
<1>1. ASSUME NEW m \in Monitors, Fetch(m) \/ WatchMonitor(m) PROVE R!LapInv'
  BY <1>1, R!FetchLap, R!WatchLap DEF Fetch, WatchMonitor
<1>2. ASSUME NEW m \in Monitors, TimerFires(m) PROVE R!LapInv'
  BY <1>2, OthersKeepLap DEF TimerFires, R!TimerFires, R!apiVars, R!workerVars, R!registryVars
<1>3. CASE Work \/ WorkFails
  BY <1>3, R!StepLap, R!FailureLap DEF Work, WorkFails
<1>4. CASE Around
  <2>1. ASSUME NEW m \in Monitors, NEW s \in R!MonitorSpec, R!Apply(m, s) PROVE R!LapInv'
    BY <2>1, R!ApplyLap
  <2>2. ASSUME NEW m \in Monitors, R!Delete(m) PROVE R!LapInv'
    BY <2>2, R!WriteLap DEF R!Delete
  <2>3. ASSUME NEW m \in Monitors, R!ToggleSecret(m) PROVE R!LapInv'
    BY <2>3, OthersKeepLap
       DEF R!ToggleSecret, R!apiVars, R!queueVars, R!workerVars, R!registryVars
  <2>4. QED
    BY <1>4, <2>1, <2>2, <2>3 DEF Around
<1>5. ASSUME NEW h \in Client, Callback(h) PROVE R!LapInv'
  BY <1>5, OthersKeepLap, R!BootLap DEF Callback, EmergencyStep, ProcessStarts, reconcilerVars
<1>6. ASSUME NEW h \in Client,
             CallbackFails(h) \/ FetchLogs(h) \/ SendPodLogs(h) \/ Message(h) \/ StopReturns(h)
      PROVE  R!LapInv'
  BY <1>6, OthersKeepLap
     DEF CallbackFails, FetchLogs, SendPodLogs, Message, StopReturns, reconcilerVars
<1>7. ASSUME NEW c \in ConfigMaps, WatchConfigMap(c) PROVE R!LapInv'
  BY <1>7, OthersKeepLap DEF WatchConfigMap
<1>8. CASE Restart
  BY <1>8, R!BootLap DEF Restart, ProcessStarts
<1>9. CASE Cluster \/ UNCHANGED vars
  BY <1>9, OthersKeepLap DEF Cluster, vars, reconcilerVars
<1>10. QED
  BY <1>1, <1>2, <1>3, <1>4, <1>5, <1>6, <1>7, <1>8, <1>9 DEF Next, AnyStep

LEMMA LapInvariant == Safe => []R!LapInv
<1>1. Init => R!LapInv
  BY R!InitLap, ReconcilerAssumed DEF Init
<1>2. R!IInv /\ R!LapInv /\ [Next]_vars => R!LapInv'
  BY LapStep
<1>3. QED
  BY <1>1, <1>2, ReconcilerInvariant, PTL DEF Safe

LEMMA OthersKeepDistance ==
    ASSUME R!IInv, NEW m \in Monitors, queued \subseteq queued',
           UNCHANGED <<api, monitorsInSync, req, latest, step, sockets>>
    PROVE  R!Closer(m)
  BY R!QueueGrowsCloser, ReconcilerAssumed DEF R!IInv, R!TypeOK

LEMMA WorkCloser ==
    ASSUME R!IInv, R!IInv', R!LapInv, E!TypeOK, [Next]_vars, NEW m \in Monitors, R!Healthy(m),
           \A h \in Client : ~Panics(h), UNCHANGED <<edits, mishaps>>
    PROVE  R!Closer(m)
<1> USE ReconcilerAssumed
<1>1. edits \in Nat /\ ~R!Spend /\ R!WorkerOK'
  BY DEF R!IInv, R!TypeOK, R!ClusterOK, R!Spend
<1>2. ASSUME NEW n \in Monitors, Fetch(n) \/ WatchMonitor(n) \/ TimerFires(n)
      PROVE  R!Closer(m)
  BY <1>1, <1>2, R!FetchCloser, R!WatchCloser, R!TimerFiresCloser
     DEF Fetch, WatchMonitor, TimerFires
<1>3. CASE Work
  BY <1>1, <1>3, R!OtherStepCloser, R!OwnStepCloser DEF Work
<1>4. ~WorkFails /\ ~Around
  BY <1>1 DEF WorkFails, Around, R!Failure, R!FetchFails, R!StartFails, R!UpdateFails,
     R!Apply, R!Delete, R!ToggleSecret
<1>5. ASSUME NEW h \in Client,
             \/ Callback(h) \/ CallbackFails(h) \/ FetchLogs(h) \/ SendPodLogs(h)
             \/ Message(h) \/ StopReturns(h)
      PROVE  R!Closer(m)
  BY <1>5, OthersKeepDistance
     DEF Callback, EmergencyStep, CallbackFails, FetchLogs, SendPodLogs, Message, StopReturns,
         reconcilerVars
<1>6. ASSUME NEW c \in ConfigMaps, WatchConfigMap(c) PROVE R!Closer(m)
  BY <1>6, OthersKeepDistance DEF WatchConfigMap
<1>7. CASE Cluster \/ UNCHANGED vars
  BY <1>7, OthersKeepDistance DEF Cluster, vars, reconcilerVars
<1>8. ~Restart
  BY BoundsAssumption DEF Restart, E!Restart, E!Spend, E!TypeOK
<1>9. QED
  BY <1>2, <1>3, <1>4, <1>5, <1>6, <1>7, <1>8 DEF Next, AnyStep

(* Overrides, log requests and Stop() next to it do not take a healthy monitor
   away from being done, nor undo a step towards it. *)
THEOREM HealthyComesCloser == Safe => WorkComesCloser
<1>1. R!IInv /\ R!IInv' /\ R!LapInv /\ E!IInv /\ [Next]_vars =>
          [\A m \in Monitors :
              /\ R!Healthy(m)
              /\ \A h \in Client : ~Panics(h)
              /\ UNCHANGED <<edits, mishaps>>
              => /\ R!Distance(m)' <= R!Distance(m)
                 /\ R!Served(m) /\ ~R!Done(m) => R!Distance(m)' < R!Distance(m)]_vars
  BY WorkCloser DEF R!Closer, E!IInv
<1>2. QED
  BY <1>1, ReconcilerInvariant, LapInvariant, EmergencyInvariant, PTL DEF Safe, WorkComesCloser
-----------------------------------------------------------------------------
(* A settled status stays, and a deleted monitor comes closer to being closed. *)

LEMMA CopyStep == ASSUME R!IInv, R!CopyStatus, [Next]_vars PROVE R!CopyStatus'
<1> USE ReconcilerAssumed
<1>1. CASE UNCHANGED <<api, req, latest, monitor>>
  BY <1>1, R!SameCopy
<1>2. ASSUME ProcessStarts PROVE R!CopyStatus'
  BY <1>2 DEF ProcessStarts, R!Boot, R!CopyStatus
<1>3. ASSUME NEW m \in Monitors, Fetch(m) \/ WatchMonitor(m) \/ TimerFires(m)
      PROVE  R!CopyStatus'
  BY <1>1, <1>3, R!FetchCopy
     DEF Fetch, WatchMonitor, TimerFires, R!Watch, R!TimerFires, R!apiVars, R!workerVars
<1>4. CASE Work \/ WorkFails
  BY <1>4, R!StepCopy, R!FailureCopy DEF Work, WorkFails
<1>5. CASE Around
  <2>1. ASSUME NEW m \in Monitors, NEW s \in R!MonitorSpec, R!Apply(m, s) PROVE R!CopyStatus'
    BY <2>1, R!WriteCopy DEF R!Apply
  <2>2. ASSUME NEW m \in Monitors, R!Delete(m) PROVE R!CopyStatus'
    BY <2>2, R!WriteCopy DEF R!Delete
  <2>3. ASSUME NEW m \in Monitors, R!ToggleSecret(m) PROVE R!CopyStatus'
    BY <1>1, <2>3 DEF R!ToggleSecret, R!apiVars, R!workerVars
  <2>4. QED
    BY <1>5, <2>1, <2>2, <2>3 DEF Around
<1>6. ASSUME NEW h \in Client, Callback(h) PROVE R!CopyStatus'
  BY <1>1, <1>2, <1>6 DEF Callback, EmergencyStep, reconcilerVars
<1>7. ASSUME NEW h \in Client,
             CallbackFails(h) \/ FetchLogs(h) \/ SendPodLogs(h) \/ Message(h) \/ StopReturns(h)
      PROVE  R!CopyStatus'
  BY <1>1, <1>7
     DEF CallbackFails, FetchLogs, SendPodLogs, Message, StopReturns, reconcilerVars
<1>8. ASSUME NEW c \in ConfigMaps, WatchConfigMap(c) PROVE R!CopyStatus'
  BY <1>1, <1>8 DEF WatchConfigMap
<1>9. CASE Cluster \/ UNCHANGED vars
  BY <1>1, <1>9 DEF Cluster, vars, reconcilerVars
<1>10. CASE Restart
  BY <1>2, <1>10 DEF Restart
<1>11. QED
  BY <1>3, <1>4, <1>5, <1>6, <1>7, <1>8, <1>9, <1>10 DEF Next, AnyStep

LEMMA CopyInvariant == Safe => []R!CopyStatus
<1>1. Init => R!CopyStatus
  BY R!InitCopy, ReconcilerAssumed DEF Init
<1>2. R!IInv /\ R!CopyStatus /\ [Next]_vars => R!CopyStatus'
  BY CopyStep
<1>3. QED
  BY <1>1, <1>2, ReconcilerInvariant, PTL DEF Safe

(* In the operator as a whole, too, the worker does not wake itself for ever with
   its own status writes. *)
THEOREM SettledStatusStays == Safe => R!SettledStays
<1>1. R!IInv /\ R!CopyStatus /\ [Next]_vars => [R!Stays]_api
  BY OnlyWrites, R!WritesStay, ReconcilerAssumed
<1>2. QED
  BY <1>1, ReconcilerInvariant, CopyInvariant, PTL DEF Safe, R!SettledStays, R!Stays

LEMMA OthersKeepClosing ==
    ASSUME R!IInv, R!IInv', NEW m \in Monitors, queued \subseteq queued',
           UNCHANGED <<monitorsInSync, req, step, sockets>>
    PROVE  R!CloserToClosed(m)
  BY R!QueueGrowsCloses, ReconcilerAssumed DEF R!IInv, R!TypeOK

(* A process that ends closes every connection, and the next one opens none for a
   monitor that is gone. *)
LEMMA ProcessStartsCloses ==
    ASSUME R!IInv, NEW m \in Monitors, ProcessStarts
    PROVE  R!CloserToClosed(m)
<1> USE ReconcilerAssumed
<1>1. m \in monitorsInSync' /\ req' # m /\ sockets'[m] = 0
  BY DEF ProcessStarts, R!Boot
<1>2. R!ClosingDistance(m)' = 0
  BY <1>1 DEF R!ClosingDistance
<1>3. R!ClosingDistance(m) \in 0..7
  BY R!ClosingBound DEF R!IInv, R!TypeOK
<1>4. QED
  BY <1>2, <1>3 DEF R!CloserToClosed

LEMMA WorkCloses ==
    ASSUME R!IInv, R!IInv', R!LapInv, [Next]_vars, NEW m \in Monitors, ~R!Exists(m),
           UNCHANGED edits
    PROVE  R!CloserToClosed(m)
<1> USE ReconcilerAssumed
<1>1. edits \in Nat /\ ~R!Spend /\ R!WorkerOK /\ R!WorkerOK'
  BY DEF R!IInv, R!TypeOK, R!ClusterOK, R!Spend
<1>2. ASSUME NEW n \in Monitors, Fetch(n) \/ WatchMonitor(n) \/ TimerFires(n)
      PROVE  R!CloserToClosed(m)
  BY <1>1, <1>2, R!FetchCloses, R!WatchOrTimerCloses DEF Fetch, WatchMonitor, TimerFires
<1>3. CASE Work
  BY <1>1, <1>3, R!OtherStepCloses, R!OwnStepCloses DEF Work
<1>4. ~WorkFails /\ ~Around
  BY <1>1 DEF WorkFails, Around, R!Failure, R!FetchFails, R!StartFails, R!UpdateFails,
     R!Apply, R!Delete, R!ToggleSecret
<1>5. ASSUME NEW h \in Client, Callback(h) PROVE R!CloserToClosed(m)
  BY <1>5, OthersKeepClosing, ProcessStartsCloses DEF Callback, EmergencyStep, reconcilerVars
<1>6. ASSUME NEW h \in Client,
             CallbackFails(h) \/ FetchLogs(h) \/ SendPodLogs(h) \/ Message(h) \/ StopReturns(h)
      PROVE  R!CloserToClosed(m)
  BY <1>6, OthersKeepClosing
     DEF CallbackFails, FetchLogs, SendPodLogs, Message, StopReturns, reconcilerVars
<1>7. ASSUME NEW c \in ConfigMaps, WatchConfigMap(c) PROVE R!CloserToClosed(m)
  BY <1>7, OthersKeepClosing DEF WatchConfigMap
<1>8. CASE Cluster \/ UNCHANGED vars
  BY <1>8, OthersKeepClosing DEF Cluster, vars, reconcilerVars
<1>9. CASE Restart
  BY <1>9, ProcessStartsCloses DEF Restart
<1>10. QED
  BY <1>2, <1>3, <1>4, <1>5, <1>6, <1>7, <1>8, <1>9 DEF Next, AnyStep

(* In the operator as a whole, where the worker waits in Stop() for callbacks and
   a panic of one of them may end the process, a deleted monitor comes closer to
   being closed and is not opened again. *)
THEOREM DeletedIsClosedInSteps == Safe => R!DeletedComesCloser
<1>1. R!IInv /\ R!IInv' /\ R!LapInv /\ [Next]_vars =>
          (\A m \in Monitors :
              ~R!Exists(m) /\ UNCHANGED edits =>
                  /\ R!ClosingDistance(m)' <= R!ClosingDistance(m)
                  /\ R!Closing(m) /\ R!ClosingDistance(m) > 0 =>
                         R!ClosingDistance(m)' < R!ClosingDistance(m))
  BY WorkCloses DEF R!CloserToClosed
<1>2. QED
  BY <1>1, ReconcilerInvariant, LapInvariant, PTL DEF Safe, R!DeletedComesCloser
-----------------------------------------------------------------------------
(* Where they meet. *)

(* Only a monitor whose ConfigMap was found gets a client. *)
Resolved ==
    /\ step \in {"connect", "status"} => monitor.status.ref \in ConfigMaps
    /\ \A m \in Monitors : clients[m] # None => clients[m].ref \in ConfigMaps

Meet ==
    /\ Resolved
    /\ stopping \in Client \cup {None}
    /\ stopping # None => ~Registered(stopping) /\ step = "idle"
    /\ logs \subseteq Client
    /\ ClosedIsSilent

LEMMA ClientOfType ==
    ASSUME R!TypeOK, Resolved, NEW m \in Monitors
    PROVE  ClientOf(m) \in Client \cup {None}
  BY DEF R!TypeOK, R!RegistryOK, R!Captured, R!MonitorSpec, Resolved, ClientOf, Client

(* A step that leaves the registry, the worker's copy and the callbacks alone. *)
LEMMA MeetKept ==
    ASSUME Meet, UNCHANGED <<step, monitor, clients, stopping, pc, logs>>
    PROVE  Meet'
  BY DEF Meet, Resolved, Registered, ClientOf, ClosedIsSilent, Busy, Running

(* The callbacks stay within those that ran before or are allowed to run. *)
LEMMA MeetCallbacks ==
    ASSUME Meet, UNCHANGED <<step, monitor, clients, stopping>>, logs' \subseteq Client,
           \A h \in Client : Busy(h)' => Busy(h) \/ Running(h)
    PROVE  Meet'
<1>1. \A h \in Client : Running(h)' = Running(h)
  BY DEF Running, Registered, ClientOf
<1>2. ClosedIsSilent'
  BY <1>1 DEF Meet, ClosedIsSilent
<1>3. QED
  BY <1>2 DEF Meet, Resolved, Registered, ClientOf

LEMMA FetchMeet == ASSUME R!TypeOK, Meet, NEW m \in Monitors, Fetch(m) PROVE Meet'
<1> USE DEF Fetch, R!Fetch, R!registryVars, R!workerVars, emergencyVars
<1>1. stopping = None /\ UNCHANGED <<pc, logs>>
  OBVIOUS
<1>2. ASSUME NEW g \in Monitors, g # m PROVE clients'[g] = clients[g]
  BY <1>2 DEF R!CleanupOpAMPClient, R!TypeOK, R!RegistryOK
<1>3. CASE cache[m] # None
  <2>1. UNCHANGED clients /\ step' = "discover"
    BY <1>3
  <2>2. stopping' = None
    BY <2>1 DEF Closed, ClientOf
  <2>3. QED
    BY <1>1, <2>1, <2>2
       DEF Meet, Resolved, Registered, ClientOf, ClosedIsSilent, Busy, Running
<1>4. CASE cache[m] = None
  <2>1. R!CleanupOpAMPClient(m) /\ UNCHANGED <<step, monitor>> /\ step = "idle"
    BY <1>4
  <2>2. clients'[m] = None
    BY <2>1 DEF R!CleanupOpAMPClient, R!TypeOK, R!RegistryOK
  <2>3. stopping' = ClientOf(m) /\ stopping' \in Client \cup {None}
    BY <2>2, ClientOfType DEF Closed, Meet
  <2>4. Resolved'
    BY <1>2, <2>1, <2>2 DEF Meet, Resolved
  <2>5. stopping' # None => ~Registered(stopping)' /\ step' = "idle"
    <3> SUFFICES ASSUME stopping' # None PROVE ~Registered(stopping)'
      BY <2>1
    <3>1. stopping'.monitor = m
      BY <2>3 DEF ClientOf
    <3>2. QED
      BY <2>2, <3>1 DEF Registered, ClientOf
  <2>6. ASSUME NEW h \in Client, Busy(h)' PROVE Running(h)'
    <3>1. Registered(h)
      BY <1>1, <2>6, SentinelAssumption DEF Meet, ClosedIsSilent, Busy, Running
    <3>2. CASE h.monitor = m
      BY <2>3, <3>1, <3>2 DEF Registered, Running
    <3>3. CASE h.monitor # m
      BY <1>2, <3>1, <3>3 DEF Registered, ClientOf, Running, Client
    <3>4. QED
      BY <3>2, <3>3
  <2>7. QED
    BY <1>1, <2>3, <2>4, <2>5, <2>6 DEF Meet, ClosedIsSilent
<1>5. QED
  BY <1>3, <1>4

(* Reconcile registers a client only where there is none. *)
LEMMA WorkMeet == ASSUME R!IInv, Meet, Work PROVE Meet'
<1> USE DEF Work, emergencyVars
<1>1. stopping = None /\ UNCHANGED <<stopping, pc, logs>>
  OBVIOUS
<1>2. step # "idle" /\ req \in Monitors
  BY ReconcilerAssumed DEF R!Step, R!DiscoverWorkload, R!DiscoverConfigMap,
     R!EnsureOpAMPConnection, R!UpdateStatus, R!IInv, R!TypeOK, R!WorkerOK
<1>3. ASSUME NEW h \in Client, Registered(h) PROVE Registered(h)'
  <2>1. clients[h.monitor] # None /\ h.monitor \in Monitors
    BY <1>3, SentinelAssumption DEF Registered, ClientOf, Client
  <2>2. clients'[h.monitor] = clients[h.monitor]
    BY <2>1 DEF R!Step, R!DiscoverWorkload, R!DiscoverConfigMap, R!EnsureOpAMPConnection,
       R!UpdateStatus, R!registryVars, R!Connected, R!IInv, R!TypeOK, R!RegistryOK,
       R!OneClientPerMonitor
  <2>3. QED
    BY <1>3, <2>2 DEF Registered, ClientOf
<1>4. Resolved'
  <2> USE DEF Meet, Resolved
  <2>1. CASE R!DiscoverWorkload
    BY <2>1 DEF R!DiscoverWorkload, R!Continue, R!ReturnAndRequeue, R!Return, R!registryVars
  <2>2. CASE R!DiscoverConfigMap
    <3>1. monitor \in R!CollectorMonitor
      BY <2>2, ReconcilerAssumed DEF R!DiscoverConfigMap, R!IInv, R!TypeOK, R!WorkerOK
    <3>2. QED
      BY <2>2, <3>1 DEF R!DiscoverConfigMap, R!Continue, R!ReturnAndRequeue, R!Return,
         R!registryVars, R!CollectorMonitor, R!MonitorStatus
  <2>3. CASE R!EnsureOpAMPConnection
    <3>1. CASE R!ReturnAndRequeue /\ UNCHANGED R!registryVars
      BY <3>1 DEF R!ReturnAndRequeue, R!Return, R!registryVars
    <3>2. CASE R!Connected(req)
      BY <2>3, <3>2 DEF R!EnsureOpAMPConnection, R!Continue, R!registryVars
    <3>3. CASE /\ clients' = [clients EXCEPT ![req] =
                                  [spec |-> monitor.spec, ref |-> monitor.status.ref]]
               /\ UNCHANGED monitor
      BY <2>3, <3>3, <1>2 DEF R!EnsureOpAMPConnection, R!IInv, R!TypeOK, R!RegistryOK
    <3>4. QED
      BY <2>3, <3>1, <3>2, <3>3 DEF R!EnsureOpAMPConnection
  <2>4. CASE R!UpdateStatus
    BY <2>4 DEF R!UpdateStatus, R!ReturnAndRequeue, R!Return, R!registryVars
  <2>5. QED
    BY <2>1, <2>2, <2>3, <2>4 DEF R!Step
<1>5. QED
  BY <1>1, <1>3, <1>4, SentinelAssumption DEF Meet, ClosedIsSilent, Busy, Running

LEMMA WorkFailsMeet == ASSUME Meet, WorkFails PROVE Meet'
<1>1. UNCHANGED <<clients, stopping, pc, logs>> /\ stopping = None
  BY DEF WorkFails, R!Failure, R!FetchFails, R!StartFails, R!UpdateFails, R!registryVars,
     emergencyVars
<1>2. UNCHANGED <<step, monitor>> \/ step' = "idle"
  BY DEF WorkFails, R!Failure, R!FetchFails, R!StartFails, R!UpdateFails, R!workerVars,
     R!ReturnAndRequeue, R!Return
<1>3. QED
  BY <1>1, <1>2 DEF Meet, Resolved, Registered, ClientOf, ClosedIsSilent, Busy, Running

(* When a process starts nothing is registered and nothing runs. *)
LEMMA DieMeet == ASSUME Meet, E!Die, ProcessStarts PROVE Meet'
<1>1. /\ stopping' = None /\ logs' = {} /\ step' = "idle"
      /\ \A h \in Client : pc'[h] = "idle"
      /\ \A m \in Monitors : clients'[m] = None
  BY DEF E!Die, ProcessStarts, R!Boot
<1>2. QED
  BY <1>1 DEF Meet, Resolved, ClosedIsSilent, Busy

(* A step of h's handler that does not panic moves h alone. *)
LEMMA HandlerFrame ==
    ASSUME E!TypeOK, NEW h \in Client, NEW g \in Client, g # h, E!Handler(h), ~Panics(h)
    PROVE  pc'[g] = pc[g]
<1> USE DEF E!TypeOK, E!HandlersOK, E!Goto, E!Answer
<1>1. CASE E!Receive(h)
  BY <1>1 DEF E!Receive
<1>2. CASE E!GetConfigMap(h)
  BY <1>2 DEF E!GetConfigMap, Panics, CapturedBy
<1>3. CASE E!UpdateConfigMap(h)
  BY <1>3 DEF E!UpdateConfigMap, E!AfterUpdate
<1>4. CASE E!DiscoverWorkload(h)
  BY <1>4 DEF E!DiscoverWorkload
<1>5. CASE E!PatchWorkload(h)
  BY <1>5 DEF E!PatchWorkload
<1>6. CASE E!SendEmergencyAck(h)
  BY <1>6 DEF E!SendEmergencyAck
<1>7. QED
  BY <1>1, <1>2, <1>3, <1>4, <1>5, <1>6 DEF E!Handler

LEMMA CallbackMeet == ASSUME E!TypeOK, Meet, NEW h \in Client, Callback(h) PROVE Meet'
<1> USE DEF Callback, EmergencyStep
<1>1. CASE Panics(h)
  <2>1. E!Die
    BY <1>1 DEF Panics, E!Handler, E!Receive, E!GetConfigMap, E!UpdateConfigMap,
       E!DiscoverWorkload, E!PatchWorkload, E!SendEmergencyAck, CapturedBy
  <2>2. QED
    BY <1>1, <2>1, DieMeet
<1>2. CASE ~Panics(h)
  <2>1. UNCHANGED <<step, monitor, clients, stopping, logs>>
    BY <1>2 DEF reconcilerVars
  <2>2. Running(h)
    BY DEF MayReceive, Meet, ClosedIsSilent, Busy
  <2>3. ASSUME NEW g \in Client, Busy(g)' PROVE Busy(g) \/ Running(g)
    BY <1>2, <2>1, <2>2, <2>3, HandlerFrame DEF Busy
  <2>4. QED
    BY <2>1, <2>3, MeetCallbacks DEF Meet
<1>3. QED
  BY <1>1, <1>2

LEMMA CallbackFailsMeet == ASSUME E!TypeOK, Meet, NEW h \in Client, CallbackFails(h) PROVE Meet'
<1> USE DEF CallbackFails, E!UpdateTimesOut, E!CallFails
<1>1. UNCHANGED <<step, monitor, clients, stopping, logs>>
  BY DEF reconcilerVars
<1>2. Busy(h)
  BY DEF Busy
<1>3. ASSUME NEW g \in Client, Busy(g)' PROVE Busy(g)
  BY <1>1, <1>2, <1>3 DEF Busy, E!Answer, E!Goto, E!TypeOK, E!HandlersOK
<1>4. QED
  BY <1>1, <1>3, MeetCallbacks DEF Meet

LEMMA LogsMeet ==
    ASSUME Meet, NEW h \in Client, FetchLogs(h) \/ SendPodLogs(h)
    PROVE  Meet'
<1>1. UNCHANGED <<step, monitor, clients, stopping, pc>>
  BY DEF FetchLogs, SendPodLogs, reconcilerVars, emergencyVars
<1>2. ASSUME NEW g \in Client, Busy(g)' PROVE Busy(g) \/ Running(g)
  BY <1>1, <1>2 DEF Busy, Running, Listening, FetchLogs, SendPodLogs
<1>3. logs' \subseteq Client
  BY DEF FetchLogs, SendPodLogs, Meet
<1>4. QED
  BY <1>1, <1>2, <1>3, MeetCallbacks

LEMMA StopReturnsMeet == ASSUME Meet, NEW h \in Client, StopReturns(h) PROVE Meet'
<1>1. UNCHANGED <<step, monitor, clients, pc, logs>> /\ stopping' = None
  BY DEF StopReturns, E!Disconnect, E!handlerVars, reconcilerVars, emergencyVars
<1>2. stopping = h /\ ~Busy(h)
  BY DEF StopReturns
<1>3. QED
  BY <1>1, <1>2 DEF Meet, Resolved, Registered, ClientOf, ClosedIsSilent, Busy, Running

(* Nothing else touches the registry or a callback. *)
LEMMA AroundMeet ==
    ASSUME Meet,
           \/ Around \/ Cluster
           \/ \E m \in Monitors : WatchMonitor(m) \/ TimerFires(m)
           \/ \E h \in Client : Message(h)
           \/ \E c \in ConfigMaps : WatchConfigMap(c)
    PROVE  Meet'
<1>1. UNCHANGED <<step, monitor, clients>>
  BY DEF Around, Cluster, WatchMonitor, TimerFires, Message, WatchConfigMap, reconcilerVars,
     R!Apply, R!Delete, R!ToggleSecret, R!Write, R!Watch, R!TimerFires, R!workerVars,
     R!registryVars
<1>2. UNCHANGED <<stopping, pc, logs>>
  BY DEF Around, Cluster, WatchMonitor, TimerFires, Message, WatchConfigMap, emergencyVars,
     E!Send, E!Disconnect, E!Watch, E!GitSync, E!DeleteConfigMap, E!DeleteWorkload,
     E!CreateWorkload, E!Rollout, E!Tick, E!handlerVars
<1>3. QED
  BY <1>1, <1>2, MeetKept

LEMMA MeetStep == ASSUME R!IInv, E!TypeOK, Meet, [Next]_vars PROVE Meet'
<1>1. ASSUME NEW m \in Monitors, Fetch(m) PROVE Meet'
  BY <1>1, FetchMeet DEF R!IInv
<1>2. CASE Work \/ WorkFails
  BY <1>2, WorkMeet, WorkFailsMeet
<1>3. ASSUME NEW h \in Client,
             \/ Callback(h) \/ CallbackFails(h) \/ FetchLogs(h) \/ SendPodLogs(h)
             \/ StopReturns(h)
      PROVE  Meet'
  BY <1>3, CallbackMeet, CallbackFailsMeet, LogsMeet, StopReturnsMeet
<1>4. CASE Restart
  BY <1>4, DieMeet DEF Restart, E!Restart
<1>5. CASE UNCHANGED vars
  BY <1>5, MeetKept DEF vars, reconcilerVars, emergencyVars
<1>6. QED
  BY <1>1, <1>2, <1>3, <1>4, <1>5, AroundMeet DEF Next, AnyStep

LEMMA MeetInvariant == Safe => []Meet
<1>1. Init => Meet
  BY DEF Init, E!Init, R!Init, Meet, Resolved, ClosedIsSilent, Busy
<1>2. R!IInv /\ E!IInv /\ Meet /\ [Next]_vars => Meet'
  BY MeetStep DEF E!IInv
<1>3. QED
  BY <1>1, <1>2, ReconcilerInvariant, EmergencyInvariant, PTL DEF Safe

(* The types of the composition: the worker waits in Stop() for one client that
   is no longer registered and does nothing else meanwhile. *)
THEOREM TypeCorrect == Safe => []TypeOK
<1>1. R!IInv /\ E!IInv /\ Meet => TypeOK
  BY DEF R!IInv, E!IInv, Meet, TypeOK
<1>2. QED
  BY <1>1, MeetInvariant, ReconcilerInvariant, EmergencyInvariant, PTL

(* No callback outlives its client: whatever is created, deleted and created
   again, a callback at work belongs to the client that is registered or to the
   one the worker is waiting for. *)
THEOREM ClosedClientsAreSilent == Safe => []ClosedIsSilent
<1>1. Meet => ClosedIsSilent
  BY DEF Meet
<1>2. QED
  BY <1>1, MeetInvariant, PTL
=============================================================================
