------------------------------ MODULE Operator ------------------------------
(***************************************************************************)
(* The operator as one process: the worker of module Reconciler and the    *)
(* callback goroutines of module Emergency, side by side.                  *)
(*                                                                         *)
(* They meet in four places:                                               *)
(*                                                                         *)
(*   - the registry: a callback runs for a client that                     *)
(*     ensureOpAMPConnection started, with what that call captured;        *)
(*   - cleanupOpAMPClient: the worker holds opampMu and waits in Stop()    *)
(*     until the callbacks of the client have returned;                    *)
(*   - the ConfigMap: an override is a watch event that queues the         *)
(*     monitors of the ConfigMap;                                          *)
(*   - the process: a panic in a callback takes the worker with it.        *)
(*                                                                         *)
(* A client is known by what it captured.  Reconcile's answer to a monitor *)
(* that is deleted and created again is a new client, which may have       *)
(* captured something else.                                                *)
(***************************************************************************)
EXTENDS Naturals, Sequences, FiniteSets

CONSTANTS
    Monitors, ConfigMaps, Keys, Workloads, Modes, None, Git,
    WorkloadOf,     \* WorkloadOf[m]: what the selector of monitor m finds
    KeyOf,          \* KeyOf[m]: what configMapKey returns for m
    Mounts,         \* Mounts[w]: the ConfigMap the pods of workload w mount
    CanPatch,       \* may the operator's role patch workloads?
    MaxCommands,    \* commands the server sends (bounds the model)
    MaxEdits,       \* budget of edits and worker failures (bounds the model)
    MaxMishaps,     \* budget of the other faults (bounds the model)
    MaxFaults       \* budget of both together (bounds the model)

ASSUME SelectorsAssumption ==
    /\ WorkloadOf \in [Monitors -> Workloads]
    /\ KeyOf \in [Monitors -> Keys]
    /\ Mounts \in [Workloads -> ConfigMaps]
ASSUME ModesAssumption == Modes \subseteq {"on", "off", "unset"} /\ CanPatch \in BOOLEAN
ASSUME BoundsAssumption ==
    MaxCommands \in Nat /\ MaxEdits \in Nat /\ MaxMishaps \in Nat /\ MaxFaults \in Nat

(* What the callbacks of a client captured, and for which monitor. *)
Client == [monitor : Monitors, ref : ConfigMaps, emergency : Modes]

CapturedBy ==
    [h \in Client |-> [emergency |-> h.emergency, cm |-> h.ref,
                       key |-> KeyOf[h.monitor], workload |-> WorkloadOf[h.monitor]]]

-----------------------------------------------------------------------------
VARIABLES
    \* of the worker (module Reconciler)
    api, cache, monitorsInSync, queued, timers, step, req, monitor, latest,
    clients, started, sockets, secrets, edits,
    \* of the callbacks and the cluster (module Emergency)
    data, cached, inSync, workloads, pods, stamped, rolling, swallowed,
    inbox, sent, acks, refused, lost, pc, cmd, copy, fresh, ok, mishaps,
    \* where they meet
    stopping,   \* the client the worker is stopping, opampMu held, or None
    logs        \* the clients whose callback is reading pod logs

reconcilerVars ==
    <<api, cache, monitorsInSync, queued, timers, step, req, monitor, latest,
      clients, started, sockets, secrets, edits>>
emergencyVars ==
    <<data, cached, inSync, workloads, pods, stamped, rolling, swallowed, inbox, sent, acks,
      refused, lost, pc, cmd, copy, fresh, ok, mishaps>>
vars == <<reconcilerVars, emergencyVars, stopping, logs>>

(* The two modules, by way of the modules that prove their invariants.  The
   worker sees the ConfigMaps that the informer has. *)
R == INSTANCE ReconcilerProofs WITH
        inSync <- monitorsInSync, pc <- step, MaxFaults <- MaxEdits, faults <- edits,
        workloads <- {m \in Monitors : WorkloadOf[m] \in workloads},
        configMaps <- {c \in ConfigMaps : cached[c] # None}

E == INSTANCE EmergencyProofs WITH
        Clients <- Client, Captured <- CapturedBy,
        MaxFaults <- MaxMishaps, faults <- mishaps

ASSUME SentinelAssumption ==
    /\ None \notin Monitors \cup ConfigMaps \cup R!CollectorMonitor \cup R!Captured
    /\ None \notin Client \cup E!Content \cup E!Data \cup Workloads
    /\ Git \notin E!Command

(* The client registered for m. *)
ClientOf(m) ==
    IF clients[m] = None
    THEN None
    ELSE [monitor |-> m, ref |-> clients[m].ref, emergency |-> clients[m].spec.emergency]

Registered(h) == ClientOf(h.monitor) = h

(* The connection of h is open: messages may still come in. *)
Running(h) == Registered(h) \/ stopping = h

(* A callback of h is at work. *)
Busy(h) == pc[h] # "idle" \/ h \in logs

(* The types of the variables of both modules; a client that is being stopped
   is no longer registered, and the worker does nothing else meanwhile. *)
TypeOK ==
    /\ R!TypeOK
    /\ E!TypeOK
    /\ stopping \in Client \cup {None}
    /\ stopping # None => ~Registered(stopping) /\ step = "idle"
    /\ logs \subseteq Client

Init ==
    /\ E!Init
    /\ R!Init
    /\ stopping = None
    /\ logs = {}
-----------------------------------------------------------------------------
(* The worker *)

(* Mutant of Closed: the client is forgotten without Stop(). *)
ClosedAtOnce(m) == None

(* cleanupOpAMPClient: the client that has to be stopped, if there is one. *)
Closed(m) == IF clients'[m] = None THEN ClientOf(m) ELSE None

(* Reconcile starts; for a monitor that is gone it stops the client. *)
Fetch(m) ==
    /\ stopping = None
    /\ UNCHANGED <<emergencyVars, logs>>
    /\ R!Fetch(m)
    /\ stopping' = Closed(m)

(* Stop() returns when the callbacks have: opamp-go waits for its goroutines.
   What was still on its way is lost, and opampMu is free. *)
StopReturns(h) ==
    /\ stopping = h
    /\ ~Busy(h)
    /\ stopping' = None
    /\ \/ E!Disconnect(h)
       \/ inbox[h] = <<>> /\ UNCHANGED emergencyVars
    /\ UNCHANGED <<reconcilerVars, logs>>

(* The rest of Reconcile. *)
Work ==
    /\ stopping = None
    /\ UNCHANGED <<emergencyVars, stopping, logs>>
    /\ R!Step

WorkFails ==
    /\ stopping = None
    /\ UNCHANGED <<emergencyVars, stopping, logs>>
    /\ R!Failure

(* What happens to CollectorMonitors, secrets and timers whatever the worker
   does. *)
Around ==
    /\ UNCHANGED <<emergencyVars, stopping, logs>>
    /\ \E m \in Monitors :
          \/ \E s \in R!MonitorSpec : R!Apply(m, s)
          \/ R!Delete(m) \/ R!ToggleSecret(m)

WatchMonitor(m) ==
    /\ UNCHANGED <<emergencyVars, stopping, logs>>
    /\ R!Watch(m)

TimerFires(m) ==
    /\ UNCHANGED <<emergencyVars, stopping, logs>>
    /\ R!TimerFires(m)
-----------------------------------------------------------------------------
(* The callbacks *)

(* Every goroutine of the process is gone. *)
ProcessStarts ==
    /\ R!Boot
    /\ stopping' = None
    /\ logs' = {}
    /\ UNCHANGED <<secrets, edits>>

(* cm.Data is nil: the assignment of the next step panics. *)
Panics(h) ==
    /\ pc[h] = "get"
    /\ cached[h.ref] # None
    /\ E!IsNil(cached[h.ref])

(* opamp-go hands the messages of a connection to onMessage one by one, so a
   command waits for the log reading before it. *)
MayReceive(h) == Running(h) /\ ~Busy(h)

(* A step of OnEmergencyCmd; a panic ends the process and with it the worker. *)
EmergencyStep(h) ==
    /\ pc[h] = "idle" => MayReceive(h)
    /\ E!Handler(h)
    /\ IF Panics(h)
       THEN ProcessStarts
       ELSE UNCHANGED <<reconcilerVars, stopping, logs>>

(* Mutant of Callback: the callback looks the client up in the registry, under
   opampMu, before it answers. *)
CallbackLocks(h) ==
    /\ pc[h] = "ack" => stopping = None
    /\ EmergencyStep(h)

Callback(h) == EmergencyStep(h)

CallbackFails(h) ==
    /\ E!UpdateTimesOut(h) \/ E!CallFails(h)
    /\ UNCHANGED <<reconcilerVars, stopping, logs>>

(* opamp-go hands over no new message of a connection once Stop() has begun; what
   came in before is still handled. *)
Listening(h) == Registered(h)

(* OnFetchLogs: the server asks for the logs of a pod. *)
FetchLogs(h) ==
    /\ Listening(h)
    /\ MayReceive(h)
    /\ logs' = logs \cup {h}
    /\ UNCHANGED <<reconcilerVars, emergencyVars, stopping>>

(* getPodLogs has read the last lines or has failed: SendPodLogs answers either
   way and the callback returns. *)
SendPodLogs(h) ==
    /\ h \in logs
    /\ logs' = logs \ {h}
    /\ UNCHANGED <<reconcilerVars, emergencyVars, stopping>>
-----------------------------------------------------------------------------
(* The server and the cluster *)

Message(h) ==
    /\ Listening(h)
    /\ E!Send(h) \/ E!Disconnect(h)
    /\ UNCHANGED <<reconcilerVars, stopping, logs>>

(* The informer sees ConfigMap c and queues the monitors it maps to. *)
WatchConfigMap(c) ==
    /\ E!Watch(c)
    /\ queued' = queued \cup R!MapConfigMapToMonitors(c)
    /\ UNCHANGED <<api, cache, monitorsInSync, timers, step, req, monitor, latest,
                   clients, started, sockets, secrets, edits, stopping, logs>>

Cluster ==
    /\ \/ \E c \in ConfigMaps : E!GitSync(c) \/ E!DeleteConfigMap(c)
       \/ \E w \in Workloads : E!DeleteWorkload(w) \/ E!CreateWorkload(w) \/ E!Rollout(w)
       \/ E!Tick
    /\ UNCHANGED <<reconcilerVars, stopping, logs>>

Restart == E!Restart /\ ProcessStarts
-----------------------------------------------------------------------------
WithinBudget == edits' + mishaps' <= MaxFaults

AnyStep ==
    \/ \E m \in Monitors : Fetch(m) \/ WatchMonitor(m) \/ TimerFires(m)
    \/ Work
    \/ WorkFails
    \/ Around
    \/ \E h \in Client : \/ Callback(h) \/ CallbackFails(h)
                         \/ FetchLogs(h) \/ SendPodLogs(h)
                         \/ Message(h) \/ StopReturns(h)
    \/ \E c \in ConfigMaps : WatchConfigMap(c)
    \/ Cluster
    \/ Restart

Next == AnyStep /\ WithinBudget

(* As in the two modules: the worker goes on, in Reconcile or in Stop(), which
   returns once the callbacks have; so does the goroutine of each client, and pod
   logs end (the last hundred lines, not followed). *)
Fairness ==
    /\ WF_vars(Work \/ \E h \in Client : StopReturns(h))
    /\ \A m \in Monitors :
          WF_vars(WatchMonitor(m)) /\ WF_vars(TimerFires(m)) /\ SF_vars(Fetch(m))
    /\ \A h \in Client : WF_vars(Callback(h) \/ SendPodLogs(h))
    /\ \A c \in ConfigMaps : WF_vars(WatchConfigMap(c))

Safe == Init /\ [][Next]_vars

Spec == Safe /\ Fairness
-----------------------------------------------------------------------------
(* A callback is at work only for the client that is registered for its monitor
   or that the worker is stopping: a monitor that is deleted and created again
   never has an old callback, with an old reference and an old gate, writing
   next to the new one (cleanupOpAMPClient stops before it forgets). *)
ClosedIsSilent == \A h \in Client : Busy(h) => Running(h)

(* The callbacks do not keep the worker from its work: next to overrides, log
   requests and changing ConfigMaps, a healthy monitor comes closer to being
   done as in module Reconciler, unless the process dies. *)
WorkComesCloser ==
    [][\A m \in Monitors :
          /\ R!Healthy(m)
          /\ \A h \in Client : ~Panics(h)
          /\ UNCHANGED <<edits, mishaps>>
          => /\ R!Distance(m)' <= R!Distance(m)
             /\ R!Served(m) /\ ~R!Done(m) => R!Distance(m)' < R!Distance(m)]_vars

(* The worker gets opampMu back: cleanupOpAMPClient waits under the mutex for
   callbacks that may be anywhere between a ConfigMap update and its answer, and
   none of them ever waits for the worker. *)
WorkerNotStuck == []<>(stopping = None)

(* The server loses its hold on a monitor that stays deleted: no client of it
   keeps running, whatever commands and log requests were under way and whatever
   process died. *)
DeletedIsSilent ==
    \A m \in Monitors :
        <>[](api[m] = None) =>
            <>[](\A h \in Client : h.monitor = m => ~Running(h) /\ ~Busy(h))
=============================================================================
