----------------------------- MODULE Emergency ------------------------------
(***************************************************************************)
(* Emergency overrides (OnEmergencyCmd and applyEmergencyConfig in         *)
(* operator/controllers/collectormonitor_controller.go): the server sends  *)
(* a configuration, the operator writes it into the ConfigMap of the       *)
(* monitor and restarts the workload, then answers.                        *)
(*                                                                         *)
(* Every OpAMP client runs its commands one after the other in a goroutine *)
(* of its own, next to the other clients, to a GitOps engine that restores *)
(* the ConfigMaps, and to an informer cache that may be behind:            *)
(*                                                                         *)
(*   Receive -> GetConfigMap -> UpdateConfigMap -> DiscoverWorkload        *)
(*           -> PatchWorkload -> SendEmergencyAck                          *)
(*                                                                         *)
(* What a client's callbacks captured (monitor.Spec, Status.ConfigMapRef)  *)
(* never changes while it runs (module Reconciler), so it is a constant.   *)
(* The text of a configuration is the command that brought it.             *)
(***************************************************************************)
EXTENDS Naturals, Sequences

CONSTANTS
    Clients,        \* OpAMP clients, one per CollectorMonitor
    ConfigMaps,
    Keys,           \* keys of a ConfigMap's data
    Workloads,
    Captured,       \* Captured[h]: what the callbacks of client h captured
    Mounts,         \* Mounts[w]: the ConfigMap the pods of workload w mount
    CanPatch,       \* may the operator's role patch workloads?
    None,           \* nil, "not found", "not set"
    Git,            \* the configuration text that Git holds
    MaxCommands,    \* commands the server sends (bounds the model)
    MaxFaults       \* budget of edits, failures and restarts (bounds the model)

ASSUME CapturedAssumption ==
    Captured \in [Clients -> [emergency : {"on", "off", "unset"}, cm : ConfigMaps,
                              key : Keys, workload : Workloads]]
ASSUME MountsAssumption == Mounts \in [Workloads -> ConfigMaps]
ASSUME CanPatchAssumption == CanPatch \in BOOLEAN
ASSUME BoundsAssumption == MaxCommands \in Nat /\ MaxFaults \in Nat

(* A command is known by its receiver and its number: no two carry the same
   text. *)
Command == [to : Clients, n : 1..MaxCommands]

Content == Command \cup {Git}

(* The data of a ConfigMap; None for a key it does not have. *)
Data == [Keys -> Content \cup {None}]

Ack == [cmd : Command, ok : BOOLEAN]

ASSUME SentinelAssumption == None \notin Content \cup Data \cup Workloads /\ Git \notin Command

(* What Git may hold of a ConfigMap. *)
FromGit == {[k \in Keys |-> Git], [k \in Keys |-> None]}

(* A ConfigMap without entries is decoded with a nil map. *)
IsNil(d) == \A k \in Keys : d[k] = None
-----------------------------------------------------------------------------
VARIABLES
    data,       \* data[c]: ConfigMap c in the API server, or None
    cached,     \* cached[c]: the informer's copy of it
    inSync,     \* the ConfigMaps whose cached copy is the latest version
    workloads,  \* the workloads that exist
    pods,       \* pods[w]: the ConfigMap data that w's pods have read
    stamped,    \* the workloads whose restart annotation names this second
    rolling,    \* the workloads whose pods are about to be replaced
    swallowed,  \* commands whose patch changed nothing, with no rollout left
                \* to read their text (history)
    inbox,      \* inbox[h]: commands on their way to client h
    sent,       \* number of commands sent
    pc,         \* pc[h]: what h's goroutine does next
    cmd,        \* cmd[h]: the command h is working on, or None
    copy,       \* copy[h]: applyEmergencyConfig's local ConfigMap data, or None
    fresh,      \* fresh[h]: is that copy based on the latest version?
    ok,         \* ok[h]: has applyEmergencyConfig succeeded?
    acks,       \* the answers the OpAMP client accepted
    refused,    \* the answers it returned an error for (history)
    lost,       \* commands being handled when the process died (history)
    faults      \* how much of the budget is used

cmVars == <<data, cached, inSync>>
podVars == <<workloads, pods, stamped, rolling, swallowed>>
serverVars == <<inbox, sent, acks, refused, lost>>
handlerVars == <<pc, cmd, copy, fresh, ok>>
vars == <<cmVars, podVars, serverVars, handlerVars, faults>>

ConfigMapsOK ==
    /\ data \in [ConfigMaps -> Data \cup {None}]
    /\ cached \in [ConfigMaps -> Data \cup {None}]
    /\ inSync \subseteq ConfigMaps

PodsOK ==
    /\ workloads \subseteq Workloads
    /\ pods \in [Workloads -> Data \cup {None}]
    /\ stamped \subseteq Workloads
    /\ rolling \subseteq Workloads
    /\ swallowed \subseteq Command

ServerOK ==
    /\ inbox \in [Clients -> Seq(Command)]
    /\ sent \in 0..MaxCommands
    /\ acks \subseteq Ack
    /\ refused \subseteq Ack
    /\ lost \subseteq Command

HandlersOK ==
    /\ pc \in [Clients -> {"idle", "get", "update", "discover", "patch", "ack"}]
    /\ cmd \in [Clients -> Command \cup {None}]
    /\ copy \in [Clients -> Data \cup {None}]
    /\ fresh \in [Clients -> BOOLEAN]
    /\ ok \in [Clients -> BOOLEAN]
    /\ \A h \in Clients : pc[h] = "idle" <=> cmd[h] = None
    /\ \A h \in Clients : cmd[h] # None => cmd[h].to = h

(* The types of the variables; a goroutine is idle exactly when it has no
   command, and the command it has was sent to it. *)
TypeOK ==
    /\ ConfigMapsOK /\ PodsOK /\ ServerOK /\ HandlersOK
    /\ faults \in 0..MaxFaults

(* ConfigMaps hold what Git holds or are still empty; the pods have read them. *)
Init ==
    /\ data \in [ConfigMaps -> FromGit]
    /\ cached = data
    /\ inSync = ConfigMaps
    /\ workloads = Workloads
    /\ pods = [w \in Workloads |-> data[Mounts[w]]]
    /\ stamped = {}
    /\ rolling = {}
    /\ swallowed = {}
    /\ inbox = [h \in Clients |-> <<>>]
    /\ sent = 0
    /\ acks = {}
    /\ refused = {}
    /\ pc = [h \in Clients |-> "idle"]
    /\ cmd = [h \in Clients |-> None]
    /\ copy = [h \in Clients |-> None]
    /\ fresh = [h \in Clients |-> FALSE]
    /\ ok = [h \in Clients |-> FALSE]
    /\ lost = {}
    /\ faults = 0

Spend ==
    /\ faults < MaxFaults
    /\ faults' = faults + 1
-----------------------------------------------------------------------------
(* The cluster *)

(* A write of ConfigMap c: the cache is behind and every copy read before is no
   longer based on the latest version. *)
WriteConfigMap(c, d) ==
    /\ data' = [data EXCEPT ![c] = d]
    /\ inSync' = inSync \ {c}
    /\ fresh' = [h \in Clients |-> fresh[h] /\ Captured[h].cm # c]
    /\ UNCHANGED cached

(* The GitOps engine (re)creates ConfigMap c as Git has it, undoing overrides;
   what Git has may be a ConfigMap without data. *)
GitSync(c) ==
    /\ Spend
    /\ \E d \in FromGit : data[c] # d /\ WriteConfigMap(c, d)
    /\ UNCHANGED <<podVars, serverVars, pc, cmd, copy, ok>>

DeleteConfigMap(c) ==
    /\ Spend
    /\ data[c] # None
    /\ WriteConfigMap(c, None)
    /\ UNCHANGED <<podVars, serverVars, pc, cmd, copy, ok>>

(* The informer catches up with ConfigMap c. *)
Watch(c) ==
    /\ c \notin inSync
    /\ cached' = [cached EXCEPT ![c] = data[c]]
    /\ inSync' = inSync \cup {c}
    /\ UNCHANGED <<data, podVars, serverVars, handlerVars, faults>>

DeleteWorkload(w) ==
    /\ Spend
    /\ w \in workloads
    /\ workloads' = workloads \ {w}
    /\ rolling' = rolling \ {w}
    /\ UNCHANGED <<cmVars, pods, stamped, swallowed, serverVars, handlerVars>>

(* A new workload has no restart annotation; its pods are still to start. *)
CreateWorkload(w) ==
    /\ Spend
    /\ w \notin workloads
    /\ workloads' = workloads \cup {w}
    /\ pods' = [pods EXCEPT ![w] = None]
    /\ stamped' = stamped \ {w}
    /\ rolling' = rolling \cup {w}
    /\ UNCHANGED <<cmVars, swallowed, serverVars, handlerVars>>

(* The pods of w are replaced and read the ConfigMap they mount, possibly within
   the second in which the annotation was written. *)
Rollout(w) ==
    /\ w \in rolling
    /\ data[Mounts[w]] # None
    /\ pods' = [pods EXCEPT ![w] = data[Mounts[w]]]
    /\ rolling' = rolling \ {w}
    /\ UNCHANGED <<cmVars, workloads, stamped, swallowed, serverVars, handlerVars, faults>>

(* The next second begins. *)
Tick ==
    /\ stamped # {}
    /\ stamped' = {}
    /\ UNCHANGED <<cmVars, workloads, pods, rolling, swallowed, serverVars, handlerVars, faults>>
-----------------------------------------------------------------------------
(* The server and the connection *)

Send(h) ==
    /\ sent < MaxCommands
    /\ sent' = sent + 1
    /\ inbox' = [inbox EXCEPT ![h] = Append(@, [to |-> h, n |-> sent + 1])]
    /\ UNCHANGED <<cmVars, podVars, acks, refused, lost, handlerVars, faults>>

(* The connection breaks or the client is stopped; what was on its way to h is
   lost. *)
Disconnect(h) ==
    /\ inbox[h] # <<>>
    /\ inbox' = [inbox EXCEPT ![h] = <<>>]
    /\ UNCHANGED <<cmVars, podVars, sent, acks, refused, lost, handlerVars, faults>>

(* The process dies: every goroutine, every message and the cache are gone; the
   cluster is as it was. *)
Die ==
    /\ cached' = data
    /\ inSync' = ConfigMaps
    /\ inbox' = [h \in Clients |-> <<>>]
    /\ pc' = [h \in Clients |-> "idle"]
    /\ cmd' = [h \in Clients |-> None]
    /\ copy' = [h \in Clients |-> None]
    /\ fresh' = [h \in Clients |-> FALSE]
    /\ ok' = [h \in Clients |-> FALSE]
    /\ lost' = lost \cup {cmd[h] : h \in {g \in Clients : cmd[g] # None}}
    /\ UNCHANGED <<data, podVars, sent, acks, refused>>

Restart == Spend /\ Die
-----------------------------------------------------------------------------
(* The handler of client h *)

Goto(h, step) == pc' = [pc EXCEPT ![h] = step]

(* Mutant of Answer: an error returns from the callback without an answer. *)
AnswerSuccess(h, result) ==
    /\ Goto(h, IF result THEN "ack" ELSE "idle")
    /\ ok' = [ok EXCEPT ![h] = result]

(* applyEmergencyConfig returns, with an error unless result is TRUE. *)
Answer(h, result) ==
    /\ Goto(h, "ack")
    /\ ok' = [ok EXCEPT ![h] = result]

(* Mutant of GateOpen: the gate is not read. *)
GateAlwaysOpen(h) == TRUE

(* OnEmergencyCmd ignores a command only if the captured spec says false; an
   emergencyMode that is not given lets commands through. *)
GateOpen(h) == Captured[h].emergency # "off"

(* onMessage hands the next command to OnEmergencyCmd, which ignores it without
   an answer if the gate is closed. *)
Receive(h) ==
    /\ pc[h] = "idle"
    /\ inbox[h] # <<>>
    /\ inbox' = [inbox EXCEPT ![h] = Tail(@)]
    /\ \/ /\ GateOpen(h)
          /\ Goto(h, "get")
          /\ cmd' = [cmd EXCEPT ![h] = Head(inbox[h])]
       \/ /\ ~GateOpen(h)
          /\ UNCHANGED <<pc, cmd>>
    /\ UNCHANGED <<cmVars, podVars, sent, acks, refused, lost, copy, fresh, ok, faults>>

(* Mutant of WithOverride: a new map is made instead of assigning into the one
   that was read. *)
OverrideOnly(h, seen) ==
    [k \in Keys |-> IF k = Captured[h].key THEN cmd[h] ELSE None]

(* cm.Data[configKey] = newConfig, on the copy that was read. *)
WithOverride(h, seen) == [seen EXCEPT ![Captured[h].key] = cmd[h]]

(* Get reads the ConfigMap from the cache and the new text is put under the
   captured key.  Assigning into a nil map panics, which ends the process. *)
GetConfigMap(h) ==
    LET c == Captured[h].cm
        seen == cached[c]
    IN  /\ pc[h] = "get"
        /\ \/ /\ seen = None
              /\ Answer(h, FALSE)
              /\ UNCHANGED <<cmVars, inbox, lost, cmd, copy, fresh>>
           \/ /\ seen # None
              /\ IsNil(seen)
              /\ Die
           \/ /\ seen # None
              /\ ~IsNil(seen)
              /\ copy' = [copy EXCEPT ![h] = WithOverride(h, seen)]
              /\ fresh' = [fresh EXCEPT ![h] = c \in inSync]
              /\ Goto(h, "update")
              /\ UNCHANGED <<cmVars, inbox, lost, cmd, ok>>
        /\ UNCHANGED <<podVars, sent, acks, refused, faults>>

(* The API server accepts an update of h's copy: it is based on the latest
   version. *)
Accepted(h) == fresh[h]

(* Mutant of AfterUpdate: the error of the restart is not returned, so the
   command is answered as soon as the ConfigMap is written. *)
AfterUpdateAnswer(h) == Answer(h, TRUE)

(* The ConfigMap is written; the restart comes next. *)
AfterUpdate(h) ==
    /\ Goto(h, "discover")
    /\ UNCHANGED ok

(* Update: the whole copy replaces the ConfigMap, or a conflict or NotFound is
   answered. *)
UpdateConfigMap(h) ==
    /\ pc[h] = "update"
    /\ \/ /\ Accepted(h)
          /\ WriteConfigMap(Captured[h].cm, copy[h])
          /\ AfterUpdate(h)
       \/ /\ ~Accepted(h)
          /\ Answer(h, FALSE)
          /\ UNCHANGED <<cmVars, fresh>>
    /\ UNCHANGED <<podVars, serverVars, cmd, copy, faults>>

(* The update is done, but its answer is lost and the call returns an error. *)
UpdateTimesOut(h) ==
    /\ Spend
    /\ pc[h] = "update"
    /\ Accepted(h)
    /\ WriteConfigMap(Captured[h].cm, copy[h])
    /\ Answer(h, FALSE)
    /\ UNCHANGED <<podVars, serverVars, cmd, copy>>

(* discoverWorkload, for the workload of the captured selector. *)
DiscoverWorkload(h) ==
    /\ pc[h] = "discover"
    /\ IF Captured[h].workload \in workloads
       THEN Goto(h, "patch") /\ UNCHANGED ok
       ELSE Answer(h, FALSE)
    /\ UNCHANGED <<cmVars, podVars, serverVars, cmd, copy, fresh, faults>>

(* Mutant of Annotate: the annotation is set and no rollout follows. *)
AnnotateOnly(h) ==
    /\ stamped' = stamped \cup {Captured[h].workload}
    /\ UNCHANGED <<rolling, swallowed>>

(* restartedAt has a resolution of one second.  A new value begins a rollout;
   the value it already has changes nothing, and if the rollout it began is over
   none is left to read the text of the command. *)
Annotate(h) ==
    LET w == Captured[h].workload
    IN  /\ stamped' = stamped \cup {w}
        /\ rolling' = IF w \in stamped THEN rolling ELSE rolling \cup {w}
        /\ swallowed' = IF w \in stamped \ rolling THEN swallowed \cup {cmd[h]} ELSE swallowed

(* Patch fails if the role has no patch verb or the workload is gone. *)
PatchWorkload(h) ==
    /\ pc[h] = "patch"
    /\ IF CanPatch /\ Captured[h].workload \in workloads
       THEN Annotate(h) /\ Answer(h, TRUE)
       ELSE UNCHANGED <<stamped, rolling, swallowed>> /\ Answer(h, FALSE)
    /\ UNCHANGED <<cmVars, workloads, pods, serverVars, cmd, copy, fresh, faults>>

(* An API call of the handler (Get, Update, a List of discoverWorkload, Patch)
   fails for a reason of its own. *)
CallFails(h) ==
    /\ Spend
    /\ pc[h] \in {"get", "update", "discover", "patch"}
    /\ Answer(h, FALSE)
    /\ UNCHANGED <<cmVars, podVars, serverVars, cmd, copy, fresh>>

(* Mutant of AckOf: only successes are reported. *)
AckOfSuccess(h) == IF ok[h] THEN {[cmd |-> cmd[h], ok |-> TRUE]} ELSE {}

(* Mutant of AckOf: no return after the error has been answered. *)
AckOfBoth(h) == {[cmd |-> cmd[h], ok |-> ok[h]], [cmd |-> cmd[h], ok |-> TRUE]}

AckOf(h) == {[cmd |-> cmd[h], ok |-> ok[h]]}

(* SendEmergencyAck returns the error of SendCustomMessage (client.go 217), which
   both its callers drop (controller 304, 306): whether the answer was accepted
   or refused, the callback returns and nothing is tried again. *)
SendEmergencyAck(h) ==
    /\ pc[h] = "ack"
    /\ \/ acks' = acks \cup AckOf(h) /\ UNCHANGED refused
       \/ refused' = refused \cup AckOf(h) /\ UNCHANGED acks
    /\ Goto(h, "idle")
    /\ cmd' = [cmd EXCEPT ![h] = None]
    /\ copy' = [copy EXCEPT ![h] = None]
    /\ fresh' = [fresh EXCEPT ![h] = FALSE]
    /\ ok' = [ok EXCEPT ![h] = FALSE]
    /\ UNCHANGED <<cmVars, podVars, inbox, sent, lost, faults>>
-----------------------------------------------------------------------------
Handler(h) ==
    \/ Receive(h) \/ GetConfigMap(h) \/ UpdateConfigMap(h) \/ DiscoverWorkload(h)
    \/ PatchWorkload(h) \/ SendEmergencyAck(h)

Cluster ==
    \/ \E c \in ConfigMaps : GitSync(c) \/ DeleteConfigMap(c) \/ Watch(c)
    \/ \E w \in Workloads : DeleteWorkload(w) \/ CreateWorkload(w) \/ Rollout(w)
    \/ Tick

Next ==
    \/ \E h \in Clients : Handler(h)
    \/ \E h \in Clients : Send(h) \/ Disconnect(h) \/ UpdateTimesOut(h) \/ CallFails(h)
    \/ Cluster
    \/ Restart

(* A goroutine goes on, a watch delivers, time passes, Kubernetes rolls out.
   The server need not send and nothing need fail. *)
Fairness ==
    /\ \A h \in Clients : WF_vars(Handler(h))
    /\ \A c \in ConfigMaps : WF_vars(Watch(c))
    /\ \A w \in Workloads : WF_vars(Rollout(w))
    /\ WF_vars(Tick)

(* Safe is the part of the specification that says what a step may do. *)
Safe == Init /\ [][Next]_vars

Spec == Safe /\ Fairness
-----------------------------------------------------------------------------
(* Safety *)

(* What the handler answered, accepted by the OpAMP client or not. *)
Answers == acks \cup refused

(* The text of command i is somewhere in ConfigMap c. *)
Contains(c, i) == data[c] # None /\ \E k \in Keys : data[c][k] = i

(* It is where the command puts it. *)
Holds(c, i) == data[c] # None /\ data[c][Captured[i.to].key] = i

(* The workload of the command's client exists and mounts its ConfigMap. *)
Runs(i) ==
    LET w == Captured[i.to].workload
    IN  w \in workloads /\ Mounts[w] = Captured[i.to].cm

(* The pods of its workload have read the text of command i. *)
RunsText(i) ==
    LET w == Captured[i.to].workload
    IN  pods[w] # None /\ pods[w][Captured[i.to].key] = i

(* An override changes the captured key and nothing else: Update sends the whole
   ConfigMap, so a write by GitOps or by another handler since the (possibly
   stale) read would be undone if the API server let it through; and it never
   brings a deleted ConfigMap back. *)
NoLostUpdate ==
    [][\A h \in Clients :
          LET c == Captured[h].cm
          IN  pc[h] = "update" /\ pc'[h] # "update" /\ data'[c] # data[c] =>
                  /\ data[c] # None
                  /\ \A k \in Keys \ {Captured[h].key} : data'[c][k] = data[c][k]]_vars

(* A command whose answer is success is running or about to, unless its patch fell
   into the second of a rollout that was already over: as long as its text is in
   the ConfigMap, the pods of the workload have read it or are to be replaced.
   Conflicts, failures, deletions, a restart in the same second whose rollout is
   still to come, and a crash at any step do not make the answer a lie. *)
AckedConfigReachesPods ==
    \A a \in Answers :
        LET i == a.cmd
        IN  a.ok /\ i \notin swallowed /\ Holds(Captured[i.to].cm, i) /\ Runs(i) =>
                Captured[i.to].workload \in rolling \/ RunsText(i)

(* A client that captured emergencyMode.enabled = false never writes: no text
   sent to it is found in a ConfigMap, nor is one of its commands answered. *)
ReadOnlyWhenOff ==
    \A h \in Clients :
        Captured[h].emergency = "off" =>
            \A i \in Command :
                i.to = h => /\ \A c \in ConfigMaps : ~Contains(c, i)
                            /\ \A a \in Answers : a.cmd # i

(* A command has one outcome: it is never answered twice, not even when the first
   answer was refused; and one that was answered, or lost when the process died,
   is not being handled any more, so that the server can take an answer for
   final.  (EveryCommandEnds says that there is an outcome.) *)
OneOutcome ==
    /\ acks \cap refused = {}
    /\ \A a, b \in Answers : a.cmd = b.cmd => a = b
    /\ \A a \in Answers : a.cmd \notin lost /\ cmd[a.cmd.to] # a.cmd
    /\ \A i \in lost : cmd[i.to] # i

(* How far the command that client h handles has come. *)
StageOf(h) ==
    CASE pc[h] \in {"get", "update"}     -> "open"
      [] pc[h] \in {"discover", "patch"} -> "written"
      [] pc[h] = "ack"                   -> IF ok[h] THEN "restarted" ELSE "failed"

(* What became of a command that nobody handles. *)
Outcome(i) ==
    IF i \in lost THEN "lost"
    ELSE IF [cmd |-> i, ok |-> TRUE] \in acks THEN "success"
    ELSE IF [cmd |-> i, ok |-> FALSE] \in acks THEN "error"
    ELSE IF \E a \in refused : a.cmd = i THEN "unanswered"
    ELSE "new"

Stage(i) == IF cmd[i.to] = i THEN StageOf(i.to) ELSE Outcome(i)

Atomic == INSTANCE AtomicOverrides
    WITH Commands <- Command,
         Target <- [i \in Command |-> Captured[i.to]],
         stage <- [i \in Command |-> Stage(i)]

(* The handler keeps the promise of AtomicOverrides: reading through a cache
   that may be behind, changing a copy and writing it back whole amounts to an
   override of one key in one step, and an answer tells what was done. *)
ImplementsOverrides == Atomic!Spec

(* Liveness *)

(* A command that was let through ends: it is answered with success or with an
   error, its answer is refused by the OpAMP client, or the process dies while it
   is handled.  There is no fourth way, such as a callback that returns without
   an answer or a command that goes on for ever. *)
EveryCommandEnds ==
    \A i \in Command : cmd[i.to] = i ~> (i \in lost \/ \E a \in Answers : a.cmd = i)
-----------------------------------------------------------------------------
(* Statements of the documentation that the code does not satisfy *)

(* docs/operator-installation-guide.md: after a command the operator patches the
   ConfigMap, adds the annotation, and Kubernetes performs a rolling restart.
   Without any fault, a text that is in the ConfigMap comes to run. *)
WrittenConfigRuns ==
    \A i \in Command :
        Holds(Captured[i.to].cm, i) /\ Runs(i) ~>
            RunsText(i) \/ ~Holds(Captured[i.to].cm, i) \/ ~Runs(i)

(* applyEmergencyConfig "patches the ConfigMap and triggers a rolling restart".
   Whatever is answered with success has been read by the pods, or they are to be
   replaced, as long as its text is in the ConfigMap: no success is swallowed. *)
SuccessRestarts ==
    \A a \in acks :
        LET i == a.cmd
        IN  a.ok /\ Holds(Captured[i.to].cm, i) /\ Runs(i) =>
                Captured[i.to].workload \in rolling \/ RunsText(i)

(* applyEmergencyConfig "patches the ConfigMap and triggers a rolling restart".
   Without any fault, no command ends the process that handles it. *)
NothingLost == faults = 0 => lost = {}

(* docs/operator-installation-guide.md: "Direct ConfigMap patches only when
   emergencyMode.enabled: true". *)
OptIn ==
    \A c \in ConfigMaps : \A k \in Keys :
        data[c] # None /\ data[c][k] \in Command => Captured[data[c][k].to].emergency = "on"
=============================================================================
