# A formal model of the CollectorCtrl Kubernetes operator

TLA+ specifications of the operator in `operator/`, `pkg/` and `cmd/`, TLC runs
that check them on small instances, and TLAPS proofs of what holds for every
instance. Paths below are relative to the repository; *ctl* is
`operator/controllers/collectormonitor_controller.go`, *opamp* is
`pkg/opamp/client.go`, *types* is `operator/api/v1alpha1/collectormonitor_types.go`,
*git* is `pkg/git/client.go`, *val* is `internal/validator/otel.go`.
`PROJECT.json` maps every definition to the lines it stands for and lists runs,
mutants, hazards, findings and theorems.

## 1. The system

| Part | State | Operations | Talks to |
|---|---|---|---|
| Reconcile loop (ctl 67-132) | none between two calls; one local copy of the CollectorMonitor during a call | `Reconcile`, `setCondition`, `mapConfigMapToMonitors` | informer cache (reads), API server (status), the registry, the OpAMP clients |
| Client registry (ctl 44-49) | `opampClients`, `opampStarted`, under `opampMu` | `ensureOpAMPConnection`, `cleanupOpAMPClient` | secrets, OpAMP client wrapper |
| Emergency handler (ctl 295-308, 331-381) | none of its own; what the callback captured | `OnEmergencyCmd`, `applyEmergencyConfig` | cache, API server, workloads, the server |
| Fleet report (ctl 134-215, 383-477) | none | `discoverWorkload`, `discoverConfigMap`, `reportFleetHealth` | caches, the client |
| Drift check (ctl 479-527) | none; records events | `detectDrift` | caches |
| OpAMP client wrapper (opamp) | `connected`, `effectiveConfig`, what opamp-go keeps for it | `Start`, `Stop`, `SetHealth`, `SetEffectiveConfig`, `SendEmergencyAck`, `onMessage` | opamp-go, the server |
| Pod logs (ctl 310-320, 617-638) | none | `getPodLogs`, `SendPodLogs` | API server, the server |
| CollectorMonitor resource (types) | spec, status | `DeepCopyInto` | everything above |
| Git synchronisation (git 130-193) | none; branches and pull requests are the provider's, whose implementations are stubs | `ProposeChange`, `EmergencySync.Apply` | the provider interface `Client`; called by the server |
| Validator (val) | the registry of known components | `Validate`, `validatePipeline` | called by the server |
| Process and packaging (`cmd/operator`, `deploy/`, `helm-charts/`) | flags, role, CRD | start | - |

One worker calls Reconcile for one key at a time (controller-runtime's default).
Beside it every OpAMP client runs its callbacks in a goroutine of its own, the
informers change the cache, and the cluster changes under all of them. The hard
behaviours are therefore:

- **stale reads**: every Get and List is served by a cache; a callback keeps the
  monitor it was created with (`ctl:297`); a drift check combines a ConfigMap
  read at the beginning with pods listed at the end;
- **wake-ups**: only CollectorMonitors and ConfigMaps are watched, so each return
  path of Reconcile has to leave the key queued or timed;
- **deletion and re-creation**, which a watch may show as one update;
- **optimistic locking**: status and ConfigMaps are written back from old reads;
- **partial failure**: the ConfigMap is written, then the restart fails;
- **crashes** at any step, which lose the registry, the queue and every command
  under way, and broken connections, which lose messages;
- **callbacks that outlive**: the worker stops a client, `opampMu` held, while a
  callback of it is anywhere between two API calls (ctl:605-615), and a panic in a
  callback takes the worker along;
- **two-step effects elsewhere**: a commit and its pull request (git:180, 192) can
  succeed one by one, and branch names are unique only by the second (git:169).

What makes the parts correct: one connection per monitor, none for a deleted one;
no monitor forgotten; no status of an old spec; no lost update in a ConfigMap; a
successful answer that is true; no write when emergency mode is off; a server that
comes to know the fleet as it is; no callback of a client that was stopped, and a
stop that always ends; a validation that names every structural error and nothing
else; no change on the base branch that was not merged or meant to go there
directly, and no commit left alone without an error.

## 2. The modules

### FleetConnections (abstract)
What the operator promises about connections: `open[m]` is 0 or 1, and a monitor
that stays deleted is disconnected in the end. Nothing about queues or caches.

### Reconciler
The control loop with its queue, cache, API objects and registry.

| Code | Model |
|---|---|
| `Reconcile` | `Fetch`, `DiscoverWorkload`, `DiscoverConfigMap`, `EnsureOpAMPConnection`, `UpdateStatus`: one step per call that reads or writes shared state; `req` and `monitor` are the key and the local copy |
| error returns | `FetchFails`, `StartFails`, `UpdateFails`, and the second disjuncts of the steps |
| `RequeueAfter`, returned errors | `ReturnAndRequeue`: the key goes to `timers`, `TimerFires` queues it |
| watches, `mapConfigMapToMonitors` | `Watch`, `ConfigMapEvent` |
| `opampClients`, `opampStarted` | `clients` (what the callbacks captured), `started`; `sockets` counts the connections that run |
| resource versions | `inSync` (cache has the latest) and `latest` (the copy is the latest) |
| `setCondition` | `SetCondition`; the time stamp is a bit that flips |
| process | `Init`, `Restart` |

The secret is reduced to "can be read or not", a selector to "matches or not".

### Emergency
Several clients receive commands at once. `Receive` (gate), `GetConfigMap` (cache
read and the assignment into `Data`, which panics on a nil map: `Die`),
`UpdateConfigMap` (accepted only if the copy is based on the latest version),
`DiscoverWorkload`, `PatchWorkload` (role, restart annotation with a resolution of
one second: `stamped`, `Tick`), `SendEmergencyAck`. `UpdateTimesOut` is an update
that succeeds and reports an error. Around them: `GitSync`, `DeleteConfigMap`,
workloads that come and go, `Rollout` (pods restart and read what they mount, at
once or later), `Disconnect`, `Restart`. A patch that writes the value the
annotation already has begins no rollout; a command whose patch did so after the
pods were replaced is kept in `swallowed`. The OpAMP client accepts an answer
(`acks`) or refuses it (`refused`), and the handler drops the difference. What a
callback captured is a constant `Captured`, because in Reconciler it never changes
while the client runs; Operator shows that this is sound.

### AtomicOverrides (abstract)
What an override promises: one command writes one key of an existing ConfigMap, at
most once and in one step; success is answered only after the text was written and
then the restart requested; everything else is answered with an error, refused by
the OpAMP client or dies with the process. No cache, no conflict, no workload.
Emergency implements it: `ImplementsOverrides` maps the steps of a callback to the
`stage` of its command.

### Operator
The process: one instance of Reconciler and one of Emergency over their own
variables, and two more, `stopping` and `logs`. A client of Emergency is here a
record of what the registry captured (`Client`), so a monitor created again with
another spec is another client.

| Code | Model |
|---|---|
| Reconcile up to NotFound, `cleanupOpAMPClient` | `Fetch`: the registry forgets the client and `stopping` holds it, `opampMu` held, until `StopReturns`; the worker does nothing else |
| the rest of Reconcile | `Work`, `WorkFails` |
| `OnEmergencyCmd`, one message at a time | `Callback`, `CallbackFails`; `MayReceive` |
| the client a new message can still reach | `Listening`: registered, not one that is being stopped (an assumption on opamp-go, section 6) |
| `OnFetchLogs`, `getPodLogs`, `SendPodLogs` | `FetchLogs`, `SendPodLogs` |
| a panic in a callback | `Panics`: the same step is `ProcessStarts` |
| ConfigMap watch | `WatchConfigMap`: an override wakes the monitors of its ConfigMap |
| `main` | `ProcessStarts`, `Restart` |

The code removes the client from the map after `Stop()` has returned, the model
before; the mutex is held from the one to the other, so nobody can see the
difference.

### Validator
`Validate` loop by loop: `Parse`, `CheckSection`, `EnterPipeline`, `CheckStage`,
`CheckItem`, `CheckComponents`. The sections and the pipelines are ranges over Go maps
and are picked in any order. A document is a record of what the type assertions can
tell of it; `NotOne` stands for a value of another type. `ErrorsOf` says without
loops what is wrong with a document.

### GitSync
`ProposeChange` as `Propose` (the name of the branch), `CreateCommit`,
`CreatePullRequest`, and `Apply`, for several changes at once. Every provider call
may fail, before or after its effect (`Fails`). `Merge` is somebody else.

### ConfigChange
Validator and GitSync side by side for several changes: `Submit`, `Validating` and
`Decide` for a call of `Validate`, `Sync` and `Syncing` for the Git calls, and `Push`
for the emergency message, which `ConfigurationOf` takes apart as `onMessage` does.
`README.md:52` promises "Pre-flight OTel config validation before Git commit", but
the server that would make these calls in that order is not in the repository, and
neither `ProposeChange` nor `Apply` nor the operator calls `Validate`. So nothing is
held back here: a change is proposed and a text sent whatever the validator says. To
bound the model a change is validated once and before its other calls; the calls
share no state.

### FleetReport
One monitor is reconciled again and again: `DiscoverWorkload` (first match of the
first kind that has one), `DiscoverConfigMap`, `EnsureOpAMPConnection`,
`ReportHealth` (pods, aggregate, `SetHealth`), `ReportConfig`
(`SetEffectiveConfig`), `DetectDrift`, and their error returns `ReportFails`,
`ReportConfigFails`, `DriftFails`. The report takes the pods that the workload's
selector matches (`Owner`), the drift check those that the monitor's `matchLabels`
match (`Labelled`, `Selected`, `Candidates`); nothing makes the two agree. The client
keeps `health` and `effective`; `announced` is the configuration that opamp-go was
given, which is not `effective` when announcing it has failed;
`dirty` is what opamp-go has still to send; `Connect` makes everything dirty again,
as the first message of a connection holds the full state; `Deliver` updates `told`.

### MCReconciler, MCEmergency, MCFleetReport, MCOperator, MCConfigChange
Constants for TLC. Operators whose name starts like the one they follow
(`ReturnOnly`, `OverrideOnly`, `SetHealthQuiet`, ...) are the mutants that show
that a property can fail; nothing in a specification uses them.

### The modules whose name ends with Proofs
See section 5.

## 3. The runs

| Run | Instance | Question |
|---|---|---|
| ReconcilerTwoMonitors | 2 monitors, 1 ConfigMap, 2 faults | Do two monitors that share worker, queue and ConfigMap disturb each other? `OneClientPerMonitor`, `NeverForgotten`, `ComesCloser`, `EventuallyActive` |
| ReconcilerOneMonitor | 1 monitor, 2 ConfigMaps, 3 faults | Does the loop follow a changing spec, forget a deleted monitor and come to rest? `TypeOK`, `StatusMatchesSpec`, `SettledStays`, `DeletedComesCloser`, `EventuallyActive`, `StatusSettles`, `ImplementsConnections` (refinement of FleetConnections, liveness included) |
| EmergencyOverrides | 3 clients of 1 ConfigMap and 1 workload, two keys, the third client with emergency mode off; 2 commands, 2 faults | Do overrides undo each other, or GitOps, or a deletion? Is every answer true, with two restarts within one second or not? `TypeOK`, `AckedConfigReachesPods`, `NoLostUpdate`, `ReadOnlyWhenOff`, `OneOutcome`, `ImplementsOverrides` (refinement of AtomicOverrides), `EveryCommandEnds` |
| FleetReportServer | DaemonSet with 2 pods, one of them with the monitor's labels; Deployment with 1 pod that has them, too; 2 faults | Does the server come to know pods and configuration across stale caches, lost connections and restarts? `TypeOK`, `ServerKnows`, `ComesCloser`, `AlarmComesRight`, `ServerUpToDate`, `DriftSettles` |
| OperatorOneMonitor | 1 monitor, created with emergency mode on or off, 1 ConfigMap, 1 workload, 1 command and any number of log requests, the role of `deploy/rbac.yaml`; 2 faults of which at most 1 outside the worker | What happens between a stop and a callback? `TypeOK`, `ClosedIsSilent`, `WorkComesCloser`, `WorkerNotStuck`, `DeletedIsSilent` |
| ConfigChanges | 3 changes, one an emergency; 30 documents with every kind of structural error; 2 seconds, 2 provider errors | Is the validation exact, is what Git holds explained by the answers, and what the operator is handed by the message? `TypeOK`, `ResultIsExact`, `ReceivedIsSent`, `ProposalShowsItsChange`, `BaseIsReviewed`, `OrphansAreReported` |

Six more runs show where a document and the code disagree; TLC finds each
violated.

| Run | Document | Code |
|---|---|---|
| ReconcilerGateFollowsSpec | types 46-47: "When disabled, the Operator is read-only" | the gate reads the monitor captured at connection time; disabling has no effect until a restart |
| EmergencyShippedRole | `docs/operator-installation-guide.md:586-588`: ConfigMap, annotation, rolling restart | the role of `deploy/rbac.yaml` has no `patch` on workloads: the ConfigMap is overwritten and nothing restarts |
| EmergencyEmptyConfigMap | ctl:331 "patches the ConfigMap and triggers a rolling restart" | a ConfigMap without data panics the process |
| EmergencyOptIn | `docs/operator-installation-guide.md:60`: "only when `emergencyMode.enabled: true`" | an absent `emergencyMode` lets commands through |
| EmergencySameSecond | ctl:331 "patches the ConfigMap and triggers a rolling restart" | `restartedAt` names the second: the second command of a second may restart nothing and is answered with success |
| GitUniqueBranches | git:168 "Generate a unique branch name" | the branch is named after the second |

**Bounds.** `MaxFaults` is one budget for edits, deletions, failures,
disconnections and restarts (disconnections and refused answers are free in
Emergency); without a fault a system only runs towards its goal.
Two or three faults are enough for every combination the hazards name: edit and
conflict, delete and re-create, crash and failed retry, GitOps write between read
and update, change and broken connection. `MaxCommands` is 2 with several handlers,
so that two work at once or one gets a second command. Two monitors, clients or
workloads are the least that interact. Every liveness property has to hold once the
budget is used up, which is when a real cluster is quiet for a while.

Operator has a budget for its worker (`MaxEdits`, 2) and one for the rest
(`MaxMishaps`, 1) with a joint one of 2: create, delete and create again with a
command under way is the longest story a single client can be in, and a panic or a
restart fits into it. One monitor is enough for `stopping`, because the worker stops
one client at a time and the others then only wait; what two monitors do to one
registry is ReconcilerTwoMonitors' question, and the proofs below hold for any
number. The run has the role that `deploy/rbac.yaml` ships, with which every restart
is refused; what follows a restart is EmergencyOverrides' question and does not
touch the worker.

ConfigChange bounds the clock (`MaxSeconds`, 1: two proposals in the same or in
different seconds), provider errors (`MaxErrors`, 2: both calls of one change, or of
two) and items of a stage (2: one before an error and one behind it). `AllDocuments`
has every choice of required sections, every combination of stages that are lists,
empty, absent or hold a bad item first or last, and two pipelines in either order
with one or both broken.

The passing runs have between 45,000 and 1 million states. `CHECK_DEADLOCK FALSE` is set
because a system without monitors, with all commands answered, or with all changes
made, does stop.

**Fairness.**
- Reconciler: the worker goes on inside a Reconcile (WF of `Step`); watches deliver
  and timers fire (WF): the informer and the delaying queue promise this; a queued
  key is taken (SF of `Fetch`): the workqueue is a FIFO with one worker, so a key is
  taken although the worker is busy again and again in between. Nothing need be
  edited, fail or restart.
- Emergency: the goroutine of a client goes on, caches catch up, time passes,
  Kubernetes rolls out what is rolling. The server need not send.
- Operator: as these two, for the composed steps: the worker goes on, in Reconcile
  or in `Stop()` (never both at once, so one WF covers them), and so does the
  goroutine of a client; the callback that reads pod logs ends (`SendPodLogs`: the
  last hundred lines, not followed, ctl:622-625), and `Stop()` returns once no
  callback is at work (`StopReturns`).
- ConfigChange: none; its properties are about safety.
- FleetReport: the worker goes on and is woken again, which is `NeverForgotten` and
  the 60s timer of Reconciler; caches catch up; opamp-go reconnects and sends.

## 4. Findings
The six disagreements above, with sources, are in `PROJECT.json`. Four of them are
behaviours an operator of the system would meet: a switch that does not switch, an
override that half happens, a process that ends, a success that restarts nothing.

Two more disagreements are plain in the code and have no run:
- `deploy/README.md:118` lists the conditions `Discovered`, `OpAMPConnected` and
  `ConfigMapResolved` in `.status`. The failing paths of Reconcile set them in the
  local copy and return before `Status().Update` (ctl:85-87 and on); no path sets
  them otherwise, so no status ever holds them.
- types:71-72 says "all workloads matching MatchLabels and Kind are monitored";
  `discoverWorkload` returns the first one (ctl:145), and the pods of the others are
  never reported.

Limits that the properties name:
- an override answered with success whose patch was swallowed (`swallowed`) is
  exempt from `AckedConfigReachesPods`; `SuccessRestarts` is the claim without the
  exemption, and is violated;
- an answer that the OpAMP client refuses is never repeated, so `EveryCommandEnds`
  counts it as an end (opamp:208-217; ctl:304, 306 drop the error);
- `ProposalShowsItsChange` and `BaseIsReviewed` promise a proposal of the same
  branch, which is another's if two began in one second (`UniqueBranches`);
- a configuration of several YAML documents sent without a reason loses the first
  (`ReceivedIsSent`);
- a monitor without `matchLabels`, or whose labels the pods of its workload do not
  carry, has no drift check (ctl:491-499), and a pod of another workload that carries
  them may be the one that is checked. `AlarmComesRight` and `DriftSettles` are about
  the pods that are `Candidates`.

## 5. What is proved

For every value of the constants that meets the `ASSUME`s: any sets of monitors,
ConfigMaps, clients, keys, workloads, any budget; `Pods` has to be finite.

**ReconcilerProofs.** `TypeOK`, `OneClientPerMonitor`, `NeverForgotten` and
`StatusMatchesSpec`, and that every behaviour is one of the safety part of
FleetConnections (`RefinesConnections`). The inductive invariant `IInv` adds to the
properties: a cached copy that is in sync equals the API object (`CacheFresh`), a
local copy that is the latest version agrees with it except for the status being
prepared (`CopyFresh`), and after `DiscoverConfigMap` the prepared reference is the
one of the spec (`RefResolved`). They are needed because `Accepted` speaks only
about versions: that the status written belongs to the spec follows from the copy
being fresh.

**Distances.** The prover cannot do fairness, but most of a liveness argument is
safety: a number that no step raises and that each step somebody waits for lowers.
Four action properties state it; runs check them, and each is a theorem:

| Property | What comes closer | Liveness it is the core of | Theorem |
|---|---|---|---|
| Reconciler's `ComesCloser` | a healthy monitor to being connected with the right status | `EventuallyActive` | `HealthyComesCloser` |
| `DeletedComesCloser` | a deleted monitor to having no connection | the liveness part of `ImplementsConnections` | `DeletedIsClosedInSteps` |
| FleetReport's `ComesCloser` | the server to the right report | `ServerUpToDate` | `ReportComesCloser` |
| `AlarmComesRight` | the drift alarm to being right | `DriftSettles` | `AlarmComesCloser` |

What the theorems leave to fairness is only that those steps are taken. They say more
than the liveness properties in one respect: how many steps are enough (ten, seven,
fifteen, fourteen), whatever else goes on
in between. `SettledStays` does the same for `StatusSettles`: the operator's own
write of a status never makes it write that status again (`SettledStatusStays`).
In Reconciler they need two more invariants: that the worker's copy is the latest
only while the cache is, that a lapsed one leaves its key queued and that the last
step comes after the connection is made (`LapInv`), and that the parts of the status
Reconcile has not touched are those of the API object (`CopyStatus`).

**EmergencyProofs.** `TypeOK`, `AckedConfigReachesPods`, `ReadOnlyWhenOff`,
`NoLostUpdate`, `OneOutcome` and `ImplementsOverrides`. An answer is about the past;
to keep it true `IInv` says that a command is handled once, so nobody writes its
text again (`Numbered`), that a copy that will be accepted differs from the
ConfigMap in the captured key only (`CopyFresh`), and that what has succeeded and is
not yet answered is already true (`Delivered`). That an answer is final
(`AnswersAreFinal`) needs that what was lost with the process is nowhere on its way
(`LostForGood`). The refinement of AtomicOverrides (`OverridesAreAtomic`) is proved
step by step: an accepted update is the step that writes one key, because the copy
is fresh; a conflict, a panic and a disconnection move no more than the stages of
the commands they hit. `AnswerComesCloser` is the distance of a command from its
end, the core of `EveryCommandEnds`: at most five steps of its own callback, which
nobody moves or sends back. Two theorems say where the documentation is right after
all: `OptIn` holds if every monitor gives `emergencyMode` (`OptInIfGiven`), and no
command panics if no ConfigMap is without data in the beginning and GitOps writes
none that is (`NoPanicIfFilled`; its invariant is that no override, stale copy or
deletion leaves one, nor a cached copy or a local one).

**FleetReportProofs.** `TypeOK`, whose type of reports says that a fleet is called
healthy only if it has pods and all are ready (by counting: `HealthOfType`), and
`ServerKnows`; the two together are inductive. On them rest the two distances above.

**OperatorProofs.** The composition rests on the two modules it is made of: Operator
instantiates their proof modules, so their step lemmas are facts about its own
variables. Every step of Operator is a step of Emergency or leaves its variables
alone (lemma `EmergencySafe`), which carries `AckedConfigReachesPods`,
`ReadOnlyWhenOff` (`AnswersAreTrue`), `OneOutcome`, `NoLostUpdate`,
`CommandComesCloser` and the refinement of AtomicOverrides (`OverridesAreAtomic`)
over. The worker is not a refinement of Reconciler, because it waits in `Stop()` and
a panic ends it; so the step lemmas of ReconcilerProofs apply action by action, a
panic being its `Boot`, and carry over what Reconciler promises: `WorkerIsSafe`,
`StatusFollowsSpec`, `RefinesConnections`, `SettledStatusStays`,
`DeletedIsClosedInSteps` and, as `WorkComesCloser`, `HealthyComesCloser`. `TypeOK`
and `ClosedIsSilent` need one more invariant, where the two parts meet (`Meet`): a
busy callback is registered or being stopped, the client being stopped is not
registered, and the worker is idle meanwhile.

**ValidatorProofs.** `ResultIsExact` for documents of any size. The invariant is an
account (`Account`, and `WarnAccount` for the warnings): the errors and the warnings
are exactly those of the sections, pipelines, stages and items that the loops have
come past; at the end that is the whole document.

**GitSyncProofs.** `ProposalShowsItsChange`, `BaseIsReviewed`, `OrphansAreReported` for
any number of changes, seconds and errors. The invariant says what a branch holds:
the commit of a call that is past its commit (`FilesAreCommitted`), and a committed
proposal is on its branch unless it shares the name (`CommittedIsThere`). For one
that does, the branch holds a proposal of its name (`ProposalIsThere`), and the base
branch one whose branch was merged (`BaseIsMerged`).

**ConfigChangeProofs.** `TypeOK` and `ReceivedIsSent`, for texts of any number of
documents: `ConfigurationOfMessage` computes what is left of a message, with a reason
and without. Every step is a step of the validator or of the Git synchronisation or
leaves both alone (`StepOfParts`), so `ResultIsExact` and the three properties of
GitSync hold here, too (`PartsAreCorrect`).

Each proof has one lemma per action. With this every invariant and every safety
property of the passing runs is a theorem. Only model-checked, because fairness and
ENABLED are out of the prover's reach: `EventuallyActive`,
`StatusSettles`, the liveness part of `ImplementsConnections`,
`EveryCommandEnds`, `ServerUpToDate`, `DriftSettles`,
`WorkerNotStuck`, `DeletedIsSilent`, and all statements that are violated.

## 6. Assumptions about the outside

- The API server keeps an optimistic lock: a write from a stale copy is refused.
- The pods of a rollout read the ConfigMap in one step, which may come within the
  second of the annotation or at any later time; a rollout that waits reads the
  latest text.
- GitOps writes a ConfigMap whole, and what Git holds may have no data.
- opamp-go sends its full state first on every connection and merges what is set
  between two messages; it calls the callbacks of one client one after the other.
- `Stop()` of opamp-go waits for the goroutine that calls the callbacks, and cancels
  nothing they do: they use the context of Reconcile, which ends with the process.
- opamp-go hands over no new message of a connection once `Stop()` has begun; what
  has come in before is still handled (`Listening`, `MayReceive`). ctl:605-615 only
  calls `Stop()`. `WorkerNotStuck` rests on it: a server that kept asking for logs
  could otherwise keep a stop waiting.
- The OpAMP client accepts or refuses an answer in `SendEmergencyAck`; whether an
  accepted one arrives is not modelled.
- The server submits a change once. It need not validate it, nor act on the result.
- A Git provider writes one file per commit, creates a branch that does not exist,
  and may fail before or after a call has taken effect; a second pull request for one
  branch may be accepted or refused.

## 7. Not modelled, and the plan

- The default key of `configMapKey` (ctl:203-215): a first match among three names,
  made again at every reconcile while the callbacks keep the first answer. Emergency,
  Operator and FleetReport take the key as given, as if the spec named it.
- Two monitors that find the same workload and so share an agent id (ctl:237), which
  only the server could tell.
- `connected` (opamp:105) and the update callback (ctl:289-293): nothing reads the
  one, and the other only logs.
- `DeepCopyInto` (types:209) shares pointers with the cache; nothing in the code
  changes what is shared, so no behaviour depends on it.
- The race on the captured monitor (ctl:126): the fields read keep their values.
- `pkg/git/stubs.go` and `pkg/api/types.go`: constructors that return an error, and
  declarations.
- Logging, metrics, flags, probes and leader election (off by default), the wording
  of messages and events, TLS, generated CRDs and charts except for the verbs and
  defaults the models use.

Next:
- the default key of `configMapKey`, so that the key a callback has captured can
  differ from the one the report reads;
- FleetReport as a third part of Operator, once its client is the one of the registry.
