-------------------------- MODULE FleetConnections --------------------------
(***************************************************************************)
(* What the operator promises about its connections to the server, with    *)
(* everything it does to keep the promise left out: a wanted               *)
(* CollectorMonitor is one that exists in the API, and open[m] counts the  *)
(* OpAMP connections that run on its behalf.                               *)
(*                                                                         *)
(*   - at most one connection runs per CollectorMonitor, whatever the      *)
(*     order in which it is created, edited, deleted and created again     *)
(*     (ctl: "opampClients holds one OpAMP client per CollectorMonitor     *)
(*     CR", "opampRunning prevents multiple connections for the same CR"); *)
(*   - the connection of a CollectorMonitor that stays deleted is closed.  *)
(*                                                                         *)
(* The operator works from a cached view, so it may still open the         *)
(* connection of a CollectorMonitor that has just been deleted; Live says  *)
(* it has to make up for that.                                             *)
(***************************************************************************)
EXTENDS Naturals

CONSTANT Monitors

VARIABLES
    wanted,     \* the CollectorMonitors that exist
    open        \* open[m]: OpAMP connections running for m

vars == <<wanted, open>>

Init ==
    /\ wanted \in SUBSET Monitors
    /\ open = [m \in Monitors |-> 0]

Want(m) ==
    /\ wanted' = wanted \cup {m}
    /\ UNCHANGED open

Unwant(m) ==
    /\ wanted' = wanted \ {m}
    /\ UNCHANGED open

Open(m) ==
    /\ open[m] = 0
    /\ open' = [open EXCEPT ![m] = 1]
    /\ UNCHANGED wanted

Close(m) ==
    /\ open[m] = 1
    /\ open' = [open EXCEPT ![m] = 0]
    /\ UNCHANGED wanted

(* The process dies and every connection with it. *)
Crash ==
    /\ open' = [m \in Monitors |-> 0]
    /\ UNCHANGED wanted

Next ==
    \/ \E m \in Monitors : Want(m) \/ Unwant(m) \/ Open(m) \/ Close(m)
    \/ Crash

(* Safe is the part of the promise that a step can break. *)
Safe == Init /\ [][Next]_vars

(* Live: no connection outlives its CollectorMonitor for ever. *)
Live == \A m \in Monitors : m \notin wanted ~> (open[m] = 0 \/ m \in wanted)

Spec == Safe /\ Live
=============================================================================
