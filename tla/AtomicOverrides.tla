-------------------------- MODULE AtomicOverrides ---------------------------
(***************************************************************************)
(* What applying an emergency override promises, with the way it is done   *)
(* left out: no cache, no copy, no conflict, no role, no workload.         *)
(*                                                                         *)
(*   - a command changes a ConfigMap at most once, in one step, under one  *)
(*     key, while it is being handled, and never creates a ConfigMap;      *)
(*   - it is answered at most once, with success only after the text was   *)
(*     written and then the restart requested, in this order (ctl:         *)
(*     "applyEmergencyConfig patches the ConfigMap and triggers a rolling  *)
(*     restart");                                                          *)
(*   - otherwise it is answered with an error, whether its text was        *)
(*     written or not, or forgotten because the process died;              *)
(*   - an answer, with success or with an error, may be refused and is     *)
(*     then not given again.                                               *)
(***************************************************************************)
EXTENDS Naturals

CONSTANTS
    Commands,       \* the commands the server may send; a text is its command
    ConfigMaps,
    Keys,
    Target,         \* Target[i]: the ConfigMap (.cm) and key (.key) i is for
    Git,            \* the text that Git holds
    None            \* no ConfigMap, no entry

VARIABLES
    data,           \* data[c]: the data of ConfigMap c, or None
    stage           \* stage[i]: how far command i has come

vars == <<data, stage>>

(* The stages between the moment a command is taken up and its answer. *)
Handled == {"open", "written", "restarted", "failed"}

(* What Git may hold of a ConfigMap: its text, or no data. *)
FromGit == {[k \in Keys |-> Git], [k \in Keys |-> None]}

Init ==
    /\ data \in [ConfigMaps -> FromGit]
    /\ stage = [i \in Commands |-> "new"]

Advance(i, from, to) ==
    /\ stage[i] \in from
    /\ stage' = [stage EXCEPT ![i] = to]

Begin(i) == Advance(i, {"new"}, "open") /\ UNCHANGED data

(* The override: one key of a ConfigMap that exists.  The handler may not learn
   that it was done. *)
Write(i) ==
    LET c == Target[i].cm
    IN  /\ data[c] # None
        /\ data' = [data EXCEPT ![c] = [@ EXCEPT ![Target[i].key] = i]]
        /\ Advance(i, {"open"}, "written") \/ Advance(i, {"open"}, "failed")

RequestRestart(i) == Advance(i, {"written"}, "restarted") /\ UNCHANGED data

Fail(i) == Advance(i, {"open", "written"}, "failed") /\ UNCHANGED data

Answer(i) ==
    /\ \/ Advance(i, {"restarted"}, "success")
       \/ Advance(i, {"failed"}, "error")
       \/ Advance(i, {"restarted", "failed"}, "unanswered")
    /\ UNCHANGED data

(* The process dies with all it was handling. *)
Die ==
    /\ stage' = [i \in Commands |-> IF stage[i] \in Handled THEN "lost" ELSE stage[i]]
    /\ UNCHANGED data

(* Others (re)create a ConfigMap as Git has it, or delete it. *)
External(c) ==
    /\ \E d \in FromGit \cup {None} : data' = [data EXCEPT ![c] = d]
    /\ UNCHANGED stage

Next ==
    \/ \E i \in Commands :
          Begin(i) \/ Write(i) \/ RequestRestart(i) \/ Fail(i) \/ Answer(i)
    \/ Die
    \/ \E c \in ConfigMaps : External(c)

Spec == Init /\ [][Next]_vars
=============================================================================
