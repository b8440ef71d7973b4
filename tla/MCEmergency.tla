---------------------------- MODULE MCEmergency -----------------------------
(* Instances of Emergency for TLC. *)
EXTENDS Emergency, TLC

CONSTANTS h1, h2, h3, c1, k1, k2, w1

(* A monitor alone. *)
Single == h1 :> [emergency |-> "on", cm |-> c1, key |-> k1, workload |-> w1]

(* A monitor whose spec has no emergencyMode. *)
Unset == h1 :> [Single[h1] EXCEPT !.emergency = "unset"]

(* Three monitors of one ConfigMap and one workload: the second keeps its
   configuration under a key of its own, the third has emergency mode switched
   off. *)
Overrides ==
    h1 :> Single[h1] @@
    h2 :> [Single[h1] EXCEPT !.key = k2] @@
    h3 :> [Single[h1] EXCEPT !.emergency = "off"]

OneMounts == w1 :> c1
=============================================================================
