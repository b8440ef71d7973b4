--------------------------- MODULE MCFleetReport ----------------------------
(* Instances of FleetReport for TLC. *)
EXTENDS FleetReport, TLC

CONSTANTS w1, w2, p1, p2, p3

(* A DaemonSet and a Deployment. *)
TwoKinds == w1 :> 1 @@ w2 :> 2

(* The DaemonSet has two pods, the Deployment one. *)
ThreePods == p1 :> w1 @@ p2 :> w1 @@ p3 :> w2
=============================================================================
