----------------------------- MODULE MCOperator -----------------------------
(* Instances of Operator for TLC. *)
EXTENDS Operator, TLC

CONSTANTS m1, c1, k1, w1

OneWorkload == m1 :> w1

OneKey == m1 :> k1

OneMounts == w1 :> c1
=============================================================================
