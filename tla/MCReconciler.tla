---------------------------- MODULE MCReconciler ----------------------------
(* Instances of Reconciler for TLC.  Every run checks a temporal property, so
   none of them uses symmetry. *)
EXTENDS Reconciler
=============================================================================
