----------------------------- MODULE MCReconciler -----------------------------
(***************************************************************************)
(* Small instances of Reconciler for TLC.                                   *)
(***************************************************************************)
EXTENDS Reconciler

CONSTANTS c1, c2, h1, h2
===============================================================================
