------------------------------- MODULE MCProbing -------------------------------
(***************************************************************************)
(* Small instances of Probing for TLC.                                      *)
(***************************************************************************)
EXTENDS Probing

CONSTANTS r1, r2
===============================================================================
