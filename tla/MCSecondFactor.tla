---------------------------- MODULE MCSecondFactor ----------------------------
(***************************************************************************)
(* Small instances of SecondFactor for TLC.                                 *)
(***************************************************************************)
EXTENDS SecondFactor, TLC

Symmetry == Permutations(Requests)
===============================================================================
