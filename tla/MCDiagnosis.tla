------------------------------ MODULE MCDiagnosis ------------------------------
(***************************************************************************)
(* Small instances of Diagnosis for TLC.                                    *)
(***************************************************************************)
EXTENDS Diagnosis
===============================================================================
