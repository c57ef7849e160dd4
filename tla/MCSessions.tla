------------------------------ MODULE MCSessions ------------------------------
(***************************************************************************)
(* Small instances of Sessions for TLC.                                     *)
(***************************************************************************)
EXTENDS Sessions, TLC

CONSTANTS r1, r2, e1, e2

\* Requests and endings are interchangeable.
Symmetry == Permutations({r1, r2}) \cup Permutations({e1, e2})
===============================================================================
