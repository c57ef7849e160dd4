------------------------------ MODULE MCAccounts ------------------------------
(***************************************************************************)
(* Small instances of Accounts for TLC.                                     *)
(***************************************************************************)
EXTENDS Accounts, TLC

CONSTANTS r1, r2, root, anna

\* Requests are interchangeable.
Symmetry == Permutations({r1, r2})
===============================================================================
