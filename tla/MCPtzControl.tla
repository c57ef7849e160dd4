----------------------------- MODULE MCPtzControl -----------------------------
(***************************************************************************)
(* Small instances of PtzControl for TLC.                                   *)
(***************************************************************************)
EXTENDS PtzControl, TLC

CONSTANTS h1, h2, r1, r2, nobody, still, left, up

\* Holders, requests and directions are interchangeable.
Symmetry == Permutations({h1, h2}) \cup Permutations({r1, r2}) \cup Permutations({left, up})
===============================================================================
