----------------------------- MODULE MCLinkAccess -----------------------------
(***************************************************************************)
(* Small instances of LinkAccess for TLC.  One link or two on one camera,  *)
(* a link that admits everybody or one that admits home addresses only,    *)
(* and keys that live one or two ticks.                                    *)
(***************************************************************************)
EXTENDS LinkAccess, TLC

CONSTANTS v1, v2, l1, l2, c1, c2, home, away

OneCamera   == [l \in Links |-> c1]
LimitOne    == [l \in Links |-> 1]
HomeOnly    == [l \in Links |-> Addresses \ {away}]
Everyone    == [l \in Links |-> Viewers]
OnlyFirst   == [l \in Links |-> IF l = l1 THEN {v1} ELSE Viewers]
===============================================================================
