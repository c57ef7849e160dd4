------------------------------- MODULE OneTime -------------------------------
(***************************************************************************)
(* What a one-time code promises: of all that is accepted, no code comes    *)
(* twice.  totp.verify_code implements it with keys that Redis forgets.     *)
(***************************************************************************)
EXTENDS Integers

CONSTANT Codes

VARIABLES
    spent,   \* the codes that were accepted
    uses     \* how often a code was accepted

Init == spent = {} /\ uses = 0

Accept(c) ==
    /\ c \notin spent
    /\ spent' = spent \cup {c}
    /\ uses' = uses + 1

Next == \E c \in Codes : Accept(c)

Spec == Init /\ [][Next]_<<spent, uses>>
===============================================================================
