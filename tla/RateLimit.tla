------------------------------ MODULE RateLimit ------------------------------
(***************************************************************************)
(* One counter of ratelimit.py: a fixed window, kept in Redis.              *)
(*                                                                         *)
(* The first attempt opens a window, which ends after a fixed time whatever *)
(* happens in it; Redis then forgets the counter.  SET NX EX, INCR and TTL  *)
(* run in one transaction, so an attempt is one step.  passes is a history: *)
(* the moments of the attempts let through since the counter was reset.     *)
(***************************************************************************)
EXTENDS Integers, Sequences

CONSTANTS
    Limit,     \* attempts let through in a window
    Window,    \* its length
    MaxTime    \* bound: the last moment

ASSUME LimitAssumption ==
    /\ Limit \in Nat \ {0}
    /\ Window \in Nat \ {0}
    /\ MaxTime \in Nat

VARIABLES
    now,       \* the clock
    bucket,    \* the counter and the moment Redis forgets it
    passes     \* history

limitVars == <<now, bucket, passes>>

NoBucket == [count |-> 0, expires |-> 0]

LimitInit ==
    /\ now = 0
    /\ bucket = NoBucket
    /\ passes = <<>>

\* A mutant: the key is gone a second early.
RunningShort == now + 1 < bucket.expires

\* A key whose time has come is no longer there.
Running == now < bucket.expires
Counted == IF Running THEN bucket.count ELSE 0

\* A mutant: a window lets one attempt more through.
AdmitsOneMore == Counted <= Limit

Admits == Counted < Limit

\* Above the limit the exact count decides nothing, and is not kept.
Hit ==
    /\ bucket' = [count   |-> IF Admits THEN Counted + 1 ELSE Counted,
                  expires |-> IF Running THEN bucket.expires ELSE now + Window]
    /\ passes' = IF Admits THEN Append(passes, now) ELSE passes
    /\ UNCHANGED now

Reset ==
    /\ bucket' = NoBucket
    /\ passes' = <<>>
    /\ UNCHANGED now

Tick ==
    /\ now < MaxTime
    /\ now' = now + 1
    /\ UNCHANGED <<bucket, passes>>

LimitNext == Hit \/ Reset \/ Tick

LimitSpec == LimitInit /\ [][LimitNext]_limitVars

-------------------------------------------------------------------------------
LimitTypeOK ==
    /\ now \in 0..MaxTime
    /\ bucket \in [count: 0..Limit, expires: Nat]
    /\ passes \in Seq(0..MaxTime)

\* No more than twice the limit passes in any stretch of time as long as a window: what
\* the module's text admits (ratelimit.py:3-11), and what keeps a password from being
\* guessed when the counter of failures in the row loses parallel attempts.
TwiceAtMost ==
    \A i \in 1..Len(passes) :
        i + 2 * Limit <= Len(passes) => passes[i + 2 * Limit] - passes[i] > Window
===============================================================================
