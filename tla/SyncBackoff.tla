---------------------------- MODULE SyncBackoff ----------------------------
(***************************************************************************)
(* How long the background loop waits before the next sync                 *)
(* (nextSyncBackoff in src/src/app/app.go), in minutes.                    *)
(***************************************************************************)
EXTENDS Integers

CONSTANTS
    MinBackoff,  \* syncMinBackoff
    MaxBackoff   \* syncMaxBackoff

ASSUME BackoffAssumption ==
    MinBackoff \in Nat \ {0} /\ MaxBackoff \in Nat /\ MinBackoff <= MaxBackoff

\* The doubling loop, after the given number of failures.
Doubled[fails \in Nat] ==
    IF fails <= 1 THEN MinBackoff
    ELSE IF Doubled[fails - 1] < MaxBackoff THEN 2 * Doubled[fails - 1]
    ELSE Doubled[fails - 1]

\* A clamp.
AtMost(a, b) == IF a > b THEN b ELSE a

\* nextSyncBackoff.
NextSyncBackoff(fails, normal) ==
    IF fails <= 0 \/ normal <= 0 THEN normal
    ELSE AtMost(AtMost(Doubled[fails], MaxBackoff), normal)
=============================================================================
