--------------------------- MODULE FailoverPromise ---------------------------
(***************************************************************************)
(* What the failover controller promises about the desired DNS target, and *)
(* nothing about how wakes, alarms, probes and records bring it about.     *)
(* A counted check is one step; an operator's action is one step.          *)
(***************************************************************************)
EXTENDS Integers

CONSTANTS CheckInterval, FailureThreshold

VARIABLES
    desired,    \* where DNS should point
    failures,   \* counted failures since the last success
    lastCheck,  \* the time of the last counted check, -1 before the first
    locked      \* the operators' lock

vars == <<desired, failures, lastCheck, locked>>

Init ==
    /\ desired = "vps"
    /\ failures = 0
    /\ lastCheck = -1
    /\ locked = FALSE

\* Checks are counted at most once per interval.
Counted ==
    /\ lastCheck' >= 0
    /\ lastCheck >= 0 => lastCheck' >= lastCheck + CheckInterval
    /\ UNCHANGED locked

Success ==
    /\ Counted
    /\ failures' = 0
    /\ desired' = IF locked THEN desired ELSE "vps"

Failure ==
    /\ Counted
    /\ failures' = failures + 1
    /\ desired' = IF ~locked /\ failures' >= FailureThreshold THEN "vercel" ELSE desired

\* An operator locks or unlocks, or moves the target; a move rewrites the
\* lock as well.
Lock ==
    /\ locked' \in BOOLEAN
    /\ UNCHANGED <<desired, failures, lastCheck>>

Move ==
    /\ desired' \in {"vps", "vercel"}
    /\ locked' \in BOOLEAN
    /\ UNCHANGED <<failures, lastCheck>>

Next == Success \/ Failure \/ Lock \/ Move

Spec == Init /\ [][Next]_vars
=============================================================================
