--------------------------- MODULE FailoverState ---------------------------
(***************************************************************************)
(* The failover status record of the controller and the operators that     *)
(* read and rewrite it (controller/src/failoverState.mjs).  The module has *)
(* no variables: FailoverController applies these operators to the copy    *)
(* that lives in Durable Object storage.                                   *)
(*                                                                         *)
(* Times are integers on one clock; NoTime stands for a null timestamp.    *)
(* Seven health results are told apart only by whether they count as       *)
(* reachable.  The fields of the record that no decision reads (latency,   *)
(* HTTP status, versions, live-origin details, labels) are left out.       *)
(***************************************************************************)
EXTENDS Integers, Sequences

CONSTANTS
    CheckInterval,      \* checkIntervalSeconds
    FailureThreshold,   \* failureThreshold
    StaleAfter,         \* staleAfterSeconds
    HistoryLimit,       \* FAILOVER_HISTORY_LIMIT
    AuditLimit          \* FAILOVER_AUDIT_LIMIT

\* readPositiveInteger accepts no other configuration.
ASSUME ConfigAssumption ==
    /\ CheckInterval \in Nat \ {0}
    /\ FailureThreshold \in Nat \ {0}
    /\ StaleAfter \in Nat \ {0}
    /\ HistoryLimit \in Nat \ {0}
    /\ AuditLimit \in Nat \ {0}

NoTime == -1
Time == Nat \cup {NoTime}

Targets == {"vps", "vercel"}
Classifications == Targets \cup {"unknown", "unmanaged"}
Hosts == {"apex", "www"}

Status ==
    [generatedAt : Nat,
     activeDnsTarget : Targets,
     desiredDnsTarget : Targets,
     actual : [Hosts -> Classifications],
     lastVpsCheckAt : Time,
     lastVpsReachable : BOOLEAN,
     consecutiveVpsFailures : Nat,
     manualLock : BOOLEAN,
     nextCheckDueAt : Nat,
     stale : BOOLEAN]

HistoryRow ==
    [checkedAt : Nat, vpsReachable : BOOLEAN, consecutiveVpsFailures : Nat]

CreateDefaultFailoverStatus(nowMs) ==
    [generatedAt |-> nowMs,
     activeDnsTarget |-> "vps",
     desiredDnsTarget |-> "vps",
     actual |-> [h \in Hosts |-> "unknown"],
     lastVpsCheckAt |-> NoTime,
     lastVpsReachable |-> FALSE,
     consecutiveVpsFailures |-> 0,
     manualLock |-> FALSE,
     nextCheckDueAt |-> nowMs + CheckInterval,
     stale |-> FALSE]

-----------------------------------------------------------------------------
(* Reading: freshness, due times and the label shown to operators. *)

\* Forgets that a refreshed status may rest on an old check.
UpdateOverdueBug(s, nowMs) ==
    \/ s.generatedAt - nowMs > StaleAfter
    \/ nowMs - s.generatedAt > StaleAfter

\* Clock skew, an overdue status update, or a missed check.
StatusOverdue(s, nowMs) ==
    \/ s.generatedAt - nowMs > StaleAfter
    \/ nowMs - s.generatedAt > StaleAfter
    \/ nowMs - s.nextCheckDueAt > StaleAfter

\* A stored stale flag is sticky: only a record of new observations clears it.
ApplyFailoverStatusFreshness(s, nowMs) ==
    [s EXCEPT !.stale = s.stale \/ StatusOverdue(s, nowMs)]

\* Not due yet at the very due time.
DueTooLateBug(s, nowMs) == s.nextCheckDueAt < nowMs

IsFailoverCheckDue(s, nowMs) == s.nextCheckDueAt <= nowMs

\* Looks at the apex record only.
ApexDriftBug(s) == s.actual["apex"] \notin {"unknown", s.desiredDnsTarget}

HasDnsDrift(s) ==
    \E h \in Hosts : s.actual[h] \notin {"unknown", s.desiredDnsTarget}

DeriveControllerState(s) ==
    IF s.stale THEN "stale"
    ELSE IF s.manualLock THEN "manual_lock"
    ELSE IF HasDnsDrift(s) THEN "dns_drift"
    ELSE IF s.activeDnsTarget = "vercel" /\ s.desiredDnsTarget = "vps" THEN "failback_pending"
    ELSE IF "vercel" \in {s.activeDnsTarget, s.desiredDnsTarget} THEN "failed_over_vercel"
    ELSE IF ~s.lastVpsReachable /\ s.consecutiveVpsFailures > 0 THEN "vps_health_degraded"
    ELSE "vps_primary_healthy"

-----------------------------------------------------------------------------
(* Bounded, newest-first logs. *)

\* Keeps one row more than the limit.
PrependTooManyBug(row, log, limit) ==
    [i \in 1 .. (IF Len(log) <= limit THEN Len(log) + 1 ELSE limit) |->
        IF i = 1 THEN row ELSE log[i - 1]]

Prepend(row, log, limit) ==
    [i \in 1 .. (IF Len(log) < limit THEN Len(log) + 1 ELSE limit) |->
        IF i = 1 THEN row ELSE log[i - 1]]

AppendHistory(history, row) == Prepend(row, history, HistoryLimit)

CreateHistoryRow(s) ==
    [checkedAt |-> s.lastVpsCheckAt,
     vpsReachable |-> s.lastVpsReachable,
     consecutiveVpsFailures |-> s.consecutiveVpsFailures]

-----------------------------------------------------------------------------
(* Writing: what each kind of record makes of the current status. *)

\* A recovery forgets to clear the failure count.
KeepsStreakBug(s, reachable) ==
    IF reachable THEN s.consecutiveVpsFailures ELSE s.consecutiveVpsFailures + 1

NextVpsFailures(s, reachable) ==
    IF reachable THEN 0 ELSE s.consecutiveVpsFailures + 1

\* Fails over one failure early.
EarlyFailoverBug(s, reachable) ==
    IF s.manualLock THEN s.desiredDnsTarget
    ELSE IF reachable THEN "vps"
    ELSE IF s.consecutiveVpsFailures + 2 >= FailureThreshold THEN "vercel"
    ELSE s.desiredDnsTarget

\* Lets health results move the desired target under a manual lock.
LockIgnoredBug(s, reachable) ==
    IF reachable THEN "vps"
    ELSE IF NextVpsFailures(s, reachable) >= FailureThreshold THEN "vercel"
    ELSE s.desiredDnsTarget

NextDesiredTarget(s, reachable) ==
    IF s.manualLock THEN s.desiredDnsTarget
    ELSE IF reachable THEN "vps"
    ELSE IF NextVpsFailures(s, reachable) >= FailureThreshold THEN "vercel"
    ELSE s.desiredDnsTarget

NextCheckDue(s, checkedAt) == checkedAt + CheckInterval

ApplyFailoverHealthCheck(s, reachable, checkedAt) ==
    [s EXCEPT !.generatedAt = checkedAt,
              !.desiredDnsTarget = NextDesiredTarget(s, reachable),
              !.lastVpsCheckAt = checkedAt,
              !.lastVpsReachable = reachable,
              !.consecutiveVpsFailures = NextVpsFailures(s, reachable),
              !.nextCheckDueAt = NextCheckDue(s, checkedAt),
              !.stale = FALSE]

\* A host's answer is its classification, or "error" when the API call failed.
Classify(answer) == IF answer = "error" THEN "unknown" ELSE answer

\* Never lets a readback move the active target.
KeepsActiveBug(actual, fallback) == fallback

DeriveActiveTargetFromActual(actual, fallback) ==
    IF actual["apex"] = actual["www"] /\ actual["apex"] \in Targets
    THEN actual["apex"]
    ELSE fallback

ApplyDnsReadback(s, answers, checkedAt) ==
    LET actual == [h \in Hosts |-> Classify(answers[h])]
    IN [s EXCEPT !.generatedAt = checkedAt,
                 !.activeDnsTarget = DeriveActiveTargetFromActual(actual, @),
                 !.actual = actual,
                 !.stale = FALSE]

ApplyLiveOriginReadiness(s, checkedAt) ==
    [s EXCEPT !.generatedAt = checkedAt, !.stale = FALSE]

ApplyDnsAction(s, active, desired, manualLock, changedAt) ==
    [s EXCEPT !.generatedAt = changedAt,
              !.activeDnsTarget = active,
              !.desiredDnsTarget = desired,
              !.manualLock = manualLock]
=============================================================================
