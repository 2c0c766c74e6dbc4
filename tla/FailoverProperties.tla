------------------------- MODULE FailoverProperties -------------------------
(***************************************************************************)
(* What the failover controller guarantees.                                *)
(***************************************************************************)
EXTENDS FailoverController, FiniteSets

RunState ==
    [pc : {"idle", "alerting", "checking"},
     source : {"none", "alarm", "scheduled_watchdog"},
     nowMs : Nat, due : BOOLEAN, seenDueAt : Nat, checkedAt : Nat,
     answers : [Hosts -> ReadAnswers]]

OpState ==
    [pc : {"idle", "reading", "patching", "verifying", "done"},
     nowMs : Nat, seenLock : BOOLEAN,
     expected : [Hosts -> Answers], answers : [Hosts -> Answers]]

Keys == {OpKey[o] : o \in Ops}

AuditRows ==
    [key : Keys, action : ManualActions,
     result : {"success", "duplicate", "refused", "failed"}, manualLock : BOOLEAN]

\* The stored records, the messages in flight and the clock keep their types
\* (sanitizeFailoverStatus, the row constructors, the bounded logs).
TypeOK ==
    /\ now \in 0 .. MaxTime
    /\ stored \in BOOLEAN
    /\ status \in Status
    /\ history \in Seq(HistoryRow) /\ Len(history) <= HistoryLimit
    /\ recentKeys \in Seq(Keys) /\ Len(recentKeys) <= HistoryLimit
    /\ audit \in Seq(AuditRows) /\ Len(audit) <= AuditLimit
    /\ alarm \in Time
    /\ dns \in [Hosts -> Classifications]
    /\ run \in [Runs -> RunState]
    /\ op \in [Ops -> OpState]
    /\ crashes \in 0 .. MaxCrashes

-----------------------------------------------------------------------------
(* Counting health checks. *)

\* Concurrent wakes, late answers and restarts never count two checks within
\* one interval: any two rows of the history are as many intervals apart as
\* there are rows between them (the due test of recordFailoverHealthCheck).
HistorySpaced ==
    \A i, j \in DOMAIN history :
        i < j => history[i].checkedAt - history[j].checkedAt >= (j - i) * CheckInterval

\* The status and the newest row tell of the same check, and the next check
\* is due one interval after it (both are written by one transaction).
StatusMatchesHistory ==
    history # <<>> =>
        /\ stored
        /\ history[1] = CreateHistoryRow(status)
        /\ status.nextCheckDueAt = status.lastVpsCheckAt + CheckInterval

\* The failure count is the length of the current outage: that many rows,
\* and no more, are failures before the newest success, as far back as the
\* bounded history reaches (across wakes, refused counts and restarts).
StreakMatchesHistory ==
    /\ Len(history) >= HistoryLimit \/ Len(history) >= status.consecutiveVpsFailures
    /\ \A i \in DOMAIN history :
          /\ i <= status.consecutiveVpsFailures => ~history[i].vpsReachable
          /\ i = status.consecutiveVpsFailures + 1 => history[i].vpsReachable

OperatorActed ==
    \E o \in Ops : op[o].pc # "done" /\ op'[o].pc = "done" /\ OpAction[o] \notin LockActions

\* No glitch fails over: Vercel becomes the desired target without an
\* operator only at the end of a run of FailureThreshold counted failures
\* that lasted at least FailureThreshold - 1 intervals.
SustainedOutage ==
    [][ (/\ FailureThreshold <= HistoryLimit
         /\ status.desiredDnsTarget = "vps" /\ status'.desiredDnsTarget = "vercel"
         /\ ~OperatorActed)
        => /\ Len(history') >= FailureThreshold
           /\ \A i \in 1 .. FailureThreshold : ~history'[i].vpsReachable
           /\ history'[1].checkedAt - history'[FailureThreshold].checkedAt
                >= (FailureThreshold - 1) * CheckInterval ]_vars

Promise == INSTANCE FailoverPromise WITH
    desired <- status.desiredDnsTarget,
    failures <- status.consecutiveVpsFailures,
    lastCheck <- status.lastVpsCheckAt,
    locked <- status.manualLock

\* However wakes, answers, actions and crashes interleave, the stored status
\* changes as the abstract controller's: one spaced count or one operator's
\* action at a time.
ImplementsPromise == Promise!Spec

\* While the manual lock is on, the desired target moves only when an
\* operator's own DNS action is recorded, whatever the health checks in
\* flight report (applyFailoverHealthCheck, recordFailoverDnsAction).
LockFreezesTarget ==
    [][ (status.manualLock /\ status'.desiredDnsTarget # status.desiredDnsTarget)
        => OperatorActed ]_vars

\* The manual lock is lifted only by an operator's request to disable it.
LockHeldUntilDisabled ==
    [][ (status.manualLock /\ ~status'.manualLock)
        => \E o \in Ops : /\ OpAction[o] = "disable_manual_lock"
                          /\ op[o].pc # "done" /\ op'[o].pc = "done" ]_vars

\* A status served as fresh rests on a check at most one interval and one
\* staleness window old, whoever else refreshed generatedAt in between.
FreshMeansRecentlyChecked ==
    (history # <<>> /\ ~ReadFailoverStatus(now).stale)
        => now - history[1].checkedAt <= CheckInterval + StaleAfter

\* "vps_primary_healthy" is served only when the last counted check, if any,
\* was a success, no lock is on, and neither the stored targets nor a known
\* record points anywhere but to the VPS.
HealthyIsHealthy ==
    DeriveControllerState(ReadFailoverStatus(now)) = "vps_primary_healthy" =>
        /\ history # <<>> => history[1].vpsReachable
        /\ ~status.manualLock
        /\ status.activeDnsTarget = "vps" /\ status.desiredDnsTarget = "vps"
        /\ \A h \in Hosts : status.actual[h] \in {"vps", "unknown"}

-----------------------------------------------------------------------------
(* The alarm. *)

\* The alarm rings in time.  Once a check has been counted the chain of alarms
\* is unbroken: unless the object crashed, an alarm is pending or its handler
\* is running; and a pending alarm is never set for later than the next due
\* check: a superseded snapshot may make it ring early, never late
\* (scheduleNextFailoverAlarm, called from the snapshot each invocation holds).
AlarmInTime ==
    /\ alarm # NoTime => alarm <= now \/ alarm <= status.nextCheckDueAt
    /\ (crashes = 0 /\ history # <<>> /\ alarm = NoTime)
          => \E r \in Runs : run[r].source = "alarm"

CheckDue == stored /\ status.nextCheckDueAt <= now

\* While the cron trigger keeps waking the object a due check is eventually
\* counted, whatever crashes and alarms lost (the scheduled watchdog).
DueIsChecked == CronKeepsWaking => (CheckDue ~> ~CheckDue)

\* Without a crash, and with no help of the cron trigger, the alarms alone keep
\* a controller checking that has counted a check before.
AlarmChainSuffices ==
    AlarmsFire => ((CheckDue /\ history # <<>>) ~> (~CheckDue \/ crashes > 0))

-----------------------------------------------------------------------------
(* Operators' actions. *)

\* The recorded active target never contradicts a readback on which both
\* records agreed (deriveActiveTargetFromActual, recordFailoverDnsAction).
AgreedReadbackIsActive ==
    (status.actual["apex"] = status.actual["www"] /\ status.actual["apex"] \in Targets)
        => status.activeDnsTarget = status.actual["apex"]

\* The applied actions among the rows older than row i, up to row j.
Applied(log, i, j) == {k \in i + 1 .. j : log[k].result = "success"}

\* A key is applied again only after HistoryLimit others, of which a crash may
\* have kept some out of the audit, however often the request is retried.
KeyAppliedOnce ==
    \A i, j \in DOMAIN audit :
        (/\ i < j
         /\ audit[i].result = "success" /\ audit[j].result = "success"
         /\ Cardinality(Applied(audit, i, j)) + crashes <= HistoryLimit)
        => audit[i].key # audit[j].key

Opposes(p, o) == OpAction[p] \notin LockActions /\ Target(p) # Target(o)

\* Until somebody asks for the opposite, an action that is audited as done has
\* left both records on its target, but for what was edited from outside:
\* neither a lost reply, half a write of an earlier try, nor a retry is taken
\* for the move (writeCloudflareFailoverDnsTarget, executeDnsAction).
DoneMeansMoved ==
    [][ \A o \in Ops :
          (/\ OpAction[o] \notin LockActions
           /\ op[o].pc # "done" /\ op'[o].pc = "done"
           /\ audit' # audit /\ audit'[1].result \in {"success", "duplicate"}
           /\ \A p \in Ops : Opposes(p, o) => op[p].pc = "idle")
          => \A h \in Hosts : dns[h] \in {Target(o)} \cup OutsideContents ]_vars
=============================================================================
