------------------------- MODULE FailoverController -------------------------
(***************************************************************************)
(* The failover controller: one Durable Object that owns the failover      *)
(* status, woken by its own alarm, by the cron watchdog and by manual      *)
(* fetches, and that also executes the operators' manual actions.          *)
(*                                                                         *)
(* Between two awaits of external I/O (VPS probe, Cloudflare API, alert    *)
(* delivery) the object's input gate admits no other event, so a stretch   *)
(* of storage operations is one action here; at every external await other *)
(* invocations interleave.  Each record function runs in a transaction of  *)
(* its own, so a crash can fall between two of them (Crash...).            *)
(***************************************************************************)
EXTENDS FailoverState

CONSTANTS
    Runs,               \* slots for health-check invocations in flight
    Ops,                \* manual action requests
    OpAction,           \* the action each request asks for
    OpKey,              \* the idempotency key each request carries
    Expectations,       \* DNS states a dashboard may expect, per host
    OutsideContents,    \* what others may write into a DNS record
    DnsConfigured,      \* whether the Cloudflare bindings are configured
    MaxTime,            \* bound on the clock
    MaxCrashes          \* bound on crashes

ManualActions ==
    {"force_dns_to_vercel", "force_dns_to_vps",
     "enable_manual_lock", "disable_manual_lock"}
LockActions == {"enable_manual_lock", "disable_manual_lock"}

ASSUME ControllerAssumption ==
    /\ OpAction \in [Ops -> ManualActions]
    /\ Expectations \subseteq [Hosts -> Classifications]
    /\ OutsideContents \subseteq Classifications
    /\ DnsConfigured \in BOOLEAN
    /\ MaxTime \in Nat
    /\ MaxCrashes \in Nat

VARIABLES
    now,          \* the clock
    (* Durable Object storage *)
    stored,       \* whether a status has ever been stored
    status,       \* failover.status
    history,      \* failover.history: counted health checks, newest first
    recentKeys,   \* failover.dnsActionKeys, newest first
    audit,        \* failover.audit, newest first
    alarm,        \* the time of the pending alarm, or NoTime
    (* outside the object *)
    dns,          \* the record contents at Cloudflare
    (* in memory *)
    run,          \* the health-check invocations
    op,           \* the manual action invocations
    crashes

durable == <<stored, status, history, recentKeys, audit>>
vars == <<now, durable, alarm, dns, run, op, crashes>>

ReadAnswers == Classifications \cup {"error", "pending"}
Answers == ReadAnswers \cup {"ok"}
NoAnswers == [h \in Hosts |-> "pending"]
Answered(answers) == \A h \in Hosts : answers[h] # "pending"

IdleRun == [pc |-> "idle", source |-> "none", nowMs |-> 0, due |-> FALSE,
            seenDueAt |-> 0, checkedAt |-> 0, answers |-> NoAnswers]
IdleOp == [pc |-> "idle", nowMs |-> 0, seenLock |-> FALSE,
           expected |-> NoAnswers, answers |-> NoAnswers]

Target(o) == IF OpAction[o] = "force_dns_to_vercel" THEN "vercel" ELSE "vps"

Init ==
    /\ now = 0
    /\ stored = FALSE
    /\ status = CreateDefaultFailoverStatus(0)
    /\ history = <<>>
    /\ recentKeys = <<>>
    /\ audit = <<>>
    /\ alarm = NoTime
    /\ dns = [h \in Hosts |-> "vps"]
    /\ run = [r \in Runs |-> IdleRun]
    /\ op = [o \in Ops |-> IdleOp]
    /\ crashes = 0

-----------------------------------------------------------------------------
(* Reading the stored status. *)

SanitizeFailoverStatus(nowMs) ==
    IF stored THEN status ELSE CreateDefaultFailoverStatus(nowMs)

ReadFailoverStatus(nowMs) ==
    ApplyFailoverStatusFreshness(SanitizeFailoverStatus(nowMs), nowMs)

-----------------------------------------------------------------------------
(* A health-check invocation: runHealthCheck. *)

\* The probes start: the VPS check takes its own timestamp.
StartChecks(inv) ==
    [inv EXCEPT !.pc = "checking", !.checkedAt = now, !.answers = NoAnswers]

Woken(source) ==
    LET seen == ReadFailoverStatus(now)
    IN [IdleRun EXCEPT !.pc = "alerting", !.source = source, !.nowMs = now,
                       !.due = ~stored \/ IsFailoverCheckDue(seen, now),
                       !.seenDueAt = seen.nextCheckDueAt]

\* The alarm is left as it is.
AlarmDroppedBug(dueAt) == alarm

\* The alarm is pushed back one interval from now, whatever is due.
AlarmPushedBackBug(dueAt) == now + CheckInterval

ScheduleNextFailoverAlarm(dueAt) == dueAt

\* The alarm is consumed when its handler starts.
PendingAlarm(source) == IF source = "alarm" THEN NoTime ELSE alarm

\* A stale status is first reported: the alert delivery is awaited.
WakeStale(r, source) ==
    /\ ReadFailoverStatus(now).stale
    /\ run' = [run EXCEPT ![r] = Woken(source)]
    /\ alarm' = PendingAlarm(source)

WakeNotDue(r, source) ==
    /\ ~ReadFailoverStatus(now).stale
    /\ ~Woken(source).due
    /\ alarm' = ScheduleNextFailoverAlarm(Woken(source).seenDueAt)
    /\ UNCHANGED run

WakeDue(r, source) ==
    /\ ~ReadFailoverStatus(now).stale
    /\ Woken(source).due
    /\ run' = [run EXCEPT ![r] = StartChecks(Woken(source))]
    /\ alarm' = PendingAlarm(source)

RunHealthCheck(r, source) ==
    /\ run[r].pc = "idle"
    /\ \/ WakeStale(r, source)
       \/ WakeNotDue(r, source)
       \/ WakeDue(r, source)
    /\ UNCHANGED <<now, durable, dns, op, crashes>>

\* Cron runs and manual fetches wake the object at any time.
WatchdogWake(r) == RunHealthCheck(r, "scheduled_watchdog")

\* The platform runs one alarm handler at a time.
AlarmFires(r) ==
    /\ alarm # NoTime
    /\ alarm <= now
    /\ \A q \in Runs : run[q].source # "alarm"
    /\ RunHealthCheck(r, "alarm")

\* The stale alert is delivered; the decision is the one taken before it.
AlertDelivered(r) ==
    /\ run[r].pc = "alerting"
    /\ \/ /\ run[r].due
          /\ run' = [run EXCEPT ![r] = StartChecks(@)]
          /\ UNCHANGED alarm
       \/ /\ ~run[r].due
          /\ alarm' = ScheduleNextFailoverAlarm(run[r].seenDueAt)
          /\ run' = [run EXCEPT ![r] = IdleRun]
    /\ UNCHANGED <<now, durable, dns, op, crashes>>

\* Without the Cloudflare bindings a health check reads no record.
RecordsRead == IF DnsConfigured THEN Hosts ELSE {}

\* Cloudflare answers one of the two record reads, or the call fails.
ReadDnsRecord(r, h) ==
    /\ run[r].pc = "checking"
    /\ run[r].answers[h] = "pending"
    /\ \E answer \in {dns[h], "error"} :
          run' = [run EXCEPT ![r].answers[h] = answer]
    /\ UNCHANGED <<now, durable, alarm, dns, op, crashes>>

-----------------------------------------------------------------------------
(* The records an invocation makes once every probe has answered.  They    *)
(* use the time it was woken at, and whatever status is stored by now.     *)

\* Trusts the due test made before the probes.
CountsEveryAnswerBug(inv) == TRUE

CheckCounted(inv) ==
    ~stored \/ IsFailoverCheckDue(SanitizeFailoverStatus(inv.nowMs), inv.nowMs)

AfterHealthCheck(inv, reachable) ==
    LET current == SanitizeFailoverStatus(inv.nowMs)
    IN IF CheckCounted(inv)
       THEN ApplyFailoverHealthCheck(current, reachable, inv.checkedAt)
       ELSE current

AfterReadback(inv, reachable) ==
    IF DnsConfigured
    THEN ApplyDnsReadback(AfterHealthCheck(inv, reachable), inv.answers, inv.nowMs)
    ELSE AfterHealthCheck(inv, reachable)

AfterLiveOrigin(inv, reachable) ==
    ApplyLiveOriginReadiness(AfterReadback(inv, reachable), inv.nowMs)

RecordHistory(inv, reachable) ==
    history' = IF CheckCounted(inv)
               THEN AppendHistory(history, CreateHistoryRow(AfterHealthCheck(inv, reachable)))
               ELSE history

ProbesAnswered(r) ==
    /\ run[r].pc = "checking"
    /\ DnsConfigured => Answered(run[r].answers)

FinishRun(r) ==
    /\ ProbesAnswered(r)
    /\ \E reachable \in BOOLEAN :
          /\ RecordHistory(run[r], reachable)
          /\ status' = AfterLiveOrigin(run[r], reachable)
    /\ stored' = TRUE
    /\ alarm' = ScheduleNextFailoverAlarm(status'.nextCheckDueAt)
    /\ run' = [run EXCEPT ![r] = IdleRun]
    /\ UNCHANGED <<now, recentKeys, audit, dns, op, crashes>>

-----------------------------------------------------------------------------
(* An operator's manual action: executeManualFailoverAction. *)

AuditRow(o, result, manualLock) ==
    [key |-> OpKey[o], action |-> OpAction[o], result |-> result,
     manualLock |-> manualLock]

RecordAudit(o, result, manualLock) ==
    audit' = Prepend(AuditRow(o, result, manualLock), audit, AuditLimit)

Close(o) == op' = [op EXCEPT ![o] = [IdleOp EXCEPT !.pc = "done"]]

\* Keys are not remembered.
ForgetsKeysBug(o) == FALSE

\* A key of the newest HistoryLimit recorded actions is a duplicate.
IsDuplicate(o) == \E i \in DOMAIN recentKeys : recentKeys[i] = OpKey[o]

RememberKey(o) ==
    recentKeys' = IF IsDuplicate(o) THEN recentKeys
                  ELSE Prepend(OpKey[o], recentKeys, HistoryLimit)

\* The duplicate check does not look at the status it found.
AfterDnsAction(o, current, active, desired, manualLock, nowMs) ==
    IF IsDuplicate(o) THEN current
    ELSE ApplyDnsAction(ApplyFailoverStatusFreshness(current, nowMs),
                        active, desired, manualLock, nowMs)

ResultOf(o) == IF IsDuplicate(o) THEN "duplicate" ELSE "success"

LockRequested(o) == OpAction[o] = "enable_manual_lock"

\* executeManualLock runs without external I/O: it rewrites the lock and
\* leaves the targets as they are.
AfterLock(o) ==
    LET current == SanitizeFailoverStatus(now)
    IN AfterDnsAction(o, current, current.activeDnsTarget,
                      current.desiredDnsTarget, LockRequested(o), now)

StoresLock(o) ==
    /\ op[o].pc = "idle"
    /\ OpAction[o] \in LockActions
    /\ stored' = (stored \/ ~IsDuplicate(o))
    /\ status' = AfterLock(o)
    /\ RememberKey(o)

ExecuteManualLock(o) ==
    /\ StoresLock(o)
    /\ RecordAudit(o, ResultOf(o), LockRequested(o))
    /\ Close(o)
    /\ UNCHANGED <<now, history, alarm, dns, run, crashes>>

\* executeDnsAction keeps the lock it saw in the status before any I/O.
StartDnsAction(o) ==
    /\ op[o].pc = "idle"
    /\ OpAction[o] \notin LockActions
    /\ DnsConfigured
    /\ \E expected \in Expectations :
          op' = [op EXCEPT ![o] = [IdleOp EXCEPT
                    !.pc = "reading", !.nowMs = now, !.expected = expected,
                    !.seenLock = ReadFailoverStatus(now).manualLock]]
    /\ UNCHANGED <<now, durable, alarm, dns, run, crashes>>

RefuseUnconfigured(o) ==
    /\ op[o].pc = "idle"
    /\ OpAction[o] \notin LockActions
    /\ ~DnsConfigured
    /\ RecordAudit(o, "failed", ReadFailoverStatus(now).manualLock)
    /\ Close(o)
    /\ UNCHANGED <<now, stored, status, history, recentKeys, alarm, dns, run, crashes>>

\* One of the two record reads before a write, or after it to verify it.
ReadForAction(o, h) ==
    /\ op[o].pc \in {"reading", "verifying"}
    /\ op[o].answers[h] = "pending"
    /\ \E answer \in {dns[h], "error"} :
          op' = [op EXCEPT ![o].answers[h] = answer]
    /\ UNCHANGED <<now, durable, alarm, dns, run, crashes>>

\* Verifies the apex record only.
ApexOnTargetBug(o) == op[o].answers["apex"] = Target(o)
OnTarget(o) == \A h \in Hosts : op[o].answers[h] = Target(o)
MatchesExpected(o) == op[o].answers = op[o].expected

\* Neither an API failure nor a surprise: the write may start.
StartPatches(o) ==
    /\ op[o].pc = "reading"
    /\ MatchesExpected(o)
    /\ ~OnTarget(o)
    /\ op' = [op EXCEPT ![o].pc = "patching", ![o].answers = NoAnswers]
    /\ UNCHANGED <<now, durable, alarm, dns, run, crashes>>

\* The two PATCH calls run in parallel; each may be applied or not, and an
\* applied one may still be answered by an error (a lost reply).
PatchDnsRecord(o, h) ==
    /\ op[o].pc = "patching"
    /\ op[o].answers[h] = "pending"
    /\ \/ /\ dns' = [dns EXCEPT ![h] = Target(o)]
          /\ \E answer \in {"ok", "error"} :
                op' = [op EXCEPT ![o].answers[h] = answer]
       \/ /\ op' = [op EXCEPT ![o].answers[h] = "error"]
          /\ UNCHANGED dns
    /\ UNCHANGED <<now, durable, alarm, run, crashes>>

StartVerification(o) ==
    /\ op[o].pc = "patching"
    /\ \A h \in Hosts : op[o].answers[h] = "ok"
    /\ op' = [op EXCEPT ![o].pc = "verifying", ![o].answers = NoAnswers]
    /\ UNCHANGED <<now, durable, alarm, dns, run, crashes>>

\* The write is given up: nothing of the status changes, the audit says so.
WriteRefused(o) ==
    /\ op[o].pc = "reading"
    /\ \A h \in Hosts : op[o].answers[h] \notin {"pending", "error"}
    /\ ~MatchesExpected(o)

WriteFailed(o) ==
    /\ Answered(op[o].answers)
    /\ \/ op[o].pc \in {"reading", "patching"} /\ \E h \in Hosts : op[o].answers[h] = "error"
       \/ op[o].pc = "verifying" /\ ~OnTarget(o)

GiveUp(o) ==
    /\ \/ WriteRefused(o) /\ RecordAudit(o, "refused", op[o].seenLock)
       \/ WriteFailed(o) /\ RecordAudit(o, "failed", op[o].seenLock)
    /\ Close(o)
    /\ UNCHANGED <<now, stored, status, history, recentKeys, alarm, dns, run, crashes>>

\* The write result is ok: both records were read on the target, either
\* before any write was needed or in the verification after it.
WriteVerified(o) ==
    /\ OnTarget(o)
    /\ op[o].pc = "reading" => MatchesExpected(o)
    /\ op[o].pc \in {"reading", "verifying"}

ActionReadback(o) ==
    ApplyDnsReadback(SanitizeFailoverStatus(op[o].nowMs), op[o].answers, op[o].nowMs)

ActionStatus(o) ==
    AfterDnsAction(o, ActionReadback(o), Target(o), Target(o), op[o].seenLock, op[o].nowMs)

ExecuteDnsAction(o) ==
    /\ WriteVerified(o)
    /\ stored' = TRUE
    /\ status' = ActionStatus(o)
    /\ RememberKey(o)
    /\ RecordAudit(o, ResultOf(o), ActionStatus(o).manualLock)
    /\ Close(o)
    /\ UNCHANGED <<now, history, alarm, dns, run, crashes>>

-----------------------------------------------------------------------------
(* Crashes, the world outside, and time. *)

\* What was in memory is gone.  An interrupted alarm handler is run again by
\* the platform, or given up after its last retry.
LoseMemory(interrupted) ==
    /\ crashes < MaxCrashes
    /\ crashes' = crashes + 1
    /\ run' = [r \in Runs |-> IdleRun]
    /\ op' = [o \in Ops |-> IF op[o].pc = "idle" /\ o \notin interrupted
                            THEN op[o]
                            ELSE [IdleOp EXCEPT !.pc = "done"]]
    /\ \/ alarm' = alarm
       \/ (\E r \in Runs : run[r].source = "alarm") /\ alarm' = now

Crash ==
    /\ LoseMemory({})
    /\ UNCHANGED <<now, durable, dns>>

\* The object stops after some of an invocation's records, before the alarm.
CrashInRecords(r) ==
    /\ ProbesAnswered(r)
    /\ \E reachable \in BOOLEAN :
          /\ RecordHistory(run[r], reachable)
          /\ status' \in {AfterHealthCheck(run[r], reachable),
                          AfterReadback(run[r], reachable),
                          AfterLiveOrigin(run[r], reachable)}
    /\ stored' = TRUE
    /\ LoseMemory({})
    /\ UNCHANGED <<now, recentKeys, audit, dns>>

\* The object stops after the verified readback is recorded, or after the
\* action is recorded and before it is audited.
CrashInAction(o) ==
    /\ WriteVerified(o)
    /\ stored' = TRUE
    /\ \/ status' = ActionReadback(o) /\ UNCHANGED recentKeys
       \/ status' = ActionStatus(o) /\ RememberKey(o)
    /\ LoseMemory({})
    /\ UNCHANGED <<now, history, audit, dns>>

\* The lock is stored and the object stops before the audit.
CrashInLock(o) ==
    /\ StoresLock(o)
    /\ LoseMemory({o})
    /\ UNCHANGED <<now, history, audit, dns>>

\* Somebody edits a record in the Cloudflare dashboard.
OutsideChange(h) ==
    /\ \E content \in OutsideContents : dns' = [dns EXCEPT ![h] = content]
    /\ UNCHANGED <<now, durable, alarm, run, op, crashes>>

Tick ==
    /\ now < MaxTime
    /\ now' = now + 1
    /\ UNCHANGED <<durable, alarm, dns, run, op, crashes>>

RunStep(r) ==
    \/ WatchdogWake(r)
    \/ AlarmFires(r)
    \/ AlertDelivered(r)
    \/ \E h \in RecordsRead : ReadDnsRecord(r, h)
    \/ FinishRun(r)
    \/ CrashInRecords(r)

OpStep(o) ==
    \/ ExecuteManualLock(o)
    \/ CrashInLock(o)
    \/ StartDnsAction(o)
    \/ RefuseUnconfigured(o)
    \/ \E h \in Hosts : ReadForAction(o, h) \/ PatchDnsRecord(o, h)
    \/ StartPatches(o)
    \/ StartVerification(o)
    \/ GiveUp(o)
    \/ ExecuteDnsAction(o)
    \/ CrashInAction(o)

Next ==
    \/ \E r \in Runs : RunStep(r)
    \/ \E o \in Ops : OpStep(o)
    \/ \E h \in Hosts : OutsideChange(h)
    \/ Crash
    \/ Tick

Spec == Init /\ [][Next]_vars

\* Probes have timeouts and answer; a handler that can go on does.
RunFairness ==
    \A r \in Runs :
        /\ WF_vars(AlertDelivered(r))
        /\ \A h \in RecordsRead : WF_vars(ReadDnsRecord(r, h))
        /\ WF_vars(FinishRun(r))

FairSpec == Spec /\ RunFairness

\* The cron trigger keeps waking the object.
CronKeepsWaking == \A r \in Runs : WF_vars(WatchdogWake(r))

\* The platform fires a pending alarm.
AlarmsFire == WF_vars(\E r \in Runs : AlarmFires(r))
=============================================================================
