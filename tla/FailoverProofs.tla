--------------------------- MODULE FailoverProofs ---------------------------
(***************************************************************************)
(* Proofs about the failover controller, for every configuration, every    *)
(* set of invocations and requests, and every bound.                       *)
(***************************************************************************)
EXTENDS FailoverProperties, FiniteSetTheorems, SequenceTheorems, TLAPS

-----------------------------------------------------------------------------
(* The bounded, newest-first logs. *)

\* Prepend keeps the element type and the bound, puts the row first and
\* moves every row it keeps one place back.
LEMMA PrependProperties ==
    ASSUME NEW S, NEW log \in Seq(S), NEW row \in S, NEW limit \in Nat \ {0},
           Len(log) <= limit
    PROVE  LET new == Prepend(row, log, limit)
           IN /\ new \in Seq(S)
              /\ Len(new) = IF Len(log) < limit THEN Len(log) + 1 ELSE limit
              /\ Len(new) <= limit
              /\ new # <<>>
              /\ new[1] = row
              /\ \A i \in 2 .. Len(new) : i - 1 \in DOMAIN log /\ new[i] = log[i - 1]
<1> DEFINE n == IF Len(log) < limit THEN Len(log) + 1 ELSE limit
           new == Prepend(row, log, limit)
<1>1. Len(log) \in Nat /\ n \in Nat /\ n >= 1 /\ n <= Len(log) + 1 /\ n <= limit
  BY LenProperties
<1>2. new = [i \in 1 .. n |-> IF i = 1 THEN row ELSE log[i - 1]]
  BY DEF Prepend
<1>3. \A i \in 2 .. n : i - 1 \in 1 .. Len(log) /\ log[i - 1] \in S
  BY <1>1, ElementOfSeq
<1>4. new \in [1 .. n -> S]
  BY <1>1, <1>2, <1>3
<1>5. new \in Seq(S)
  BY <1>1, <1>4, SeqDef
<1>6. Len(new) = n
  <2> HIDE DEF new, n
  <2>1. DOMAIN new = 1 .. Len(new) /\ Len(new) \in Nat
    BY <1>5, LenProperties
  <2>2. DOMAIN new = 1 .. n
    BY <1>4
  <2>3. n \in 1 .. Len(new)
    BY <1>1, <2>1, <2>2
  <2>4. Len(new) \in 1 .. n
    BY <2>1, <2>2, <2>3
  <2>5. n <= Len(new) /\ Len(new) <= n
    BY <2>3, <2>4
  <2>6. Len(new) \in Nat /\ n \in Nat
    BY <1>1, <2>1
  <2> QED
    BY <2>5, <2>6
<1>7. new[1] = row /\ \A i \in 2 .. n : new[i] = log[i - 1]
  BY <1>1, <1>2
<1>8. DOMAIN log = 1 .. Len(log)
  BY LenProperties
<1>9. new # <<>>
  BY <1>1, <1>6, EmptySeq
<1> HIDE DEF new
<1>10. \A i \in 2 .. Len(new) : i - 1 \in DOMAIN log /\ new[i] = log[i - 1]
  BY <1>3, <1>6, <1>7, <1>8
<1>11. Len(new) = n /\ Len(new) <= limit
  BY <1>1, <1>6
<1> QED
  BY <1>5, <1>7, <1>9, <1>10, <1>11 DEF new

-----------------------------------------------------------------------------
(* Type correctness. *)

LEMMA DefaultStatus ==
    ASSUME NEW t \in Nat
    PROVE  CreateDefaultFailoverStatus(t) \in Status
BY ConfigAssumption DEF CreateDefaultFailoverStatus, Status, Time, NoTime, Targets,
   Classifications

\* Every way of rewriting a status yields a status.
LEMMA StatusOperators ==
    ASSUME NEW s \in Status, NEW t \in Nat
    PROVE  /\ CreateDefaultFailoverStatus(t) \in Status
           /\ ApplyFailoverStatusFreshness(s, t) \in Status
           /\ \A reachable \in BOOLEAN : ApplyFailoverHealthCheck(s, reachable, t) \in Status
           /\ ApplyLiveOriginReadiness(s, t) \in Status
           /\ \A answers \in [Hosts -> Classifications \cup {"error"}] :
                 ApplyDnsReadback(s, answers, t) \in Status
           /\ \A a, d \in Targets, l \in BOOLEAN : ApplyDnsAction(s, a, d, l, t) \in Status
<1>1. CreateDefaultFailoverStatus(t) \in Status
  BY DefaultStatus
<1>2. ApplyFailoverStatusFreshness(s, t) \in Status
  BY DEF ApplyFailoverStatusFreshness, StatusOverdue, Status
<1>3. ASSUME NEW reachable \in BOOLEAN
      PROVE  ApplyFailoverHealthCheck(s, reachable, t) \in Status
  <2>1. /\ NextDesiredTarget(s, reachable) \in Targets
        /\ NextVpsFailures(s, reachable) \in Nat
        /\ NextCheckDue(s, t) \in Nat
    BY ConfigAssumption DEF NextDesiredTarget, NextVpsFailures, NextCheckDue, Status, Targets
  <2> QED
    BY <2>1 DEF ApplyFailoverHealthCheck, Status, Time
<1>4. ApplyLiveOriginReadiness(s, t) \in Status
  BY DEF ApplyLiveOriginReadiness, Status
<1>5. ASSUME NEW answers \in [Hosts -> Classifications \cup {"error"}]
      PROVE  ApplyDnsReadback(s, answers, t) \in Status
  <2> DEFINE actual == [h \in Hosts |-> Classify(answers[h])]
  <2>1. actual \in [Hosts -> Classifications]
    BY DEF Classify, Classifications
  <2>2. DeriveActiveTargetFromActual(actual, s.activeDnsTarget) \in Targets
    BY DEF DeriveActiveTargetFromActual, Status
  <2> HIDE DEF actual
  <2>3. [s EXCEPT !.generatedAt = t,
                  !.activeDnsTarget = DeriveActiveTargetFromActual(actual, @),
                  !.actual = actual,
                  !.stale = FALSE] \in Status
    BY <2>1, <2>2 DEF Status
  <2> QED
    BY <2>3 DEF ApplyDnsReadback, actual
<1>6. \A a, d \in Targets, l \in BOOLEAN : ApplyDnsAction(s, a, d, l, t) \in Status
  BY DEF ApplyDnsAction, Status
<1> QED
  BY <1>1, <1>2, <1>3, <1>4, <1>5, <1>6

\* What the handlers read and compute is well typed.
LEMMA ReadStatus ==
    ASSUME TypeOK, NEW t \in Nat
    PROVE  SanitizeFailoverStatus(t) \in Status /\ ReadFailoverStatus(t) \in Status
BY StatusOperators DEF TypeOK, SanitizeFailoverStatus, ReadFailoverStatus

LEMMA RecordsTyped ==
    ASSUME TypeOK, NEW r \in Runs, ProbesAnswered(r), NEW reachable \in BOOLEAN
    PROVE  /\ AfterHealthCheck(run[r], reachable) \in Status
           /\ AfterReadback(run[r], reachable) \in Status
           /\ AfterLiveOrigin(run[r], reachable) \in Status
           /\ CheckCounted(run[r]) =>
                 CreateHistoryRow(AfterHealthCheck(run[r], reachable)) \in HistoryRow
<1> DEFINE inv == run[r]
<1>1. /\ inv \in RunState
      /\ inv.nowMs \in Nat /\ inv.checkedAt \in Nat
      /\ inv.answers \in [Hosts -> ReadAnswers]
  BY DEF TypeOK, RunState
<1> HIDE DEF inv
<1>2. SanitizeFailoverStatus(inv.nowMs) \in Status
  BY <1>1, ReadStatus
<1>3. AfterHealthCheck(inv, reachable) \in Status
  BY <1>1, <1>2, StatusOperators DEF AfterHealthCheck
<1>4. DnsConfigured => inv.answers \in [Hosts -> Classifications \cup {"error"}]
  BY <1>1 DEF ProbesAnswered, Answered, ReadAnswers, inv
<1>5. AfterReadback(inv, reachable) \in Status
  BY <1>1, <1>3, <1>4, StatusOperators DEF AfterReadback
<1>6. AfterLiveOrigin(inv, reachable) \in Status
  BY <1>1, <1>5, StatusOperators DEF AfterLiveOrigin
<1>7. ASSUME CheckCounted(inv)
      PROVE  CreateHistoryRow(AfterHealthCheck(inv, reachable)) \in HistoryRow
  <2>1. AfterHealthCheck(inv, reachable).lastVpsCheckAt = inv.checkedAt
    BY <1>2, <1>7 DEF AfterHealthCheck, ApplyFailoverHealthCheck, Status
  <2> QED
    BY <1>1, <1>3, <2>1 DEF CreateHistoryRow, HistoryRow, Status
<1> QED
  BY <1>3, <1>5, <1>6, <1>7 DEF inv

LEMMA ActionsTyped ==
    ASSUME TypeOK, NEW o \in Ops
    PROVE  /\ Target(o) \in Targets
           /\ AfterLock(o) \in Status
           /\ WriteVerified(o) => ActionReadback(o) \in Status /\ ActionStatus(o) \in Status
<1>1. Target(o) \in Targets
  BY DEF Target, Targets
<1>2. ASSUME NEW s \in Status, NEW t \in Nat, NEW a \in Targets, NEW d \in Targets,
             NEW l \in BOOLEAN
      PROVE  AfterDnsAction(o, s, a, d, l, t) \in Status
  <2>1. ApplyFailoverStatusFreshness(s, t) \in Status
    BY StatusOperators
  <2> QED
    BY <2>1, StatusOperators DEF AfterDnsAction
<1>3. AfterLock(o) \in Status
  <2>1. now \in Nat
    BY ControllerAssumption DEF TypeOK
  <2>2. SanitizeFailoverStatus(now) \in Status
    BY <2>1, ReadStatus
  <2>3. /\ SanitizeFailoverStatus(now).activeDnsTarget \in Targets
        /\ SanitizeFailoverStatus(now).desiredDnsTarget \in Targets
        /\ LockRequested(o) \in BOOLEAN
    BY <2>2 DEF Status, LockRequested
  <2> QED
    BY <1>2, <2>1, <2>2, <2>3 DEF AfterLock
<1>4. ASSUME WriteVerified(o)
      PROVE  ActionReadback(o) \in Status /\ ActionStatus(o) \in Status
  <2>1. op[o] \in OpState /\ op[o].nowMs \in Nat /\ op[o].seenLock \in BOOLEAN
        /\ op[o].answers \in [Hosts -> Answers]
    BY DEF TypeOK, OpState
  <2>2. op[o].answers \in [Hosts -> Classifications \cup {"error"}]
    BY <1>1, <1>4, <2>1 DEF WriteVerified, OnTarget, Classifications
  <2>3. SanitizeFailoverStatus(op[o].nowMs) \in Status
    BY <2>1, ReadStatus
  <2>4. ActionReadback(o) \in Status
    BY <2>1, <2>2, <2>3, StatusOperators DEF ActionReadback
  <2> QED
    BY <1>1, <1>2, <2>1, <2>4 DEF ActionStatus
<1> QED
  BY <1>1, <1>3, <1>4

LEMMA IdleTyped ==
    /\ IdleRun \in RunState
    /\ IdleOp \in OpState
    /\ [IdleOp EXCEPT !.pc = "done"] \in OpState
    /\ NoAnswers \in [Hosts -> ReadAnswers]
BY DEF IdleRun, IdleOp, RunState, OpState, NoAnswers, ReadAnswers, Answers

LEMMA InvocationsTyped ==
    ASSUME TypeOK
    PROVE  /\ \A source \in {"alarm", "scheduled_watchdog"} :
                 Woken(source) \in RunState /\ StartChecks(Woken(source)) \in RunState
           /\ \A r \in Runs : StartChecks(run[r]) \in RunState
<1>1. now \in Nat
  BY ControllerAssumption DEF TypeOK
<1>2. ASSUME NEW inv \in RunState
      PROVE  StartChecks(inv) \in RunState
  BY <1>1, IdleTyped DEF StartChecks, RunState
<1>3. ASSUME NEW source \in {"alarm", "scheduled_watchdog"}
      PROVE  Woken(source) \in RunState
  <2>1. ReadFailoverStatus(now).nextCheckDueAt \in Nat
    BY <1>1, ReadStatus DEF Status
  <2>2. (~stored \/ IsFailoverCheckDue(ReadFailoverStatus(now), now)) \in BOOLEAN
    BY DEF TypeOK, IsFailoverCheckDue
  <2> QED
    BY <1>1, <2>1, <2>2, IdleTyped DEF Woken, RunState
<1> QED
  BY <1>2, <1>3 DEF TypeOK

LEMMA LoseMemoryTyped ==
    ASSUME TypeOK, NEW S, LoseMemory(S)
    PROVE  /\ run' \in [Runs -> RunState]
           /\ op' \in [Ops -> OpState]
           /\ alarm' \in Time
           /\ crashes' \in 0 .. MaxCrashes
<1>1. run' \in [Runs -> RunState]
  BY IdleTyped DEF LoseMemory
<1>2. op' \in [Ops -> OpState]
  BY IdleTyped DEF LoseMemory, TypeOK
<1>3. alarm' \in Time
  BY ControllerAssumption DEF LoseMemory, TypeOK, Time
<1>4. crashes' \in 0 .. MaxCrashes
  BY ControllerAssumption DEF LoseMemory, TypeOK
<1> QED
  BY <1>1, <1>2, <1>3, <1>4

\* The bounded logs stay bounded and typed.
LEMMA LogsTyped ==
    ASSUME TypeOK
    PROVE  /\ \A row \in HistoryRow :
                 /\ AppendHistory(history, row) \in Seq(HistoryRow)
                 /\ Len(AppendHistory(history, row)) <= HistoryLimit
           /\ \A o \in Ops : RememberKey(o) =>
                 recentKeys' \in Seq(Keys) /\ Len(recentKeys') <= HistoryLimit
           /\ \A o \in Ops, result \in {"success", "duplicate", "refused", "failed"},
                 manualLock \in BOOLEAN : RecordAudit(o, result, manualLock) =>
                 audit' \in Seq(AuditRows) /\ Len(audit') <= AuditLimit
<1>1. ASSUME NEW row \in HistoryRow
      PROVE  /\ AppendHistory(history, row) \in Seq(HistoryRow)
             /\ Len(AppendHistory(history, row)) <= HistoryLimit
  BY ConfigAssumption, PrependProperties DEF AppendHistory, TypeOK
<1>2. ASSUME NEW o \in Ops, RememberKey(o)
      PROVE  recentKeys' \in Seq(Keys) /\ Len(recentKeys') <= HistoryLimit
  <2>1. OpKey[o] \in Keys
    BY DEF Keys
  <2>2. /\ Prepend(OpKey[o], recentKeys, HistoryLimit) \in Seq(Keys)
        /\ Len(Prepend(OpKey[o], recentKeys, HistoryLimit)) <= HistoryLimit
    BY <2>1, ConfigAssumption, PrependProperties DEF TypeOK
  <2> QED
    BY <1>2, <2>2 DEF RememberKey, TypeOK
<1>3. ASSUME NEW o \in Ops, NEW result \in {"success", "duplicate", "refused", "failed"},
             NEW manualLock \in BOOLEAN, RecordAudit(o, result, manualLock)
      PROVE  audit' \in Seq(AuditRows) /\ Len(audit') <= AuditLimit
  <2>1. AuditRow(o, result, manualLock) \in AuditRows
    BY ControllerAssumption DEF AuditRow, AuditRows, Keys
  <2> QED
    BY <1>3, <2>1, ConfigAssumption, PrependProperties DEF RecordAudit, TypeOK
<1> QED
  BY <1>1, <1>2, <1>3

LEMMA RunStepTyped ==
    ASSUME TypeOK, NEW r \in Runs, RunStep(r)
    PROVE  TypeOK'
<1>1. ASSUME NEW source \in {"alarm", "scheduled_watchdog"}, RunHealthCheck(r, source)
      PROVE  TypeOK'
  <2>1. now \in Nat
    BY ControllerAssumption DEF TypeOK
  <2>2. Woken(source).seenDueAt \in Nat
    BY InvocationsTyped DEF RunState
  <2>3. alarm' \in Time
    BY <1>1, <2>2 DEF RunHealthCheck, WakeStale, WakeNotDue, WakeDue, PendingAlarm,
       ScheduleNextFailoverAlarm, TypeOK, Time, NoTime
  <2>4. run' \in [Runs -> RunState]
    BY <1>1, InvocationsTyped DEF RunHealthCheck, WakeStale, WakeNotDue, WakeDue, TypeOK
  <2> QED
    BY <1>1, <2>3, <2>4 DEF RunHealthCheck, TypeOK, durable
<1>2. CASE WatchdogWake(r)
  BY <1>1, <1>2 DEF WatchdogWake
<1>3. CASE AlarmFires(r)
  BY <1>1, <1>3 DEF AlarmFires
<1>4. CASE AlertDelivered(r)
  <2>1. run[r].seenDueAt \in Nat
    BY DEF TypeOK, RunState
  <2>2. run' \in [Runs -> RunState]
    BY <1>4, InvocationsTyped, IdleTyped DEF AlertDelivered, TypeOK
  <2>3. alarm' \in Time
    BY <1>4, <2>1 DEF AlertDelivered, ScheduleNextFailoverAlarm, TypeOK, Time
  <2> QED
    BY <1>4, <2>2, <2>3 DEF AlertDelivered, TypeOK, durable
<1>5. ASSUME NEW h \in RecordsRead, ReadDnsRecord(r, h)
      PROVE  TypeOK'
  <2>1. PICK answer \in {dns[h], "error"} : run' = [run EXCEPT ![r].answers[h] = answer]
    BY <1>5 DEF ReadDnsRecord
  <2>2. answer \in ReadAnswers
    BY <2>1 DEF TypeOK, ReadAnswers, RecordsRead
  <2>3. run' \in [Runs -> RunState]
    <3> DEFINE after == [run[r] EXCEPT !.answers[h] = answer]
    <3>1. run[r] \in RunState
      BY DEF TypeOK
    <3>2. after \in RunState
      BY <2>2, <3>1 DEF RunState
    <3>3. run' = [run EXCEPT ![r] = after]
      BY <2>1, <3>1 DEF TypeOK
    <3> HIDE DEF after
    <3> QED
      BY <3>2, <3>3 DEF TypeOK
  <2> QED
    BY <1>5, <2>3 DEF ReadDnsRecord, TypeOK, durable
<1>6. CASE FinishRun(r)
  <2>1. PICK reachable \in BOOLEAN : /\ RecordHistory(run[r], reachable)
                                     /\ status' = AfterLiveOrigin(run[r], reachable)
    BY <1>6 DEF FinishRun
  <2>2. ProbesAnswered(r)
    BY <1>6 DEF FinishRun
  <2>3. status' \in Status
    BY <2>1, <2>2, RecordsTyped
  <2>4. history' \in Seq(HistoryRow) /\ Len(history') <= HistoryLimit
    BY <2>1, <2>2, RecordsTyped, LogsTyped DEF RecordHistory, TypeOK
  <2>5. alarm' \in Time
    BY <1>6, <2>3 DEF FinishRun, ScheduleNextFailoverAlarm, Status, Time
  <2>6. run' \in [Runs -> RunState]
    BY <1>6, IdleTyped DEF FinishRun, TypeOK
  <2> QED
    BY <1>6, <2>3, <2>4, <2>5, <2>6 DEF FinishRun, TypeOK
<1>7. CASE CrashInRecords(r)
  <2>1. PICK reachable \in BOOLEAN : /\ RecordHistory(run[r], reachable)
                                     /\ status' \in {AfterHealthCheck(run[r], reachable),
                                                     AfterReadback(run[r], reachable),
                                                     AfterLiveOrigin(run[r], reachable)}
    BY <1>7 DEF CrashInRecords
  <2>2. ProbesAnswered(r)
    BY <1>7 DEF CrashInRecords
  <2>3. status' \in Status
    BY <2>1, <2>2, RecordsTyped
  <2>4. history' \in Seq(HistoryRow) /\ Len(history') <= HistoryLimit
    BY <2>1, <2>2, RecordsTyped, LogsTyped DEF RecordHistory, TypeOK
  <2> QED
    BY <1>7, <2>3, <2>4, LoseMemoryTyped DEF CrashInRecords, TypeOK
<1> QED
  BY <1>2, <1>3, <1>4, <1>5, <1>6, <1>7 DEF RunStep

LEMMA OpStepTyped ==
    ASSUME TypeOK, NEW o \in Ops, OpStep(o)
    PROVE  TypeOK'
<1> USE DEF durable
<1>1. /\ op[o] \in OpState /\ op[o].seenLock \in BOOLEAN /\ now \in Nat
      /\ LockRequested(o) \in BOOLEAN
      /\ ResultOf(o) \in {"success", "duplicate"}
  BY ControllerAssumption DEF TypeOK, OpState, LockRequested, ResultOf
<1>2. Close(o) => op' \in [Ops -> OpState]
  BY IdleTyped DEF Close, TypeOK
<1>3. StoresLock(o) => /\ stored' \in BOOLEAN
                       /\ status' \in Status
                       /\ recentKeys' \in Seq(Keys) /\ Len(recentKeys') <= HistoryLimit
  <2>1. (stored \/ ~IsDuplicate(o)) \in BOOLEAN
    BY DEF TypeOK, IsDuplicate
  <2> QED
    BY <2>1, ActionsTyped, LogsTyped DEF StoresLock
<1>4. CASE ExecuteManualLock(o)
  <2>1. audit' \in Seq(AuditRows) /\ Len(audit') <= AuditLimit
    BY <1>1, <1>4, LogsTyped DEF ExecuteManualLock
  <2> QED
    BY <1>2, <1>3, <1>4, <2>1 DEF ExecuteManualLock, TypeOK
<1>5. CASE CrashInLock(o)
  BY <1>3, <1>5, LoseMemoryTyped DEF CrashInLock, TypeOK
<1>6. CASE StartDnsAction(o)
  <2>1. PICK expected \in Expectations :
            op' = [op EXCEPT ![o] = [IdleOp EXCEPT
                      !.pc = "reading", !.nowMs = now, !.expected = expected,
                      !.seenLock = ReadFailoverStatus(now).manualLock]]
    BY <1>6 DEF StartDnsAction
  <2>2. expected \in [Hosts -> Answers]
    BY ControllerAssumption DEF Answers, ReadAnswers
  <2>3. ReadFailoverStatus(now).manualLock \in BOOLEAN
    BY <1>1, ReadStatus DEF Status
  <2>4. op' \in [Ops -> OpState]
    BY <1>1, <2>1, <2>2, <2>3, IdleTyped DEF TypeOK, OpState
  <2> QED
    BY <1>6, <2>4 DEF StartDnsAction, TypeOK
<1>7. CASE RefuseUnconfigured(o)
  <2>1. ReadFailoverStatus(now).manualLock \in BOOLEAN
    BY <1>1, ReadStatus DEF Status
  <2>2. audit' \in Seq(AuditRows) /\ Len(audit') <= AuditLimit
    BY <1>7, <2>1, LogsTyped DEF RefuseUnconfigured
  <2> QED
    BY <1>2, <1>7, <2>2 DEF RefuseUnconfigured, TypeOK
<1>8. ASSUME NEW h \in Hosts, ReadForAction(o, h)
      PROVE  TypeOK'
  <2>1. PICK answer \in {dns[h], "error"} : op' = [op EXCEPT ![o].answers[h] = answer]
    BY <1>8 DEF ReadForAction
  <2>2. answer \in Answers
    BY <2>1 DEF TypeOK, Answers, ReadAnswers
  <2>3. op' \in [Ops -> OpState]
    <3> DEFINE after == [op[o] EXCEPT !.answers[h] = answer]
    <3>1. op[o] \in OpState
      BY DEF TypeOK
    <3>2. after \in OpState
      BY <2>2, <3>1 DEF OpState
    <3>3. op' = [op EXCEPT ![o] = after]
      BY <2>1, <3>1 DEF TypeOK
    <3> HIDE DEF after
    <3> QED
      BY <3>2, <3>3 DEF TypeOK
  <2> QED
    BY <1>8, <2>3 DEF ReadForAction, TypeOK
<1>9. ASSUME NEW h \in Hosts, PatchDnsRecord(o, h)
      PROVE  TypeOK'
  <2>1. PICK answer \in {"ok", "error"} : op' = [op EXCEPT ![o].answers[h] = answer]
    BY <1>9 DEF PatchDnsRecord
  <2>2. op' \in [Ops -> OpState]
    <3> DEFINE after == [op[o] EXCEPT !.answers[h] = answer]
    <3>1. op[o] \in OpState
      BY DEF TypeOK
    <3>2. after \in OpState
      BY <2>1, <3>1 DEF OpState, Answers, ReadAnswers
    <3>3. op' = [op EXCEPT ![o] = after]
      BY <2>1, <3>1 DEF TypeOK
    <3> HIDE DEF after
    <3> QED
      BY <3>2, <3>3 DEF TypeOK
  <2>3. dns' \in [Hosts -> Classifications]
    BY <1>9, ActionsTyped DEF PatchDnsRecord, TypeOK, Classifications
  <2> QED
    BY <1>9, <2>2, <2>3 DEF PatchDnsRecord, TypeOK
<1>10. CASE StartPatches(o) \/ StartVerification(o)
  <2>1. NoAnswers \in [Hosts -> Answers]
    BY DEF NoAnswers, Answers, ReadAnswers
  <2>2. PICK pc \in {"patching", "verifying"} :
            op' = [op EXCEPT ![o].pc = pc, ![o].answers = NoAnswers]
    BY <1>10 DEF StartPatches, StartVerification
  <2>3. [op[o] EXCEPT !.pc = pc, !.answers = NoAnswers] \in OpState
    BY <1>1, <2>1 DEF OpState
  <2>4. op' = [op EXCEPT ![o] = [op[o] EXCEPT !.pc = pc, !.answers = NoAnswers]]
    BY <2>2
  <2>5. op' \in [Ops -> OpState]
    BY <2>3, <2>4 DEF TypeOK
  <2> QED
    BY <1>10, <2>5 DEF StartPatches, StartVerification, TypeOK
<1>11. CASE GiveUp(o)
  <2>1. audit' \in Seq(AuditRows) /\ Len(audit') <= AuditLimit
    BY <1>1, <1>11, LogsTyped DEF GiveUp
  <2> QED
    BY <1>2, <1>11, <2>1 DEF GiveUp, TypeOK
<1>12. CASE ExecuteDnsAction(o)
  <2>1. ActionStatus(o) \in Status /\ ActionStatus(o).manualLock \in BOOLEAN
    BY <1>12, ActionsTyped DEF ExecuteDnsAction, Status
  <2>2. audit' \in Seq(AuditRows) /\ Len(audit') <= AuditLimit
    BY <1>1, <1>12, <2>1, LogsTyped DEF ExecuteDnsAction
  <2> QED
    BY <1>2, <1>12, <2>1, <2>2, LogsTyped DEF ExecuteDnsAction, TypeOK
<1>13. CASE CrashInAction(o)
  <2>1. status' \in Status
    BY <1>13, ActionsTyped DEF CrashInAction
  <2>2. recentKeys' \in Seq(Keys) /\ Len(recentKeys') <= HistoryLimit
    BY <1>13, LogsTyped DEF CrashInAction, TypeOK
  <2> QED
    BY <1>13, <2>1, <2>2, LoseMemoryTyped DEF CrashInAction, TypeOK
<1> QED
  BY <1>4, <1>5, <1>6, <1>7, <1>8, <1>9, <1>10, <1>11, <1>12, <1>13 DEF OpStep

LEMMA InitTyped == Init => TypeOK
<1> SUFFICES ASSUME Init PROVE TypeOK
  OBVIOUS
<1>1. status \in Status
  BY DefaultStatus DEF Init
<1>2. dns \in [Hosts -> Classifications]
  BY DEF Init, Classifications, Targets
<1>3. /\ history \in Seq(HistoryRow) /\ Len(history) <= HistoryLimit
      /\ recentKeys \in Seq(Keys) /\ Len(recentKeys) <= HistoryLimit
      /\ audit \in Seq(AuditRows) /\ Len(audit) <= AuditLimit
  BY ConfigAssumption, EmptySeq DEF Init
<1>4. run \in [Runs -> RunState] /\ op \in [Ops -> OpState]
  BY IdleTyped DEF Init
<1>5. now \in 0 .. MaxTime /\ crashes \in 0 .. MaxCrashes
  BY ControllerAssumption DEF Init
<1>6. stored \in BOOLEAN /\ alarm \in Time
  BY DEF Init, Time
<1> QED
  BY <1>1, <1>2, <1>3, <1>4, <1>5, <1>6 DEF TypeOK

LEMMA NextTyped == TypeOK /\ [Next]_vars => TypeOK'
<1> SUFFICES ASSUME TypeOK, [Next]_vars PROVE TypeOK'
  OBVIOUS
<1> USE DEF durable
<1>1. ASSUME NEW h \in Hosts, OutsideChange(h)
      PROVE  TypeOK'
  BY <1>1, ControllerAssumption DEF OutsideChange, TypeOK
<1>2. CASE Crash
  BY <1>2, LoseMemoryTyped DEF Crash, TypeOK
<1>3. CASE Tick
  BY <1>3, ControllerAssumption DEF Tick, TypeOK
<1>4. CASE UNCHANGED vars
  BY <1>4 DEF vars, TypeOK
<1> QED
  BY <1>1, <1>2, <1>3, <1>4, RunStepTyped, OpStepTyped DEF Next

\* The stored records, the messages in flight and the clock keep their types,
\* and the logs their bounds, in every configuration.
THEOREM TypeCorrectness == Spec => []TypeOK
<1>1. Init => TypeOK
  BY InitTyped
<1>2. TypeOK /\ [Next]_vars => TypeOK'
  BY NextTyped
<1> QED
  BY <1>1, <1>2, PTL DEF Spec

-----------------------------------------------------------------------------
(* The inductive invariant of counting: what the status and the history    *)
(* have to do with each other between any two steps.                       *)

NothingStored ==
    ~stored => /\ status = CreateDefaultFailoverStatus(0)
               /\ history = <<>>
               /\ recentKeys = <<>>

NeverChecked ==
    history = <<>> => /\ status.lastVpsCheckAt = NoTime
                      /\ status.consecutiveVpsFailures = 0

CountInv ==
    /\ NothingStored
    /\ NeverChecked
    /\ StatusMatchesHistory
    /\ HistorySpaced
    /\ StreakMatchesHistory

\* Probes start after the wake, and no invocation is ahead of the clock.
RunTimes ==
    \A r \in Runs : /\ run[r].nowMs <= now
                    /\ run[r].checkedAt <= now
                    /\ run[r].pc = "checking" => run[r].nowMs <= run[r].checkedAt

\* Only requests to move the DNS are ever between start and end.
OpKinds ==
    \A o \in Ops : op[o].pc \notin {"idle", "done"} => OpAction[o] \notin LockActions

IInv == TypeOK /\ CountInv /\ RunTimes /\ OpKinds

\* Two statuses that tell of the same counted check.
SameCheck(s, t) ==
    /\ s.lastVpsCheckAt = t.lastVpsCheckAt
    /\ s.lastVpsReachable = t.lastVpsReachable
    /\ s.consecutiveVpsFailures = t.consecutiveVpsFailures
    /\ s.nextCheckDueAt = t.nextCheckDueAt

\* Two statuses with the same operator's settings.
SameOrders(s, t) ==
    /\ s.desiredDnsTarget = t.desiredDnsTarget
    /\ s.manualLock = t.manualLock

\* Only a health check changes what is told of the counted check, and only a
\* health check or an action changes the desired target.
LEMMA KeptFields ==
    ASSUME NEW s \in Status, NEW t \in Nat
    PROVE  /\ SameCheck(ApplyFailoverStatusFreshness(s, t), s)
           /\ SameOrders(ApplyFailoverStatusFreshness(s, t), s)
           /\ SameCheck(ApplyLiveOriginReadiness(s, t), s)
           /\ SameOrders(ApplyLiveOriginReadiness(s, t), s)
           /\ \A answers : /\ SameCheck(ApplyDnsReadback(s, answers, t), s)
                           /\ SameOrders(ApplyDnsReadback(s, answers, t), s)
           /\ \A a, d, l : /\ SameCheck(ApplyDnsAction(s, a, d, l, t), s)
                           /\ ApplyDnsAction(s, a, d, l, t).desiredDnsTarget = d
                           /\ ApplyDnsAction(s, a, d, l, t).manualLock = l
<1>1. /\ SameCheck(ApplyFailoverStatusFreshness(s, t), s)
      /\ SameOrders(ApplyFailoverStatusFreshness(s, t), s)
  BY DEF ApplyFailoverStatusFreshness, SameCheck, SameOrders, Status
<1>2. /\ SameCheck(ApplyLiveOriginReadiness(s, t), s)
      /\ SameOrders(ApplyLiveOriginReadiness(s, t), s)
  BY DEF ApplyLiveOriginReadiness, SameCheck, SameOrders, Status
<1>3. ASSUME NEW answers
      PROVE  /\ SameCheck(ApplyDnsReadback(s, answers, t), s)
             /\ SameOrders(ApplyDnsReadback(s, answers, t), s)
  BY DEF ApplyDnsReadback, SameCheck, SameOrders, Status
<1>4. ASSUME NEW a, NEW d, NEW l
      PROVE  /\ SameCheck(ApplyDnsAction(s, a, d, l, t), s)
             /\ ApplyDnsAction(s, a, d, l, t).desiredDnsTarget = d
             /\ ApplyDnsAction(s, a, d, l, t).manualLock = l
  BY DEF ApplyDnsAction, SameCheck, Status
<1> QED
  BY <1>1, <1>2, <1>3, <1>4

\* The status a handler starts from tells of the stored check; it is the
\* default status as long as nothing is stored.
LEMMA Sanitized ==
    ASSUME TypeOK, CountInv, NEW t \in Nat
    PROVE  LET current == SanitizeFailoverStatus(t)
           IN /\ current \in Status
              /\ SameOrders(current, status)
              /\ current.lastVpsCheckAt = status.lastVpsCheckAt
              /\ current.consecutiveVpsFailures = status.consecutiveVpsFailures
              /\ stored => current = status
<1>1. SanitizeFailoverStatus(t) \in Status
  BY ReadStatus
<1>2. CASE stored
  BY <1>1, <1>2 DEF SanitizeFailoverStatus, SameOrders
<1>3. CASE ~stored
  <2>1. status = CreateDefaultFailoverStatus(0)
    BY <1>3 DEF CountInv, NothingStored
  <2>2. SanitizeFailoverStatus(t) = CreateDefaultFailoverStatus(t)
    BY <1>3 DEF SanitizeFailoverStatus
  <2>3. /\ SameOrders(CreateDefaultFailoverStatus(t), CreateDefaultFailoverStatus(0))
        /\ CreateDefaultFailoverStatus(t).lastVpsCheckAt
             = CreateDefaultFailoverStatus(0).lastVpsCheckAt
        /\ CreateDefaultFailoverStatus(t).consecutiveVpsFailures
             = CreateDefaultFailoverStatus(0).consecutiveVpsFailures
    BY DEF CreateDefaultFailoverStatus, SameOrders
  <2> QED
    BY <1>1, <1>3, <2>1, <2>2, <2>3
<1> QED
  BY <1>2, <1>3

\* A record that counts no check keeps the invariant of counting.
LEMMA UncountedKeeps ==
    ASSUME CountInv, history' = history,
           \/ stored' = stored /\ status' = status /\ recentKeys' = recentKeys
           \/ stored /\ stored' /\ SameCheck(status', status)
           \/ /\ ~stored /\ stored'
              /\ status'.lastVpsCheckAt = status.lastVpsCheckAt
              /\ status'.consecutiveVpsFailures = status.consecutiveVpsFailures
    PROVE  CountInv'
<1>1. NothingStored'
  BY DEF CountInv, NothingStored
<1>2. NeverChecked'
  BY DEF CountInv, NeverChecked, SameCheck
<1>3. StatusMatchesHistory'
  BY DEF CountInv, NothingStored, StatusMatchesHistory, SameCheck, CreateHistoryRow
<1>4. HistorySpaced'
  BY DEF CountInv, HistorySpaced
<1>5. StreakMatchesHistory'
  BY DEF CountInv, StreakMatchesHistory, SameCheck
<1> QED
  BY <1>1, <1>2, <1>3, <1>4, <1>5 DEF CountInv

\* What the records of an invocation leave: the check fields and the orders
\* are those of the health check, whichever record was the last.
LEMMA RecordsKeepCheck ==
    ASSUME TypeOK, NEW r \in Runs, ProbesAnswered(r), NEW reachable \in BOOLEAN,
           NEW s \in {AfterHealthCheck(run[r], reachable),
                      AfterReadback(run[r], reachable),
                      AfterLiveOrigin(run[r], reachable)}
    PROVE  /\ SameCheck(s, AfterHealthCheck(run[r], reachable))
           /\ SameOrders(s, AfterHealthCheck(run[r], reachable))
<1> DEFINE h == AfterHealthCheck(run[r], reachable)
           b == AfterReadback(run[r], reachable)
           l == AfterLiveOrigin(run[r], reachable)
<1>1. h \in Status /\ b \in Status /\ run[r].nowMs \in Nat
  BY RecordsTyped DEF TypeOK, RunState
<1>2. SameCheck(b, h) /\ SameOrders(b, h)
  BY <1>1, KeptFields DEF AfterReadback, SameCheck, SameOrders
<1>3. SameCheck(l, b) /\ SameOrders(l, b)
  BY <1>1, KeptFields DEF AfterLiveOrigin
<1> QED
  BY <1>2, <1>3 DEF SameCheck, SameOrders

\* The effect of a counted check on the fields the invariant speaks of.
LEMMA CountedCheck ==
    ASSUME TypeOK, CountInv, NEW r \in Runs, CheckCounted(run[r]), NEW reachable \in BOOLEAN
    PROVE  LET s == AfterHealthCheck(run[r], reachable)
           IN /\ s.lastVpsCheckAt = run[r].checkedAt
              /\ s.lastVpsReachable = reachable
              /\ s.consecutiveVpsFailures =
                    IF reachable THEN 0 ELSE status.consecutiveVpsFailures + 1
              /\ s.nextCheckDueAt = run[r].checkedAt + CheckInterval
              /\ s.manualLock = status.manualLock
              /\ s.desiredDnsTarget =
                    IF status.manualLock THEN status.desiredDnsTarget
                    ELSE IF reachable THEN "vps"
                    ELSE IF status.consecutiveVpsFailures + 1 >= FailureThreshold THEN "vercel"
                    ELSE status.desiredDnsTarget
<1> DEFINE c == SanitizeFailoverStatus(run[r].nowMs)
<1>1. run[r].nowMs \in Nat
  BY DEF TypeOK, RunState
<1>2. /\ c \in Status
      /\ c.desiredDnsTarget = status.desiredDnsTarget
      /\ c.manualLock = status.manualLock
      /\ c.consecutiveVpsFailures = status.consecutiveVpsFailures
  BY <1>1, Sanitized DEF SameOrders
<1> HIDE DEF c
<1>3. AfterHealthCheck(run[r], reachable)
        = ApplyFailoverHealthCheck(c, reachable, run[r].checkedAt)
  BY DEF AfterHealthCheck, c
<1>4. ApplyFailoverHealthCheck(c, reachable, run[r].checkedAt) =
        [c EXCEPT !.generatedAt = run[r].checkedAt,
                  !.desiredDnsTarget = NextDesiredTarget(c, reachable),
                  !.lastVpsCheckAt = run[r].checkedAt,
                  !.lastVpsReachable = reachable,
                  !.consecutiveVpsFailures = NextVpsFailures(c, reachable),
                  !.nextCheckDueAt = NextCheckDue(c, run[r].checkedAt),
                  !.stale = FALSE]
  BY DEF ApplyFailoverHealthCheck
<1>5. NextVpsFailures(c, reachable) =
        IF reachable THEN 0 ELSE status.consecutiveVpsFailures + 1
  BY <1>2 DEF NextVpsFailures
<1>6. NextDesiredTarget(c, reachable) =
        IF status.manualLock THEN status.desiredDnsTarget
        ELSE IF reachable THEN "vps"
        ELSE IF status.consecutiveVpsFailures + 1 >= FailureThreshold THEN "vercel"
        ELSE status.desiredDnsTarget
  BY <1>2 DEF NextDesiredTarget, NextVpsFailures
<1>7. NextCheckDue(c, run[r].checkedAt) = run[r].checkedAt + CheckInterval
  BY DEF NextCheckDue
<1> QED
  BY <1>2, <1>3, <1>4, <1>5, <1>6, <1>7 DEF Status

LEMMA OneMoreInterval ==
    \A k \in Nat \ {0} : k * CheckInterval = CheckInterval + (k - 1) * CheckInterval
BY ConfigAssumption

\* The history with one row more.
LEMMA AppendedHistory ==
    ASSUME TypeOK, NEW row \in HistoryRow, history' = AppendHistory(history, row)
    PROVE  /\ history' \in Seq(HistoryRow)
           /\ Len(history') = IF Len(history) < HistoryLimit THEN Len(history) + 1 ELSE HistoryLimit
           /\ history' # <<>>
           /\ history'[1] = row
           /\ \A i \in 2 .. Len(history') : i - 1 \in DOMAIN history /\ history'[i] = history[i - 1]
<1> DEFINE new == Prepend(row, history, HistoryLimit)
<1>1. /\ HistoryLimit \in Nat \ {0}
      /\ history \in Seq(HistoryRow) /\ Len(history) <= HistoryLimit
  BY ConfigAssumption DEF TypeOK
<1>2. new \in Seq(HistoryRow)
  BY <1>1, PrependProperties
<1>3. Len(new) = IF Len(history) < HistoryLimit THEN Len(history) + 1 ELSE HistoryLimit
  BY <1>1, PrependProperties
<1>4. new # <<>>
  BY <1>1, PrependProperties
<1>5. new[1] = row
  BY <1>1, PrependProperties
<1>6. ASSUME NEW i \in 2 .. Len(new)
      PROVE  i - 1 \in DOMAIN history /\ new[i] = history[i - 1]
  <2>1. i - 1 \in DOMAIN history
    BY <1>1, PrependProperties
  <2>2. new[i] = history[i - 1]
    BY <1>1, PrependProperties
  <2> QED
    BY <2>1, <2>2
<1>7. history' = new
  BY DEF AppendHistory
<1> HIDE DEF new
<1> QED
  BY <1>2, <1>3, <1>4, <1>5, <1>6, <1>7

\* A counted check keeps the invariant of counting: it comes an interval
\* after the newest row, and it extends or ends the current outage.
LEMMA CountedKeeps ==
    ASSUME TypeOK, CountInv, RunTimes,
           NEW r \in Runs, run[r].pc = "checking", CheckCounted(run[r]),
           NEW reachable \in BOOLEAN,
           CreateHistoryRow(AfterHealthCheck(run[r], reachable)) \in HistoryRow,
           history' = AppendHistory(history, CreateHistoryRow(AfterHealthCheck(run[r], reachable))),
           stored', SameCheck(status', AfterHealthCheck(run[r], reachable))
    PROVE  CountInv'
<1> DEFINE s == AfterHealthCheck(run[r], reachable)
           row == CreateHistoryRow(s)
           at == run[r].checkedAt
           f == status.consecutiveVpsFailures
<1>1. /\ at \in Nat /\ run[r].nowMs \in Nat /\ f \in Nat
      /\ history \in Seq(HistoryRow) /\ Len(history) \in Nat /\ Len(history) <= HistoryLimit
      /\ DOMAIN history = 1 .. Len(history)
      /\ HistoryLimit \in Nat \ {0} /\ CheckInterval \in Nat
      /\ run[r].nowMs <= at
  BY ConfigAssumption, LenProperties DEF TypeOK, RunState, Status, RunTimes
<1>2. /\ s.lastVpsCheckAt = at /\ s.lastVpsReachable = reachable
      /\ s.consecutiveVpsFailures = IF reachable THEN 0 ELSE f + 1
      /\ s.nextCheckDueAt = at + CheckInterval
  BY CountedCheck
<1>3. /\ row.checkedAt = at /\ row.vpsReachable = reachable
      /\ row.consecutiveVpsFailures = IF reachable THEN 0 ELSE f + 1
  BY <1>2 DEF CreateHistoryRow
<1> HIDE DEF row
<1>4. /\ history' \in Seq(HistoryRow)
      /\ Len(history') = IF Len(history) < HistoryLimit THEN Len(history) + 1 ELSE HistoryLimit
      /\ history' # <<>> /\ history'[1] = row
      /\ \A i \in 2 .. Len(history') : i - 1 \in DOMAIN history /\ history'[i] = history[i - 1]
  <2>1. row \in HistoryRow /\ history' = AppendHistory(history, row)
    BY DEF row, s
  <2> QED
    BY <2>1, AppendedHistory
<1>5. Len(history') \in Nat /\ DOMAIN history' = 1 .. Len(history')
  BY <1>4, LenProperties
<1>6. /\ status'.lastVpsCheckAt = at /\ status'.lastVpsReachable = reachable
      /\ status'.consecutiveVpsFailures = IF reachable THEN 0 ELSE f + 1
      /\ status'.nextCheckDueAt = at + CheckInterval
  BY <1>2 DEF SameCheck
<1> HIDE DEF s, at, f
<1>7. NothingStored' /\ NeverChecked'
  BY <1>4 DEF NothingStored, NeverChecked
<1>8. StatusMatchesHistory'
  <2>1. history'[1] = CreateHistoryRow(status')
    BY <1>2, <1>4, <1>6 DEF row, CreateHistoryRow, s
  <2> QED
    BY <1>6, <2>1 DEF StatusMatchesHistory
<1>9. HistorySpaced'
  <2>1. ASSUME history # <<>>
        PROVE  at - history[1].checkedAt >= CheckInterval /\ history[1].checkedAt \in Nat
    <3>1. stored /\ history[1].checkedAt = status.lastVpsCheckAt
          /\ status.nextCheckDueAt = status.lastVpsCheckAt + CheckInterval
      BY <2>1 DEF CountInv, StatusMatchesHistory, CreateHistoryRow
    <3>2. status.nextCheckDueAt <= run[r].nowMs
      BY <3>1 DEF CheckCounted, IsFailoverCheckDue, SanitizeFailoverStatus
    <3>3. Len(history) # 0
      BY <1>1, <2>1, EmptySeq
    <3>4. history[1] \in HistoryRow
      BY <1>1, <3>3, ElementOfSeq
    <3> QED
      BY SMTT(30), <1>1, <3>1, <3>2, <3>4 DEF HistoryRow
  <2>2. ASSUME NEW i \in DOMAIN history
        PROVE  history[i].checkedAt \in Nat
    <3>1. history[i] \in HistoryRow
      BY <1>1, ElementOfSeq
    <3> QED
      BY <3>1 DEF HistoryRow
  <2>3. \A j \in 2 .. Len(history') :
            at - history[j - 1].checkedAt >= (j - 1) * CheckInterval
    <3> SUFFICES ASSUME NEW j \in 2 .. Len(history')
                 PROVE  at - history[j - 1].checkedAt >= (j - 1) * CheckInterval
      OBVIOUS
    <3>1. j - 1 \in DOMAIN history /\ j - 1 \in Nat \ {0} /\ 1 \in DOMAIN history
      BY <1>1, <1>4, <1>5
    <3>2. history # <<>>
      BY <1>1, <3>1, EmptySeq
    <3>3. (j - 1) * CheckInterval = CheckInterval + (j - 2) * CheckInterval
      BY <3>1, OneMoreInterval
    <3>4. history[1].checkedAt - history[j - 1].checkedAt >= (j - 2) * CheckInterval
      <4>1. CASE j - 1 = 1
        <5>1. j = 2
          BY <4>1
        <5>2. (2 - 2) * CheckInterval = 0
          BY <1>1
        <5> QED
          BY <2>2, <3>1, <5>1, <5>2
      <4>2. CASE j - 1 # 1
        <5>1. 1 < j - 1
          BY <3>1, <4>2
        <5>2. history[1].checkedAt - history[j - 1].checkedAt >= ((j - 1) - 1) * CheckInterval
          BY <3>1, <5>1 DEF CountInv, HistorySpaced
        <5>3. (j - 1) - 1 = j - 2
          OBVIOUS
        <5> QED
          BY <5>2, <5>3
      <4> QED
        BY <4>1, <4>2
    <3>5. (j - 2) * CheckInterval \in Int /\ (j - 1) * CheckInterval \in Int
      BY <1>1
    <3>6. at - history[1].checkedAt >= CheckInterval /\ history[1].checkedAt \in Nat
      BY <2>1, <3>2
    <3>7. history[j - 1].checkedAt \in Nat
      BY <2>2, <3>1
    <3> DEFINE first == history[1].checkedAt
               last == history[j - 1].checkedAt
               x == (j - 2) * CheckInterval
               y == (j - 1) * CheckInterval
    <3> HIDE DEF first, last, x, y
    <3>8. y = CheckInterval + x /\ x \in Int /\ first \in Nat /\ last \in Nat
          /\ at - first >= CheckInterval /\ first - last >= x
      BY <3>3, <3>4, <3>5, <3>6, <3>7 DEF first, last, x, y
    <3>9. at - last >= y
      BY <1>1, <3>8
    <3> QED
      BY <3>9 DEF last, y
  <2>4. ASSUME NEW i \in DOMAIN history', NEW j \in DOMAIN history', i < j
        PROVE  history'[i].checkedAt - history'[j].checkedAt >= (j - i) * CheckInterval
    <3>1. j \in 2 .. Len(history') /\ i \in 1 .. Len(history')
      BY <1>5, <2>4
    <3>2. history'[j] = history[j - 1] /\ j - 1 \in DOMAIN history
      BY <1>4, <3>1
    <3>3. CASE i = 1
      <4>1. history'[i].checkedAt = at
        BY <1>3, <1>4, <3>3
      <4>2. at - history[j - 1].checkedAt >= (j - 1) * CheckInterval
        BY <2>3, <3>1
      <4> QED
        BY <3>2, <3>3, <4>1, <4>2
    <3>4. CASE i # 1
      <4>1. i \in 2 .. Len(history') /\ i - 1 < j - 1
        BY <3>1, <3>4, <2>4
      <4>2. history'[i] = history[i - 1] /\ i - 1 \in DOMAIN history
        BY <1>4, <4>1
      <4>3. history[i - 1].checkedAt - history[j - 1].checkedAt
              >= ((j - 1) - (i - 1)) * CheckInterval
        BY <3>2, <4>1, <4>2 DEF CountInv, HistorySpaced
      <4>4. (j - 1) - (i - 1) = j - i
        BY <3>1
      <4> QED
        BY <3>2, <4>2, <4>3, <4>4
    <3> QED
      BY <3>3, <3>4
  <2> QED
    BY <2>4 DEF HistorySpaced
<1>10. StreakMatchesHistory'
  <2>1. Len(history') >= HistoryLimit \/ Len(history') >= status'.consecutiveVpsFailures
    BY <1>1, <1>4, <1>6 DEF CountInv, StreakMatchesHistory, f
  <2>2. ASSUME NEW i \in DOMAIN history'
        PROVE  /\ i <= status'.consecutiveVpsFailures => ~history'[i].vpsReachable
               /\ i = status'.consecutiveVpsFailures + 1 => history'[i].vpsReachable
    <3>1. i \in 1 .. Len(history')
      BY <1>5
    <3>2. CASE i = 1
      BY <1>1, <1>3, <1>4, <1>6, <3>2
    <3>3. CASE i # 1
      <4>1. i \in 2 .. Len(history')
        BY <3>1, <3>3
      <4>2. history'[i] = history[i - 1] /\ i - 1 \in DOMAIN history
        BY <1>4, <4>1
      <4>3. /\ i - 1 <= f => ~history[i - 1].vpsReachable
            /\ i - 1 = f + 1 => history[i - 1].vpsReachable
        BY <4>2 DEF CountInv, StreakMatchesHistory, f
      <4> QED
        BY <1>1, <1>6, <4>1, <4>2, <4>3
    <3> QED
      BY <3>2, <3>3
  <2> QED
    BY <2>1, <2>2 DEF StreakMatchesHistory
<1> QED
  BY <1>7, <1>8, <1>9, <1>10 DEF CountInv

\* A record made on top of the status a handler sanitized, the check fields
\* kept.
LEMMA RecordKeeps ==
    ASSUME TypeOK, CountInv, NEW t \in Nat, stored', history' = history,
           SameCheck(status', SanitizeFailoverStatus(t))
    PROVE  /\ CountInv'
           /\ status'.lastVpsCheckAt = status.lastVpsCheckAt
           /\ status'.consecutiveVpsFailures = status.consecutiveVpsFailures
<1>1. /\ stored => SanitizeFailoverStatus(t) = status
      /\ SanitizeFailoverStatus(t).lastVpsCheckAt = status.lastVpsCheckAt
      /\ SanitizeFailoverStatus(t).consecutiveVpsFailures = status.consecutiveVpsFailures
  BY Sanitized
<1>2. /\ status'.lastVpsCheckAt = status.lastVpsCheckAt
      /\ status'.consecutiveVpsFailures = status.consecutiveVpsFailures
  BY <1>1 DEF SameCheck
<1>3. stored => SameCheck(status', status)
  BY <1>1
<1>4. CountInv'
  BY <1>2, <1>3, UncountedKeeps
<1> QED
  BY <1>2, <1>4

\* The steps of FailoverPromise a step of the controller may be seen as; only
\* an operator's own DNS action moves the target at will.
PromisedStep ==
    \/ UNCHANGED Promise!vars
    \/ Promise!Success
    \/ Promise!Failure
    \/ Promise!Lock
    \/ Promise!Move /\ OperatorActed

\* The records of an invocation are one counted check or nothing at all.
LEMMA RecordsPromised ==
    ASSUME IInv, NEW r \in Runs, ProbesAnswered(r), NEW reachable \in BOOLEAN,
           RecordHistory(run[r], reachable), stored',
           status' \in {AfterHealthCheck(run[r], reachable),
                        AfterReadback(run[r], reachable),
                        AfterLiveOrigin(run[r], reachable)}
    PROVE  CountInv' /\ PromisedStep
<1> DEFINE h == AfterHealthCheck(run[r], reachable)
<1>1. /\ TypeOK /\ CountInv /\ RunTimes
      /\ run[r].nowMs \in Nat /\ run[r].checkedAt \in Nat
      /\ run[r].pc = "checking" /\ run[r].nowMs <= run[r].checkedAt
  BY DEF IInv, TypeOK, RunState, RunTimes, ProbesAnswered
<1>2. SameCheck(status', h) /\ SameOrders(status', h)
  BY <1>1, RecordsKeepCheck
<1>3. CASE CheckCounted(run[r])
  <2>1. CountInv'
    BY <1>1, <1>2, <1>3, CountedKeeps, RecordsTyped DEF RecordHistory
  <2>2. /\ status'.lastVpsCheckAt = run[r].checkedAt
        /\ status'.consecutiveVpsFailures =
              IF reachable THEN 0 ELSE status.consecutiveVpsFailures + 1
        /\ status'.manualLock = status.manualLock
        /\ status'.desiredDnsTarget =
              IF status.manualLock THEN status.desiredDnsTarget
              ELSE IF reachable THEN "vps"
              ELSE IF status.consecutiveVpsFailures + 1 >= FailureThreshold THEN "vercel"
              ELSE status.desiredDnsTarget
    BY <1>1, <1>2, <1>3, CountedCheck DEF SameCheck, SameOrders
  <2>3. status.lastVpsCheckAt >= 0 =>
            run[r].checkedAt >= status.lastVpsCheckAt + CheckInterval
    <3> SUFFICES ASSUME status.lastVpsCheckAt >= 0
                 PROVE  run[r].checkedAt >= status.lastVpsCheckAt + CheckInterval
      OBVIOUS
    <3>1. history # <<>>
      BY <1>1 DEF CountInv, NeverChecked, NoTime
    <3>2. stored /\ status.nextCheckDueAt = status.lastVpsCheckAt + CheckInterval
      BY <1>1, <3>1 DEF CountInv, StatusMatchesHistory
    <3>3. status.nextCheckDueAt <= run[r].nowMs
      BY <1>3, <3>2 DEF CheckCounted, IsFailoverCheckDue, SanitizeFailoverStatus
    <3>4. status.nextCheckDueAt \in Nat
      BY <1>1 DEF TypeOK, Status
    <3> QED
      BY <1>1, <3>2, <3>3, <3>4
  <2>4. Promise!Counted
    BY <1>1, <2>2, <2>3 DEF Promise!Counted
  <2>5. Promise!Success \/ Promise!Failure
    BY <2>2, <2>4 DEF Promise!Success, Promise!Failure
  <2> QED
    BY <2>1, <2>5 DEF PromisedStep
<1>4. CASE ~CheckCounted(run[r])
  <2>1. h = SanitizeFailoverStatus(run[r].nowMs) /\ history' = history
    BY <1>4 DEF AfterHealthCheck, RecordHistory
  <2>2. /\ CountInv'
        /\ status'.lastVpsCheckAt = status.lastVpsCheckAt
        /\ status'.consecutiveVpsFailures = status.consecutiveVpsFailures
    BY <1>1, <1>2, <2>1, RecordKeeps
  <2>3. SameOrders(h, status)
    BY <1>1, <2>1, Sanitized
  <2>4. UNCHANGED Promise!vars
    BY <1>2, <2>2, <2>3 DEF Promise!vars, SameOrders
  <2> QED
    BY <2>2, <2>4 DEF PromisedStep
<1> QED
  BY <1>3, <1>4

\* What the records of an operator's action leave.
LEMMA ActionFields ==
    ASSUME TypeOK, CountInv, NEW o \in Ops
    PROVE  /\ SameCheck(AfterLock(o), SanitizeFailoverStatus(now))
           /\ AfterLock(o).desiredDnsTarget = status.desiredDnsTarget
           /\ AfterLock(o).manualLock \in BOOLEAN
           /\ SameCheck(ActionReadback(o), SanitizeFailoverStatus(op[o].nowMs))
           /\ SameOrders(ActionReadback(o), status)
           /\ WriteVerified(o) =>
                 /\ SameCheck(ActionStatus(o), SanitizeFailoverStatus(op[o].nowMs))
                 /\ ActionStatus(o).desiredDnsTarget \in Targets
                 /\ ActionStatus(o).manualLock \in BOOLEAN
<1> DEFINE c == SanitizeFailoverStatus(now)
           d == SanitizeFailoverStatus(op[o].nowMs)
<1>1. now \in Nat /\ op[o].nowMs \in Nat /\ op[o].seenLock \in BOOLEAN
  BY ControllerAssumption DEF TypeOK, OpState
<1>2. /\ c \in Status /\ SameOrders(c, status)
      /\ d \in Status /\ SameOrders(d, status)
  BY <1>1, Sanitized
<1>3. ASSUME NEW s \in Status, NEW t \in Nat, NEW a, NEW e, NEW l
      PROVE  LET after == AfterDnsAction(o, s, a, e, l, t)
             IN /\ SameCheck(after, s)
                /\ after.desiredDnsTarget \in {e, s.desiredDnsTarget}
  <2> DEFINE fresh == ApplyFailoverStatusFreshness(s, t)
  <2>1. fresh \in Status /\ SameCheck(fresh, s)
    BY StatusOperators, KeptFields
  <2>2. /\ SameCheck(ApplyDnsAction(fresh, a, e, l, t), fresh)
        /\ ApplyDnsAction(fresh, a, e, l, t).desiredDnsTarget = e
    BY <2>1, KeptFields
  <2> HIDE DEF fresh
  <2>3. SameCheck(ApplyDnsAction(fresh, a, e, l, t), s) /\ SameCheck(s, s)
    BY <2>1, <2>2 DEF SameCheck
  <2> QED
    BY <2>2, <2>3 DEF AfterDnsAction, fresh
<1>4. SameCheck(AfterLock(o), c) /\ AfterLock(o).desiredDnsTarget = status.desiredDnsTarget
  BY <1>1, <1>2, <1>3 DEF AfterLock, SameOrders
<1>5. AfterLock(o).manualLock \in BOOLEAN
  BY ActionsTyped DEF Status
<1>6. SameCheck(ActionReadback(o), d) /\ SameOrders(ActionReadback(o), status)
  BY <1>1, <1>2, KeptFields DEF ActionReadback, SameOrders
<1>7. ASSUME WriteVerified(o)
      PROVE  /\ SameCheck(ActionStatus(o), d)
             /\ ActionStatus(o).desiredDnsTarget \in Targets
             /\ ActionStatus(o).manualLock \in BOOLEAN
  <2>1. ActionReadback(o) \in Status /\ ActionStatus(o) \in Status
    BY <1>7, ActionsTyped
  <2>2. SameCheck(ActionStatus(o), ActionReadback(o))
    BY <1>1, <1>3, <2>1 DEF ActionStatus
  <2> QED
    BY <1>6, <2>1, <2>2 DEF SameCheck, Status
<1> QED
  BY <1>4, <1>5, <1>6, <1>7

\* Storing a lock keeps the invariant and is the promised step.
LEMMA LockPromised ==
    ASSUME IInv, NEW o \in Ops, StoresLock(o), history' = history
    PROVE  CountInv' /\ PromisedStep
<1>1. TypeOK /\ CountInv /\ now \in Nat
  BY ControllerAssumption DEF IInv, TypeOK
<1>2. CASE IsDuplicate(o)
  <2>1. recentKeys # <<>>
    BY <1>2, EmptySeq DEF IsDuplicate
  <2>2. stored
    BY <1>1, <2>1 DEF CountInv, NothingStored
  <2>3. status' = status /\ stored' = stored /\ recentKeys' = recentKeys
    BY <1>2, <2>2 DEF StoresLock, AfterLock, AfterDnsAction, SanitizeFailoverStatus,
       RememberKey
  <2>4. CountInv'
    BY <1>1, <2>3, UncountedKeeps
  <2> QED
    BY <2>3, <2>4 DEF PromisedStep, Promise!vars
<1>3. CASE ~IsDuplicate(o)
  <2>1. stored' /\ status' = AfterLock(o)
    BY <1>3 DEF StoresLock
  <2>2. /\ SameCheck(status', SanitizeFailoverStatus(now))
        /\ status'.desiredDnsTarget = status.desiredDnsTarget
        /\ status'.manualLock \in BOOLEAN
    BY <1>1, <2>1, ActionFields
  <2>3. /\ CountInv'
        /\ status'.lastVpsCheckAt = status.lastVpsCheckAt
        /\ status'.consecutiveVpsFailures = status.consecutiveVpsFailures
    BY <1>1, <2>1, <2>2, RecordKeeps
  <2> QED
    BY <2>2, <2>3 DEF PromisedStep, Promise!Lock
<1> QED
  BY <1>2, <1>3

\* The records of a DNS action keep the invariant; recording its readback is
\* no promised step, recording the action is a move by its operator.
LEMMA ActionPromised ==
    ASSUME IInv, NEW o \in Ops, WriteVerified(o), stored', history' = history
    PROVE  /\ status' = ActionReadback(o) => CountInv' /\ UNCHANGED Promise!vars
           /\ status' = ActionStatus(o) => CountInv' /\ Promise!Move
<1>1. TypeOK /\ CountInv /\ op[o].nowMs \in Nat
  BY DEF IInv, TypeOK, OpState
<1>2. ASSUME status' = ActionReadback(o)
      PROVE  CountInv' /\ UNCHANGED Promise!vars
  <2>1. /\ SameCheck(status', SanitizeFailoverStatus(op[o].nowMs))
        /\ SameOrders(status', status)
    BY <1>1, <1>2, ActionFields
  <2>2. /\ CountInv'
        /\ status'.lastVpsCheckAt = status.lastVpsCheckAt
        /\ status'.consecutiveVpsFailures = status.consecutiveVpsFailures
    BY <1>1, <2>1, RecordKeeps
  <2> QED
    BY <2>1, <2>2 DEF Promise!vars, SameOrders
<1>3. ASSUME status' = ActionStatus(o)
      PROVE  CountInv' /\ Promise!Move
  <2>1. /\ SameCheck(status', SanitizeFailoverStatus(op[o].nowMs))
        /\ status'.desiredDnsTarget \in Targets
        /\ status'.manualLock \in BOOLEAN
    BY <1>1, <1>3, ActionFields
  <2>2. /\ CountInv'
        /\ status'.lastVpsCheckAt = status.lastVpsCheckAt
        /\ status'.consecutiveVpsFailures = status.consecutiveVpsFailures
    BY <1>1, <2>1, RecordKeeps
  <2> QED
    BY <2>1, <2>2 DEF Promise!Move, Targets
<1> QED
  BY <1>2, <1>3

\* A DNS action that ends, or is lost with the memory, ends the request.
LEMMA ActionEnds ==
    ASSUME IInv, NEW o \in Ops, WriteVerified(o), Close(o) \/ LoseMemory({})
    PROVE  OperatorActed
<1>1. op[o].pc \in {"reading", "verifying"} /\ OpAction[o] \notin LockActions
  BY DEF WriteVerified, IInv, OpKinds
<1>2. op'[o].pc = "done"
  BY <1>1 DEF Close, LoseMemory, IInv, TypeOK, IdleOp
<1> QED
  BY <1>1, <1>2 DEF OperatorActed

LEMMA QuietStep ==
    ASSUME IInv, UNCHANGED durable
    PROVE  CountInv' /\ PromisedStep
<1>1. CountInv'
  BY UncountedKeeps DEF IInv, durable
<1>2. UNCHANGED Promise!vars
  BY DEF durable, Promise!vars
<1> QED
  BY <1>1, <1>2 DEF PromisedStep

\* A step that changes the logs of keys and audits, but no status.
LEMMA AuditOnlyStep ==
    ASSUME IInv, UNCHANGED <<stored, status, history, recentKeys>>
    PROVE  CountInv' /\ PromisedStep
<1>1. CountInv'
  BY UncountedKeeps DEF IInv
<1>2. UNCHANGED Promise!vars
  BY DEF Promise!vars
<1> QED
  BY <1>1, <1>2 DEF PromisedStep

\* Every step keeps the invariant of counting and is a promised one.
LEMMA StepPromised ==
    ASSUME IInv, [Next]_vars
    PROVE  CountInv' /\ PromisedStep
<1>1. ASSUME NEW r \in Runs, FinishRun(r)
      PROVE  CountInv' /\ PromisedStep
  <2>1. PICK reachable \in BOOLEAN : /\ RecordHistory(run[r], reachable)
                                     /\ status' = AfterLiveOrigin(run[r], reachable)
    BY <1>1 DEF FinishRun
  <2>2. ProbesAnswered(r) /\ stored'
    BY <1>1 DEF FinishRun
  <2> QED
    BY <2>1, <2>2, RecordsPromised
<1>2. ASSUME NEW r \in Runs, CrashInRecords(r)
      PROVE  CountInv' /\ PromisedStep
  <2>1. PICK reachable \in BOOLEAN : /\ RecordHistory(run[r], reachable)
                                     /\ status' \in {AfterHealthCheck(run[r], reachable),
                                                     AfterReadback(run[r], reachable),
                                                     AfterLiveOrigin(run[r], reachable)}
    BY <1>2 DEF CrashInRecords
  <2>2. ProbesAnswered(r) /\ stored'
    BY <1>2 DEF CrashInRecords
  <2> QED
    BY <2>1, <2>2, RecordsPromised
<1>3. ASSUME NEW o \in Ops, ExecuteManualLock(o) \/ CrashInLock(o)
      PROVE  CountInv' /\ PromisedStep
  BY <1>3, LockPromised DEF ExecuteManualLock, CrashInLock
<1>4. ASSUME NEW o \in Ops, ExecuteDnsAction(o)
      PROVE  CountInv' /\ PromisedStep
  <2>1. /\ WriteVerified(o) /\ stored' /\ history' = history
        /\ status' = ActionStatus(o) /\ Close(o)
    BY <1>4 DEF ExecuteDnsAction
  <2> QED
    BY <2>1, ActionPromised, ActionEnds DEF PromisedStep
<1>5. ASSUME NEW o \in Ops, CrashInAction(o)
      PROVE  CountInv' /\ PromisedStep
  <2>1. /\ WriteVerified(o) /\ stored' /\ history' = history
        /\ status' = ActionReadback(o) \/ status' = ActionStatus(o)
        /\ LoseMemory({})
    BY <1>5 DEF CrashInAction
  <2> QED
    BY <2>1, ActionPromised, ActionEnds DEF PromisedStep
<1>6. ASSUME NEW o \in Ops, RefuseUnconfigured(o) \/ GiveUp(o)
      PROVE  CountInv' /\ PromisedStep
  BY <1>6, AuditOnlyStep DEF RefuseUnconfigured, GiveUp
<1>7. ASSUME NEW r \in Runs,
             \/ WatchdogWake(r) \/ AlarmFires(r) \/ AlertDelivered(r)
             \/ \E h \in RecordsRead : ReadDnsRecord(r, h)
      PROVE  CountInv' /\ PromisedStep
  BY <1>7, QuietStep DEF WatchdogWake, AlarmFires, RunHealthCheck, AlertDelivered, ReadDnsRecord
<1>8. ASSUME NEW o \in Ops,
             \/ StartDnsAction(o) \/ StartPatches(o) \/ StartVerification(o)
             \/ \E h \in Hosts : ReadForAction(o, h) \/ PatchDnsRecord(o, h)
      PROVE  CountInv' /\ PromisedStep
  BY <1>8, QuietStep DEF StartDnsAction, StartPatches, StartVerification, ReadForAction,
     PatchDnsRecord
<1>9. CASE Crash \/ Tick \/ (\E h \in Hosts : OutsideChange(h)) \/ UNCHANGED vars
  BY <1>9, QuietStep DEF Crash, Tick, OutsideChange, vars
<1> QED
  BY <1>1, <1>2, <1>3, <1>4, <1>5, <1>6, <1>7, <1>8, <1>9 DEF Next, RunStep, OpStep

\* The times an invocation took stay behind the clock and in order.
LEMMA TimesKept ==
    ASSUME IInv, [Next]_vars
    PROVE  RunTimes'
<1> DEFINE TimesOf(inv) == /\ inv.nowMs <= now
                           /\ inv.checkedAt <= now
                           /\ inv.pc = "checking" => inv.nowMs <= inv.checkedAt
<1>1. /\ now \in Nat /\ run \in [Runs -> RunState]
      /\ \A r \in Runs : /\ run[r].nowMs \in Nat /\ run[r].checkedAt \in Nat
                         /\ TimesOf(run[r])
  BY ControllerAssumption DEF IInv, TypeOK, RunState, RunTimes
<1>2. TimesOf(IdleRun)
  BY <1>1 DEF IdleRun
<1>3. \A source : TimesOf(Woken(source)) /\ TimesOf(StartChecks(Woken(source)))
  BY <1>1 DEF Woken, IdleRun, StartChecks
<1>4. \A r \in Runs : TimesOf(StartChecks(run[r]))
  BY <1>1 DEF StartChecks, RunState
<1>5. ASSUME now' = now, \A r \in Runs : \/ run'[r] = run[r]
                                        \/ TimesOf(run'[r])
      PROVE  RunTimes'
  BY <1>1, <1>5 DEF RunTimes
<1>6. ASSUME NEW r \in Runs, RunStep(r)
      PROVE  RunTimes'
  <2>1. ASSUME NEW source, RunHealthCheck(r, source)
        PROVE  RunTimes'
    <3>1. /\ now' = now
          /\ \/ run' = run
             \/ run' = [run EXCEPT ![r] = Woken(source)]
             \/ run' = [run EXCEPT ![r] = StartChecks(Woken(source))]
      BY <2>1 DEF RunHealthCheck, WakeStale, WakeNotDue, WakeDue
    <3> HIDE DEF TimesOf
    <3> QED
      BY <1>1, <1>3, <1>5, <3>1
  <2>2. CASE AlertDelivered(r)
    <3>1. /\ now' = now
          /\ \/ run' = [run EXCEPT ![r] = StartChecks(run[r])]
             \/ run' = [run EXCEPT ![r] = IdleRun]
      BY <2>2 DEF AlertDelivered
    <3> HIDE DEF TimesOf
    <3> QED
      BY <1>1, <1>2, <1>4, <1>5, <3>1
  <2>3. ASSUME NEW h \in RecordsRead, ReadDnsRecord(r, h)
        PROVE  RunTimes'
    <3>1. now' = now /\ \E answer : run' = [run EXCEPT ![r].answers[h] = answer]
      BY <2>3 DEF ReadDnsRecord
    <3>2. \A q \in Runs : /\ run'[q].nowMs = run[q].nowMs
                         /\ run'[q].checkedAt = run[q].checkedAt
                         /\ run'[q].pc = run[q].pc
      BY <1>1, <3>1 DEF RunState
    <3> QED
      BY <1>1, <3>1, <3>2 DEF RunTimes
  <2>4. CASE FinishRun(r)
    <3>1. now' = now /\ run' = [run EXCEPT ![r] = IdleRun]
      BY <2>4 DEF FinishRun
    <3> HIDE DEF TimesOf
    <3> QED
      BY <1>1, <1>2, <1>5, <3>1
  <2>5. CASE CrashInRecords(r)
    BY <1>2, <1>5, <2>5 DEF CrashInRecords, LoseMemory
  <2> QED
    BY <1>6, <2>1, <2>2, <2>3, <2>4, <2>5 DEF RunStep, WatchdogWake, AlarmFires
<1>7. ASSUME NEW o \in Ops, OpStep(o)
      PROVE  RunTimes'
  <2>1. now' = now /\ (run' = run \/ run' = [r \in Runs |-> IdleRun])
    BY <1>7 DEF OpStep, ExecuteManualLock, CrashInLock, StartDnsAction, RefuseUnconfigured,
       ReadForAction, PatchDnsRecord, StartPatches, StartVerification, GiveUp,
       ExecuteDnsAction, CrashInAction, LoseMemory
  <2> QED
    BY <1>2, <1>5, <2>1
<1>8. CASE Crash
  BY <1>2, <1>5, <1>8 DEF Crash, LoseMemory
<1>9. CASE Tick
  BY <1>1, <1>9 DEF Tick, RunTimes
<1>10. CASE (\E h \in Hosts : OutsideChange(h)) \/ UNCHANGED vars
  BY <1>5, <1>10 DEF OutsideChange, vars
<1> QED
  BY <1>6, <1>7, <1>8, <1>9, <1>10 DEF Next

\* A request between start and end stays one to move the DNS.
LEMMA KindsKept ==
    ASSUME IInv, [Next]_vars
    PROVE  OpKinds'
<1>1. op \in [Ops -> OpState] /\ OpKinds
  BY DEF IInv, TypeOK
<1>2. ASSUME op' = op
      PROVE  OpKinds'
  BY <1>1, <1>2 DEF OpKinds
<1>3. ASSUME NEW S, LoseMemory(S)
      PROVE  OpKinds'
  BY <1>1, <1>3 DEF OpKinds, LoseMemory, IdleOp
<1>4. ASSUME NEW o \in Ops, Close(o)
      PROVE  OpKinds'
  BY <1>1, <1>4 DEF OpKinds, Close, IdleOp
<1>5. ASSUME NEW o \in Ops, OpAction[o] \notin LockActions,
             \A q \in Ops \ {o} : op'[q] = op[q]
      PROVE  OpKinds'
  BY <1>1, <1>5 DEF OpKinds
<1>6. ASSUME NEW o \in Ops, StartDnsAction(o)
      PROVE  OpKinds'
  BY <1>1, <1>5, <1>6 DEF StartDnsAction
<1>7. ASSUME NEW o \in Ops, NEW h \in Hosts, ReadForAction(o, h) \/ PatchDnsRecord(o, h)
      PROVE  OpKinds'
  <2>1. OpAction[o] \notin LockActions
    BY <1>1, <1>7 DEF OpKinds, ReadForAction, PatchDnsRecord
  <2>2. \A q \in Ops \ {o} : op'[q] = op[q]
    BY <1>1, <1>7 DEF ReadForAction, PatchDnsRecord
  <2> QED
    BY <1>5, <2>1, <2>2
<1>8. ASSUME NEW o \in Ops, StartPatches(o) \/ StartVerification(o)
      PROVE  OpKinds'
  <2>1. OpAction[o] \notin LockActions
    BY <1>1, <1>8 DEF OpKinds, StartPatches, StartVerification
  <2>2. \A q \in Ops \ {o} : op'[q] = op[q]
    BY <1>1, <1>8 DEF StartPatches, StartVerification
  <2> QED
    BY <1>5, <2>1, <2>2
<1>9. ASSUME NEW o \in Ops, OpStep(o)
      PROVE  OpKinds'
  BY <1>3, <1>4, <1>6, <1>7, <1>8, <1>9 DEF OpStep, ExecuteManualLock, CrashInLock,
     RefuseUnconfigured, GiveUp, ExecuteDnsAction, CrashInAction
<1>10. ASSUME NEW r \in Runs, RunStep(r)
       PROVE  OpKinds'
  BY <1>2, <1>3, <1>10 DEF RunStep, WatchdogWake, AlarmFires, RunHealthCheck, AlertDelivered,
     ReadDnsRecord, FinishRun, CrashInRecords
<1>11. CASE Crash \/ Tick \/ (\E h \in Hosts : OutsideChange(h)) \/ UNCHANGED vars
  BY <1>2, <1>3, <1>11 DEF Crash, Tick, OutsideChange, vars
<1> QED
  BY <1>9, <1>10, <1>11 DEF Next

LEMMA InitIInv == Init => IInv
<1> SUFFICES ASSUME Init PROVE IInv
  OBVIOUS
<1>1. TypeOK
  BY InitTyped
<1>2. NothingStored /\ NeverChecked /\ StatusMatchesHistory
  BY DEF Init, NothingStored, NeverChecked, StatusMatchesHistory, CreateDefaultFailoverStatus
<1>3. DOMAIN history = {} /\ Len(history) = 0
  BY EmptySeq DEF Init
<1>4. HistorySpaced
  BY <1>3 DEF HistorySpaced
<1>5. status.consecutiveVpsFailures = 0
  BY DEF Init, CreateDefaultFailoverStatus
<1>6. StreakMatchesHistory
  BY <1>3, <1>5 DEF StreakMatchesHistory
<1>7. RunTimes
  BY DEF Init, RunTimes, IdleRun
<1>8. OpKinds
  BY DEF Init, OpKinds, IdleOp
<1> QED
  BY <1>1, <1>2, <1>4, <1>6, <1>7, <1>8 DEF IInv, CountInv

LEMMA NextIInv == IInv /\ [Next]_vars => IInv'
BY NextTyped, StepPromised, TimesKept, KindsKept DEF IInv

LEMMA Inductive == Spec => []IInv
BY InitIInv, NextIInv, PTL DEF Spec

-----------------------------------------------------------------------------
(* What the served status, the recorded target and the alarm rest on.      *)

\* The records a step may make, if it makes any.
CheckRecorded(r, reachable) ==
    /\ ProbesAnswered(r)
    /\ RecordHistory(run[r], reachable)
    /\ status' \in {AfterHealthCheck(run[r], reachable),
                    AfterReadback(run[r], reachable),
                    AfterLiveOrigin(run[r], reachable)}

LockRecorded(o) == history' = history /\ status' = AfterLock(o)

ActionRecorded(o) ==
    /\ WriteVerified(o)
    /\ history' = history
    /\ status' \in {ActionReadback(o), ActionStatus(o)}

NothingRecorded == UNCHANGED <<stored, status, history>>

LEMMA StepRecords ==
    ASSUME IInv, [Next]_vars
    PROVE  \/ NothingRecorded
           \/ stored' /\ \E r \in Runs, reachable \in BOOLEAN : CheckRecorded(r, reachable)
           \/ stored' /\ \E o \in Ops : LockRecorded(o) \/ ActionRecorded(o)
<1>1. ASSUME NEW r \in Runs, FinishRun(r) \/ CrashInRecords(r)
      PROVE  stored' /\ \E reachable \in BOOLEAN : CheckRecorded(r, reachable)
  BY <1>1 DEF FinishRun, CrashInRecords, CheckRecorded
<1>2. ASSUME NEW o \in Ops, StoresLock(o), history' = history
      PROVE  NothingRecorded \/ (stored' /\ LockRecorded(o))
  <2>1. CASE IsDuplicate(o)
    <3>1. recentKeys # <<>>
      BY <2>1, EmptySeq DEF IsDuplicate
    <3>2. stored
      BY <3>1 DEF IInv, CountInv, NothingStored
    <3> QED
      BY <1>2, <3>2 DEF StoresLock, LockRecorded
  <2>2. CASE ~IsDuplicate(o)
    BY <1>2, <2>2 DEF StoresLock, LockRecorded
  <2> QED
    BY <2>1, <2>2
<1>3. ASSUME NEW o \in Ops, ExecuteDnsAction(o) \/ CrashInAction(o)
      PROVE  stored' /\ ActionRecorded(o)
  BY <1>3 DEF ExecuteDnsAction, CrashInAction, ActionRecorded
<1>4. ASSUME NEW r \in Runs,
             \/ WatchdogWake(r) \/ AlarmFires(r) \/ AlertDelivered(r)
             \/ \E h \in RecordsRead : ReadDnsRecord(r, h)
      PROVE  NothingRecorded
  BY <1>4 DEF WatchdogWake, AlarmFires, RunHealthCheck, AlertDelivered, ReadDnsRecord,
     NothingRecorded, durable
<1>5. ASSUME NEW o \in Ops,
             \/ StartDnsAction(o) \/ StartPatches(o) \/ StartVerification(o)
             \/ RefuseUnconfigured(o) \/ GiveUp(o)
             \/ \E h \in Hosts : ReadForAction(o, h) \/ PatchDnsRecord(o, h)
      PROVE  NothingRecorded
  BY <1>5 DEF StartDnsAction, StartPatches, StartVerification, RefuseUnconfigured, GiveUp,
     ReadForAction, PatchDnsRecord, NothingRecorded, durable
<1>6. CASE Crash \/ Tick \/ (\E h \in Hosts : OutsideChange(h)) \/ UNCHANGED vars
  BY <1>6 DEF Crash, Tick, OutsideChange, NothingRecorded, vars, durable
<1>7. ASSUME NEW o \in Ops, ExecuteManualLock(o) \/ CrashInLock(o)
      PROVE  NothingRecorded \/ (stored' /\ LockRecorded(o))
  BY <1>2, <1>7 DEF ExecuteManualLock, CrashInLock
<1> QED
  BY <1>1, <1>3, <1>4, <1>5, <1>6, <1>7 DEF Next, RunStep, OpStep

\* A readback on which both records agree decides the active target.
Agreed(s) ==
    (s.actual["apex"] = s.actual["www"] /\ s.actual["apex"] \in Targets)
        => s.activeDnsTarget = s.actual["apex"]

LEMMA AgreementKept ==
    ASSUME NEW s \in Status, NEW t \in Nat
    PROVE  /\ Agreed(CreateDefaultFailoverStatus(t))
           /\ Agreed(s) => /\ Agreed(ApplyFailoverStatusFreshness(s, t))
                           /\ Agreed(ApplyLiveOriginReadiness(s, t))
                           /\ \A reachable : Agreed(ApplyFailoverHealthCheck(s, reachable, t))
           /\ \A answers : Agreed(ApplyDnsReadback(s, answers, t))
<1>1. Agreed(CreateDefaultFailoverStatus(t))
  BY DEF Agreed, CreateDefaultFailoverStatus, Hosts, Targets
<1>2. ASSUME Agreed(s)
      PROVE  /\ Agreed(ApplyFailoverStatusFreshness(s, t))
             /\ Agreed(ApplyLiveOriginReadiness(s, t))
             /\ \A reachable : Agreed(ApplyFailoverHealthCheck(s, reachable, t))
  BY <1>2 DEF Agreed, ApplyFailoverStatusFreshness, ApplyLiveOriginReadiness,
     ApplyFailoverHealthCheck, Status
<1>3. ASSUME NEW answers
      PROVE  Agreed(ApplyDnsReadback(s, answers, t))
  <2> DEFINE actual == [h \in Hosts |-> Classify(answers[h])]
  <2> HIDE DEF actual
  <2>1. ApplyDnsReadback(s, answers, t) =
            [s EXCEPT !.generatedAt = t,
                      !.activeDnsTarget = DeriveActiveTargetFromActual(actual, @),
                      !.actual = actual,
                      !.stale = FALSE]
    BY DEF ApplyDnsReadback, actual
  <2>2. /\ ApplyDnsReadback(s, answers, t).actual = actual
        /\ ApplyDnsReadback(s, answers, t).activeDnsTarget
             = DeriveActiveTargetFromActual(actual, s.activeDnsTarget)
    BY <2>1 DEF Status
  <2> QED
    BY <2>2 DEF Agreed, DeriveActiveTargetFromActual
<1> QED
  BY <1>1, <1>2, <1>3

LEMMA AgreementOfActions ==
    ASSUME TypeOK, Agreed(status), NEW o \in Ops
    PROVE  /\ Agreed(AfterLock(o))
           /\ WriteVerified(o) => Agreed(ActionReadback(o)) /\ Agreed(ActionStatus(o))
<1>1. ASSUME NEW t \in Nat
      PROVE  SanitizeFailoverStatus(t) \in Status /\ Agreed(SanitizeFailoverStatus(t))
  BY <1>1, ReadStatus, AgreementKept DEF SanitizeFailoverStatus, TypeOK
<1>2. now \in Nat /\ op[o].nowMs \in Nat
  BY ControllerAssumption DEF TypeOK, OpState
<1>3. Agreed(AfterLock(o))
  <2> DEFINE c == SanitizeFailoverStatus(now)
             f == ApplyFailoverStatusFreshness(c, now)
  <2>1. c \in Status /\ Agreed(c)
    BY <1>1, <1>2
  <2> HIDE DEF c
  <2>2. /\ f \in Status
        /\ f.activeDnsTarget = c.activeDnsTarget /\ f.actual = c.actual
    <3>1. f \in Status
      BY <1>2, <2>1, StatusOperators
    <3> QED
      BY <2>1, <3>1 DEF ApplyFailoverStatusFreshness, Status
  <2> HIDE DEF f
  <2>3. \A d, l : Agreed(ApplyDnsAction(f, c.activeDnsTarget, d, l, now))
    BY <2>1, <2>2 DEF Agreed, ApplyDnsAction, Status
  <2>4. AfterLock(o) = IF IsDuplicate(o) THEN c
                       ELSE ApplyDnsAction(f, c.activeDnsTarget, c.desiredDnsTarget,
                                           LockRequested(o), now)
    BY DEF AfterLock, AfterDnsAction, c, f
  <2> QED
    BY <2>1, <2>3, <2>4
<1>4. ASSUME WriteVerified(o)
      PROVE  Agreed(ActionReadback(o)) /\ Agreed(ActionStatus(o))
  <2> DEFINE b == ActionReadback(o)
             f == ApplyFailoverStatusFreshness(b, op[o].nowMs)
  <2>1. b \in Status /\ Agreed(b)
    BY <1>1, <1>2, <1>4, ActionsTyped, AgreementKept DEF ActionReadback
  <2>2. b.actual = [h \in Hosts |-> Target(o)]
    <3>1. \A h \in Hosts : Classify(op[o].answers[h]) = Target(o)
      BY <1>4 DEF WriteVerified, OnTarget, Classify, Target
    <3>2. ActionReadback(o).actual = [h \in Hosts |-> Classify(op[o].answers[h])]
      <4> DEFINE c == SanitizeFailoverStatus(op[o].nowMs)
      <4>1. c \in Status
        BY <1>1, <1>2
      <4> HIDE DEF c
      <4>2. ActionReadback(o) = ApplyDnsReadback(c, op[o].answers, op[o].nowMs)
        BY DEF ActionReadback, c
      <4> QED
        BY <4>1, <4>2 DEF ApplyDnsReadback, Status
    <3> QED
      BY <3>1, <3>2
  <2> HIDE DEF b
  <2>3. f \in Status /\ f.actual = b.actual
    <3>1. f \in Status
      BY <1>2, <2>1, StatusOperators
    <3> QED
      BY <2>1, <3>1 DEF ApplyFailoverStatusFreshness, Status
  <2> HIDE DEF f
  <2>4. \A l : Agreed(ApplyDnsAction(f, Target(o), Target(o), l, op[o].nowMs))
    BY <2>2, <2>3 DEF Agreed, ApplyDnsAction, Status, Hosts
  <2>5. ActionStatus(o) = IF IsDuplicate(o) THEN b
                          ELSE ApplyDnsAction(f, Target(o), Target(o), op[o].seenLock,
                                              op[o].nowMs)
    BY DEF ActionStatus, AfterDnsAction, b, f
  <2> QED
    BY <2>1, <2>4, <2>5 DEF b
<1> QED
  BY <1>3, <1>4

LEMMA AgreementOfChecks ==
    ASSUME TypeOK, Agreed(status), NEW r \in Runs, NEW reachable \in BOOLEAN,
           ProbesAnswered(r)
    PROVE  /\ Agreed(AfterHealthCheck(run[r], reachable))
           /\ Agreed(AfterReadback(run[r], reachable))
           /\ Agreed(AfterLiveOrigin(run[r], reachable))
<1> DEFINE c == SanitizeFailoverStatus(run[r].nowMs)
<1>1. run[r].nowMs \in Nat /\ run[r].checkedAt \in Nat
  BY DEF TypeOK, RunState
<1>2. c \in Status /\ Agreed(c)
  BY <1>1, ReadStatus, AgreementKept DEF SanitizeFailoverStatus, TypeOK
<1>3. Agreed(AfterHealthCheck(run[r], reachable))
  BY <1>1, <1>2, AgreementKept DEF AfterHealthCheck
<1>4. /\ AfterHealthCheck(run[r], reachable) \in Status
      /\ AfterReadback(run[r], reachable) \in Status
  BY RecordsTyped
<1>5. Agreed(AfterReadback(run[r], reachable))
  BY <1>1, <1>3, <1>4, AgreementKept DEF AfterReadback
<1>6. Agreed(AfterLiveOrigin(run[r], reachable))
  BY <1>1, <1>4, <1>5, AgreementKept DEF AfterLiveOrigin
<1> QED
  BY <1>3, <1>5, <1>6

LEMMA StepAgrees ==
    ASSUME IInv, Agreed(status), [Next]_vars
    PROVE  Agreed(status')
<1>1. TypeOK
  BY DEF IInv
<1>2. ASSUME NEW r \in Runs, NEW reachable \in BOOLEAN, CheckRecorded(r, reachable)
      PROVE  Agreed(status')
  BY <1>1, <1>2, AgreementOfChecks DEF CheckRecorded
<1>3. ASSUME NEW o \in Ops, LockRecorded(o) \/ ActionRecorded(o)
      PROVE  Agreed(status')
  BY <1>1, <1>3, AgreementOfActions DEF LockRecorded, ActionRecorded
<1>4. CASE NothingRecorded
  BY <1>4 DEF NothingRecorded
<1> QED
  BY <1>2, <1>3, <1>4, StepRecords

\* A later record never calls for an earlier check.
LEMMA DueAdvances ==
    ASSUME IInv, [Next]_vars, stored
    PROVE  stored' /\ status'.nextCheckDueAt >= status.nextCheckDueAt
<1>1. /\ TypeOK /\ CountInv /\ RunTimes
      /\ status.nextCheckDueAt \in Nat /\ CheckInterval \in Nat
  BY ConfigAssumption DEF IInv, TypeOK, Status
<1>2. ASSUME NEW t \in Nat
      PROVE  SanitizeFailoverStatus(t) = status
  BY DEF SanitizeFailoverStatus
<1>3. ASSUME NEW r \in Runs, NEW reachable \in BOOLEAN, CheckRecorded(r, reachable)
      PROVE  status'.nextCheckDueAt >= status.nextCheckDueAt
  <2> DEFINE h == AfterHealthCheck(run[r], reachable)
  <2>1. /\ run[r].nowMs \in Nat /\ run[r].checkedAt \in Nat
        /\ run[r].nowMs <= run[r].checkedAt
    BY <1>1, <1>3 DEF TypeOK, RunState, RunTimes, CheckRecorded, ProbesAnswered
  <2>2. status'.nextCheckDueAt = h.nextCheckDueAt
    BY <1>1, <1>3, RecordsKeepCheck DEF CheckRecorded, SameCheck
  <2>3. CASE CheckCounted(run[r])
    <3>1. status.nextCheckDueAt <= run[r].nowMs
      BY <1>2, <2>1, <2>3 DEF CheckCounted, IsFailoverCheckDue
    <3>2. h.nextCheckDueAt = run[r].checkedAt + CheckInterval
      BY <1>1, <2>3, CountedCheck
    <3> HIDE DEF h
    <3> QED
      BY <1>1, <2>1, <2>2, <3>1, <3>2
  <2>4. CASE ~CheckCounted(run[r])
    BY <1>1, <1>2, <2>1, <2>2, <2>4 DEF AfterHealthCheck
  <2> QED
    BY <2>3, <2>4
<1>4. ASSUME NEW o \in Ops, LockRecorded(o) \/ ActionRecorded(o)
      PROVE  status'.nextCheckDueAt >= status.nextCheckDueAt
  <2>1. now \in Nat /\ op[o].nowMs \in Nat
    BY <1>1, ControllerAssumption DEF TypeOK, OpState
  <2>2. SameCheck(status', status)
    BY <1>1, <1>2, <1>4, <2>1, ActionFields DEF LockRecorded, ActionRecorded
  <2> QED
    BY <1>1, <2>2 DEF SameCheck
<1>5. CASE NothingRecorded
  BY <1>1, <1>5 DEF NothingRecorded
<1> QED
  BY <1>3, <1>4, <1>5, StepRecords

\* An idle slot is nobody's alarm handler.
SlotsFree == \A r \in Runs : run[r].pc = "idle" => run[r].source = "none"

\* Alarms are only set once a status is stored.
AlarmsStored == (alarm # NoTime \/ \E r \in Runs : run[r].source = "alarm") => stored

\* What an invocation that reports a stale status will schedule is no later
\* than the next due check of the status stored by then.
SeenInTime ==
    \A r \in Runs : (run[r].pc = "alerting" /\ ~run[r].due)
                        => stored /\ run[r].seenDueAt <= status.nextCheckDueAt

AlarmInv == SlotsFree /\ AlarmsStored /\ SeenInTime /\ AlarmInTime

\* A step that leaves the alarm and the handlers alone.
LEMMA AlarmLeftAlone ==
    ASSUME IInv, AlarmInv, [Next]_vars, alarm' = alarm, run' = run, now' >= now,
           history # <<>> => crashes' = crashes,
           history' # <<>> => history # <<>>
    PROVE  AlarmInv'
<1>1. /\ status.nextCheckDueAt \in Nat /\ status'.nextCheckDueAt \in Nat
      /\ now \in Nat /\ now' \in Nat /\ alarm \in Time
      /\ \A r \in Runs : run[r].seenDueAt \in Nat
  BY SMTT(30), NextIInv, ControllerAssumption DEF IInv, TypeOK, Status, RunState
<1>2. stored => stored' /\ status'.nextCheckDueAt >= status.nextCheckDueAt
  BY DueAdvances
<1>3. SlotsFree' /\ AlarmsStored'
  BY <1>2 DEF AlarmInv, SlotsFree, AlarmsStored
<1>4. SeenInTime'
  BY <1>1, <1>2 DEF AlarmInv, SeenInTime
<1>5. alarm' # NoTime => alarm' <= now' \/ alarm' <= status'.nextCheckDueAt
  BY <1>1, <1>2 DEF AlarmInv, AlarmInTime, AlarmsStored, Time, NoTime
<1>6. (crashes' = 0 /\ history' # <<>> /\ alarm' = NoTime)
          => \E r \in Runs : run'[r].source = "alarm"
  BY DEF AlarmInv, AlarmInTime
<1> QED
  BY <1>3, <1>4, <1>5, <1>6 DEF AlarmInv, AlarmInTime

\* After a crash nobody is left, and an alarm that is rung again is stored.
LEMMA AlarmAfterCrash ==
    ASSUME IInv, AlarmInv, [Next]_vars, NEW S, LoseMemory(S), now' = now
    PROVE  AlarmInv'
<1>1. /\ status.nextCheckDueAt \in Nat /\ status'.nextCheckDueAt \in Nat
      /\ now \in Nat /\ alarm \in Time /\ crashes \in Nat /\ crashes' # 0
  BY SMTT(30), NextIInv, ControllerAssumption DEF IInv, TypeOK, Status, LoseMemory
<1>2. stored => stored' /\ status'.nextCheckDueAt >= status.nextCheckDueAt
  BY DueAdvances
<1>3. /\ \A r \in Runs : run'[r].pc = "idle" /\ run'[r].source = "none"
      /\ \/ alarm' = alarm
         \/ alarm' = now /\ stored
  BY DEF LoseMemory, IdleRun, AlarmInv, AlarmsStored
<1>4. SlotsFree' /\ AlarmsStored' /\ SeenInTime'
  BY <1>2, <1>3 DEF AlarmInv, SlotsFree, AlarmsStored, SeenInTime
<1>5. alarm' # NoTime => alarm' <= now' \/ alarm' <= status'.nextCheckDueAt
  BY <1>1, <1>2, <1>3 DEF AlarmInv, AlarmInTime, AlarmsStored, Time, NoTime
<1> QED
  BY <1>1, <1>4, <1>5 DEF AlarmInv, AlarmInTime

\* A wake takes an idle slot, and the alarm it consumes goes on as its source.
LEMMA AlarmAfterWake ==
    ASSUME IInv, AlarmInv, NEW r \in Runs, NEW source \in {"alarm", "scheduled_watchdog"},
           source = "alarm" => alarm # NoTime, RunHealthCheck(r, source)
    PROVE  AlarmInv'
<1> DEFINE w == Woken(source)
           seen == ReadFailoverStatus(now)
<1>1. /\ TypeOK /\ now \in Nat /\ status.nextCheckDueAt \in Nat /\ alarm \in Time
      /\ run \in [Runs -> RunState]
  BY ControllerAssumption DEF IInv, TypeOK, Status
<1>2. /\ now' = now /\ UNCHANGED <<stored, status, history, crashes>>
      /\ run[r].pc = "idle" /\ run[r].source = "none"
  BY DEF RunHealthCheck, durable, AlarmInv, SlotsFree
<1>3. /\ w.source = source /\ StartChecks(w).source = source
      /\ w.pc = "alerting" /\ StartChecks(w).pc = "checking"
  BY DEF Woken, StartChecks, IdleRun
<1>4. stored => seen.nextCheckDueAt = status.nextCheckDueAt
  BY <1>1 DEF ReadFailoverStatus, SanitizeFailoverStatus, ApplyFailoverStatusFreshness,
     TypeOK, Status
<1>5. /\ w.seenDueAt = seen.nextCheckDueAt
      /\ ~w.due => stored /\ w.seenDueAt = status.nextCheckDueAt
  BY <1>4 DEF Woken, IdleRun
<1> HIDE DEF w, seen
<1>6. ASSUME NEW inv, run' = [run EXCEPT ![r] = inv], inv.source = source,
             inv.pc # "idle",
             (inv.pc = "alerting" /\ ~inv.due)
                 => stored /\ inv.seenDueAt <= status.nextCheckDueAt,
             alarm' = PendingAlarm(source)
      PROVE  AlarmInv'
  <2>1. /\ run'[r] = inv
        /\ \A q \in Runs : q # r => run'[q] = run[q]
    BY <1>1, <1>6
  <2>2. SlotsFree'
    BY <1>6, <2>1 DEF AlarmInv, SlotsFree
  <2>3. AlarmsStored'
    BY <1>2, <1>6, <2>1 DEF AlarmInv, AlarmsStored, PendingAlarm
  <2>4. SeenInTime'
    BY <1>1, <1>2, <1>5, <1>6, <2>1 DEF AlarmInv, SeenInTime
  <2>5. alarm' # NoTime => alarm' <= now' \/ alarm' <= status'.nextCheckDueAt
    BY <1>2, <1>6 DEF AlarmInv, AlarmInTime, PendingAlarm
  <2>6. (crashes' = 0 /\ history' # <<>> /\ alarm' = NoTime)
            => \E q \in Runs : run'[q].source = "alarm"
    <3>1. CASE source = "alarm"
      BY <1>6, <2>1, <3>1
    <3>2. CASE source # "alarm"
      BY <1>2, <1>6, <2>1, <3>2 DEF AlarmInv, AlarmInTime, PendingAlarm
    <3> QED
      BY <3>1, <3>2
  <2> QED
    BY <2>2, <2>3, <2>4, <2>5, <2>6 DEF AlarmInv, AlarmInTime
<1>7. CASE WakeStale(r, source)
  <2>1. run' = [run EXCEPT ![r] = w] /\ alarm' = PendingAlarm(source)
    BY <1>7 DEF WakeStale, w
  <2>2. /\ w.pc # "idle"
        /\ ~w.due => stored /\ w.seenDueAt <= status.nextCheckDueAt
    BY <1>1, <1>3, <1>5
  <2> QED
    BY <1>3, <1>6, <2>1, <2>2
<1>8. CASE WakeDue(r, source)
  <2> DEFINE checking == StartChecks(w)
  <2>1. run' = [run EXCEPT ![r] = checking] /\ alarm' = PendingAlarm(source)
    BY <1>8 DEF WakeDue, w
  <2>2. checking.source = source /\ checking.pc = "checking"
    BY <1>3
  <2> HIDE DEF checking
  <2> QED
    BY <1>6, <2>1, <2>2
<1>9. CASE WakeNotDue(r, source)
  <2>1. stored /\ alarm' = status.nextCheckDueAt /\ run' = run
    BY <1>5, <1>9 DEF WakeNotDue, ScheduleNextFailoverAlarm, w
  <2> QED
    BY <1>1, <1>2, <2>1 DEF AlarmInv, SlotsFree, AlarmsStored, SeenInTime, AlarmInTime, NoTime
<1> QED
  BY <1>7, <1>8, <1>9 DEF RunHealthCheck

\* The invocations go on, or end with an alarm set.
LEMMA AlarmAfterRun ==
    ASSUME IInv, AlarmInv, [Next]_vars, NEW r \in Runs,
           \/ AlertDelivered(r) \/ FinishRun(r)
           \/ \E h \in RecordsRead : ReadDnsRecord(r, h)
    PROVE  AlarmInv'
<1>1. /\ TypeOK /\ now \in Nat /\ status.nextCheckDueAt \in Nat
      /\ status'.nextCheckDueAt \in Nat /\ alarm \in Time
      /\ run \in [Runs -> RunState]
      /\ \A q \in Runs : run[q].seenDueAt \in Nat
  <2>1. TypeOK /\ TypeOK'
    BY NextIInv DEF IInv
  <2>2. now \in Nat /\ status \in Status /\ status' \in Status /\ alarm \in Time
        /\ run \in [Runs -> RunState]
    BY <2>1, ControllerAssumption DEF TypeOK
  <2> QED
    BY <2>1, <2>2 DEF Status, RunState
<1>2. now' = now /\ (stored => stored' /\ status'.nextCheckDueAt >= status.nextCheckDueAt)
  BY DueAdvances DEF AlertDelivered, FinishRun, ReadDnsRecord
<1>3. IdleRun.pc = "idle" /\ IdleRun.source = "none"
  BY DEF IdleRun
<1>4. ASSUME run' = [run EXCEPT ![r] = IdleRun], stored', alarm' \in Nat,
             alarm' <= status'.nextCheckDueAt
      PROVE  AlarmInv'
  <2>1. /\ run'[r].pc = "idle" /\ run'[r].source = "none"
        /\ \A q \in Runs : q # r => run'[q] = run[q]
    BY <1>1, <1>3, <1>4
  <2>2. SlotsFree' /\ AlarmsStored'
    BY <1>4, <2>1 DEF AlarmInv, SlotsFree, AlarmsStored
  <2>3. SeenInTime'
    BY <1>1, <1>2, <1>4, <2>1 DEF AlarmInv, SeenInTime
  <2>4. AlarmInTime'
    BY <1>4 DEF AlarmInTime, NoTime
  <2> QED
    BY <2>2, <2>3, <2>4 DEF AlarmInv
<1>5. ASSUME NEW inv, run' = [run EXCEPT ![r] = inv], inv.source = run[r].source,
             inv.pc = "checking", alarm' = alarm,
             UNCHANGED <<stored, status, history, crashes>>
      PROVE  AlarmInv'
  <2>1. /\ run'[r].pc = "checking"
        /\ \A q \in Runs : run'[q].source = run[q].source
        /\ \A q \in Runs : q # r => run'[q] = run[q]
    BY <1>1, <1>5
  <2>2. SlotsFree' /\ AlarmsStored'
    BY <1>5, <2>1 DEF AlarmInv, SlotsFree, AlarmsStored
  <2>3. SeenInTime'
    BY <1>5, <2>1 DEF AlarmInv, SeenInTime
  <2>4. AlarmInTime'
    BY <1>2, <1>5, <2>1 DEF AlarmInv, AlarmInTime
  <2> QED
    BY <2>2, <2>3, <2>4 DEF AlarmInv
<1>6. CASE AlertDelivered(r)
  <2>1. CASE run[r].due
    <3>1. /\ run' = [run EXCEPT ![r] = StartChecks(run[r])] /\ alarm' = alarm
          /\ UNCHANGED <<stored, status, history, crashes>>
      BY <1>6, <2>1 DEF AlertDelivered, durable
    <3>2. /\ StartChecks(run[r]).source = run[r].source
          /\ StartChecks(run[r]).pc = "checking"
      BY <1>1 DEF StartChecks, RunState
    <3> QED
      BY <1>5, <3>1, <3>2
  <2>2. CASE ~run[r].due
    <3>1. /\ run' = [run EXCEPT ![r] = IdleRun] /\ alarm' = run[r].seenDueAt
          /\ stored' = stored /\ status' = status
          /\ stored /\ run[r].seenDueAt <= status.nextCheckDueAt
      BY <1>6, <2>2 DEF AlertDelivered, ScheduleNextFailoverAlarm, durable, AlarmInv,
         SeenInTime
    <3> QED
      BY <1>1, <1>4, <3>1
  <2> QED
    BY <2>1, <2>2
<1>7. CASE FinishRun(r)
  BY <1>1, <1>4, <1>7 DEF FinishRun, ScheduleNextFailoverAlarm
<1>8. ASSUME NEW h \in RecordsRead, ReadDnsRecord(r, h)
      PROVE  AlarmInv'
  <2>1. PICK answer : run' = [run EXCEPT ![r].answers[h] = answer]
    BY <1>8 DEF ReadDnsRecord
  <2> DEFINE inv == [run[r] EXCEPT !.answers[h] = answer]
  <2>2. run' = [run EXCEPT ![r] = inv]
    BY <2>1
  <2>3. inv.source = run[r].source /\ inv.pc = "checking"
    BY <1>1, <1>8 DEF ReadDnsRecord, RunState
  <2>4. alarm' = alarm /\ UNCHANGED <<stored, status, history, crashes>>
    BY <1>8 DEF ReadDnsRecord, durable
  <2> HIDE DEF inv
  <2> QED
    BY <1>5, <2>2, <2>3, <2>4
<1> QED
  BY <1>6, <1>7, <1>8

LEMMA StepKeepsAlarm ==
    ASSUME IInv, AlarmInv, [Next]_vars
    PROVE  AlarmInv'
<1>1. now \in Nat
  BY ControllerAssumption DEF IInv, TypeOK
<1>2. ASSUME NEW r \in Runs, RunStep(r)
      PROVE  AlarmInv'
  <2>1. CASE WatchdogWake(r) \/ AlarmFires(r)
    BY <2>1, AlarmAfterWake DEF WatchdogWake, AlarmFires
  <2>2. CASE AlertDelivered(r) \/ FinishRun(r) \/ \E h \in RecordsRead : ReadDnsRecord(r, h)
    BY <2>2, AlarmAfterRun
  <2>3. CASE CrashInRecords(r)
    BY <2>3, AlarmAfterCrash DEF CrashInRecords
  <2> QED
    BY <1>2, <2>1, <2>2, <2>3 DEF RunStep
<1>3. ASSUME NEW o \in Ops, OpStep(o)
      PROVE  AlarmInv'
  <2>1. CASE CrashInLock(o) \/ CrashInAction(o)
    <3>1. now' = now /\ \E S : LoseMemory(S)
      BY <2>1 DEF CrashInLock, CrashInAction
    <3> QED
      BY <3>1, AlarmAfterCrash
  <2>2. CASE ~(CrashInLock(o) \/ CrashInAction(o))
    <3>1. /\ alarm' = alarm /\ run' = run /\ now' = now
          /\ crashes' = crashes /\ history' = history
      BY <1>3, <2>2 DEF OpStep, ExecuteManualLock, StartDnsAction, RefuseUnconfigured,
         ReadForAction, PatchDnsRecord, StartPatches, StartVerification, GiveUp,
         ExecuteDnsAction, durable
    <3> QED
      BY <1>1, <3>1, AlarmLeftAlone
  <2> QED
    BY <2>1, <2>2
<1>4. CASE Crash
  BY <1>4, AlarmAfterCrash DEF Crash
<1>5. CASE Tick \/ (\E h \in Hosts : OutsideChange(h)) \/ UNCHANGED vars
  <2>1. /\ alarm' = alarm /\ run' = run /\ now' >= now
        /\ crashes' = crashes /\ history' = history
    BY <1>1, <1>5 DEF Tick, OutsideChange, vars, durable
  <2> QED
    BY <2>1, AlarmLeftAlone
<1> QED
  BY <1>2, <1>3, <1>4, <1>5 DEF Next

-----------------------------------------------------------------------------
(* The guarantees. *)

\* Two counted checks are never closer than one interval per row between
\* them, whatever wakes, answers and crashes interleave.
THEOREM ChecksSpaced == Spec => []HistorySpaced
<1>1. IInv => HistorySpaced
  BY DEF IInv, CountInv
<1> QED
  BY <1>1, Inductive, PTL

\* The stored status and the newest row tell of the same check.
THEOREM StatusIsNewestRow == Spec => []StatusMatchesHistory
<1>1. IInv => StatusMatchesHistory
  BY DEF IInv, CountInv
<1> QED
  BY <1>1, Inductive, PTL

\* The failure count is the length of the current outage.
THEOREM StreakIsOutage == Spec => []StreakMatchesHistory
<1>1. IInv => StreakMatchesHistory
  BY DEF IInv, CountInv
<1> QED
  BY <1>1, Inductive, PTL

\* The stored status changes as the abstract controller's does.
THEOREM PromiseImplemented == Spec => ImplementsPromise
<1>1. Init => Promise!Init
  BY DEF Init, Promise!Init, CreateDefaultFailoverStatus, NoTime
<1>2. IInv /\ [Next]_vars => [Promise!Next]_(Promise!vars)
  BY StepPromised DEF PromisedStep, Promise!Next
<1> QED
  BY <1>1, <1>2, Inductive, PTL DEF Spec, ImplementsPromise, Promise!Spec

\* The manual lock freezes the desired target against every health check.
THEOREM LockFreezes == Spec => LockFreezesTarget
<1>1. IInv /\ [Next]_vars
        => [(status.manualLock /\ status'.desiredDnsTarget # status.desiredDnsTarget)
              => OperatorActed]_vars
  BY StepPromised DEF PromisedStep, Promise!vars, Promise!Success, Promise!Failure,
     Promise!Lock
<1> QED
  BY <1>1, Inductive, PTL DEF Spec, LockFreezesTarget

\* Vercel becomes the desired target only after a sustained outage.
THEOREM OnlySustainedOutages == Spec => SustainedOutage
<1> DEFINE Outage(h) ==
        /\ Len(h) >= FailureThreshold
        /\ \A i \in 1 .. FailureThreshold : ~h[i].vpsReachable
        /\ h[1].checkedAt - h[FailureThreshold].checkedAt
              >= (FailureThreshold - 1) * CheckInterval
<1>1. ASSUME IInv, [Next]_vars, FailureThreshold <= HistoryLimit,
             status.desiredDnsTarget = "vps", status'.desiredDnsTarget = "vercel",
             ~OperatorActed
      PROVE  Outage(history')
  <2>1. Promise!Failure
    BY <1>1, StepPromised DEF PromisedStep, Promise!vars, Promise!Success, Promise!Lock
  <2>2. status'.consecutiveVpsFailures >= FailureThreshold
    BY <1>1, <2>1 DEF Promise!Failure
  <2>3. /\ FailureThreshold \in Nat \ {0} /\ HistoryLimit \in Nat
        /\ CheckInterval \in Nat \ {0}
    BY ConfigAssumption
  <2>4. TypeOK' /\ CountInv'
    BY <1>1, NextIInv DEF IInv
  <2>5. /\ history' \in Seq(HistoryRow) /\ status'.consecutiveVpsFailures \in Nat
        /\ StreakMatchesHistory' /\ HistorySpaced'
    BY <2>4 DEF TypeOK, Status, CountInv
  <2>6. DOMAIN history' = 1 .. Len(history') /\ Len(history') \in Nat
    BY <2>5, LenProperties
  <2>7. Len(history') >= FailureThreshold
    BY <1>1, <2>2, <2>3, <2>5, <2>6 DEF StreakMatchesHistory
  <2>8. 1 .. FailureThreshold \subseteq DOMAIN history'
    BY <2>3, <2>6, <2>7
  <2>9. \A i \in 1 .. FailureThreshold : ~history'[i].vpsReachable
    BY <2>2, <2>3, <2>5, <2>8 DEF StreakMatchesHistory
  <2>10. history'[1].checkedAt - history'[FailureThreshold].checkedAt
           >= (FailureThreshold - 1) * CheckInterval
    <3>1. 1 \in DOMAIN history' /\ FailureThreshold \in DOMAIN history'
      BY <2>3, <2>8
    <3>2. CASE FailureThreshold = 1
      <4>1. history'[1].checkedAt \in Nat
        <5>1. history'[1] \in HistoryRow
          BY <2>5, <2>6, <3>1, ElementOfSeq
        <5> QED
          BY <5>1 DEF HistoryRow
      <4>2. (FailureThreshold - 1) * CheckInterval = 0
        BY <2>3, <3>2
      <4> QED
        BY <3>2, <4>1, <4>2
    <3>3. CASE FailureThreshold # 1
      BY <2>3, <2>5, <3>1, <3>3 DEF HistorySpaced
    <3> QED
      BY <3>2, <3>3
  <2> QED
    BY <2>7, <2>9, <2>10
<1>2. IInv /\ [Next]_vars
        => [(/\ FailureThreshold <= HistoryLimit
             /\ status.desiredDnsTarget = "vps" /\ status'.desiredDnsTarget = "vercel"
             /\ ~OperatorActed)
            => Outage(history')]_vars
  BY <1>1
<1> QED
  BY <1>2, Inductive, PTL DEF Spec, SustainedOutage

\* A status served as fresh rests on a check at most one interval and one
\* staleness window old, however often records refreshed generatedAt since.
THEOREM FreshIsRecent == Spec => []FreshMeansRecentlyChecked
<1>1. ASSUME IInv, history # <<>>, ~ReadFailoverStatus(now).stale
      PROVE  now - history[1].checkedAt <= CheckInterval + StaleAfter
  <2>1. /\ stored /\ history[1].checkedAt = status.lastVpsCheckAt
        /\ status.nextCheckDueAt = status.lastVpsCheckAt + CheckInterval
    BY <1>1 DEF IInv, CountInv, StatusMatchesHistory, CreateHistoryRow
  <2>2. ~StatusOverdue(status, now)
    BY <1>1, <2>1 DEF IInv, TypeOK, Status, ReadFailoverStatus, SanitizeFailoverStatus,
       ApplyFailoverStatusFreshness
  <2>3. /\ now \in Nat /\ CheckInterval \in Nat /\ StaleAfter \in Nat
        /\ status.lastVpsCheckAt \in Int
    BY <1>1, ConfigAssumption, ControllerAssumption DEF IInv, TypeOK, Status, Time, NoTime
  <2>4. now - status.nextCheckDueAt <= StaleAfter
    BY <2>1, <2>2, <2>3 DEF StatusOverdue
  <2> QED
    BY <2>1, <2>3, <2>4
<1> QED
  BY <1>1, Inductive, PTL DEF FreshMeansRecentlyChecked

\* The healthy label is served only when the last counted check succeeded, no
\* lock is on and nothing points off the VPS.
THEOREM HealthyLabelIsTrue == Spec => []HealthyIsHealthy
<1>1. ASSUME IInv, DeriveControllerState(ReadFailoverStatus(now)) = "vps_primary_healthy"
      PROVE  /\ history # <<>> => history[1].vpsReachable
             /\ ~status.manualLock
             /\ status.activeDnsTarget = "vps" /\ status.desiredDnsTarget = "vps"
             /\ \A h \in Hosts : status.actual[h] \in {"vps", "unknown"}
  <2> DEFINE seen == ReadFailoverStatus(now)
  <2>1. status \in Status /\ status.consecutiveVpsFailures \in Nat
    BY <1>1 DEF IInv, TypeOK, Status
  <2>2. /\ ~seen.manualLock /\ ~HasDnsDrift(seen)
        /\ seen.activeDnsTarget # "vercel" /\ seen.desiredDnsTarget # "vercel"
        /\ seen.lastVpsReachable \/ ~(seen.consecutiveVpsFailures > 0)
    BY <1>1 DEF DeriveControllerState
  <2>3. CASE stored
    <3>1. /\ seen.manualLock = status.manualLock /\ seen.actual = status.actual
          /\ seen.activeDnsTarget = status.activeDnsTarget
          /\ seen.desiredDnsTarget = status.desiredDnsTarget
          /\ seen.lastVpsReachable = status.lastVpsReachable
          /\ seen.consecutiveVpsFailures = status.consecutiveVpsFailures
      BY <2>1, <2>3 DEF ReadFailoverStatus, SanitizeFailoverStatus,
         ApplyFailoverStatusFreshness, Status
    <3>2. status.activeDnsTarget = "vps" /\ status.desiredDnsTarget = "vps"
      BY <2>1, <2>2, <3>1 DEF Status, Targets
    <3>3. \A h \in Hosts : status.actual[h] \in {"vps", "unknown"}
      BY <2>2, <3>1, <3>2 DEF HasDnsDrift
    <3>4. history # <<>> => history[1].vpsReachable
      <4> SUFFICES ASSUME history # <<>> PROVE history[1].vpsReachable
        OBVIOUS
      <4>1. history[1].vpsReachable = status.lastVpsReachable
        BY <1>1 DEF IInv, CountInv, StatusMatchesHistory, CreateHistoryRow
      <4>2. CASE status.consecutiveVpsFailures > 0
        BY <2>2, <3>1, <4>1, <4>2
      <4>3. CASE status.consecutiveVpsFailures = 0
        <5>1. 1 \in DOMAIN history
          BY <1>1, EmptySeq, LenProperties DEF IInv, TypeOK
        <5> QED
          BY <1>1, <4>3, <5>1 DEF IInv, CountInv, StreakMatchesHistory
      <4> QED
        BY <2>1, <4>2, <4>3
    <3> HIDE DEF seen
    <3> QED
      BY <2>2, <3>1, <3>2, <3>3, <3>4
  <2>4. CASE ~stored
    BY <1>1, <2>4 DEF IInv, CountInv, NothingStored, CreateDefaultFailoverStatus
  <2> QED
    BY <2>3, <2>4
<1> QED
  BY <1>1, Inductive, PTL DEF HealthyIsHealthy

\* The active target never contradicts a readback on which both records agree.
THEOREM AgreedReadbackCounts == Spec => []AgreedReadbackIsActive
<1>1. Init => Agreed(status)
  BY AgreementKept, DefaultStatus DEF Init
<1>2. IInv /\ Agreed(status) /\ [Next]_vars => Agreed(status)'
  BY StepAgrees
<1>3. Agreed(status) => AgreedReadbackIsActive
  BY DEF Agreed, AgreedReadbackIsActive
<1> QED
  BY <1>1, <1>2, <1>3, Inductive, PTL DEF Spec

\* The alarm rings in time, and without a crash the chain of alarms never breaks.
THEOREM AlarmsInTime == Spec => []AlarmInTime
<1>1. Init => AlarmInv
  BY DEF Init, AlarmInv, SlotsFree, AlarmsStored, SeenInTime, AlarmInTime, IdleRun
<1>2. IInv /\ AlarmInv /\ [Next]_vars => AlarmInv'
  BY StepKeepsAlarm
<1>3. AlarmInv => AlarmInTime
  BY DEF AlarmInv
<1> QED
  BY <1>1, <1>2, <1>3, Inductive, PTL DEF Spec

-----------------------------------------------------------------------------
(* That an action that is done has moved the records.                      *)

Alone(o) == \A p \in Ops : Opposes(p, o) => op[p].pc = "idle"

Moved(o, h) == dns[h] \in {Target(o)} \cup OutsideContents

\* Until somebody asks for the opposite, a record that an action has read on its
\* target is there still, but for what was edited from outside.
ReadsHold ==
    \A o \in Ops : \A h \in Hosts :
        (/\ OpAction[o] \notin LockActions
         /\ Alone(o)
         /\ op[o].pc \in {"reading", "verifying"}
         /\ op[o].answers[h] = Target(o)) => Moved(o, h)

\* No request becomes idle again.
LEMMA StaysStarted ==
    ASSUME IInv, [Next]_vars, NEW o \in Ops, op'[o].pc = "idle"
    PROVE  op[o].pc = "idle"
<1>1. op \in [Ops -> OpState]
  BY DEF IInv, TypeOK
<1>2. ASSUME op' = op PROVE op[o].pc = "idle"
  BY <1>2
<1>3. ASSUME NEW S, LoseMemory(S) PROVE op[o].pc = "idle"
  BY <1>1, <1>3 DEF LoseMemory, IdleOp
<1>4. ASSUME NEW p \in Ops, OpStep(p) PROVE op[o].pc = "idle"
  <2>1. CASE o # p
    <3>1. (op'[o] = op[o]) \/ \E S : LoseMemory(S)
      BY <1>1, <1>4, <2>1 DEF OpStep, ExecuteManualLock, CrashInLock, StartDnsAction, RefuseUnconfigured,
         ReadForAction, PatchDnsRecord, StartPatches, StartVerification, GiveUp, ExecuteDnsAction,
         CrashInAction, Close
    <3> QED BY <1>3, <3>1
  <2>2. CASE o = p
    <3>1. CASE Close(o)
      BY <1>1, <3>1 DEF Close, IdleOp
    <3>2. CASE StartDnsAction(o)
      BY <3>2 DEF StartDnsAction
    <3>3. ASSUME NEW h \in Hosts, ReadForAction(o, h) \/ PatchDnsRecord(o, h) PROVE op[o].pc = "idle"
      BY <1>1, <3>3 DEF ReadForAction, PatchDnsRecord, OpState
    <3>4. CASE StartPatches(o) \/ StartVerification(o)
      BY <1>1, <3>4 DEF StartPatches, StartVerification, OpState
    <3> QED
      BY <1>3, <1>4, <2>2, <3>1, <3>2, <3>3, <3>4 DEF OpStep, ExecuteManualLock, CrashInLock,
         RefuseUnconfigured, GiveUp, ExecuteDnsAction, CrashInAction
  <2> QED BY <2>1, <2>2
<1>5. ASSUME NEW r \in Runs, RunStep(r) PROVE op[o].pc = "idle"
  BY <1>2, <1>3, <1>5 DEF RunStep, WatchdogWake, AlarmFires, RunHealthCheck, AlertDelivered,
     ReadDnsRecord, FinishRun, CrashInRecords
<1>6. CASE Crash \/ Tick \/ (\E h \in Hosts : OutsideChange(h)) \/ UNCHANGED vars
  BY <1>2, <1>3, <1>6 DEF Crash, Tick, OutsideChange, vars
<1> QED
  BY <1>4, <1>5, <1>6 DEF Next

LEMMA StaysAlone ==
    ASSUME IInv, [Next]_vars, NEW o \in Ops, \A p \in Ops : Opposes(p, o) => op'[p].pc = "idle"
    PROVE  Alone(o)
BY StaysStarted DEF Alone

\* While nobody asks for the opposite, a record does not leave where it is allowed to be.
LEMMA DnsMoves ==
    ASSUME IInv, [Next]_vars, NEW o \in Ops, OpAction[o] \notin LockActions, Alone(o),
           NEW h \in Hosts, Moved(o, h)
    PROVE  Moved(o, h)'
<1>1. op \in [Ops -> OpState] /\ OpKinds /\ dns \in [Hosts -> Classifications]
  BY DEF IInv, TypeOK
<1>2. ASSUME dns' = dns PROVE Moved(o, h)'
  BY <1>2 DEF Moved
<1>3. ASSUME NEW p \in Ops, NEW g \in Hosts, PatchDnsRecord(p, g) PROVE Moved(o, h)'
  <2>1. op[p].pc = "patching" /\ OpAction[p] \notin LockActions
    BY <1>1, <1>3 DEF PatchDnsRecord, OpKinds
  <2>2. Target(p) = Target(o)
    BY <2>1 DEF Alone, Opposes
  <2>3. dns' = dns \/ dns' = [dns EXCEPT ![g] = Target(o)]
    BY <1>3, <2>2 DEF PatchDnsRecord
  <2>4. dns'[h] \in {dns[h], Target(o)}
    BY <1>1, <2>3
  <2> QED BY <2>4 DEF Moved
<1>4. ASSUME NEW g \in Hosts, OutsideChange(g) PROVE Moved(o, h)'
  <2>1. dns'[h] \in {dns[h]} \cup OutsideContents
    BY <1>1, <1>4 DEF OutsideChange
  <2> QED BY <2>1 DEF Moved
<1>5. ASSUME NEW p \in Ops, OpStep(p), ~ \E g \in Hosts : PatchDnsRecord(p, g) PROVE dns' = dns
  BY <1>5 DEF OpStep, ExecuteManualLock, CrashInLock, StartDnsAction, RefuseUnconfigured,
         ReadForAction, StartPatches, StartVerification, GiveUp, ExecuteDnsAction, CrashInAction
<1>6. ASSUME NEW r \in Runs, RunStep(r) PROVE dns' = dns
  BY <1>6 DEF RunStep, WatchdogWake, AlarmFires, RunHealthCheck, AlertDelivered,
     ReadDnsRecord, FinishRun, CrashInRecords
<1>7. CASE Crash \/ Tick \/ UNCHANGED vars
  BY <1>2, <1>7 DEF Crash, Tick, vars
<1> QED
  BY <1>2, <1>3, <1>4, <1>5, <1>6, <1>7 DEF Next

\* A request that has read a record on its target had read it before, or reads it now.
LEMMA ReadsArise ==
    ASSUME IInv, [Next]_vars, NEW o \in Ops, NEW h \in Hosts,
           op'[o].pc \in {"reading", "verifying"}, op'[o].answers[h] = Target(o)
    PROVE  \/ op[o].pc \in {"reading", "verifying"} /\ op[o].answers[h] = Target(o)
           \/ dns[h] = Target(o) /\ dns' = dns
<1> DEFINE Arises == \/ op[o].pc \in {"reading", "verifying"} /\ op[o].answers[h] = Target(o)
                     \/ dns[h] = Target(o) /\ dns' = dns
<1>0. op \in [Ops -> OpState] /\ Target(o) \in Targets /\ Target(o) \notin {"pending", "error", "ok"}
  BY DEF IInv, TypeOK, Target, Targets
<1>1. ASSUME op'[o] = op[o] PROVE Arises
  BY <1>1
<1>2. ASSUME NEW S, LoseMemory(S) PROVE Arises
  BY <1>0, <1>1, <1>2 DEF LoseMemory, IdleOp
<1>3. ASSUME NEW p \in Ops, OpStep(p) PROVE Arises
  <2>1. CASE o # p
    <3>1. (op'[o] = op[o]) \/ \E S : LoseMemory(S)
      BY <1>0, <1>3, <2>1 DEF OpStep, ExecuteManualLock, CrashInLock, StartDnsAction, RefuseUnconfigured,
         ReadForAction, PatchDnsRecord, StartPatches, StartVerification, GiveUp, ExecuteDnsAction,
         CrashInAction, Close
    <3> QED BY <1>1, <1>2, <3>1
  <2>2. CASE o = p
    <3>1. CASE Close(o)
      BY <1>0, <3>1 DEF Close, IdleOp
    <3>2. CASE StartDnsAction(o)
      <4>1. op'[o].answers = NoAnswers
        BY <1>0, <3>2 DEF StartDnsAction, IdleOp
      <4> QED BY <1>0, <4>1 DEF NoAnswers
    <3>3. ASSUME NEW g \in Hosts, ReadForAction(o, g) PROVE Arises
      <4>1. PICK answer \in {dns[g], "error"} : op' = [op EXCEPT ![o].answers[g] = answer]
        BY <3>3 DEF ReadForAction
      <4>2. op'[o].pc = op[o].pc /\ op'[o].answers = [op[o].answers EXCEPT ![g] = answer] /\ dns' = dns
        BY <1>0, <3>3, <4>1 DEF ReadForAction, OpState
      <4>3. op[o].answers \in [Hosts -> Answers]
        BY <1>0 DEF OpState
      <4>4. CASE h = g
        BY <1>0, <4>2, <4>3, <4>4
      <4>5. CASE h # g
        BY <1>0, <4>2, <4>3, <4>5
      <4> QED BY <4>4, <4>5
    <3>4. ASSUME NEW g \in Hosts, PatchDnsRecord(o, g) PROVE Arises
      <4>1. op'[o].pc = "patching"
        BY <1>0, <3>4 DEF PatchDnsRecord, OpState
      <4> QED BY <4>1
    <3>5. CASE StartPatches(o) \/ StartVerification(o)
      <4>1. op'[o].answers = NoAnswers
        BY <1>0, <3>5 DEF StartPatches, StartVerification, OpState
      <4> QED BY <1>0, <4>1 DEF NoAnswers
    <3> QED
      BY <1>2, <1>3, <2>2, <3>1, <3>2, <3>3, <3>4, <3>5 DEF OpStep, ExecuteManualLock, CrashInLock,
         RefuseUnconfigured, GiveUp, ExecuteDnsAction, CrashInAction
  <2> QED BY <2>1, <2>2
<1>4. ASSUME NEW r \in Runs, RunStep(r) PROVE Arises
  BY <1>1, <1>2, <1>4 DEF RunStep, WatchdogWake, AlarmFires, RunHealthCheck, AlertDelivered,
     ReadDnsRecord, FinishRun, CrashInRecords
<1>5. CASE Crash \/ Tick \/ (\E g \in Hosts : OutsideChange(g)) \/ UNCHANGED vars
  BY <1>1, <1>2, <1>5 DEF Crash, Tick, OutsideChange, vars
<1> QED
  BY <1>3, <1>4, <1>5 DEF Next

LEMMA ReadsHoldOn == IInv /\ ReadsHold /\ [Next]_vars => ReadsHold'
<1> SUFFICES ASSUME IInv, ReadsHold, [Next]_vars, NEW o \in Ops, NEW h \in Hosts,
                    OpAction[o] \notin LockActions,
                    \A p \in Ops : Opposes(p, o) => op'[p].pc = "idle",
                    op'[o].pc \in {"reading", "verifying"}, op'[o].answers[h] = Target(o)
             PROVE  Moved(o, h)'
  BY DEF ReadsHold, Alone, Opposes, Target
<1>1. Alone(o)
  BY StaysAlone
<1>2. Moved(o, h)
  BY <1>1, ReadsArise DEF ReadsHold, Moved
<1> QED
  BY <1>1, <1>2, DnsMoves

\* A result other than "refused" and "failed" is audited by what was recorded.
LEMMA DoneIsRecorded ==
    ASSUME IInv, [Next]_vars, NEW o \in Ops, OpAction[o] \notin LockActions,
           op[o].pc # "done", op'[o].pc = "done",
           audit' # audit, audit'[1].result \in {"success", "duplicate"}
    PROVE  ExecuteDnsAction(o)
<1>1. TypeOK /\ op \in [Ops -> OpState]
  BY DEF IInv, TypeOK
<1>2. PICK p \in Ops : \/ ExecuteManualLock(p) \/ RefuseUnconfigured(p)
                       \/ GiveUp(p) \/ ExecuteDnsAction(p)
  BY DEF Next, RunStep, OpStep, WatchdogWake, AlarmFires, RunHealthCheck, AlertDelivered, ReadDnsRecord,
         FinishRun, CrashInRecords, CrashInLock, StartDnsAction, ReadForAction, PatchDnsRecord,
         StartPatches, StartVerification, CrashInAction, OutsideChange, Crash, Tick, vars, durable
<1>3. p = o
  <2>1. Close(p)
    BY <1>2 DEF ExecuteManualLock, RefuseUnconfigured, GiveUp, ExecuteDnsAction
  <2> QED BY <1>1, <2>1 DEF Close
<1>4. ~ExecuteManualLock(o)
  BY DEF ExecuteManualLock, StoresLock
<1>5. ASSUME NEW result \in {"refused", "failed"}, NEW manualLock \in BOOLEAN,
             RecordAudit(o, result, manualLock)
      PROVE  FALSE
  <2>1. AuditRow(o, result, manualLock) \in AuditRows
    BY ControllerAssumption DEF AuditRow, AuditRows, Keys
  <2>2. audit'[1] = AuditRow(o, result, manualLock)
    BY <1>1, <1>5, <2>1, ConfigAssumption, PrependProperties DEF RecordAudit, TypeOK
  <2> QED BY <2>2 DEF AuditRow
<1>6. op[o].seenLock \in BOOLEAN /\ ReadFailoverStatus(now).manualLock \in BOOLEAN
  <2>1. now \in Nat
    BY <1>1, ControllerAssumption DEF TypeOK
  <2> QED BY <1>1, <2>1, ReadStatus DEF OpState, Status
<1>7. ~GiveUp(o) /\ ~RefuseUnconfigured(o)
  BY <1>5, <1>6 DEF GiveUp, RefuseUnconfigured
<1> QED
  BY <1>2, <1>3, <1>4, <1>7

\* Neither a lost reply, half a write, nor a retry is taken for the move: until somebody
\* asks for the opposite, an action audited as done has left both records on its target
\* (writeCloudflareFailoverDnsTarget, executeDnsAction).
THEOREM DoneIsMoved == Spec => DoneMeansMoved
<1>1. Init => ReadsHold
  BY DEF Init, ReadsHold, IdleOp
<1>2. ASSUME IInv, ReadsHold, [Next]_vars, NEW o \in Ops,
             OpAction[o] \notin LockActions, op[o].pc # "done", op'[o].pc = "done",
             audit' # audit, audit'[1].result \in {"success", "duplicate"},
             \A p \in Ops : Opposes(p, o) => op[p].pc = "idle",
             NEW h \in Hosts
      PROVE  dns[h] \in {Target(o)} \cup OutsideContents
  <2>1. ExecuteDnsAction(o)
    BY <1>2, DoneIsRecorded
  <2>2. op[o].pc \in {"reading", "verifying"} /\ op[o].answers[h] = Target(o)
    BY <2>1 DEF ExecuteDnsAction, WriteVerified, OnTarget
  <2> QED BY <1>2, <2>2 DEF ReadsHold, Alone, Moved
<1>3. IInv /\ ReadsHold /\ [Next]_vars =>
        [ \A o \in Ops :
          (/\ OpAction[o] \notin LockActions
           /\ op[o].pc # "done" /\ op'[o].pc = "done"
           /\ audit' # audit /\ audit'[1].result \in {"success", "duplicate"}
           /\ \A p \in Ops : Opposes(p, o) => op[p].pc = "idle")
          => \A h \in Hosts : dns[h] \in {Target(o)} \cup OutsideContents ]_vars
  BY <1>2
<1> QED
  BY <1>1, <1>3, ReadsHoldOn, Inductive, PTL DEF Spec, DoneMeansMoved

-----------------------------------------------------------------------------
(* That a key is applied once.                                             *)

\* The same of a log that is known by name.
LEMMA Prepended ==
    ASSUME NEW S, NEW log \in Seq(S), NEW row \in S, NEW limit \in Nat \ {0},
           Len(log) <= limit, NEW new, new = Prepend(row, log, limit)
    PROVE  /\ new \in Seq(S)
           /\ Len(new) = IF Len(log) < limit THEN Len(log) + 1 ELSE limit
           /\ new[1] = row
           /\ \A i \in 2 .. Len(new) : i - 1 \in DOMAIN log /\ new[i] = log[i - 1]
<1> DEFINE p == Prepend(row, log, limit)
<1>1. p \in Seq(S)
  BY PrependProperties
<1>2. Len(p) = IF Len(log) < limit THEN Len(log) + 1 ELSE limit
  BY PrependProperties
<1>3. p[1] = row
  BY PrependProperties
<1>4. ASSUME NEW i \in 2 .. Len(p)
      PROVE  i - 1 \in DOMAIN log /\ p[i] = log[i - 1]
  <2>1. i - 1 \in DOMAIN log
    BY PrependProperties
  <2>2. p[i] = log[i - 1]
    <3> DEFINE n == IF Len(log) < limit THEN Len(log) + 1 ELSE limit
    <3>1. Len(log) \in Nat /\ n \in Nat
      BY LenProperties
    <3>2. p = [k \in 1 .. n |-> IF k = 1 THEN row ELSE log[k - 1]]
      BY DEF Prepend
    <3>3. i \in 2 .. n
      BY <1>2
    <3> HIDE DEF p, n
    <3> QED BY <3>1, <3>2, <3>3
  <2> QED BY <2>1, <2>2
<1> HIDE DEF p
<1>5. new = p
  BY DEF p
<1> QED BY <1>1, <1>2, <1>3, <1>4, <1>5

\* The applied actions among the rows can be counted.
LEMMA AppliedFinite ==
    ASSUME NEW log, NEW i \in Nat, NEW j \in Nat
    PROVE  IsFiniteSet(Applied(log, i, j)) /\ Cardinality(Applied(log, i, j)) \in Nat
<1>1. IsFiniteSet(i + 1 .. j)
  BY FS_Interval
<1>2. IsFiniteSet(Applied(log, i, j))
  BY <1>1, FS_Subset DEF Applied
<1> QED BY <1>2, FS_CardinalityType

\* Rows that have moved one place back are as many as they were.
LEMMA AppliedShift ==
    ASSUME NEW log, NEW new, NEW i \in Nat, NEW j \in Nat,
           \A k \in Nat : i < k /\ k <= j => new[k + 1] = log[k],
           NEW a, a = i + 1, NEW b, b = j + 1
    PROVE  Cardinality(Applied(new, a, b)) = Cardinality(Applied(log, i, j))
<1> DEFINE S == Applied(log, i, j)
           T == Applied(new, a, b)
           f == [k \in S |-> k + 1]
<1>1. \A k \in S : k \in Nat /\ k + 1 \in T
  BY DEF Applied
<1>2. \A t \in T : t - 1 \in S /\ t = (t - 1) + 1
  BY DEF Applied
<1> HIDE DEF S, T
<1>3. f \in [S -> T]
  BY <1>1
<1>4. \A k, l \in S : f[k] = f[l] => k = l
  BY <1>1
<1>5. \A t \in T : \E k \in S : f[k] = t
  BY <1>2
<1>6. f \in Bijection(S, T)
  BY <1>3, <1>4, <1>5 DEF Bijection, Injection, Surjection, IsInjective
<1>7. ExistsBijection(S, T)
  BY <1>6 DEF ExistsBijection
<1>8. IsFiniteSet(S)
  BY AppliedFinite DEF S
<1>9. Cardinality(T) = Cardinality(S)
  BY <1>7, <1>8, FS_Bijection
<1> QED BY <1>9 DEF S, T

\* A row in front counts if it is a success.
LEMMA AppliedFirst ==
    ASSUME NEW new, NEW j \in Nat, j >= 1
    PROVE  Cardinality(Applied(new, 0, j)) =
             Cardinality(Applied(new, 1, j)) + IF new[1].result = "success" THEN 1 ELSE 0
<1>0. IsFiniteSet(Applied(new, 1, j)) /\ Cardinality(Applied(new, 1, j)) \in Nat
  BY AppliedFinite
<1>1. IsFiniteSet(Applied(new, 1, j)) /\ 1 \notin Applied(new, 1, j) /\ Cardinality(Applied(new, 1, j)) \in Nat
  BY <1>0 DEF Applied
<1>2. CASE new[1].result = "success"
  <2>1. Applied(new, 0, j) = Applied(new, 1, j) \cup {1}
    BY <1>2 DEF Applied
  <2> QED BY <1>1, <1>2, <2>1, FS_AddElement
<1>3. CASE new[1].result # "success"
  <2>1. Applied(new, 0, j) = Applied(new, 1, j)
    BY <1>3 DEF Applied
  <2> QED BY <1>1, <1>3, <2>1
<1> QED BY <1>2, <1>3

\* How many applied actions ago, at most, a row's key was remembered.
Rank(i) == Cardinality(Applied(audit, 0, i)) + crashes

\* The key of an applied action is remembered as long as the list is long enough.
KeyRemembered ==
    \A i \in DOMAIN audit :
        audit[i].result = "success" /\ Rank(i) <= HistoryLimit =>
            \E p \in DOMAIN recentKeys : p <= Rank(i) /\ recentKeys[p] = audit[i].key

KeyInv == KeyRemembered /\ KeyAppliedOnce

\* One key more moves the others one place back.
LEMMA KeysMoveBack ==
    ASSUME IInv, NEW o \in Ops, RememberKey(o), ~IsDuplicate(o)
    PROVE  /\ 1 \in DOMAIN recentKeys' /\ recentKeys'[1] = OpKey[o]
           /\ \A p \in DOMAIN recentKeys : p + 1 <= HistoryLimit =>
                 p + 1 \in DOMAIN recentKeys' /\ recentKeys'[p + 1] = recentKeys[p]
<1>1. recentKeys \in Seq(Keys) /\ Len(recentKeys) <= HistoryLimit /\ OpKey[o] \in Keys
      /\ HistoryLimit \in Nat \ {0}
  BY ConfigAssumption DEF IInv, TypeOK, Keys
<1>2. PICK new : new = Prepend(OpKey[o], recentKeys, HistoryLimit) /\ recentKeys' = new
  BY DEF RememberKey
<1>3. /\ new \in Seq(Keys)
      /\ Len(new) = IF Len(recentKeys) < HistoryLimit THEN Len(recentKeys) + 1 ELSE HistoryLimit
      /\ new[1] = OpKey[o]
      /\ \A i \in 2 .. Len(new) : new[i] = recentKeys[i - 1]
  <2>1. new \in Seq(Keys)
    BY <1>1, <1>2, Prepended
  <2>2. Len(new) = IF Len(recentKeys) < HistoryLimit THEN Len(recentKeys) + 1 ELSE HistoryLimit
    BY <1>1, <1>2, Prepended
  <2>3. new[1] = OpKey[o]
    BY <1>1, <1>2, Prepended
  <2>4. \A i \in 2 .. Len(new) : new[i] = recentKeys[i - 1]
    BY <1>1, <1>2, Prepended
  <2> QED BY <2>1, <2>2, <2>3, <2>4
<1>4. /\ recentKeys' \in Seq(Keys)
      /\ Len(recentKeys') = IF Len(recentKeys) < HistoryLimit THEN Len(recentKeys) + 1 ELSE HistoryLimit
      /\ recentKeys'[1] = OpKey[o]
      /\ \A i \in 2 .. Len(recentKeys') : recentKeys'[i] = recentKeys[i - 1]
  BY <1>2, <1>3
<1>5. Len(recentKeys) \in Nat /\ DOMAIN recentKeys = 1 .. Len(recentKeys)
      /\ DOMAIN recentKeys' = 1 .. Len(recentKeys')
  BY <1>1, <1>4, LenProperties
<1>6. 1 \in DOMAIN recentKeys'
  BY <1>1, <1>4, <1>5
<1>7. ASSUME NEW p \in DOMAIN recentKeys, p + 1 <= HistoryLimit
      PROVE  p + 1 \in DOMAIN recentKeys' /\ recentKeys'[p + 1] = recentKeys[p]
  <2>1. p \in Nat /\ p + 1 \in 2 .. Len(recentKeys')
    BY <1>1, <1>4, <1>5, <1>7
  <2>2. recentKeys'[p + 1] = recentKeys[(p + 1) - 1]
    BY <1>4, <2>1
  <2> QED BY <1>5, <2>1, <2>2
<1> QED BY <1>4, <1>6, <1>7

\* A row in front of the audit moves the others, with their ranks, one place back.
LEMMA AuditMovesBack ==
    ASSUME IInv, NEW o \in Ops, NEW result \in {"success", "duplicate", "refused", "failed"},
           NEW manualLock \in BOOLEAN, RecordAudit(o, result, manualLock), UNCHANGED crashes
    PROVE  /\ DOMAIN audit' \subseteq Nat \ {0} /\ DOMAIN audit \subseteq Nat \ {0}
           /\ audit'[1].result = result /\ audit'[1].key = OpKey[o]
           /\ \A i \in DOMAIN audit' \ {1} : i - 1 \in DOMAIN audit /\ audit'[i] = audit[i - 1]
           /\ \A i, j \in DOMAIN audit' : i < j =>
                 Cardinality(Applied(audit', i, j)) = Cardinality(Applied(audit, i - 1, j - 1))
           /\ \A i \in DOMAIN audit' \ {1} :
                 Rank(i)' = Rank(i - 1) + IF result = "success" THEN 1 ELSE 0
<1> DEFINE row == AuditRow(o, result, manualLock)
<1>1. audit \in Seq(AuditRows) /\ Len(audit) <= AuditLimit /\ AuditLimit \in Nat \ {0} /\ row \in AuditRows
      /\ crashes \in Nat
  BY ConfigAssumption, ControllerAssumption DEF IInv, TypeOK, AuditRow, AuditRows, Keys
<1>2. PICK new : new = Prepend(row, audit, AuditLimit) /\ audit' = new
  BY DEF RecordAudit
<1> HIDE DEF row
<1>3. /\ audit' \in Seq(AuditRows)
      /\ audit'[1] = row
      /\ \A i \in 2 .. Len(audit') : i - 1 \in DOMAIN audit /\ audit'[i] = audit[i - 1]
  <2>1. new \in Seq(AuditRows)
    BY <1>1, <1>2, Prepended
  <2>2. new[1] = row
    BY <1>1, <1>2, Prepended
  <2>3. \A i \in 2 .. Len(new) : i - 1 \in DOMAIN audit /\ new[i] = audit[i - 1]
    BY <1>1, <1>2, Prepended
  <2> QED BY <1>2, <2>1, <2>2, <2>3
<1>4. /\ DOMAIN audit = 1 .. Len(audit) /\ Len(audit) \in Nat
      /\ DOMAIN audit' = 1 .. Len(audit') /\ Len(audit') \in Nat
  BY <1>1, <1>3, LenProperties
<1>5. audit'[1].result = result /\ audit'[1].key = OpKey[o]
  BY <1>3 DEF AuditRow, row
<1>6. \A i \in DOMAIN audit' \ {1} : i - 1 \in DOMAIN audit /\ audit'[i] = audit[i - 1]
  BY <1>3, <1>4
<1>7. ASSUME NEW i \in Nat \ {0}, NEW j \in DOMAIN audit', i < j
      PROVE  Cardinality(Applied(audit', i, j)) = Cardinality(Applied(audit, i - 1, j - 1))
  <2>1. PICK a \in Nat : a + 1 = i
    <3>1. i - 1 \in Nat /\ (i - 1) + 1 = i
      OBVIOUS
    <3> QED BY <3>1
  <2>2. PICK b \in Nat : b + 1 = j
    <3>1. j - 1 \in Nat /\ (j - 1) + 1 = j
      BY <1>4
    <3> QED BY <3>1
  <2>3. PICK log : log = audit
    OBVIOUS
  <2>4. \A k \in Nat : a < k /\ k <= b => new[k + 1] = log[k]
    <3> SUFFICES ASSUME NEW k \in Nat, a < k, k <= b PROVE new[k + 1] = log[k]
      OBVIOUS
    <3>1. k + 1 \in 2 .. Len(audit') /\ (k + 1) - 1 = k
      BY <1>4, <1>7, <2>2
    <3>2. audit'[k + 1] = audit[(k + 1) - 1]
      BY <1>3, <3>1
    <3> QED BY <1>2, <2>3, <3>1, <3>2
  <2>5. Cardinality(Applied(new, i, j)) = Cardinality(Applied(log, a, b))
    BY <2>1, <2>2, <2>4, AppliedShift
  <2>6. a = i - 1 /\ b = j - 1
    BY <1>4, <2>1, <2>2
  <2> QED BY <1>2, <2>3, <2>5, <2>6
<1>8. ASSUME NEW i \in DOMAIN audit' \ {1}
      PROVE  Rank(i)' = Rank(i - 1) + IF result = "success" THEN 1 ELSE 0
  <2>1. i \in Nat /\ i >= 1 /\ 1 < i /\ i - 1 \in Nat
    BY <1>4
  <2>2. Cardinality(Applied(audit', 0, i)) =
          Cardinality(Applied(audit', 1, i)) + IF result = "success" THEN 1 ELSE 0
    BY <1>5, <2>1, AppliedFirst
  <2>3. Cardinality(Applied(audit', 1, i)) = Cardinality(Applied(audit, 0, i - 1))
    BY <1>7, <2>1
  <2>4. Cardinality(Applied(audit, 0, i - 1)) \in Nat
    BY <2>1, AppliedFinite
  <2> QED BY <1>1, <2>2, <2>3, <2>4 DEF Rank
<1> QED BY <1>4, <1>5, <1>6, <1>7, <1>8

LEMMA RankTyped == ASSUME IInv, NEW i \in DOMAIN audit PROVE i \in Nat \ {0} /\ Rank(i) \in Nat
<1>1. i \in Nat \ {0} /\ crashes \in Nat
  BY LenProperties, ControllerAssumption DEF IInv, TypeOK
<1>2. Cardinality(Applied(audit, 0, i)) \in Nat
  BY <1>1, AppliedFinite
<1> QED BY <1>1, <1>2 DEF Rank

\* A row that is no success, with the keys as they were.
LEMMA UnappliedKeeps ==
    ASSUME IInv, KeyInv, NEW o \in Ops, NEW result \in {"duplicate", "refused", "failed"},
           NEW manualLock \in BOOLEAN, RecordAudit(o, result, manualLock),
           UNCHANGED <<recentKeys, crashes>>
    PROVE  KeyInv'
<1> USE AuditMovesBack
<1>1. ASSUME NEW i \in DOMAIN audit', audit'[i].result = "success"
      PROVE  i - 1 \in DOMAIN audit /\ audit'[i] = audit[i - 1] /\ Rank(i)' = Rank(i - 1) /\ i # 1
  <2>1. i # 1
    BY <1>1
  <2>2. i - 1 \in DOMAIN audit /\ audit'[i] = audit[i - 1] /\ Rank(i)' = Rank(i - 1) + 0
    BY <1>1, <2>1
  <2>3. Rank(i - 1) \in Nat
    BY <2>2, RankTyped
  <2> QED BY <2>1, <2>2, <2>3
<1>2. KeyRemembered'
  <2> SUFFICES ASSUME NEW i \in DOMAIN audit', audit'[i].result = "success", Rank(i)' <= HistoryLimit
               PROVE  \E p \in DOMAIN recentKeys' : p <= Rank(i)' /\ recentKeys'[p] = audit'[i].key
    BY DEF KeyRemembered
  <2>1. i - 1 \in DOMAIN audit /\ audit'[i] = audit[i - 1] /\ Rank(i)' = Rank(i - 1)
    BY <1>1
  <2> QED BY <2>1 DEF KeyInv, KeyRemembered
<1>3. KeyAppliedOnce'
  <2> SUFFICES ASSUME NEW i \in DOMAIN audit', NEW j \in DOMAIN audit', i < j,
                      audit'[i].result = "success", audit'[j].result = "success",
                      Cardinality(Applied(audit', i, j)) + crashes <= HistoryLimit
               PROVE  audit'[i].key # audit'[j].key
    BY DEF KeyAppliedOnce
  <2>1. /\ i - 1 \in DOMAIN audit /\ audit'[i] = audit[i - 1]
        /\ j - 1 \in DOMAIN audit /\ audit'[j] = audit[j - 1]
        /\ i \in Nat /\ j \in Nat
    BY <1>1
  <2>2. Cardinality(Applied(audit, i - 1, j - 1)) + crashes <= HistoryLimit /\ i - 1 < j - 1
    BY <2>1
  <2> QED BY <2>1, <2>2 DEF KeyInv, KeyAppliedOnce
<1> QED BY <1>2, <1>3 DEF KeyInv

\* A success, whose key was not remembered.
LEMMA AppliedKeeps ==
    ASSUME IInv, KeyInv, NEW o \in Ops, NEW manualLock \in BOOLEAN,
           RecordAudit(o, "success", manualLock), RememberKey(o), ~IsDuplicate(o), UNCHANGED crashes
    PROVE  KeyInv'
<1>0. HistoryLimit \in Nat \ {0} /\ crashes \in Nat
  BY ConfigAssumption, ControllerAssumption DEF IInv, TypeOK
<1>1. /\ DOMAIN audit' \subseteq Nat \ {0} /\ DOMAIN audit \subseteq Nat \ {0}
      /\ audit'[1].result = "success" /\ audit'[1].key = OpKey[o]
      /\ \A i \in DOMAIN audit' \ {1} : i - 1 \in DOMAIN audit /\ audit'[i] = audit[i - 1]
      /\ \A i, j \in DOMAIN audit' : i < j =>
            Cardinality(Applied(audit', i, j)) = Cardinality(Applied(audit, i - 1, j - 1))
      /\ \A i \in DOMAIN audit' \ {1} : Rank(i)' = Rank(i - 1) + 1
  BY AuditMovesBack
<1>2. /\ 1 \in DOMAIN recentKeys' /\ recentKeys'[1] = OpKey[o]
      /\ \A p \in DOMAIN recentKeys : p + 1 <= HistoryLimit =>
            p + 1 \in DOMAIN recentKeys' /\ recentKeys'[p + 1] = recentKeys[p]
  BY KeysMoveBack
<1>3. ASSUME NEW i \in DOMAIN audit', audit'[i].result = "success", Rank(i)' <= HistoryLimit
      PROVE  \E p \in DOMAIN recentKeys' : p <= Rank(i)' /\ recentKeys'[p] = audit'[i].key
  <2>1. CASE i = 1
    <3>1. Cardinality(Applied(audit', 0, 1)) = Cardinality(Applied(audit', 1, 1)) + 1
      BY <1>1, AppliedFirst
    <3>2. Cardinality(Applied(audit', 1, 1)) \in Nat
      BY AppliedFinite
    <3>3. 1 <= Rank(1)'
      BY <1>0, <3>1, <3>2 DEF Rank
    <3> QED BY <1>1, <1>2, <2>1, <3>3
  <2>2. CASE i # 1
    <3>1. i - 1 \in DOMAIN audit /\ audit'[i] = audit[i - 1] /\ Rank(i)' = Rank(i - 1) + 1
      BY <1>1, <1>3, <2>2
    <3>2. Rank(i - 1) \in Nat
      BY <3>1, RankTyped
    <3>3. PICK p \in DOMAIN recentKeys : p <= Rank(i - 1) /\ recentKeys[p] = audit[i - 1].key
      BY <1>0, <1>3, <3>1, <3>2 DEF KeyInv, KeyRemembered
    <3>4. p \in Nat
      BY LenProperties DEF IInv, TypeOK
    <3>5. p + 1 <= Rank(i)' /\ p + 1 <= HistoryLimit
      BY <1>0, <1>3, <3>1, <3>2, <3>3, <3>4
    <3> QED BY <1>2, <3>1, <3>3, <3>5
  <2> QED BY <2>1, <2>2
<1>4. ASSUME NEW i \in DOMAIN audit', NEW j \in DOMAIN audit', i < j,
             audit'[i].result = "success", audit'[j].result = "success",
             Cardinality(Applied(audit', i, j)) + crashes <= HistoryLimit
      PROVE  audit'[i].key # audit'[j].key
  <2>1. i \in Nat \ {0} /\ j \in Nat \ {0} /\ j # 1
        /\ j - 1 \in DOMAIN audit /\ audit'[j] = audit[j - 1]
        /\ Cardinality(Applied(audit, i - 1, j - 1)) + crashes <= HistoryLimit
    <3>1. i \in Nat \ {0} /\ j \in Nat \ {0} /\ j # 1
      BY <1>1, <1>4
    <3> QED BY <1>1, <1>4, <3>1
  <2>2. CASE i = 1
    <3>1. Rank(j - 1) <= HistoryLimit
      BY <2>1, <2>2 DEF Rank
    <3>2. \E p \in DOMAIN recentKeys : recentKeys[p] = audit'[j].key
      BY <1>4, <2>1, <3>1 DEF KeyInv, KeyRemembered
    <3> QED BY <1>1, <2>2, <3>2 DEF IsDuplicate
  <2>3. CASE i # 1
    <3>1. i - 1 \in DOMAIN audit /\ audit'[i] = audit[i - 1] /\ i - 1 < j - 1
      BY <1>1, <1>4, <2>1, <2>3
    <3> QED BY <1>4, <2>1, <3>1 DEF KeyInv, KeyAppliedOnce
  <2> QED BY <2>2, <2>3
<1>5. KeyRemembered'
  BY <1>3 DEF KeyRemembered
<1>6. KeyAppliedOnce'
  BY <1>4 DEF KeyAppliedOnce
<1> QED BY <1>5, <1>6 DEF KeyInv

\* A crash may have lost the audit of one applied action.
LEMMA CrashKeepsKeys ==
    ASSUME IInv, KeyInv, UNCHANGED audit, crashes' = crashes + 1,
           \/ UNCHANGED recentKeys
           \/ \E o \in Ops : RememberKey(o)
    PROVE  KeyInv'
<1>0. HistoryLimit \in Nat \ {0} /\ crashes \in Nat
  BY ConfigAssumption, ControllerAssumption DEF IInv, TypeOK
<1>1. ASSUME NEW i \in DOMAIN audit PROVE Rank(i)' = Rank(i) + 1 /\ Rank(i) \in Nat
  <2>1. Rank(i)' = Cardinality(Applied(audit, 0, i)) + (crashes + 1)
    BY DEF Rank
  <2>2. Cardinality(Applied(audit, 0, i)) \in Nat
    BY RankTyped, AppliedFinite
  <2> QED BY <1>0, <2>1, <2>2 DEF Rank
<1>2. ASSUME NEW p \in DOMAIN recentKeys, p + 1 <= HistoryLimit
      PROVE  \E q \in DOMAIN recentKeys' : q <= p + 1 /\ recentKeys'[q] = recentKeys[p]
  <2>0. p \in Nat
    BY LenProperties DEF IInv, TypeOK
  <2>1. CASE UNCHANGED recentKeys
    BY <2>0, <2>1
  <2>2. ASSUME NEW o \in Ops, RememberKey(o) PROVE UNCHANGED recentKeys \/ ~IsDuplicate(o)
    BY <2>2 DEF RememberKey
  <2>3. ASSUME NEW o \in Ops, RememberKey(o), ~IsDuplicate(o)
        PROVE  p + 1 \in DOMAIN recentKeys' /\ recentKeys'[p + 1] = recentKeys[p]
    BY <1>2, <2>3, KeysMoveBack
  <2> QED BY <2>0, <2>1, <2>2, <2>3
<1>3. KeyRemembered'
  <2> SUFFICES ASSUME NEW i \in DOMAIN audit, audit[i].result = "success", Rank(i)' <= HistoryLimit
               PROVE  \E p \in DOMAIN recentKeys' : p <= Rank(i)' /\ recentKeys'[p] = audit[i].key
    BY DEF KeyRemembered
  <2>1. Rank(i)' = Rank(i) + 1 /\ Rank(i) \in Nat
    BY <1>1
  <2>2. PICK p \in DOMAIN recentKeys : p <= Rank(i) /\ recentKeys[p] = audit[i].key
    BY <1>0, <2>1 DEF KeyInv, KeyRemembered
  <2>3. p \in Nat
    BY LenProperties DEF IInv, TypeOK
  <2>4. p + 1 <= Rank(i)' /\ p + 1 <= HistoryLimit
    BY <1>0, <2>1, <2>2, <2>3
  <2>5. PICK q \in DOMAIN recentKeys' : q <= p + 1 /\ recentKeys'[q] = recentKeys[p]
    BY <1>2, <2>4
  <2>6. q \in Nat
    <3>1. recentKeys' \in Seq(Keys)
      BY LogsTyped DEF IInv, TypeOK
    <3> QED BY <3>1, LenProperties
  <2> QED BY <2>1, <2>2, <2>3, <2>4, <2>5, <2>6
<1>4. KeyAppliedOnce'
  <2> SUFFICES ASSUME NEW i \in DOMAIN audit, NEW j \in DOMAIN audit, i < j,
                      audit[i].result = "success", audit[j].result = "success",
                      Cardinality(Applied(audit, i, j)) + (crashes + 1) <= HistoryLimit
               PROVE  audit[i].key # audit[j].key
    BY DEF KeyAppliedOnce
  <2>1. Cardinality(Applied(audit, i, j)) \in Nat
    BY RankTyped, AppliedFinite
  <2>2. Cardinality(Applied(audit, i, j)) + crashes <= HistoryLimit
    BY <1>0, <2>1
  <2> QED BY <2>2 DEF KeyInv, KeyAppliedOnce
<1> QED BY <1>3, <1>4 DEF KeyInv

LEMMA StepKeepsKeys == IInv /\ KeyInv /\ [Next]_vars => KeyInv'
<1> SUFFICES ASSUME IInv, KeyInv, [Next]_vars PROVE KeyInv'
  OBVIOUS
<1>1. CASE UNCHANGED <<audit, recentKeys, crashes>>
  BY <1>1 DEF KeyInv, KeyRemembered, KeyAppliedOnce, Rank
<1>2. ASSUME NEW o \in Ops, NEW manualLock \in BOOLEAN, RecordAudit(o, ResultOf(o), manualLock),
             RememberKey(o), UNCHANGED crashes
      PROVE  KeyInv'
  <2>1. CASE IsDuplicate(o)
    <3>1. RecordAudit(o, "duplicate", manualLock) /\ UNCHANGED recentKeys
      BY <1>2, <2>1 DEF ResultOf, RememberKey
    <3> QED BY <1>2, <3>1, UnappliedKeeps
  <2>2. CASE ~IsDuplicate(o)
    <3>1. RecordAudit(o, "success", manualLock)
      BY <1>2, <2>2 DEF ResultOf
    <3> QED BY <1>2, <2>2, <3>1, AppliedKeeps
  <2> QED BY <2>1, <2>2
<1>3. ASSUME NEW o \in Ops, ExecuteManualLock(o) PROVE KeyInv'
  BY <1>2, <1>3 DEF ExecuteManualLock, StoresLock, LockRequested
<1>4. ASSUME NEW o \in Ops, ExecuteDnsAction(o) PROVE KeyInv'
  <2>1. ActionStatus(o).manualLock \in BOOLEAN
    BY <1>4, ActionsTyped DEF IInv, ExecuteDnsAction, Status
  <2> QED BY <1>2, <1>4, <2>1 DEF ExecuteDnsAction
<1>5. ASSUME NEW o \in Ops, RefuseUnconfigured(o) \/ GiveUp(o) PROVE KeyInv'
  <2>1. op[o].seenLock \in BOOLEAN /\ ReadFailoverStatus(now).manualLock \in BOOLEAN
    <3>1. TypeOK /\ now \in Nat
      BY ControllerAssumption DEF IInv, TypeOK
    <3> QED BY <3>1, ReadStatus DEF TypeOK, OpState, Status
  <2>2. PICK result \in {"refused", "failed"}, manualLock \in BOOLEAN : RecordAudit(o, result, manualLock)
    BY <1>5, <2>1 DEF RefuseUnconfigured, GiveUp
  <2>3. UNCHANGED <<recentKeys, crashes>>
    BY <1>5 DEF RefuseUnconfigured, GiveUp
  <2> QED BY <2>2, <2>3, UnappliedKeeps
<1>6. ASSUME NEW o \in Ops, CrashInLock(o) \/ CrashInAction(o) PROVE KeyInv'
  BY <1>6, CrashKeepsKeys DEF CrashInLock, CrashInAction, LoseMemory, StoresLock
<1>7. ASSUME NEW r \in Runs, CrashInRecords(r) PROVE KeyInv'
  BY <1>7, CrashKeepsKeys DEF CrashInRecords, LoseMemory
<1>8. CASE Crash
  BY <1>8, CrashKeepsKeys DEF Crash, LoseMemory, durable
<1>9. ASSUME NEW r \in Runs,
             \/ WatchdogWake(r) \/ AlarmFires(r) \/ AlertDelivered(r) \/ FinishRun(r)
             \/ \E h \in RecordsRead : ReadDnsRecord(r, h)
      PROVE  KeyInv'
  BY <1>1, <1>9 DEF WatchdogWake, AlarmFires, RunHealthCheck, AlertDelivered, FinishRun, ReadDnsRecord,
     durable
<1>10. ASSUME NEW o \in Ops,
              \/ StartDnsAction(o) \/ StartPatches(o) \/ StartVerification(o)
              \/ \E h \in Hosts : ReadForAction(o, h) \/ PatchDnsRecord(o, h)
       PROVE  KeyInv'
  BY <1>1, <1>10 DEF StartDnsAction, StartPatches, StartVerification, ReadForAction, PatchDnsRecord, durable
<1>11. CASE Tick \/ (\E h \in Hosts : OutsideChange(h)) \/ UNCHANGED vars
  BY <1>1, <1>11 DEF Tick, OutsideChange, vars, durable
<1> QED
  BY <1>3, <1>4, <1>5, <1>6, <1>7, <1>8, <1>9, <1>10, <1>11 DEF Next, RunStep, OpStep

\* A key is audited as applied again only after HistoryLimit other successes, however
\* often the request is retried, of which each crash may have kept one out of the audit
\* (recordFailoverDnsAction and the list of keys it keeps).
THEOREM KeysAppliedOnce == Spec => []KeyAppliedOnce
<1>1. Init => KeyInv
  BY EmptySeq DEF Init, KeyInv, KeyRemembered, KeyAppliedOnce
<1>2. KeyInv => KeyAppliedOnce
  BY DEF KeyInv
<1> QED
  BY <1>1, <1>2, StepKeepsKeys, Inductive, PTL DEF Spec
=============================================================================
