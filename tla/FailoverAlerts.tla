---------------------------- MODULE FailoverAlerts ----------------------------
(***************************************************************************)
(* The alerts of the failover controller (controller/src/                  *)
(* failoverAlerts.mjs).  Every wake and every operator's action ends in    *)
(* an emission: the alerts the status calls for are looked up in the       *)
(* stored map of what was sent when, the ones outside their rate limit are *)
(* delivered one after another, and the whole map is written back.  Each   *)
(* delivery is awaited, and other invocations run meanwhile.               *)
(*                                                                         *)
(* The status is the record of FailoverState reduced to the fields alerts  *)
(* depend on.  Probes, due tests and locks are FailoverController's: here  *)
(* a check may record any target the lock leaves it.                       *)
(***************************************************************************)
EXTENDS FailoverState, FiniteSets

CONSTANTS
    Wakes, Operators,   \* slots for wakes and for operators' requests in flight
    RateLimit,          \* rateLimitSeconds
    PropagationWindow,  \* liveOriginPropagationWindowSeconds
    SentLimit,          \* entries writeAlertState keeps
    Requests,           \* the manual actions operators may ask for
    Contents,           \* what a DNS record may be read as
    MaxTime,            \* bound on the clock
    MaxCrashes          \* bound on crashes

Reasons == {"none", "force_dns_to_vercel", "force_dns_to_vps",
            "enable_manual_lock", "disable_manual_lock"}

ASSUME AlertAssumption ==
    /\ RateLimit \in Nat \ {0}
    /\ PropagationWindow \in Nat \ {0}
    /\ SentLimit \in Nat \ {0}
    /\ Requests \subseteq Reasons \ {"none"}
    /\ Contents \subseteq Classifications
    /\ MaxTime \in Nat
    /\ MaxCrashes \in Nat

Emitters == Wakes \cup Operators

\* A clock that never runs backwards leaves out clock_skew_detected.
StaleReasons == {"none", "status_update_overdue", "next_check_due_missed"}

VARIABLES
    now,         \* the clock
    status,      \* failover.status, as far as alerts read it
    sentAt,      \* failover.alerts.v1: fingerprint -> time, a partial function
    emit,        \* the invocations
    copy,        \* the map each invocation read and marked
    delivered,   \* fingerprint -> the nowMs of its newest delivery
    crashes

vars == <<now, status, sentAt, emit, copy, delivered, crashes>>

\* An alert is told apart by its fingerprint.
Fingerprints ==
    [type : {"failover_to_vercel", "failback_to_vps"}, changedAt : Time]
        \cup [type : {"stale_controller"}, staleReason : StaleReasons]
        \cup [type : {"manual_lock_enabled"}]
        \cup [type : {"dns_drift"}, desired : Targets, actual : [Hosts -> Classifications]]

NothingSent == [f \in {} |-> 0]

IdleEmission == [pc |-> "idle", nowMs |-> 0, then |-> "idle", action |-> "none",
                 seenLock |-> FALSE, candidates |-> {}, sending |-> {}]

Init ==
    /\ now = 0
    /\ status = [generatedAt |-> 0, activeDnsTarget |-> "vps", desiredDnsTarget |-> "vps",
                 actual |-> [h \in Hosts |-> "unknown"], manualLock |-> FALSE,
                 stale |-> FALSE, staleReason |-> "none", lastDnsChangeAt |-> NoTime,
                 lastDnsChangeReason |-> "none", mismatch |-> FALSE]
    /\ sentAt = NothingSent
    /\ emit = [e \in Emitters |-> IdleEmission]
    /\ copy = [e \in Emitters |-> NothingSent]
    /\ delivered = NothingSent
    /\ crashes = 0

-----------------------------------------------------------------------------
(* The alerts a status calls for. *)

\* A record that is unmanaged is not compared, unlike in HasDnsDrift.
HasActualDnsDrift(s) ==
    \E h \in Hosts : s.actual[h] \in Targets \ {s.desiredDnsTarget}

IsPastPropagationWindow(s, nowMs) ==
    s.lastDnsChangeAt = NoTime \/ nowMs - s.lastDnsChangeAt > PropagationWindow

DriftFingerprint(s) ==
    [type |-> "dns_drift", desired |-> s.desiredDnsTarget, actual |-> s.actual]

MoveFingerprint(type, s) == [type |-> type, changedAt |-> s.lastDnsChangeAt]

\* Moves are read off the last recorded action, by that action's emission and
\* by every later check's.
CallsFor(s, nowMs, f) ==
    \/ /\ f.type = "failover_to_vercel"
       /\ s.activeDnsTarget = "vercel"
       /\ s.lastDnsChangeReason = "force_dns_to_vercel"
    \/ /\ f.type = "failback_to_vps"
       /\ s.activeDnsTarget = "vps"
       /\ s.lastDnsChangeReason = "force_dns_to_vps"
    \/ /\ f.type = "stale_controller"
       /\ s.stale
    \/ /\ f.type = "dns_drift"
       /\ HasActualDnsDrift(s)
       /\ s.mismatch \/ IsPastPropagationWindow(s, nowMs)
    \/ /\ f.type = "manual_lock_enabled"
       /\ s.manualLock \/ s.lastDnsChangeReason = "enable_manual_lock"

BuildFailoverAlertCandidates(s, nowMs) ==
    { f \in {MoveFingerprint("failover_to_vercel", s), MoveFingerprint("failback_to_vps", s),
             [type |-> "stale_controller", staleReason |-> s.staleReason], DriftFingerprint(s), [type |-> "manual_lock_enabled"]} :
      CallsFor(s, nowMs, f) }

\* One alert of a type silences the others of that type.
TypeLimitedBug(map, f, nowMs) ==
    \E g \in DOMAIN map : g.type = f.type /\ nowMs - map[g] < RateLimit

IsRateLimited(map, f, nowMs) == f \in DOMAIN map /\ nowMs - map[f] < RateLimit

-----------------------------------------------------------------------------
(* An emission: emitFailoverAlerts. *)

\* The candidates depend on the status the emission was called with.
StartEmission(inv, s, nowMs, then) ==
    [inv EXCEPT !.pc = "configuring", !.nowMs = nowMs, !.then = then,
                !.candidates = BuildFailoverAlertCandidates(s, nowMs)]

Continue(inv) == [IdleEmission EXCEPT !.pc = inv.then, !.nowMs = IF inv.then = "probing" THEN inv.nowMs ELSE 0]

ToSend(e) == {f \in emit[e].candidates : ~IsRateLimited(sentAt, f, emit[e].nowMs)}

Mark(map, sent, nowMs) ==
    [f \in DOMAIN map \cup sent |-> IF f \in sent THEN nowMs ELSE map[f]]

\* The marks are stored before the deliveries.
MarksFirstBug(e) ==
    /\ emit[e].pc = "configuring"
    /\ emit' = [emit EXCEPT ![e] =
           IF ToSend(e) = {} THEN Continue(@)
           ELSE [@ EXCEPT !.pc = "sending", !.candidates = {}, !.sending = ToSend(e)]]
    /\ copy' = [copy EXCEPT ![e] =
           IF ToSend(e) = {} THEN NothingSent ELSE Mark(sentAt, ToSend(e), emit[e].nowMs)]
    /\ sentAt' = IF ToSend(e) = {} THEN sentAt ELSE copy'[e]
    /\ UNCHANGED <<now, status, delivered, crashes>>

\* The secrets have been fetched; the map is read and the alerts that are
\* outside their window are marked in this invocation's copy.
ReadAlertState(e) ==
    /\ emit[e].pc = "configuring"
    /\ emit' = [emit EXCEPT ![e] =
           IF ToSend(e) = {} THEN Continue(@)
           ELSE [@ EXCEPT !.pc = "sending", !.candidates = {}, !.sending = ToSend(e)]]
    /\ copy' = [copy EXCEPT ![e] =
           IF ToSend(e) = {} THEN NothingSent ELSE Mark(sentAt, ToSend(e), emit[e].nowMs)]
    /\ UNCHANGED <<now, status, sentAt, delivered, crashes>>

\* An invocation that was woken earlier may deliver later.
Latest(map, f, nowMs) == IF f \in DOMAIN map /\ map[f] > nowMs THEN map[f] ELSE nowMs

\* A delivery is tried once; whether it succeeds makes no difference.
DeliverAlert(e, f) ==
    /\ emit[e].pc = "sending"
    /\ f \in emit[e].sending
    /\ emit' = [emit EXCEPT ![e].sending = @ \ {f}]
    /\ delivered' = Mark(delivered, {f}, Latest(delivered, f, emit[e].nowMs))
    /\ UNCHANGED <<now, status, sentAt, copy, crashes>>

\* The newest SentLimit entries of a map.
NewestEntries(map) ==
    { [f \in kept |-> map[f]] : kept \in
        { kept \in SUBSET DOMAIN map :
            /\ \A f \in kept, g \in DOMAIN map \ kept : map[f] >= map[g]
            /\ Cardinality(kept) <= SentLimit
            /\ Cardinality(kept) = SentLimit \/ kept = DOMAIN map } }

\* The copy read before the deliveries replaces the stored map.
WriteAlertState(e) ==
    /\ emit[e].pc = "sending"
    /\ emit[e].sending = {}
    /\ sentAt' \in NewestEntries(copy[e])
    /\ emit' = [emit EXCEPT ![e] = Continue(@)]
    /\ copy' = [copy EXCEPT ![e] = NothingSent]
    /\ UNCHANGED <<now, status, delivered, crashes>>

-----------------------------------------------------------------------------
(* The invocations that end in an emission. *)

\* Why a status read at nowMs is stale: its update is overdue, or else it may
\* have missed a check, as due times are not kept here, or was stored stale.
StaleReasonsAt(nowMs) ==
    IF nowMs - status.generatedAt > StaleAfter THEN {"status_update_overdue"}
    ELSE {status.staleReason} \cup {r \in {"next_check_due_missed"} : nowMs > StaleAfter}

\* What a read at nowMs may return.
ReadFailoverStatus(nowMs) ==
    { [status EXCEPT !.stale = (r # "none"), !.staleReason = r] : r \in StaleReasonsAt(nowMs) }

\* A wake that finds the status stale says so first, then probes if a check
\* is due.
RunHealthCheck(e) ==
    /\ e \in Wakes
    /\ emit[e].pc = "idle"
    /\ \/ \E seen \in ReadFailoverStatus(now), then \in {"idle", "probing"} :
             /\ seen.stale
             /\ emit' = [emit EXCEPT ![e] = StartEmission(@, seen, now, then)]
       \/ /\ \E seen \in ReadFailoverStatus(now) : ~seen.stale
          /\ emit' = [emit EXCEPT ![e].pc = "probing", ![e].nowMs = now]
    /\ UNCHANGED <<now, status, sentAt, copy, delivered, crashes>>

\* What the three records of a check leave of the status.
Checked(s, desired, answers, mismatch, nowMs) ==
    [ApplyLiveOriginReadiness(
        ApplyDnsReadback([s EXCEPT !.desiredDnsTarget = desired], answers, nowMs), nowMs)
     EXCEPT !.staleReason = "none",
            !.mismatch = mismatch /\ IsPastPropagationWindow(s, nowMs)]

RecordCheck(e) ==
    /\ emit[e].pc = "probing"
    /\ \E desired \in IF status.manualLock THEN {status.desiredDnsTarget} ELSE Targets,
          answers \in [Hosts -> Contents], mismatch \in BOOLEAN :
          /\ status' = Checked(status, desired, answers, mismatch, emit[e].nowMs)
          /\ emit' = [emit EXCEPT ![e] = StartEmission(@, status', @.nowMs, "idle")]
    /\ UNCHANGED <<now, sentAt, copy, delivered, crashes>>

Recorded(s, active, desired, manualLock, nowMs, action) ==
    [ApplyDnsAction(s, active, desired, manualLock, nowMs)
     EXCEPT !.lastDnsChangeAt = nowMs, !.lastDnsChangeReason = action]

\* A lock request is recorded and emits at once.
ExecuteManualLock(e, action) ==
    /\ e \in Operators
    /\ emit[e].pc = "idle"
    /\ action \in {"enable_manual_lock", "disable_manual_lock"}
    /\ \E s \in ReadFailoverStatus(now) :
          status' = Recorded(s, s.activeDnsTarget, s.desiredDnsTarget,
                             action = "enable_manual_lock", now, action)
    /\ emit' = [emit EXCEPT ![e] = StartEmission(@, status', now, "idle")]
    /\ UNCHANGED <<now, sentAt, copy, delivered, crashes>>

\* A DNS action waits for Cloudflare first.
StartDnsAction(e, action) ==
    /\ e \in Operators
    /\ emit[e].pc = "idle"
    /\ action \in {"force_dns_to_vercel", "force_dns_to_vps"}
    /\ emit' = [emit EXCEPT ![e].pc = "acting", ![e].nowMs = now, ![e].action = action,
                            ![e].seenLock = status.manualLock]
    /\ UNCHANGED <<now, status, sentAt, copy, delivered, crashes>>

\* Verified and recorded, with the time it was asked for; or given up, which
\* emits nothing.
ExecuteDnsAction(e) ==
    LET inv == emit[e]
        target == IF inv.action = "force_dns_to_vercel" THEN "vercel" ELSE "vps"
    IN /\ inv.pc = "acting"
       /\ \/ /\ status' = Recorded(
                    ApplyDnsReadback([status EXCEPT !.staleReason = "none"],
                                     [h \in Hosts |-> target], inv.nowMs),
                    target, target, inv.seenLock, inv.nowMs, inv.action)
             /\ emit' = [emit EXCEPT ![e] = StartEmission(IdleEmission, status', now, "idle")]
          \/ /\ emit' = [emit EXCEPT ![e] = IdleEmission]
             /\ UNCHANGED status
       /\ UNCHANGED <<now, sentAt, copy, delivered, crashes>>

Crash ==
    /\ crashes < MaxCrashes
    /\ crashes' = crashes + 1
    /\ emit' = [e \in Emitters |-> IdleEmission]
    /\ copy' = [e \in Emitters |-> NothingSent]
    /\ UNCHANGED <<now, status, sentAt, delivered>>

Tick ==
    /\ now < MaxTime
    /\ now' = now + 1
    /\ UNCHANGED <<status, sentAt, emit, copy, delivered, crashes>>

EmitterStep(e) ==
    \/ RunHealthCheck(e)
    \/ RecordCheck(e)
    \/ \E action \in Requests : ExecuteManualLock(e, action) \/ StartDnsAction(e, action)
    \/ ExecuteDnsAction(e)
    \/ ReadAlertState(e)
    \/ \E f \in emit[e].sending : DeliverAlert(e, f)
    \/ WriteAlertState(e)

Next == (\E e \in Emitters : EmitterStep(e)) \/ Crash \/ Tick

Spec == Init /\ [][Next]_vars

\* Wakes keep coming (alarm and cron), and an invocation that can go on does.
EmissionFairness ==
    \A e \in Emitters :
        /\ WF_vars(RunHealthCheck(e))
        /\ WF_vars(RecordCheck(e))
        /\ WF_vars(ExecuteDnsAction(e))
        /\ WF_vars(ReadAlertState(e))
        /\ WF_vars(\E f \in emit[e].sending : DeliverAlert(e, f))
        /\ WF_vars(WriteAlertState(e))

-----------------------------------------------------------------------------
(* What the alerts guarantee. *)

AlertStatus ==
    [generatedAt : Nat, activeDnsTarget : Targets, desiredDnsTarget : Targets,
     actual : [Hosts -> Classifications], manualLock : BOOLEAN,
     stale : BOOLEAN, staleReason : StaleReasons,
     lastDnsChangeAt : Time, lastDnsChangeReason : Reasons, mismatch : BOOLEAN]

TimeMap(map) ==
    DOMAIN map \subseteq Fingerprints /\ \A f \in DOMAIN map : map[f] \in Nat

EmissionState ==
    [pc : {"idle", "acting", "probing", "configuring", "sending"},
     nowMs : Nat, then : {"idle", "probing"}, action : Reasons, seenLock : BOOLEAN,
     candidates : SUBSET Fingerprints, sending : SUBSET Fingerprints]

\* The status keeps its type, every map is one of fingerprints to times, and
\* the stored one is bounded (writeAlertState).
TypeOK ==
    /\ now \in 0 .. MaxTime
    /\ status \in AlertStatus
    /\ TimeMap(sentAt) /\ TimeMap(delivered)
    /\ Cardinality(DOMAIN sentAt) <= SentLimit
    /\ emit \in [Emitters -> EmissionState]
    /\ DOMAIN copy = Emitters /\ \A e \in Emitters : TimeMap(copy[e])
    /\ crashes \in 0 .. MaxCrashes

\* Nothing is suppressed that was not sent: an alert an emission leaves out
\* was delivered within the rate limit before it, whatever was overwritten,
\* evicted or lost in between (emitFailoverAlerts, isRateLimited).
SuppressedWasSent ==
    [][ \A e \in Emitters : ReadAlertState(e) =>
          \A f \in emit[e].candidates \ emit'[e].sending :
             f \in DOMAIN delivered /\ emit[e].nowMs - delivered[f] < RateLimit ]_vars

\* Two deliveries of one fingerprint are at least the rate limit apart.
RateLimited ==
    [][ \A e \in Emitters : \A f \in emit[e].sending :
          (DeliverAlert(e, f) /\ f \in DOMAIN delivered)
          => emit[e].nowMs - delivered[f] >= RateLimit ]_vars

FailedOver(t) ==
    /\ status.activeDnsTarget = "vercel"
    /\ status.lastDnsChangeReason = "force_dns_to_vercel"
    /\ status.lastDnsChangeAt = t

\* A recorded failover is announced under its own time, even if the object
\* crashed before the action's emission, unless another change overtakes it.
FailoverAnnounced ==
    \A t \in 0 .. MaxTime :
        FailedOver(t) ~>
            \/ ~FailedOver(t)
            \/ [type |-> "failover_to_vercel", changedAt |-> t] \in DOMAIN delivered

\* A check that leaves a drift between the desired target and the records on
\* file outside the propagation window calls for a drift alert.
DriftIsAlerted ==
    [][ \A e \in Emitters :
          (/\ RecordCheck(e)
           /\ HasDnsDrift(status')
           /\ IsPastPropagationWindow(status', emit[e].nowMs))
          => DriftFingerprint(status') \in emit'[e].candidates ]_vars
=============================================================================
