------------------------------ MODULE LiveOrigin ------------------------------
(***************************************************************************)
(* Who really serves the site.  A wake of the controller compares the DNS  *)
(* records at Cloudflare with the deployment that answers under each       *)
(* hostname.  The edges follow a record only after a while, so a mismatch  *)
(* soon after a DNS action is taken for propagation                        *)
(* (controller/src/failoverLiveOriginReadiness.mjs and the records of      *)
(* failoverState.mjs).                                                     *)
(*                                                                         *)
(* FailoverController has the alarm, the health checks and the audit.  Of  *)
(* the status only what is read here is kept; of a record, the target its  *)
(* content stands for.                                                     *)
(***************************************************************************)
EXTENDS FailoverState, FaultyCalls

CONSTANTS
    Movers,             \* manual actions, each performed once
    PropagationWindow,  \* liveOriginPropagationWindowSeconds
    EdgeDelay,          \* how long the edges may serve a record's old target
    ActionTime,         \* the API timeouts of one action together
    MaxClock            \* bound on the clock

ASSUME LiveOriginAssumption ==
    /\ PropagationWindow \in Nat \ {0}
    /\ EdgeDelay \in Nat
    /\ ActionTime \in Nat
    /\ MaxClock \in Nat

VARIABLES
    clock,
    record,         \* the target of each hostname's record at Cloudflare
    served,         \* the deployment the edges serve under it
    behindSince,    \* when the record of a host that is not followed yet changed
    lastDnsChangeAt, dnsState,  \* of the status
    wake,           \* the wake in flight
    mover           \* the manual actions

liveState == <<clock, record, served, behindSince, lastDnsChangeAt, dnsState, wake, mover>>
liveVars == <<liveState, faults>>

Unanswered == [h \in Hosts |-> "pending"]
NoWake == [pc |-> "idle", nowMs |-> 0, answers |-> Unanswered, observed |-> Unanswered]
NoMove == [pc |-> "idle", since |-> 0, to |-> "vps", hosts |-> {}]

LiveInit ==
    /\ clock = 0
    /\ record = [h \in Hosts |-> "vps"]
    /\ served = record
    /\ behindSince = [h \in Hosts |-> 0]
    /\ lastDnsChangeAt = NoTime
    /\ dnsState = "unknown"
    /\ wake = NoWake
    /\ mover = [m \in Movers |-> NoMove]

-----------------------------------------------------------------------------
(* What recordFailoverLiveOriginReadiness makes of the answers. *)

\* The hosts whose target and deployment are both known.
Comparable(actual, observed) ==
    {h \in Hosts : actual[h] \in Targets /\ observed[h] \in Targets}

\* The window is left one unit early.
WindowTooShortBug(nowMs) ==
    lastDnsChangeAt # NoTime /\ nowMs - lastDnsChangeAt < PropagationWindow

Propagating(nowMs) ==
    lastDnsChangeAt # NoTime /\ nowMs - lastDnsChangeAt <= PropagationWindow

DeriveLiveOriginDnsState(actual, observed, nowMs) ==
    LET comparable == Comparable(actual, observed)
    IN IF \E h \in Hosts : observed[h] = "unreachable" THEN "unreachable"
       ELSE IF comparable = {} THEN "unknown"
       ELSE IF \E h \in comparable : actual[h] # observed[h]
            THEN (IF Propagating(nowMs) THEN "propagating" ELSE "mismatch")
       ELSE IF comparable = Hosts THEN "in_sync" ELSE "partial"

-----------------------------------------------------------------------------
(* A wake: the two records are read, and meanwhile the two hostnames are   *)
(* asked; the two requests of each kind run in parallel and are one step.  *)

StartWake ==
    /\ wake.pc = "idle"
    /\ wake' = [NoWake EXCEPT !.pc = "checking", !.nowMs = clock]
    /\ UNCHANGED <<clock, record, served, behindSince, lastDnsChangeAt, dnsState, mover, faults>>

ReadRecords ==
    /\ wake.pc = "checking"
    /\ wake.answers = Unanswered
    /\ wake' = [wake EXCEPT !.answers = record]
    /\ UNCHANGED <<clock, record, served, behindSince, lastDnsChangeAt, dnsState, mover, faults>>

\* The apex may redirect to www, whose deployment is then taken for its own.
Answering == {served, [served EXCEPT !["apex"] = served["www"]]}

CheckLiveOriginReadiness ==
    /\ wake.pc = "checking"
    /\ wake.observed = Unanswered
    /\ \E observed \in Answering : wake' = [wake EXCEPT !.observed = observed]
    /\ UNCHANGED <<clock, record, served, behindSince, lastDnsChangeAt, dnsState, mover, faults>>

WakeAnswered ==
    /\ wake.pc = "checking"
    /\ wake.answers # Unanswered
    /\ wake.observed # Unanswered

\* An API call may fail; a request may fail or time out, and a deployment may
\* not tell its name.
Reads == {[h \in Hosts |-> IF h \in failed THEN "unknown" ELSE wake.answers[h]] :
             failed \in SUBSET Hosts}

Observations ==
    {o \in [Hosts -> Targets \cup {"unknown", "unreachable"}] :
        \A h \in Hosts : o[h] \in {wake.observed[h], "unknown", "unreachable"}}

RecordWake ==
    /\ WakeAnswered
    /\ \E actual \in Reads, observed \in Observations :
          dnsState' = DeriveLiveOriginDnsState(actual, observed, wake.nowMs)
    /\ wake' = NoWake
    /\ UNCHANGED <<clock, record, served, behindSince, lastDnsChangeAt, mover, faults>>

-----------------------------------------------------------------------------
(* Manual actions: executeManualLock and executeDnsAction. *)

\* Locking and unlocking rewrite the time of the last change, not the target.
LockOrUnlock ==
    /\ lastDnsChangeAt' = clock
    /\ UNCHANGED <<clock, record, served, behindSince, dnsState, wake, mover, faults>>

StartMove(m) ==
    /\ mover[m].pc = "idle"
    /\ \E to \in Targets :
          mover' = [mover EXCEPT ![m] = [NoMove EXCEPT
                        !.pc = "reading", !.since = clock, !.to = to]]
    /\ UNCHANGED <<clock, record, served, behindSince, lastDnsChangeAt, dnsState, wake, faults>>

\* The records are not those the operator expects, or cannot be read.
RefuseMove(m) ==
    /\ mover[m].pc = "reading"
    /\ mover' = [mover EXCEPT ![m] = [NoMove EXCEPT !.pc = "done"]]
    /\ UNCHANGED <<clock, record, served, behindSince, lastDnsChangeAt, dnsState, wake, faults>>

\* Without a write the read before it counts as the verification.
DecideMove(m) ==
    /\ mover[m].pc = "reading"
    /\ mover' = [mover EXCEPT ![m].pc =
                    IF \A h \in Hosts : record[h] = mover[m].to THEN "verified" ELSE "patching"]
    /\ UNCHANGED <<clock, record, served, behindSince, lastDnsChangeAt, dnsState, wake, faults>>

Rewritten(h, target) ==
    /\ record' = [record EXCEPT ![h] = target]
    /\ behindSince' = [behindSince EXCEPT ![h] = IF served[h] = target THEN 0 ELSE clock]

\* Both hosts are written, then both are read again.
NextHost(m, h) ==
    IF mover[m].hosts \cup {h} # Hosts
    THEN mover' = [mover EXCEPT ![m].hosts = @ \cup {h}]
    ELSE mover' = [mover EXCEPT ![m].hosts = {},
                                ![m].pc = IF @ = "patching" THEN "verifying" ELSE "verified"]

WriteRecord(m, h) ==
    /\ mover[m].pc = "patching"
    /\ h \notin mover[m].hosts
    /\ Rewritten(h, mover[m].to)
    /\ NextHost(m, h)
    /\ UNCHANGED <<clock, served, lastDnsChangeAt, dnsState, wake, faults>>

Verify(m, h) ==
    /\ mover[m].pc = "verifying"
    /\ h \notin mover[m].hosts
    /\ record[h] = mover[m].to
    /\ NextHost(m, h)
    /\ UNCHANGED <<clock, record, served, behindSince, lastDnsChangeAt, dnsState, wake, faults>>

\* A write or its verification fails, the key was used before, or the object
\* crashes: the records have changed and the time of the change is not recorded.
GiveUpMove(m) ==
    /\ mover[m].pc \in {"patching", "verifying", "verified"}
    /\ Fault(TRUE)
    /\ mover' = [mover EXCEPT ![m] = [NoMove EXCEPT !.pc = "done"]]
    /\ UNCHANGED <<clock, record, served, behindSince, lastDnsChangeAt, dnsState, wake>>

\* The time of the change is left as it is.
KeepsChangeTimeBug(m) == lastDnsChangeAt

\* The change is dated when the action started.
ChangedAt(m) == mover[m].since

RecordMove(m) ==
    /\ mover[m].pc = "verified"
    /\ lastDnsChangeAt' = ChangedAt(m)
    /\ mover' = [mover EXCEPT ![m] = [NoMove EXCEPT !.pc = "done"]]
    /\ UNCHANGED <<clock, record, served, behindSince, dnsState, wake, faults>>

-----------------------------------------------------------------------------
(* The world outside, crashes and time. *)

EdgesFollow(h) ==
    /\ served[h] # record[h]
    /\ served' = [served EXCEPT ![h] = record[h]]
    /\ behindSince' = [behindSince EXCEPT ![h] = 0]
    /\ UNCHANGED <<clock, record, lastDnsChangeAt, dnsState, wake, mover, faults>>

InTime ==
    /\ \A h \in Hosts : served[h] # record[h] => clock - behindSince[h] < EdgeDelay
    /\ \A m \in Movers : mover[m].pc \notin {"idle", "done"} => clock - mover[m].since < ActionTime

TimePasses ==
    /\ clock < MaxClock
    /\ InTime
    /\ clock' = clock + 1
    /\ UNCHANGED <<record, served, behindSince, lastDnsChangeAt, dnsState, wake, mover, faults>>

Move(m) ==
    \/ StartMove(m)
    \/ RefuseMove(m)
    \/ DecideMove(m)
    \/ \E h \in Hosts : WriteRecord(m, h) \/ Verify(m, h)
    \/ GiveUpMove(m)
    \/ RecordMove(m)

LiveNext ==
    \/ StartWake
    \/ ReadRecords
    \/ CheckLiveOriginReadiness
    \/ RecordWake
    \/ LockOrUnlock
    \/ \E m \in Movers : Move(m)
    \/ \E h \in Hosts : EdgesFollow(h)
    \/ TimePasses

LiveSpec == LiveInit /\ faults = 0 /\ [][LiveNext]_liveVars

-----------------------------------------------------------------------------

\* Between the first write and the record of an action.
Unrecorded(m) == mover[m].pc \in {"patching", "verifying", "verified"}

\* The controller does not take its own actions for drift: while nothing
\* failed and nobody else edited the records, a wake records no mismatch, if
\* the window covers the edges' delay and the time an action takes, unless it
\* finishes between an action's writes and its record
\* (deriveLiveOriginDnsState; the propagation test of
\* controller/test/failover-live-origin-readiness.test.mjs).
OwnMoveIsNoMismatch ==
    [][ (/\ PropagationWindow >= EdgeDelay + ActionTime
         /\ faults' = 0
         /\ WakeAnswered /\ wake' = NoWake
         /\ \A m \in Movers : ~Unrecorded(m))
        => dnsState' # "mismatch" ]_liveVars
=============================================================================
