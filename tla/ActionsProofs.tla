----------------------------- MODULE ActionsProofs -----------------------------
(***************************************************************************)
(* Proofs about what is done beside the workers that run by themselves.    *)
(*                                                                         *)
(* LiveOrigin: a DNS action of the controller is not taken for drift.  The *)
(* invariant behind it says that every record the edges do not follow yet  *)
(* was changed by an action that has still to record its change, or at     *)
(* most an action's time after the last change the status knows; and that  *)
(* the two records differ only while an action has still to write, or to   *)
(* read what another wrote over it.  A wake then either knows of a change  *)
(* not older than the window, or has seen a world in which nothing moved.  *)
(*                                                                         *)
(* SummaryBackfill: which runs of the script may publish too early.        *)
(* What its lookup found complete stays complete until its update, since   *)
(* no summary is ever taken back.  And its runs make headway: until it has *)
(* found a task, an article with an open row is ahead of it, or another    *)
(* has settled the row; its tasks are rows that were open at its start;    *)
(* and each of them ends up saved or in the file of failures.              *)
(***************************************************************************)
EXTENDS LiveOrigin, SummaryBackfill, FiniteSetTheorems, SequenceTheorems, TLAPS

-----------------------------------------------------------------------------
(* The live origin: the inductive invariant. *)

Movings == [pc : {"idle", "reading", "patching", "verifying", "verified", "done"},
            since : Nat, to : Targets, hosts : SUBSET Hosts]

LiveTypes ==
    /\ clock \in Nat
    /\ record \in [Hosts -> Targets]
    /\ served \in [Hosts -> Targets]
    /\ behindSince \in [Hosts -> Nat]
    /\ lastDnsChangeAt \in Nat \cup {NoTime}
    /\ wake \in [pc : {"idle", "checking"}, nowMs : Nat,
                 answers : [Hosts -> Targets \cup {"pending"}],
                 observed : [Hosts -> Targets \cup {"pending"}]]
    /\ mover \in [Movers -> Movings]
    /\ faults \in Nat

\* Actions, the edges and wakes keep to their times.
InTimes ==
    /\ \A m \in Movers : mover[m].pc \notin {"idle", "done"} =>
          mover[m].since <= clock /\ clock <= mover[m].since + ActionTime
    /\ \A h \in Hosts : served[h] # record[h] =>
          behindSince[h] <= clock /\ clock <= behindSince[h] + EdgeDelay
    /\ wake.nowMs <= clock

\* Some action has still to write, or to find out that another has written over it.
Unsettled(m) ==
    \/ mover[m].pc = "patching"
    \/ mover[m].pc = "verifying" /\ \E h \in Hosts \ mover[m].hosts : record[h] # mover[m].to

Agreeing == record["apex"] = record["www"]

RecordsSettle == Agreeing \/ \E m \in Movers : Unsettled(m)

\* An action has not recorded its change yet, or the newest record is not much older.
ChangeKnown(since) ==
    \/ \E m \in Movers : Unrecorded(m)
    \/ lastDnsChangeAt # NoTime /\ lastDnsChangeAt + ActionTime >= since

BehindKnown == \A h \in Hosts : served[h] # record[h] => ChangeKnown(behindSince[h])

\* Nothing has changed while the wake has been looking.
Still ==
    /\ served = record
    /\ Agreeing
    /\ wake.answers \in {Unanswered, record}
    /\ wake.observed \in {Unanswered, record}

WakeKnows == wake.pc = "checking" => ChangeKnown(wake.nowMs - EdgeDelay) \/ Still

LiveInv ==
    /\ LiveTypes
    /\ InTimes
    /\ faults = 0 => RecordsSettle /\ BehindKnown /\ WakeKnows

-----------------------------------------------------------------------------
(* The live origin: steps. *)

\* A host more is written or read again, or all of them are.
LEMMA HostDone ==
    ASSUME LiveTypes, NEW m \in Movers, NEW h \in Hosts, NextHost(m, h),
           mover[m].pc \in {"patching", "verifying"}
    PROVE  /\ mover' \in [Movers -> Movings]
           /\ \A n \in Movers \ {m} : mover'[n] = mover[n]
           /\ mover'[m].since = mover[m].since /\ mover'[m].to = mover[m].to
           /\ mover[m].hosts \cup {h} # Hosts =>
                 mover'[m].pc = mover[m].pc /\ mover'[m].hosts = mover[m].hosts \cup {h}
           /\ mover[m].hosts \cup {h} = Hosts =>
                 /\ mover'[m].pc = IF mover[m].pc = "patching" THEN "verifying" ELSE "verified"
                 /\ mover'[m].hosts = {}
<1>1. CASE mover[m].hosts \cup {h} # Hosts
  <2>1. mover' = [mover EXCEPT ![m].hosts = mover[m].hosts \cup {h}]
    BY <1>1 DEF NextHost
  <2> QED
    BY <1>1, <2>1 DEF LiveTypes, Movings
<1>2. CASE mover[m].hosts \cup {h} = Hosts
  <2>1. mover' = [mover EXCEPT ![m].hosts = {},
                               ![m].pc = IF mover[m].pc = "patching" THEN "verifying" ELSE "verified"]
    BY <1>2 DEF NextHost
  <2> QED
    BY <1>2, <2>1 DEF LiveTypes, Movings
<1> QED
  BY <1>1, <1>2

LEMMA LiveInitially == LiveInit /\ faults = 0 => LiveInv
<1> SUFFICES ASSUME LiveInit, faults = 0 PROVE LiveInv
  OBVIOUS
<1>1. LiveTypes
  BY DEF LiveInit, LiveTypes, Movings, NoWake, NoMove, Unanswered, Hosts, Targets, NoTime
<1>2. InTimes
  BY LiveOriginAssumption DEF LiveInit, InTimes, NoWake, NoMove
<1>3. RecordsSettle /\ BehindKnown /\ WakeKnows
  BY DEF LiveInit, RecordsSettle, Agreeing, BehindKnown, WakeKnows, NoWake, Hosts
<1> QED
  BY <1>1, <1>2, <1>3 DEF LiveInv

LEMMA LiveTypesKept == LiveTypes /\ [LiveNext]_liveVars => LiveTypes'
<1> SUFFICES ASSUME LiveTypes, [LiveNext]_liveVars PROVE LiveTypes'
  OBVIOUS
<1> USE DEF LiveTypes, Movings
<1>1. CASE StartWake
  BY <1>1 DEF StartWake, NoWake, Unanswered
<1>2. CASE ReadRecords
  BY <1>2 DEF ReadRecords
<1>3. CASE CheckLiveOriginReadiness
  <2>1. Answering \subseteq [Hosts -> Targets]
    BY DEF Answering, Hosts
  <2> QED
    BY <1>3, <2>1 DEF CheckLiveOriginReadiness
<1>4. CASE RecordWake
  BY <1>4 DEF RecordWake, NoWake, Unanswered
<1>5. CASE LockOrUnlock
  BY <1>5 DEF LockOrUnlock
<1>6. ASSUME NEW m \in Movers, Move(m) PROVE LiveTypes'
  <2>1. CASE StartMove(m)
    <3>1. PICK to \in Targets :
             mover' = [mover EXCEPT ![m] = [NoMove EXCEPT !.pc = "reading", !.since = clock, !.to = to]]
      BY <2>1 DEF StartMove
    <3>2. [NoMove EXCEPT !.pc = "reading", !.since = clock, !.to = to] \in Movings
      BY DEF NoMove, Movings
    <3>3. mover' \in [Movers -> Movings]
      BY <3>1, <3>2 DEF Movings
    <3> QED
      BY <2>1, <3>3 DEF StartMove, Movings
  <2>2. CASE RefuseMove(m)
    BY <2>2 DEF RefuseMove, NoMove, Targets
  <2>3. CASE DecideMove(m)
    BY <2>3 DEF DecideMove
  <2>4. ASSUME NEW h \in Hosts, WriteRecord(m, h) PROVE LiveTypes'
    <3>1. mover' \in [Movers -> Movings]
      BY <2>4, HostDone DEF WriteRecord
    <3> QED
      BY <2>4, <3>1 DEF WriteRecord, Rewritten, Movings
  <2>5. ASSUME NEW h \in Hosts, Verify(m, h) PROVE LiveTypes'
    <3>1. mover' \in [Movers -> Movings]
      BY <2>5, HostDone DEF Verify
    <3> QED
      BY <2>5, <3>1 DEF Verify, Movings
  <2>6. CASE GiveUpMove(m)
    BY <2>6 DEF GiveUpMove, Fault, NoMove, Targets
  <2>7. CASE RecordMove(m)
    BY <2>7 DEF RecordMove, ChangedAt, NoMove, Targets
  <2> QED
    BY <1>6, <2>1, <2>2, <2>3, <2>4, <2>5, <2>6, <2>7 DEF Move
<1>7. ASSUME NEW h \in Hosts, EdgesFollow(h) PROVE LiveTypes'
  BY <1>7 DEF EdgesFollow
<1>8. CASE TimePasses
  BY <1>8 DEF TimePasses
<1>9. CASE UNCHANGED liveVars
  BY <1>9 DEF liveVars, liveState
<1> QED
  BY <1>1, <1>2, <1>3, <1>4, <1>5, <1>6, <1>7, <1>8, <1>9 DEF LiveNext

LEMMA InTimesKept == LiveTypes /\ InTimes /\ [LiveNext]_liveVars => InTimes'
<1> SUFFICES ASSUME LiveTypes, InTimes, [LiveNext]_liveVars PROVE InTimes'
  OBVIOUS
<1>0. clock \in Nat /\ EdgeDelay \in Nat /\ ActionTime \in Nat
  BY LiveOriginAssumption DEF LiveTypes
<1> USE DEF InTimes
<1>1. CASE StartWake
  BY <1>0, <1>1 DEF StartWake, NoWake
<1>2. CASE ReadRecords \/ CheckLiveOriginReadiness
  <2>1. wake'.nowMs = wake.nowMs
    BY <1>2 DEF ReadRecords, CheckLiveOriginReadiness, LiveTypes
  <2> QED
    BY <1>2, <2>1 DEF ReadRecords, CheckLiveOriginReadiness
<1>3. CASE RecordWake
  BY <1>0, <1>3 DEF RecordWake, NoWake
<1>4. CASE LockOrUnlock
  BY <1>4 DEF LockOrUnlock
<1>5. ASSUME NEW m \in Movers, Move(m) PROVE InTimes'
  <2>1. CASE StartMove(m)
    BY <1>0, <2>1 DEF StartMove, NoMove, LiveTypes, Movings
  <2>2. CASE RefuseMove(m) \/ GiveUpMove(m) \/ RecordMove(m)
    <3>1. mover' = [mover EXCEPT ![m] = [NoMove EXCEPT !.pc = "done"]]
      BY <2>2 DEF RefuseMove, GiveUpMove, RecordMove
    <3>2. [NoMove EXCEPT !.pc = "done"].pc = "done"
      BY DEF NoMove
    <3>3. \A n \in Movers : mover'[n].pc = "done" \/ mover'[n] = mover[n]
      BY <3>1, <3>2 DEF LiveTypes, Movings
    <3>4. UNCHANGED <<clock, record, served, behindSince, wake>>
      BY <2>2 DEF RefuseMove, GiveUpMove, RecordMove
    <3> QED
      BY <3>3, <3>4
  <2>3. CASE DecideMove(m)
    BY <2>3 DEF DecideMove, LiveTypes, Movings
  <2>4. ASSUME NEW h \in Hosts, WriteRecord(m, h) \/ Verify(m, h) PROVE InTimes'
    <3>1. \A n \in Movers : /\ mover'[n].since = mover[n].since
                            /\ mover'[n].pc \notin {"idle", "done"} => mover[n].pc \notin {"idle", "done"}
      BY <2>4, HostDone DEF WriteRecord, Verify
    <3>2. UNCHANGED <<clock, wake>>
      BY <2>4 DEF WriteRecord, Verify
    <3>3. \A g \in Hosts : served'[g] # record'[g] =>
             behindSince'[g] <= clock /\ clock <= behindSince'[g] + EdgeDelay
      BY <1>0, <2>4 DEF WriteRecord, Verify, Rewritten, LiveTypes
    <3> QED
      BY <3>1, <3>2, <3>3
  <2> QED
    BY <1>5, <2>1, <2>2, <2>3, <2>4 DEF Move
<1>6. ASSUME NEW h \in Hosts, EdgesFollow(h) PROVE InTimes'
  BY <1>6 DEF EdgesFollow, LiveTypes
<1>7. CASE TimePasses
  BY <1>0, <1>7 DEF TimePasses, InTime, LiveTypes, Movings
<1>8. CASE UNCHANGED liveVars
  BY <1>8 DEF liveVars, liveState
<1> QED
  BY <1>1, <1>2, <1>3, <1>4, <1>5, <1>6, <1>7, <1>8 DEF LiveNext

\* Without a fault an action does not end before it has recorded its change.
LEMMA ChangeStays ==
    ASSUME LiveTypes, InTimes, [LiveNext]_liveVars, faults' = 0,
           NEW since \in Int, since <= clock, ChangeKnown(since)
    PROVE  \/ \E m \in Movers : Unrecorded(m)'
           \/ lastDnsChangeAt' # NoTime /\ lastDnsChangeAt' + ActionTime >= since
<1>0. clock \in Nat /\ ActionTime \in Nat /\ faults \in Nat
  BY LiveOriginAssumption DEF LiveTypes
<1>1. CASE LockOrUnlock
  BY <1>0, <1>1 DEF LockOrUnlock, NoTime
<1>2. ASSUME NEW m \in Movers, Move(m)
      PROVE  \/ \E n \in Movers : Unrecorded(n)'
             \/ lastDnsChangeAt' # NoTime /\ lastDnsChangeAt' + ActionTime >= since
  <2>1. CASE RecordMove(m)
    <3>1. mover[m].since \in Nat /\ clock <= mover[m].since + ActionTime
      BY <2>1 DEF RecordMove, LiveTypes, Movings, InTimes
    <3>2. lastDnsChangeAt' = mover[m].since
      BY <2>1 DEF RecordMove, ChangedAt
    <3> QED
      BY <1>0, <3>1, <3>2 DEF NoTime
  <2>2. CASE GiveUpMove(m)
    <3>1. faults' = faults + 1
      BY <2>2 DEF GiveUpMove, Fault
    <3> QED
      BY <1>0, <3>1
  <2>3. ASSUME \/ StartMove(m) \/ RefuseMove(m) \/ DecideMove(m)
               \/ \E h \in Hosts : WriteRecord(m, h) \/ Verify(m, h)
        PROVE  \/ \E n \in Movers : Unrecorded(n)'
               \/ lastDnsChangeAt' # NoTime /\ lastDnsChangeAt' + ActionTime >= since
    <3>1. lastDnsChangeAt' = lastDnsChangeAt
      BY <2>3 DEF StartMove, RefuseMove, DecideMove, WriteRecord, Verify
    <3>2. ASSUME NEW n \in Movers, Unrecorded(n) PROVE Unrecorded(n)'
      <4>1. CASE StartMove(m) \/ RefuseMove(m) \/ DecideMove(m)
        BY <3>2, <4>1 DEF StartMove, RefuseMove, DecideMove, Unrecorded, LiveTypes, Movings
      <4>2. CASE \E h \in Hosts : WriteRecord(m, h) \/ Verify(m, h)
        BY <3>2, <4>2, HostDone DEF WriteRecord, Verify, Unrecorded
      <4> QED
        BY <2>3, <4>1, <4>2
    <3> QED
      BY <3>1, <3>2 DEF ChangeKnown
  <2> QED
    BY <1>2, <2>1, <2>2, <2>3 DEF Move
<1>3. ASSUME \/ StartWake \/ ReadRecords \/ CheckLiveOriginReadiness \/ RecordWake
             \/ (\E h \in Hosts : EdgesFollow(h)) \/ TimePasses \/ UNCHANGED liveVars
      PROVE  \/ \E m \in Movers : Unrecorded(m)'
             \/ lastDnsChangeAt' # NoTime /\ lastDnsChangeAt' + ActionTime >= since
  <2>1. UNCHANGED <<mover, lastDnsChangeAt>>
    BY <1>3 DEF StartWake, ReadRecords, CheckLiveOriginReadiness, RecordWake, EdgesFollow, TimePasses,
                liveVars, liveState
  <2> QED
    BY <2>1 DEF ChangeKnown, Unrecorded
<1> QED
  BY <1>1, <1>2, <1>3 DEF LiveNext

\* Whoever wrote last and disagrees with a record has still to read it.
LEMMA SettlingStays ==
    LiveTypes /\ RecordsSettle /\ [LiveNext]_liveVars /\ faults' = 0 => RecordsSettle'
<1> SUFFICES ASSUME LiveTypes, RecordsSettle, [LiveNext]_liveVars, faults' = 0 PROVE RecordsSettle'
  OBVIOUS
<1>0. faults \in Nat
  BY DEF LiveTypes
<1>1. ASSUME UNCHANGED record, \A n \in Movers : Unsettled(n) => Unsettled(n)'
      PROVE  RecordsSettle'
  BY <1>1 DEF RecordsSettle, Agreeing
<1>2. ASSUME NEW m \in Movers, Move(m) PROVE RecordsSettle'
  <2>1. CASE StartMove(m) \/ RefuseMove(m) \/ DecideMove(m) \/ RecordMove(m)
    <3>1. \A n \in Movers : Unsettled(n) => Unsettled(n)'
      BY <2>1 DEF StartMove, RefuseMove, DecideMove, RecordMove, Unsettled, LiveTypes, Movings
    <3>2. UNCHANGED record
      BY <2>1 DEF StartMove, RefuseMove, DecideMove, RecordMove
    <3> QED
      BY <1>1, <3>1, <3>2
  <2>2. ASSUME NEW h \in Hosts, WriteRecord(m, h) PROVE RecordsSettle'
    <3>1. CASE mover[m].hosts \cup {h} # Hosts
      <4>1. mover'[m].pc = "patching"
        BY <2>2, <3>1, HostDone DEF WriteRecord
      <4> QED
        BY <4>1 DEF RecordsSettle, Unsettled
    <3>2. CASE mover[m].hosts \cup {h} = Hosts
      <4>1. mover'[m].pc = "verifying" /\ mover'[m].hosts = {}
        BY <2>2, <3>2, HostDone DEF WriteRecord
      <4>2. CASE \E g \in Hosts : record'[g] # mover'[m].to
        BY <4>1, <4>2 DEF RecordsSettle, Unsettled
      <4>3. CASE \A g \in Hosts : record'[g] = mover'[m].to
        BY <4>3 DEF RecordsSettle, Agreeing, Hosts
      <4> QED
        BY <4>2, <4>3
    <3> QED
      BY <3>1, <3>2
  <2>3. ASSUME NEW h \in Hosts, Verify(m, h) PROVE RecordsSettle'
    <3>1. UNCHANGED record
      BY <2>3 DEF Verify
    <3>2. ASSUME NEW n \in Movers, Unsettled(n), n # m PROVE Unsettled(n)'
      <4>1. mover'[n] = mover[n]
        BY <2>3, <3>2, HostDone DEF Verify
      <4> QED
        BY <3>1, <3>2, <4>1 DEF Unsettled
    <3>3. ASSUME Unsettled(m) PROVE Unsettled(m)'
      <4>1. PICK g \in Hosts \ mover[m].hosts : record[g] # mover[m].to
        BY <2>3, <3>3 DEF Verify, Unsettled
      <4>2. g # h
        BY <2>3, <4>1 DEF Verify
      <4>3. mover[m].hosts \cup {h} # Hosts
        BY <4>1, <4>2
      <4>4. /\ mover'[m].pc = "verifying" /\ mover'[m].to = mover[m].to
            /\ mover'[m].hosts = mover[m].hosts \cup {h}
        BY <2>3, <4>3, HostDone DEF Verify
      <4> QED
        BY <3>1, <4>1, <4>2, <4>4 DEF Unsettled
    <3> QED
      BY <1>1, <3>1, <3>2, <3>3
  <2>4. CASE GiveUpMove(m)
    <3>1. faults' = faults + 1
      BY <2>4 DEF GiveUpMove, Fault
    <3> QED
      BY <1>0, <3>1
  <2> QED
    BY <1>2, <2>1, <2>2, <2>3, <2>4 DEF Move
<1>3. ASSUME \/ StartWake \/ ReadRecords \/ CheckLiveOriginReadiness \/ RecordWake \/ LockOrUnlock
             \/ (\E h \in Hosts : EdgesFollow(h)) \/ TimePasses \/ UNCHANGED liveVars
      PROVE  RecordsSettle'
  <2>1. UNCHANGED <<mover, record>>
    BY <1>3 DEF StartWake, ReadRecords, CheckLiveOriginReadiness, RecordWake, LockOrUnlock, EdgesFollow,
                TimePasses, liveVars, liveState
  <2> QED
    BY <1>1, <2>1 DEF Unsettled
<1> QED
  BY <1>2, <1>3 DEF LiveNext

LEMMA BehindStaysKnown ==
    LiveTypes /\ InTimes /\ BehindKnown /\ [LiveNext]_liveVars /\ faults' = 0 => BehindKnown'
<1> SUFFICES ASSUME LiveTypes, InTimes, BehindKnown, [LiveNext]_liveVars, faults' = 0,
                    NEW g \in Hosts, served'[g] # record'[g]
             PROVE  \/ \E m \in Movers : Unrecorded(m)'
                    \/ lastDnsChangeAt' # NoTime /\ lastDnsChangeAt' + ActionTime >= behindSince'[g]
  BY DEF BehindKnown, ChangeKnown
<1>1. ASSUME NEW m \in Movers, NEW h \in Hosts, WriteRecord(m, h) PROVE Unrecorded(m)'
  BY <1>1, HostDone DEF WriteRecord, Unrecorded
<1>2. ASSUME ~ \E m \in Movers, h \in Hosts : WriteRecord(m, h)
      PROVE  /\ served[g] # record[g]
             /\ behindSince'[g] = behindSince[g]
  <2>1. CASE \E h \in Hosts : EdgesFollow(h)
    BY <2>1 DEF EdgesFollow, LiveTypes
  <2>2. CASE ~ \E h \in Hosts : EdgesFollow(h)
    <3>1. UNCHANGED <<record, served, behindSince>>
      BY <1>2, <2>2 DEF LiveNext, StartWake, ReadRecords, CheckLiveOriginReadiness, RecordWake, LockOrUnlock,
              Move, StartMove, RefuseMove, DecideMove, Verify, GiveUpMove, RecordMove, TimePasses,
              liveVars, liveState
    <3> QED
      BY <3>1
  <2> QED
    BY <2>1, <2>2
<1>3. ASSUME served[g] # record[g]
      PROVE  behindSince[g] \in Int /\ behindSince[g] <= clock /\ ChangeKnown(behindSince[g])
  BY <1>3 DEF LiveTypes, InTimes, BehindKnown
<1> QED
  BY <1>1, <1>2, <1>3, ChangeStays

LEMMA WakeStaysKnowing ==
    LiveInv /\ faults = 0 /\ [LiveNext]_liveVars /\ faults' = 0 => WakeKnows'
<1> SUFFICES ASSUME LiveInv, faults = 0, [LiveNext]_liveVars, faults' = 0, wake'.pc = "checking"
             PROVE  \/ \E m \in Movers : Unrecorded(m)'
                    \/ lastDnsChangeAt' # NoTime /\ lastDnsChangeAt' + ActionTime >= wake'.nowMs - EdgeDelay
                    \/ Still'
  BY DEF WakeKnows, ChangeKnown
<1>0. /\ LiveTypes /\ InTimes /\ RecordsSettle /\ BehindKnown /\ WakeKnows
      /\ clock \in Nat /\ EdgeDelay \in Nat
  BY LiveOriginAssumption DEF LiveInv, LiveTypes
<1>1. CASE StartWake
  <2>1. wake'.nowMs = clock /\ wake'.answers = Unanswered /\ wake'.observed = Unanswered
    BY <1>1 DEF StartWake, NoWake
  <2>2. CASE ChangeKnown(clock - EdgeDelay)
    BY <1>0, <2>1, <2>2, ChangeStays
  <2>3. CASE ~ ChangeKnown(clock - EdgeDelay)
    <3>1. Agreeing
      BY <1>0, <2>3 DEF RecordsSettle, ChangeKnown, Unsettled, Unrecorded
    <3>2. ASSUME NEW h \in Hosts PROVE served[h] = record[h]
      <4> SUFFICES ASSUME served[h] # record[h] PROVE FALSE
        OBVIOUS
      <4>1. behindSince[h] \in Nat /\ clock <= behindSince[h] + EdgeDelay /\ ChangeKnown(behindSince[h])
        BY <1>0 DEF LiveTypes, InTimes, BehindKnown
      <4>2. lastDnsChangeAt # NoTime => lastDnsChangeAt \in Nat
        BY <1>0 DEF LiveTypes
      <4> QED
        BY <1>0, <2>3, <4>1, <4>2, LiveOriginAssumption DEF ChangeKnown
    <3>3. served = record
      BY <1>0, <3>2 DEF LiveTypes
    <3>4. UNCHANGED <<served, record>>
      BY <1>1 DEF StartWake
    <3> QED
      BY <2>1, <3>1, <3>3, <3>4 DEF Still, Agreeing, Unanswered
  <2> QED
    BY <2>2, <2>3
<1>2. CASE ~ StartWake
  <2>1. wake.pc = "checking" /\ wake'.nowMs = wake.nowMs /\ wake.nowMs \in Nat /\ wake.nowMs <= clock
    <3>1. CASE ReadRecords \/ CheckLiveOriginReadiness
      BY <1>0, <3>1 DEF ReadRecords, CheckLiveOriginReadiness, LiveTypes, InTimes
    <3>2. CASE RecordWake
      BY <3>2 DEF RecordWake, NoWake
    <3>3. CASE ~(ReadRecords \/ CheckLiveOriginReadiness \/ RecordWake)
      <4>1. UNCHANGED wake
        BY <1>2, <3>3 DEF LiveNext, LockOrUnlock, Move, StartMove, RefuseMove, DecideMove, WriteRecord, Verify,
                GiveUpMove, RecordMove, EdgesFollow, TimePasses, liveVars, liveState
      <4> QED
        BY <1>0, <4>1 DEF LiveTypes, InTimes
    <3> QED
      BY <3>1, <3>2, <3>3
  <2>2. CASE ChangeKnown(wake.nowMs - EdgeDelay)
    BY <1>0, <2>1, <2>2, ChangeStays
  <2>3. CASE ~ ChangeKnown(wake.nowMs - EdgeDelay)
    <3>0. Still
      BY <1>0, <2>1, <2>3 DEF WakeKnows
    <3>1. CASE ReadRecords
      BY <1>0, <3>0, <3>1 DEF ReadRecords, Still, Agreeing, Unanswered, LiveTypes
    <3>2. CASE CheckLiveOriginReadiness
      <4>1. Answering = {served}
        <5>1. [served EXCEPT !["apex"] = served["www"]] = served
          BY <1>0, <3>0 DEF Still, Agreeing, LiveTypes, Hosts
        <5> QED
          BY <5>1 DEF Answering
      <4>2. wake' = [wake EXCEPT !.observed = served]
        BY <3>2, <4>1 DEF CheckLiveOriginReadiness
      <4>3. wake'.answers = wake.answers /\ wake'.observed = served
        BY <1>0, <4>2 DEF LiveTypes
      <4>4. UNCHANGED <<served, record>>
        BY <3>2 DEF CheckLiveOriginReadiness
      <4> QED
        BY <3>0, <4>3, <4>4 DEF Still, Agreeing, Unanswered
    <3>3. CASE RecordWake
      BY <3>3 DEF RecordWake, NoWake
    <3>4. ASSUME NEW m \in Movers, NEW h \in Hosts, WriteRecord(m, h) PROVE Unrecorded(m)'
      BY <1>0, <3>4, HostDone DEF WriteRecord, Unrecorded
    <3>5. ASSUME NEW h \in Hosts, EdgesFollow(h) PROVE FALSE
      BY <3>0, <3>5 DEF EdgesFollow, Still
    <3>6. ASSUME ~ ReadRecords, ~ CheckLiveOriginReadiness, ~ RecordWake,
                 ~ \E m \in Movers, h \in Hosts : WriteRecord(m, h),
                 ~ \E h \in Hosts : EdgesFollow(h)
          PROVE  Still'
      <4>1. UNCHANGED <<record, served, wake>>
        BY <1>2, <3>6 DEF LiveNext, LockOrUnlock, Move, StartMove, RefuseMove, DecideMove, Verify,
                GiveUpMove, RecordMove, TimePasses, liveVars, liveState
      <4> QED
        BY <3>0, <4>1 DEF Still, Agreeing, Unanswered
    <3> QED
      BY <3>1, <3>2, <3>3, <3>4, <3>5, <3>6
  <2> QED
    BY <2>2, <2>3
<1> QED
  BY <1>1, <1>2

LEMMA FaultsStay == LiveTypes /\ [LiveNext]_liveVars /\ faults' = 0 => faults = 0
<1> SUFFICES ASSUME LiveTypes, [LiveNext]_liveVars, faults' = 0 PROVE faults = 0
  OBVIOUS
<1>1. faults \in Nat
  BY DEF LiveTypes
<1>2. faults' = faults \/ faults' = faults + 1
  BY DEF LiveNext, StartWake, ReadRecords, CheckLiveOriginReadiness, RecordWake, LockOrUnlock, Move, StartMove,
         RefuseMove, DecideMove, WriteRecord, Verify, GiveUpMove, Fault, RecordMove, EdgesFollow, TimePasses,
         liveVars, liveState
<1> QED
  BY <1>1, <1>2

LEMMA LiveKept == LiveInv /\ [LiveNext]_liveVars => LiveInv'
<1> SUFFICES ASSUME LiveInv, [LiveNext]_liveVars PROVE LiveInv'
  OBVIOUS
<1>1. LiveTypes /\ InTimes
  BY DEF LiveInv
<1>2. LiveTypes' /\ InTimes'
  BY <1>1, LiveTypesKept, InTimesKept
<1>3. ASSUME faults' = 0 PROVE RecordsSettle' /\ BehindKnown' /\ WakeKnows'
  <2>1. faults = 0
    BY <1>1, <1>3, FaultsStay
  <2>2. RecordsSettle /\ BehindKnown
    BY <2>1 DEF LiveInv
  <2> QED
    BY <1>1, <1>3, <2>1, <2>2, SettlingStays, BehindStaysKnown, WakeStaysKnowing
<1> QED
  BY <1>2, <1>3 DEF LiveInv

\* A wake that knows what it has to know derives no mismatch.
LEMMA NoMismatchRecorded ==
    ASSUME LiveInv, [LiveNext]_liveVars, PropagationWindow >= EdgeDelay + ActionTime, faults' = 0,
           WakeAnswered, wake' = NoWake, \A m \in Movers : ~Unrecorded(m)
    PROVE  dnsState' # "mismatch"
<1>0. /\ LiveTypes /\ WakeKnows /\ wake.pc = "checking"
      /\ PropagationWindow \in Nat /\ EdgeDelay \in Nat /\ ActionTime \in Nat
  BY FaultsStay, LiveOriginAssumption DEF LiveInv, WakeAnswered
<1>1. wake' # wake
  BY <1>0 DEF NoWake
<1>2. RecordWake
  BY <1>0, <1>1 DEF LiveNext, StartWake, ReadRecords, CheckLiveOriginReadiness, NoWake, LockOrUnlock, Move,
         StartMove, RefuseMove, DecideMove, WriteRecord, Verify, GiveUpMove, RecordMove, EdgesFollow, TimePasses,
         liveVars, liveState, LiveTypes
<1>3. PICK actual \in Reads, observed \in Observations :
         dnsState' = DeriveLiveOriginDnsState(actual, observed, wake.nowMs)
  BY <1>2 DEF RecordWake
<1>4. CASE ChangeKnown(wake.nowMs - EdgeDelay)
  <2>1. lastDnsChangeAt \in Nat /\ wake.nowMs \in Nat /\ lastDnsChangeAt + ActionTime >= wake.nowMs - EdgeDelay
    BY <1>0, <1>4 DEF ChangeKnown, LiveTypes
  <2>2. Propagating(wake.nowMs)
    BY <1>0, <2>1 DEF Propagating, NoTime
  <2> QED
    BY <1>3, <2>2 DEF DeriveLiveOriginDnsState
<1>5. CASE Still
  <2>1. wake.answers = record /\ wake.observed = record
    BY <1>5 DEF Still, WakeAnswered
  <2>2. ASSUME NEW h \in Comparable(actual, observed) PROVE actual[h] = observed[h]
    <3>1. h \in Hosts /\ actual[h] \in Targets /\ observed[h] \in Targets
      BY <2>2 DEF Comparable
    <3>2. actual[h] = record[h]
      BY <2>1, <3>1 DEF Reads, Targets
    <3>3. observed[h] = record[h]
      BY <2>1, <3>1 DEF Observations, Targets
    <3> QED
      BY <3>2, <3>3
  <2> QED
    BY <1>3, <2>2 DEF DeriveLiveOriginDnsState
<1> QED
  BY <1>0, <1>4, <1>5 DEF WakeKnows

\* While nothing failed and nobody else edited the records, and no action is
\* between its writes and its record, a wake records no mismatch: the window
\* covers the edges' delay and an action's time (deriveLiveOriginDnsState).
THEOREM OwnMovesAreNoMismatch == LiveSpec => OwnMoveIsNoMismatch
<1>1. LiveInv /\ [LiveNext]_liveVars =>
        [ (/\ PropagationWindow >= EdgeDelay + ActionTime
           /\ faults' = 0
           /\ WakeAnswered /\ wake' = NoWake
           /\ \A m \in Movers : ~Unrecorded(m))
          => dnsState' # "mismatch" ]_liveVars
  BY NoMismatchRecorded
<1> QED
  BY <1>1, LiveInitially, LiveKept, PTL DEF LiveSpec, OwnMoveIsNoMismatch

-----------------------------------------------------------------------------
(* The backfill script: the inductive invariant. *)

Complete(u) == {u} \X SiteLanguages \subseteq summaryRows

ReadyIn(u) == {u} \X script.codes \subseteq summaryRows

Wide == SiteLanguages \subseteq script.codes

ScriptFields == DOMAIN script = DOMAIN Stopped

ReadyIsComplete == Wide => \A u \in script.readyUrls : Complete(u)

StagesKept == stage \in [Cards -> {"absent", "translation_pending", "published"}]

BackfillInv ==
    /\ StagesKept
    /\ ScriptFields
    /\ ReadyIsComplete
    /\ EarlyOnlyIfNarrow

LEMMA BackfillInitially == BackfillInit => BackfillInv
<1> SUFFICES ASSUME BackfillInit PROVE BackfillInv
  OBVIOUS
<1>1. StagesKept /\ EarlyOnlyIfNarrow
  BY DEF BackfillInit, Worker!Init, StagesKept, EarlyOnlyIfNarrow
<1>2. ScriptFields /\ ReadyIsComplete
  BY DEF BackfillInit, Stopped, ScriptFields, ReadyIsComplete
<1> QED
  BY <1>1, <1>2 DEF BackfillInv

-----------------------------------------------------------------------------
(* The backfill script: steps. *)

\* A step that takes back no summary and publishes nothing that is incomplete, unless it
\* notes so.
LEMMA StepKeeps ==
    ASSUME BackfillInv, StagesKept', ScriptFields', summaryRows \subseteq summaryRows',
           narrowly \subseteq narrowly',
           \A u \in Cards : stage'[u] = "published" =>
               stage[u] = "published" \/ Complete(u) \/ u \in narrowly',
           ReadyIsComplete'
    PROVE  BackfillInv'
<1>1. \A u : Complete(u) => Complete(u)'
  BY DEF Complete
<1>3. \A u \in Cards : stage'[u] = "published" /\ u \notin narrowly' => Complete(u)
  BY DEF BackfillInv, EarlyOnlyIfNarrow, Worker!Translated, Complete
<1>4. EarlyOnlyIfNarrow'
  BY <1>1, <1>3 DEF EarlyOnlyIfNarrow, Worker!Translated, Complete
<1> QED
  BY <1>4 DEF BackfillInv

LEMMA WorkerKeeps == BackfillInv /\ WorkerRuns => BackfillInv'
<1> SUFFICES ASSUME BackfillInv, WorkerRuns PROVE BackfillInv'
  OBVIOUS
<1>0. StagesKept /\ script' = script /\ narrowly' = narrowly /\ ScriptFields'
  BY DEF WorkerRuns, BackfillInv, ScriptFields
<1>4. summaryRows \subseteq summaryRows' => ReadyIsComplete'
  BY <1>0 DEF BackfillInv, ReadyIsComplete, Wide, Complete
<1>1. ASSUME NEW batch \in SUBSET Cards, Worker!Accept(batch) PROVE BackfillInv'
  <2>1. StagesKept' /\ \A u \in Cards : stage'[u] = "published" => stage[u] = "published"
    BY <1>0, <1>1 DEF Worker!Accept, StagesKept
  <2> QED
    BY <1>0, <1>1, <1>4, <2>1, StepKeeps DEF Worker!Accept
<1>2. ASSUME NEW batch \in SUBSET Cards, Worker!Publish(batch) PROVE BackfillInv'
  <2>1. StagesKept' /\ \A u \in Cards : stage'[u] = "published" => stage[u] = "published" \/ Complete(u)
    BY <1>0, <1>2 DEF Worker!Publish, Worker!Translated, Complete, StagesKept
  <2> QED
    BY <1>0, <1>2, <1>4, <2>1, StepKeeps DEF Worker!Publish
<1>3. ASSUME NEW rows \in SUBSET (Cards \X SiteLanguages), Worker!Translate(rows) PROVE BackfillInv'
  <2>1. StagesKept' /\ UNCHANGED stage /\ summaryRows \subseteq summaryRows'
    BY <1>0, <1>3 DEF Worker!Translate, StagesKept
  <2> QED
    BY <1>0, <1>4, <2>1, StepKeeps
<1> QED
  BY <1>1, <1>2, <1>3 DEF WorkerRuns, Worker!Next

LEMMA BackfillKept == BackfillInv /\ [BackfillNext]_backfillState => BackfillInv'
<1> SUFFICES ASSUME BackfillInv, [BackfillNext]_backfillState PROVE BackfillInv'
  OBVIOUS
<1>0. StagesKept /\ ScriptFields /\ ReadyIsComplete
  BY DEF BackfillInv
<1>1. ASSUME UNCHANGED <<stage, narrowly>>, summaryRows \subseteq summaryRows', ScriptFields',
             \/ script'.codes = script.codes /\ script'.readyUrls = script.readyUrls
             \/ Wide' => \A u \in script'.readyUrls : Complete(u)
      PROVE  BackfillInv'
  <2>1. StagesKept'
    BY <1>0, <1>1 DEF StagesKept
  <2>2. ReadyIsComplete'
    BY <1>0, <1>1 DEF ReadyIsComplete, Wide, Complete
  <2> QED
    BY <1>1, <2>1, <2>2, StepKeeps
<1>2. ASSUME NEW codes, NEW source, NEW all, NEW retry, NEW force,
             StartScript(codes, source, all, retry, force)
      PROVE  BackfillInv'
  <2>1. ScriptFields' /\ script'.readyUrls = {}
    BY <1>2 DEF StartScript, ScriptFields, Stopped
  <2> QED
    BY <1>1, <1>2, <2>1 DEF StartScript
<1>3. CASE ScanPage
  <2>1. PICK next, scanned, tasks :
           script' = [script EXCEPT !.at = next, !.articles = scanned, !.tasks = tasks]
    BY <1>3 DEF ScanPage
  <2>2. ScriptFields' /\ script'.readyUrls = script.readyUrls /\ script'.codes = script.codes
    BY <1>0, <2>1 DEF ScriptFields, Stopped
  <2> QED
    BY <1>1, <1>3, <2>2 DEF ScanPage
<1>4. ASSUME NEW answering, NEW saved, TranslateNext(answering, saved) PROVE BackfillInv'
  <2>1. PICK failed : script' = [script EXCEPT !.tasks = Tail(script.tasks), !.failed = failed]
    BY <1>4 DEF TranslateNext
  <2>2. ScriptFields' /\ script'.readyUrls = script.readyUrls /\ script'.codes = script.codes
    BY <1>0, <2>1 DEF ScriptFields, Stopped
  <2> QED
    BY <1>1, <1>4, <2>2 DEF TranslateNext
<1>5. CASE LookUpReady
  <2>1. /\ ScriptFields' /\ script'.codes = script.codes
        /\ script'.readyUrls = ReadyUrls(Range(script.articles))
    BY <1>0, <1>5 DEF LookUpReady, ScriptFields, Stopped
  <2>2. Wide' => \A u \in script'.readyUrls : Complete(u)
    BY <2>1 DEF ReadyUrls, Wide, Complete
  <2> QED
    BY <1>1, <1>5, <2>1, <2>2 DEF LookUpReady
<1>6. ASSUME NEW written, SaveFailedTranslations(written) PROVE BackfillInv'
  <2>1. ScriptFields' /\ script'.readyUrls = script.readyUrls /\ script'.codes = script.codes
    BY <1>0, <1>6 DEF SaveFailedTranslations, ScriptFields, Stopped
  <2> QED
    BY <1>1, <1>6, <2>1 DEF SaveFailedTranslations
<1>7. ASSUME NEW applied \in BOOLEAN, PublishReady(applied) PROVE BackfillInv'
  <2>1. ScriptFields' /\ script'.readyUrls = script.readyUrls /\ script'.codes = script.codes
    BY <1>0, <1>7 DEF PublishReady, ScriptFields, Stopped
  <2>2. StagesKept'
    BY <1>0, <1>7 DEF PublishReady, StagesKept
  <2>3. \A u \in Cards : stage'[u] = "published" =>
            stage[u] = "published" \/ Complete(u) \/ u \in narrowly'
    BY <1>0, <1>7 DEF PublishReady, ReadyIsComplete, Wide
  <2>4. narrowly \subseteq narrowly' /\ ReadyIsComplete'
    BY <1>0, <1>7, <2>1 DEF PublishReady, ReadyIsComplete, Wide, Complete
  <2> QED
    BY <1>7, <2>1, <2>2, <2>3, <2>4, StepKeeps DEF PublishReady
<1>8. CASE EndScript
  <2>1. ScriptFields' /\ script'.readyUrls = {}
    BY <1>8 DEF EndScript, StopScript, ScriptFields, Stopped
  <2> QED
    BY <1>1, <1>8, <2>1 DEF EndScript
<1>9. CASE WorkerRuns
  BY <1>9, WorkerKeeps
<1>10. CASE UNCHANGED backfillState
  BY <1>0, <1>1, <1>10 DEF backfillState, ScriptFields
<1> QED
  BY <1>2, <1>3, <1>4, <1>5, <1>6, <1>7, <1>8, <1>9, <1>10 DEF BackfillNext

\* An article is short of one of the worker's languages on the site only if a run whose
\* LANGUAGE_CODES lack one of them has published it, whatever languages each run is given,
\* whatever fails and whenever it is ended (publishFullyTranslatedArticles).
THEOREM OnlyNarrowRunsPublishEarly == BackfillSpec => []EarlyOnlyIfNarrow
<1>1. BackfillInv => EarlyOnlyIfNarrow
  BY DEF BackfillInv
<1> QED
  BY <1>1, BackfillInitially, BackfillKept, PTL DEF BackfillSpec

-----------------------------------------------------------------------------
(* Headway: what is put in order. *)

\* In a total order each element stands at the place of its own that Ordered looks for.
LEMMA OrderedByPlace ==
    ASSUME NEW S, IsFiniteSet(S), NEW order,
           \A x, y \in S : <<x, y>> \in order \/ <<y, x>> \in order,
           \A x, y \in S : <<x, y>> \in order /\ <<y, x>> \in order => x = y,
           \A x, y, z \in S : <<x, y>> \in order /\ <<y, z>> \in order => <<x, z>> \in order
    PROVE  /\ Ordered(S, order) \in Seq(S)
           /\ Len(Ordered(S, order)) = Cardinality(S)
           /\ \A x \in S : LET place == Cardinality({y \in S : <<y, x>> \in order})
                           IN place \in 1..Cardinality(S) /\ Ordered(S, order)[place] = x
<1> DEFINE Upto(x) == {y \in S : <<y, x>> \in order}
           Place == [x \in S |-> Cardinality(Upto(x))]
           n == Cardinality(S)
<1>0. n \in Nat
  BY FS_CardinalityType
<1>1. ASSUME NEW x \in S PROVE IsFiniteSet(Upto(x)) /\ Cardinality(Upto(x)) \in 1..n
  <2>1. x \in Upto(x) /\ Upto(x) \in SUBSET S
    OBVIOUS
  <2>2. IsFiniteSet(Upto(x)) /\ Cardinality(Upto(x)) <= n /\ Cardinality(Upto(x)) \in Nat
    BY <2>1, FS_Subset, FS_CardinalityType
  <2>3. Cardinality(Upto(x)) # 0
    BY <2>1, <2>2, FS_EmptySet
  <2> HIDE DEF Upto, n
  <2> QED
    BY <1>0, <2>2, <2>3
<1>2. ASSUME NEW x \in S, NEW y \in S, x # y, <<x, y>> \in order
      PROVE  Cardinality(Upto(x)) # Cardinality(Upto(y))
  <2>1. Upto(x) \in SUBSET Upto(y) /\ y \in Upto(y) /\ y \notin Upto(x)
    BY <1>2
  <2>2. Upto(x) # Upto(y)
    BY <2>1
  <2> HIDE DEF Upto
  <2> QED
    BY <1>1, <2>1, <2>2, FS_Subset
<1>3. \A x, y \in S : Cardinality(Upto(x)) = Cardinality(Upto(y)) => x = y
  <2> SUFFICES ASSUME NEW x \in S, NEW y \in S, Cardinality(Upto(x)) = Cardinality(Upto(y)), x # y
               PROVE  FALSE
    OBVIOUS
  <2>1. <<x, y>> \in order \/ <<y, x>> \in order
    OBVIOUS
  <2> HIDE DEF Upto
  <2> QED
    BY <1>2, <2>1
<1>4. Place \in Injection(S, 1..n)
  <2> HIDE DEF Upto, n
  <2> QED
    BY <1>1, <1>3 DEF Injection, IsInjective
<1>5. IsFiniteSet(1..n) /\ Cardinality(1..n) = n
  BY <1>0, FS_Interval
<1>6. Place \in Surjection(S, 1..n)
  <2> HIDE DEF Place
  <2> QED
    BY <1>4, <1>5, FS_Injection
<1>7. \A k \in 1..n : \E x \in S : Cardinality(Upto(x)) = k
  <2> HIDE DEF n
  <2>1. \A k \in 1..n : \E x \in S : Place[x] = k
    <3> HIDE DEF Place
    <3> QED
      BY <1>6 DEF Surjection
  <2> QED
    BY <2>1
<1>8. Ordered(S, order) = [k \in 1..n |-> CHOOSE x \in S : Cardinality(Upto(x)) = k]
  BY DEF Ordered
<1> HIDE DEF Upto, n
<1>9. \A k \in 1..n : Ordered(S, order)[k] \in S /\ Cardinality(Upto(Ordered(S, order)[k])) = k
  BY <1>7, <1>8
<1>10. Ordered(S, order) \in Seq(S) /\ Len(Ordered(S, order)) = n
  BY <1>0, <1>8, <1>9
<1>11. \A x \in S : Cardinality(Upto(x)) \in 1..n /\ Ordered(S, order)[Cardinality(Upto(x))] = x
  BY <1>1, <1>3, <1>9
<1> QED
  BY <1>10, <1>11 DEF Upto, n

\* The script's two orders are total.
LEMMA CardsOrdered ==
    /\ \A x, y \in Cards : <<x, y>> \in CardOrder \/ <<y, x>> \in CardOrder
    /\ \A x, y \in Cards : <<x, y>> \in CardOrder /\ <<y, x>> \in CardOrder => x = y
    /\ \A x, y, z \in Cards : <<x, y>> \in CardOrder /\ <<y, z>> \in CardOrder => <<x, z>> \in CardOrder
  BY BackfillAssumption DEF CardOrder

LEMMA RowsOrdered ==
    /\ \A x, y \in CardRows : <<x, y>> \in RowOrder \/ <<y, x>> \in RowOrder
    /\ \A x, y \in CardRows : <<x, y>> \in RowOrder /\ <<y, x>> \in RowOrder => x = y
    /\ \A x, y, z \in CardRows : <<x, y>> \in RowOrder /\ <<y, z>> \in RowOrder => <<x, z>> \in RowOrder
<1>1. \A x, y \in CardRows : <<x, y>> \in RowOrder <=>
          \/ NewestFirst[x[1]] < NewestFirst[y[1]]
          \/ x[1] = y[1] /\ Codes[x[2]] <= Codes[y[2]]
  BY DEF RowOrder
<1>2. \A x \in CardRows : /\ x = <<x[1], x[2]>> /\ x[1] \in Cards /\ x[2] \in DOMAIN Codes
                          /\ NewestFirst[x[1]] \in Nat /\ Codes[x[2]] \in Nat
  BY BackfillAssumption DEF CardRows, SupportedLanguages
<1>3. \A x, y \in CardRows : /\ NewestFirst[x[1]] = NewestFirst[y[1]] => x[1] = y[1]
                             /\ Codes[x[2]] = Codes[y[2]] => x[2] = y[2]
  BY <1>2, BackfillAssumption
<1>4. \A x, y \in CardRows : <<x, y>> \in RowOrder \/ <<y, x>> \in RowOrder
  <2> SUFFICES ASSUME NEW x \in CardRows, NEW y \in CardRows
               PROVE  <<x, y>> \in RowOrder \/ <<y, x>> \in RowOrder
    OBVIOUS
  <2>1. \/ NewestFirst[x[1]] < NewestFirst[y[1]]
        \/ NewestFirst[y[1]] < NewestFirst[x[1]]
        \/ x[1] = y[1]
    BY <1>2, <1>3
  <2>2. Codes[x[2]] <= Codes[y[2]] \/ Codes[y[2]] <= Codes[x[2]]
    BY <1>2
  <2> QED
    BY <1>1, <2>1, <2>2
<1>5. \A x, y \in CardRows : <<x, y>> \in RowOrder /\ <<y, x>> \in RowOrder => x = y
  <2> SUFFICES ASSUME NEW x \in CardRows, NEW y \in CardRows, <<x, y>> \in RowOrder, <<y, x>> \in RowOrder
               PROVE  x = y
    OBVIOUS
  <2>1. x[1] = y[1] /\ x[2] = y[2]
    BY <1>1, <1>2, <1>3
  <2> QED
    BY <1>2, <2>1
<1>6. \A x, y, z \in CardRows : <<x, y>> \in RowOrder /\ <<y, z>> \in RowOrder => <<x, z>> \in RowOrder
  BY <1>1, <1>2
<1> QED
  BY <1>4, <1>5, <1>6
-----------------------------------------------------------------------------
(* Headway: the inductive invariant. *)

Scripts ==
    [at : {"stopped", "scan", "translate", "ready", "publish", "done"},
     source : {"articles", "public_feed_snapshot"},
     all : BOOLEAN, retry : BOOLEAN, force : BOOLEAN, codes : SUBSET SupportedLanguages,
     articles : Seq(Cards), tasks : Seq(CardRows),
     failed : SUBSET CardRows, readyUrls : SUBSET Cards]

ScriptTypes ==
    /\ StagesKept
    /\ script \in Scripts
    /\ script.at = "scan" => Len(script.tasks) < BackfillLimit
    /\ failureCache \in SUBSET CardRows
    /\ openBefore \in SUBSET CardRows

OpenOf(u) == Open(u, script.codes)

AllOpen == UNION {OpenOf(u) : u \in Cards}

Settled == ~(openBefore \subseteq AllOpen)

\* The runs that are to make headway, while they are under way.
Counted ==
    /\ script.at # "stopped"
    /\ script.source = "articles" /\ ~script.retry /\ ~script.force
    /\ Cardinality(Cards) <= CandidateLimit
    /\ openBefore # {}

\* Where an article stands among those that are there.
UpTo(u) == {v \in Cards : stage[v] # "absent" /\ <<v, u>> \in CardOrder}
PlaceOf(u) == Cardinality(UpTo(u))

\* An article with an open row is still to be read.
OpenAhead == \E u \in Cards : /\ stage[u] # "absent" /\ OpenOf(u) # {}
                              /\ PlaceOf(u) > Len(script.articles)

\* What is open now was open at the start, and the run knows the file of failures.
RunKnows ==
    /\ AllOpen \subseteq openBefore
    /\ failureCache \subseteq script.failed
    /\ script.at = "scan" => script.failed = failureCache

\* Until there are tasks an open row is ahead; the tasks were open at the start; the first
\* of them is settled by the time there are none left; and the file is written then.
RunSettles ==
    /\ script.at = "scan" /\ script.tasks = <<>> => Settled \/ OpenAhead
    /\ script.at \in {"scan", "translate"} =>
           \A i \in DOMAIN script.tasks : script.tasks[i] \in openBefore
    /\ script.at = "translate" /\ script.tasks = <<>> =>
           Settled \/ script.failed \cap openBefore # {}
    /\ script.at \in {"ready", "publish", "done"} => Settled

HeadwayInv == ScriptTypes /\ (Counted => RunKnows /\ RunSettles)

-----------------------------------------------------------------------------
(* Headway: the articles and the tasks in their order. *)

LEMMA ArticlesListed ==
    ASSUME ScriptTypes
    PROVE  /\ Listed \in Seq(Cards)
           /\ Len(Listed) <= Cardinality(Cards)
           /\ Cardinality(Cards) \in Nat
           /\ script.source = "articles" =>
                  \A u \in Cards : stage[u] # "absent" =>
                      PlaceOf(u) \in 1..Len(Listed) /\ Listed[PlaceOf(u)] = u
<1> DEFINE S == {u \in Cards : stage[u] \in IF script.source = "articles"
                                            THEN {"published", "translation_pending"}
                                            ELSE {"published"}}
<1>1. S \in SUBSET Cards /\ IsFiniteSet(S) /\ Cardinality(S) <= Cardinality(Cards)
      /\ Cardinality(Cards) \in Nat
  BY BackfillAssumption, FS_Subset, FS_CardinalityType
<1>2. Listed = Ordered(S, CardOrder)
  BY DEF Listed
<1> HIDE DEF S
<1>3. /\ Ordered(S, CardOrder) \in Seq(S)
      /\ Len(Ordered(S, CardOrder)) = Cardinality(S)
      /\ \A x \in S : LET place == Cardinality({y \in S : <<y, x>> \in CardOrder})
                      IN place \in 1..Cardinality(S) /\ Ordered(S, CardOrder)[place] = x
  <2>1. /\ \A x, y \in S : <<x, y>> \in CardOrder \/ <<y, x>> \in CardOrder
        /\ \A x, y \in S : <<x, y>> \in CardOrder /\ <<y, x>> \in CardOrder => x = y
        /\ \A x, y, z \in S : <<x, y>> \in CardOrder /\ <<y, z>> \in CardOrder => <<x, z>> \in CardOrder
    BY <1>1, CardsOrdered
  <2> QED
    BY <1>1, <2>1, OrderedByPlace
<1>4. ASSUME script.source = "articles", NEW u \in Cards, stage[u] # "absent"
      PROVE  PlaceOf(u) \in 1..Len(Listed) /\ Listed[PlaceOf(u)] = u
  <2>1. S = {v \in Cards : stage[v] # "absent"}
    BY <1>4 DEF S, ScriptTypes, StagesKept
  <2>2. u \in S /\ UpTo(u) = {y \in S : <<y, u>> \in CardOrder}
    BY <1>4, <2>1 DEF UpTo
  <2> QED
    BY <1>2, <1>3, <2>2 DEF PlaceOf
<1>5. Listed \in Seq(Cards)
  BY <1>1, <1>2, <1>3, SeqMonotonic
<1> QED
  BY <1>1, <1>2, <1>3, <1>4, <1>5

\* Articles that are added push the others back.
LEMMA PlacesGrow ==
    ASSUME ScriptTypes, StagesKept', NEW u \in Cards,
           \A v \in Cards : stage[v] # "absent" => stage'[v] # "absent"
    PROVE  PlaceOf(u) \in Nat /\ PlaceOf(u)' \in Nat /\ PlaceOf(u) <= PlaceOf(u)'
<1>1. UpTo(u) \in SUBSET UpTo(u)' /\ UpTo(u)' \in SUBSET Cards
  BY DEF UpTo
<1>2. IsFiniteSet(UpTo(u)')
  BY <1>1, BackfillAssumption, FS_Subset
<1>3. IsFiniteSet(UpTo(u)) /\ Cardinality(UpTo(u)) <= Cardinality(UpTo(u)')
  BY <1>1, <1>2, FS_Subset
<1> QED
  BY <1>2, <1>3, FS_CardinalityType DEF PlaceOf

\* The tasks of a page are rows that are missing, and some if there are any.
LEMMA TasksAreMissing ==
    ASSUME ScriptTypes, NEW articles \in Seq(Cards), NEW limit \in Nat
    PROVE  LET tasks == BuildTranslationTasks(articles, limit)
           IN /\ tasks \in Seq(CardRows)
              /\ \A i \in DOMAIN tasks : tasks[i] \in Cards \X script.codes /\ Missing(tasks[i])
              /\ limit > 0 /\ tasks = <<>> =>
                     \A row \in Range(articles) \X script.codes : ~Missing(row)
<1> DEFINE S == {row \in Range(articles) \X script.codes : Missing(row)}
           missing == Ordered(S, RowOrder)
           tasks == BuildTranslationTasks(articles, limit)
<1>1. S \in SUBSET CardRows /\ S \in SUBSET (Cards \X script.codes)
  <2>1. Range(articles) \subseteq Cards /\ script.codes \subseteq SupportedLanguages
    BY DEF Range, ScriptTypes, Scripts
  <2> QED
    BY <2>1 DEF CardRows
<1>2. IsFiniteSet(CardRows)
  BY BackfillAssumption, FS_Product DEF CardRows, SupportedLanguages
<1>3. IsFiniteSet(S) /\ Cardinality(S) \in Nat
  BY <1>1, <1>2, FS_Subset, FS_CardinalityType
<1>4. tasks = SubSeq(missing, 1, IF Len(missing) < limit THEN Len(missing) ELSE limit)
  BY DEF BuildTranslationTasks
<1>5. \A row \in S : Missing(row)
  OBVIOUS
<1>6. \A row \in Range(articles) \X script.codes : Missing(row) => row \in S
  OBVIOUS
<1> HIDE DEF S, tasks
<1>7. missing \in Seq(S) /\ Len(missing) = Cardinality(S)
  <2>1. /\ \A x, y \in S : <<x, y>> \in RowOrder \/ <<y, x>> \in RowOrder
        /\ \A x, y \in S : <<x, y>> \in RowOrder /\ <<y, x>> \in RowOrder => x = y
        /\ \A x, y, z \in S : <<x, y>> \in RowOrder /\ <<y, z>> \in RowOrder => <<x, z>> \in RowOrder
    BY <1>1, RowsOrdered
  <2> QED
    BY <1>3, <2>1, OrderedByPlace
<1> HIDE DEF missing
<1>8. PICK n \in Nat : /\ n <= Len(missing) /\ tasks = SubSeq(missing, 1, n)
                       /\ limit > 0 /\ n = 0 => Cardinality(S) = 0
  BY <1>3, <1>4, <1>7
<1>9. Len(tasks) = n /\ tasks \in Seq(S)
  BY <1>7, <1>8, SubSeqProperties
<1>10. tasks \in Seq(CardRows) /\ \A i \in DOMAIN tasks : tasks[i] \in S
  BY <1>1, <1>9, SeqMonotonic
<1>11. limit > 0 /\ tasks = <<>> => S = {}
  BY <1>3, <1>8, <1>9, FS_EmptySet
<1> QED
  BY <1>1, <1>5, <1>6, <1>10, <1>11 DEF tasks
-----------------------------------------------------------------------------
(* Headway: steps. *)

LEMMA OpenRows ==
    \A row \in Cards \X script.codes : row \in AllOpen <=> row \notin summaryRows \cup failureCache
  BY DEF AllOpen, OpenOf, Open

LEMMA HeadwayStart == BackfillInit => HeadwayInv
<1> SUFFICES ASSUME BackfillInit PROVE HeadwayInv
  OBVIOUS
<1>1. Stopped \in Scripts /\ Stopped.at = "stopped"
  BY DEF Stopped, Scripts
<1> QED
  BY <1>1 DEF BackfillInit, Worker!Init, HeadwayInv, ScriptTypes, StagesKept, Counted

\* A step that takes nothing back opens no row and leaves settled what is settled.
LEMMA NothingReopens ==
    ASSUME summaryRows \subseteq summaryRows', failureCache \subseteq failureCache',
           script'.codes = script.codes
    PROVE  AllOpen' \subseteq AllOpen /\ (openBefore' = openBefore /\ Settled => Settled')
<1>1. \A u \in Cards : OpenOf(u)' \subseteq OpenOf(u)
  BY DEF OpenOf, Open
<1>2. AllOpen' \subseteq AllOpen
  BY <1>1 DEF AllOpen
<1> QED
  BY <1>2 DEF Settled

LEMMA WorkerTypes ==
    ASSUME ScriptTypes, WorkerRuns
    PROVE  /\ StagesKept' /\ summaryRows \subseteq summaryRows'
           /\ \A u \in Cards : stage[u] # "absent" => stage'[u] # "absent"
<1>1. ASSUME NEW batch \in SUBSET Cards, Worker!Accept(batch)
      PROVE  /\ StagesKept' /\ summaryRows \subseteq summaryRows'
             /\ \A u \in Cards : stage[u] # "absent" => stage'[u] # "absent"
  BY <1>1 DEF Worker!Accept, ScriptTypes, StagesKept
<1>2. ASSUME NEW batch \in SUBSET Cards, Worker!Publish(batch)
      PROVE  /\ StagesKept' /\ summaryRows \subseteq summaryRows'
             /\ \A u \in Cards : stage[u] # "absent" => stage'[u] # "absent"
  BY <1>2 DEF Worker!Publish, ScriptTypes, StagesKept
<1>3. ASSUME NEW rows \in SUBSET (Cards \X SiteLanguages), Worker!Translate(rows)
      PROVE  /\ StagesKept' /\ summaryRows \subseteq summaryRows'
             /\ \A u \in Cards : stage[u] # "absent" => stage'[u] # "absent"
  BY <1>3 DEF Worker!Translate, ScriptTypes, StagesKept
<1> QED
  BY <1>1, <1>2, <1>3 DEF WorkerRuns, Worker!Next

\* The worker may settle what the script is on its way to, and put articles in front of it.
LEMMA WorkerLeavesHeadway == HeadwayInv /\ WorkerRuns => HeadwayInv'
<1> SUFFICES ASSUME HeadwayInv, WorkerRuns PROVE HeadwayInv'
  OBVIOUS
<1>1. /\ ScriptTypes /\ StagesKept' /\ summaryRows \subseteq summaryRows'
      /\ \A u \in Cards : stage[u] # "absent" => stage'[u] # "absent"
      /\ failureCache' = failureCache /\ script' = script /\ openBefore' = openBefore
  BY WorkerTypes DEF HeadwayInv, WorkerRuns
<1>2. ScriptTypes'
  BY <1>1 DEF ScriptTypes, Scripts
<1>3. AllOpen' \subseteq AllOpen /\ (Settled => Settled')
  BY <1>1, NothingReopens
<1>4. ASSUME Counted' PROVE RunKnows' /\ RunSettles'
  <2>1. Counted /\ RunKnows /\ RunSettles
    BY <1>1, <1>4 DEF Counted, HeadwayInv
  <2>2. RunKnows'
    BY <1>1, <1>3, <2>1 DEF RunKnows
  <2>3. OpenAhead => Settled' \/ OpenAhead'
    <3> SUFFICES ASSUME OpenAhead, ~Settled' PROVE OpenAhead'
      OBVIOUS
    <3>1. PICK u \in Cards : stage[u] # "absent" /\ OpenOf(u) # {} /\ PlaceOf(u) > Len(script.articles)
      BY DEF OpenAhead
    <3>2. PlaceOf(u)' > Len(script'.articles)
      <4>1. Len(script.articles) \in Nat
        BY <1>1 DEF ScriptTypes, Scripts
      <4> QED
        BY <1>1, <3>1, <4>1, PlacesGrow
    <3>3. PICK row \in OpenOf(u) : TRUE
      BY <3>1
    <3>4. row \in AllOpen /\ row \in AllOpen'
      BY <1>1, <2>1, <3>3 DEF AllOpen, RunKnows, Settled
    <3>5. row \in OpenOf(u)'
      BY <3>3, <3>4 DEF AllOpen, OpenOf, Open
    <3> QED
      BY <1>1, <3>1, <3>2, <3>5 DEF OpenAhead
  <2>4. RunSettles'
    BY <1>1, <1>3, <2>1, <2>3 DEF RunSettles
  <2> QED
    BY <2>2, <2>4
<1> QED
  BY <1>2, <1>4 DEF HeadwayInv

LEMMA StartIsAhead ==
    ASSUME HeadwayInv, NEW codes \in LanguageChoices,
           NEW source \in {"articles", "public_feed_snapshot"}, NEW all \in BOOLEAN,
           NEW again \in BOOLEAN, NEW force \in BOOLEAN,
           StartScript(codes, source, all, again, force)
    PROVE  HeadwayInv'
<1> DEFINE open == UNION {Open(u, codes) : u \in Cards}
<1>1. /\ ScriptTypes /\ stage' = stage /\ summaryRows' = summaryRows /\ failureCache' = failureCache
      /\ script' = [at |-> "scan", source |-> source, all |-> all, retry |-> again,
                    force |-> force, codes |-> codes, articles |-> <<>>, tasks |-> <<>>,
                    failed |-> IF again THEN {} ELSE failureCache, readyUrls |-> {}]
      /\ openBefore' = IF \E u \in Cards : stage[u] # "absent" /\ Open(u, codes) # {} THEN open ELSE {}
  BY DEF HeadwayInv, StartScript, Stopped
<1>2. codes \in SUBSET SupportedLanguages /\ open \in SUBSET CardRows
  BY BackfillAssumption DEF Open, CardRows, SupportedLanguages
<1>3. script' \in Scripts
  BY <1>1, <1>2 DEF Scripts, ScriptTypes
<1>4. ScriptTypes'
  BY <1>1, <1>2, <1>3, BackfillAssumption DEF ScriptTypes, StagesKept
<1>5. AllOpen' = open /\ (\A u \in Cards : OpenOf(u)' = Open(u, codes) /\ PlaceOf(u)' = PlaceOf(u))
  BY <1>1 DEF AllOpen, OpenOf, Open, PlaceOf, UpTo
<1>6. ASSUME Counted' PROVE RunKnows' /\ RunSettles'
  <2>1. PICK u \in Cards : stage[u] # "absent" /\ Open(u, codes) # {}
    BY <1>1, <1>6 DEF Counted
  <2>2. openBefore' = open /\ script'.failed = failureCache
    BY <1>1, <1>6, <2>1 DEF Counted
  <2>3. PlaceOf(u) > 0
    <3>1. u \in UpTo(u)
      BY <2>1, CardsOrdered DEF UpTo
    <3>2. IsFiniteSet(UpTo(u))
      BY BackfillAssumption, FS_Subset DEF UpTo
    <3> QED
      BY <3>1, <3>2, FS_EmptySet, FS_CardinalityType DEF PlaceOf
  <2>4. OpenAhead'
    BY <1>1, <1>5, <2>1, <2>3 DEF OpenAhead
  <2> QED
    BY <1>1, <1>5, <2>2, <2>4 DEF RunKnows, RunSettles
<1> QED
  BY <1>4, <1>6 DEF HeadwayInv
\* An article that is ahead is on the next page, or behind a full one.
LEMMA PageIsNext ==
    ASSUME ScriptTypes
    PROVE  LET page == LoadCandidateArticlesPage
               read == Len(script.articles)
           IN /\ page \in Seq(Cards)
              /\ script.source = "articles" =>
                     \A u \in Cards : stage[u] # "absent" /\ PlaceOf(u) > read =>
                         \/ u \in Range(page)
                         \/ Len(page) = PageSize /\ PlaceOf(u) > read + PageSize
<1> DEFINE page == LoadCandidateArticlesPage
           read == Len(script.articles)
<1>1. read \in Nat /\ PageSize \in Nat \ {0}
  BY BackfillAssumption DEF ScriptTypes, Scripts, PageSize
<1>2. Listed \in Seq(Cards) /\ Len(Listed) \in Nat
  BY ArticlesListed
<1>3. PICK last \in Int :
         /\ page = SubSeq(Listed, read + 1, last)
         /\ last <= read + PageSize /\ last <= Len(Listed)
         /\ last = read + PageSize \/ last = Len(Listed)
  <2>1. page = SubSeq(Listed, read + 1, IF read + 1 + PageSize - 1 < Len(Listed)
                                        THEN read + 1 + PageSize - 1 ELSE Len(Listed))
    BY DEF LoadCandidateArticlesPage
  <2> HIDE DEF read, page
  <2> QED
    BY <1>1, <1>2, <2>1
<1> HIDE DEF read, page
<1>4. \A i \in read + 1 .. last : Listed[i] \in Cards
  BY <1>1, <1>2, <1>3
<1>5. /\ page \in Seq(Cards)
      /\ Len(page) = IF read + 1 <= last THEN last - (read + 1) + 1 ELSE 0
      /\ \A i \in 1 .. last - (read + 1) + 1 : page[i] = Listed[read + 1 + i - 1]
  BY <1>1, <1>3, <1>4, SubSeqProperties
<1>6. ASSUME script.source = "articles", NEW u \in Cards, stage[u] # "absent", PlaceOf(u) > read
      PROVE  \/ u \in Range(page)
             \/ Len(page) = PageSize /\ PlaceOf(u) > read + PageSize
  <2>1. PlaceOf(u) \in 1..Len(Listed) /\ Listed[PlaceOf(u)] = u
    BY <1>6, ArticlesListed
  <2>2. CASE PlaceOf(u) <= last
    <3>1. PlaceOf(u) - read \in DOMAIN page /\ page[PlaceOf(u) - read] = u
      BY <1>1, <1>2, <1>5, <1>6, <2>1, <2>2
    <3> QED
      BY <3>1 DEF Range
  <2>3. CASE PlaceOf(u) > last
    BY <1>1, <1>2, <1>3, <1>5, <1>6, <2>1, <2>3
  <2> QED
    BY <1>1, <1>2, <2>1, <2>2, <2>3
<1> QED
  BY <1>5, <1>6 DEF read, page

\* A page that yields no task leaves what is ahead ahead, and the scan goes on.
LEMMA ScanMakesHeadway == HeadwayInv /\ ScanPage => HeadwayInv'
<1> SUFFICES ASSUME HeadwayInv, ScanPage PROVE HeadwayInv'
  OBVIOUS
<1> DEFINE page == LoadCandidateArticlesPage
           limit == BackfillLimit - Len(script.tasks)
           found == BuildTranslationTasks(page, limit)
           tasks == script.tasks \o found
           scanned == script.articles \o page
           ends == \/ page = <<>>
                   \/ ~script.all
                   \/ Len(page) < PageSize
                   \/ Len(scanned) >= CandidateLimit
                   \/ Len(tasks) >= BackfillLimit
           next == CASE ~ends                 -> "scan"
                  [] ends /\ tasks = <<>> -> "done"
                  [] ends /\ tasks # <<>> -> "translate"
<1>0. /\ ScriptTypes /\ script.at = "scan"
      /\ script' = [script EXCEPT !.at = next, !.articles = scanned, !.tasks = tasks]
      /\ UNCHANGED <<stage, summaryRows, failureCache, openBefore>>
  BY DEF HeadwayInv, ScanPage
<1>1. page \in Seq(Cards)
  BY <1>0, PageIsNext
<1>2. script.articles \in Seq(Cards) /\ script.tasks \in Seq(CardRows)
  BY <1>0 DEF ScriptTypes, Scripts
<1>3. limit \in Nat \ {0}
  BY <1>0, <1>2, BackfillAssumption DEF ScriptTypes
<1>4. /\ found \in Seq(CardRows)
      /\ \A i \in DOMAIN found : found[i] \in Cards \X script.codes /\ Missing(found[i])
      /\ found = <<>> => \A row \in Range(page) \X script.codes : ~Missing(row)
  <2> HIDE DEF page, limit
  <2> QED
    BY <1>0, <1>1, <1>3, TasksAreMissing
<1> HIDE DEF page, limit, found
<1>5. /\ tasks \in Seq(CardRows) /\ scanned \in Seq(Cards)
      /\ Len(scanned) = Len(script.articles) + Len(page)
      /\ tasks = <<>> => script.tasks = <<>> /\ found = <<>>
      /\ \A i \in DOMAIN tasks : \/ \E j \in DOMAIN script.tasks : tasks[i] = script.tasks[j]
                                 \/ \E j \in DOMAIN found : tasks[i] = found[j]
  <2>1. tasks \in Seq(CardRows) /\ scanned \in Seq(Cards)
    BY <1>1, <1>2, <1>4
  <2>2. Len(scanned) = Len(script.articles) + Len(page) /\ Len(tasks) = Len(script.tasks) + Len(found)
    BY <1>1, <1>2, <1>4
  <2>3. tasks = <<>> => script.tasks = <<>> /\ found = <<>>
    BY <1>2, <1>4, <2>2
  <2>4. ASSUME NEW i \in DOMAIN tasks
        PROVE  \/ \E j \in DOMAIN script.tasks : tasks[i] = script.tasks[j]
               \/ \E j \in DOMAIN found : tasks[i] = found[j]
    <3>1. CASE i <= Len(script.tasks)
      BY <1>2, <1>4, <2>2, <2>4, <3>1
    <3>2. CASE i > Len(script.tasks)
      <4>1. i - Len(script.tasks) \in DOMAIN found /\ tasks[i] = found[i - Len(script.tasks)]
        BY <1>2, <1>4, <2>2, <2>4, <3>2
      <4> QED
        BY <4>1
    <3> QED
      BY <1>2, <1>4, <2>2, <2>4, <3>1, <3>2
  <2> QED
    BY <2>1, <2>2, <2>3, <2>4
<1>6. /\ next \in {"scan", "done", "translate"}
      /\ next = "scan" => Len(tasks) < BackfillLimit
      /\ next = "done" => ends /\ tasks = <<>>
      /\ next = "translate" => tasks # <<>>
  <2>1. ends \/ Len(tasks) < BackfillLimit
    <3> HIDE DEF tasks, scanned
    <3> QED
      BY <1>5, BackfillAssumption
  <2> HIDE DEF ends, tasks
  <2> QED
    BY <2>1
<1>7. /\ script' \in Scripts
      /\ script'.at = next /\ script'.articles = scanned /\ script'.tasks = tasks
      /\ script'.failed = script.failed /\ script'.source = script.source
      /\ script'.retry = script.retry /\ script'.force = script.force
      /\ script'.codes = script.codes
  <2> HIDE DEF next, tasks, scanned
  <2> QED
    BY <1>0, <1>5, <1>6 DEF ScriptTypes, Scripts
<1>8. ScriptTypes'
  BY <1>0, <1>6, <1>7 DEF ScriptTypes, StagesKept
<1>9. AllOpen' = AllOpen /\ (Settled' <=> Settled) /\ (\A u \in Cards : PlaceOf(u)' = PlaceOf(u) /\ OpenOf(u)' = OpenOf(u))
  BY <1>0 DEF AllOpen, OpenOf, Open, Settled, PlaceOf, UpTo
<1>10. ASSUME Counted' PROVE RunKnows' /\ RunSettles'
  <2>1. Counted /\ RunKnows /\ RunSettles /\ script.failed = failureCache
    BY <1>0, <1>7, <1>10 DEF Counted, HeadwayInv, RunKnows
  <2>2. RunKnows'
    BY <1>0, <1>7, <1>9, <2>1 DEF RunKnows
  <2>3. \A row \in Cards \X script.codes : Missing(row) <=> row \in AllOpen
    BY <2>1, OpenRows DEF Missing, ExistingSummaries, Counted
  <2>4. \A i \in DOMAIN tasks : tasks[i] \in openBefore
    BY <1>0, <1>4, <1>5, <2>1, <2>3 DEF RunKnows, RunSettles
  <2>5. ASSUME tasks = <<>>, ~Settled PROVE next = "scan" /\ OpenAhead'
    <3> HIDE DEF tasks, scanned
    <3>1. PICK u \in Cards : stage[u] # "absent" /\ OpenOf(u) # {} /\ PlaceOf(u) > Len(script.articles)
      BY <1>0, <1>5, <2>1, <2>5 DEF RunSettles, OpenAhead
    <3>2. PICK code \in script.codes : <<u, code>> \in OpenOf(u)
      BY <3>1 DEF OpenOf, Open
    <3>3. Missing(<<u, code>>)
      BY <2>3, <3>2 DEF AllOpen, CardRows
    <3>4. u \notin Range(page)
      BY <1>4, <1>5, <2>5, <3>3
    <3>5. Len(page) = PageSize /\ PlaceOf(u) > Len(script.articles) + PageSize
      BY <1>0, <2>1, <3>1, <3>4, PageIsNext DEF page, Counted
    <3>6. PlaceOf(u) \in Nat /\ PlaceOf(u) <= CandidateLimit
      BY <1>0, <2>1, <3>1, ArticlesListed, BackfillAssumption DEF Counted
    <3>7. Len(script.articles) \in Nat /\ PageSize \in Nat \ {0} /\ (~script.all => PageSize = CandidateLimit)
      BY <1>2, BackfillAssumption DEF PageSize
    <3>8. page # <<>> /\ script.all /\ Len(scanned) < CandidateLimit
      <4>1. Len(page) \in Nat /\ Len(page) # 0
        BY <1>1, <3>5, <3>7
      <4>2. page # <<>>
        BY <4>1
      <4>3. script.all
        BY <3>5, <3>6, <3>7, BackfillAssumption
      <4> QED
        BY <1>5, <3>5, <3>6, <3>7, <4>2, <4>3, BackfillAssumption
    <3>9. Len(tasks) < BackfillLimit
      BY <2>5, BackfillAssumption
    <3>10. ~ends
      <4>1. ~(Len(page) < PageSize) /\ ~(Len(scanned) >= CandidateLimit)
        BY <1>5, <3>5, <3>7, <3>8, BackfillAssumption
      <4>2. ~(Len(tasks) >= BackfillLimit)
        BY <2>5, <3>9, BackfillAssumption
      <4> QED
        BY <3>8, <4>1, <4>2
    <3>11. OpenAhead'
      BY <1>0, <1>5, <1>7, <1>9, <3>1, <3>5 DEF OpenAhead
    <3> HIDE DEF ends
    <3> QED
      BY <3>10, <3>11
  <2>6. RunSettles'
    <3> HIDE DEF next, tasks, ends
    <3> QED
      BY <1>0, <1>6, <1>7, <1>9, <2>4, <2>5 DEF RunSettles
  <2> QED
    BY <2>2, <2>6
<1> QED
  BY <1>8, <1>10 DEF HeadwayInv

\* Each task ends up saved or set aside, and it was open at the start.
LEMMA TranslationMakesHeadway ==
    ASSUME HeadwayInv, NEW answering, NEW saved, TranslateNext(answering, saved)
    PROVE  HeadwayInv'
<1> DEFINE row == Head(script.tasks)
           kept == TranslateArticle(answering) # "none" /\ saved # "failed"
           done == TranslateArticle(answering) # "none" /\ saved = "answered"
<1>0. /\ ScriptTypes /\ script.at = "translate" /\ script.tasks # <<>>
      /\ summaryRows' = IF kept THEN summaryRows \cup {row} ELSE summaryRows
      /\ script' = [script EXCEPT !.tasks = Tail(script.tasks),
                                  !.failed = IF done THEN script.failed ELSE script.failed \cup {row}]
      /\ UNCHANGED <<stage, failureCache, openBefore>>
  BY DEF HeadwayInv, TranslateNext
<1>1. script.tasks \in Seq(CardRows) /\ row \in CardRows /\ row = script.tasks[1] /\ 1 \in DOMAIN script.tasks
  BY <1>0 DEF ScriptTypes, Scripts
<1>2. /\ Tail(script.tasks) \in Seq(CardRows)
      /\ \A i \in DOMAIN Tail(script.tasks) : \E j \in DOMAIN script.tasks :
            Tail(script.tasks)[i] = script.tasks[j]
  <2>1. /\ Tail(script.tasks) \in Seq(CardRows)
        /\ \A i \in DOMAIN Tail(script.tasks) : i + 1 \in DOMAIN script.tasks
                                                /\ Tail(script.tasks)[i] = script.tasks[i + 1]
    BY <1>0, <1>1
  <2> QED
    BY <2>1
<1>3. /\ script' \in Scripts
      /\ script'.at = "translate" /\ script'.tasks = Tail(script.tasks)
      /\ script'.failed = IF done THEN script.failed ELSE script.failed \cup {row}
      /\ script'.source = script.source /\ script'.retry = script.retry /\ script'.force = script.force
      /\ script'.codes = script.codes
  <2> HIDE DEF row, done
  <2> QED
    BY <1>0, <1>1, <1>2 DEF ScriptTypes, Scripts
<1>4. ScriptTypes'
  BY <1>0, <1>3 DEF ScriptTypes, StagesKept
<1>5. AllOpen' \subseteq AllOpen /\ (Settled => Settled')
  BY <1>0, NothingReopens
<1>6. ASSUME Counted' PROVE RunKnows' /\ RunSettles'
  <2>1. Counted /\ RunKnows /\ RunSettles
    BY <1>0, <1>3, <1>6 DEF Counted, HeadwayInv
  <2>2. RunKnows'
    BY <1>0, <1>3, <1>5, <2>1 DEF RunKnows
  <2>3. row \in openBefore /\ \A i \in DOMAIN Tail(script.tasks) : Tail(script.tasks)[i] \in openBefore
    BY <1>0, <1>1, <1>2, <2>1 DEF RunSettles
  <2>4. done => Settled'
    <3> SUFFICES ASSUME done PROVE Settled'
      OBVIOUS
    <3>1. row \in summaryRows'
      BY <1>0
    <3>2. row \notin AllOpen'
      BY <3>1 DEF AllOpen, OpenOf, Open
    <3> QED
      BY <1>0, <2>3, <3>2 DEF Settled
  <2>5. ~done => script'.failed \cap openBefore' # {}
    BY <1>0, <1>3, <2>3
  <2>6. RunSettles'
    BY <1>0, <1>3, <2>3, <2>4, <2>5 DEF RunSettles
  <2> QED
    BY <2>2, <2>6
<1> QED
  BY <1>4, <1>6 DEF HeadwayInv

\* Once the file is written, what was set aside is settled.
LEMMA SavingSettles ==
    ASSUME HeadwayInv, NEW written \in BOOLEAN, SaveFailedTranslations(written)
    PROVE  HeadwayInv'
<1>0. /\ ScriptTypes /\ script.at = "translate" /\ script.tasks = <<>>
      /\ failureCache' = IF written /\ script.failed # {} THEN script.failed ELSE failureCache
      /\ openBefore' = IF written THEN openBefore ELSE {}
      /\ script' = [script EXCEPT !.at = "ready"]
      /\ UNCHANGED <<stage, summaryRows>>
  BY DEF HeadwayInv, SaveFailedTranslations
<1>1. /\ script' \in Scripts /\ script'.at = "ready" /\ script'.tasks = script.tasks
      /\ script'.failed = script.failed /\ script'.source = script.source
      /\ script'.retry = script.retry /\ script'.force = script.force
      /\ script'.codes = script.codes
  BY <1>0 DEF ScriptTypes, Scripts
<1>2. ScriptTypes'
  BY <1>0, <1>1 DEF ScriptTypes, StagesKept, Scripts
<1>3. ASSUME Counted' PROVE RunKnows' /\ RunSettles'
  <2>1. written /\ openBefore' = openBefore /\ Counted /\ RunKnows /\ RunSettles
    BY <1>0, <1>1, <1>3 DEF Counted, HeadwayInv
  <2>2. failureCache \subseteq failureCache' /\ failureCache' \subseteq script'.failed
    BY <1>0, <1>1, <2>1 DEF RunKnows
  <2>3. AllOpen' \subseteq AllOpen /\ (Settled => Settled')
    BY <1>0, <2>1, <2>2, NothingReopens
  <2>4. script.failed \cap openBefore # {} => Settled'
    <3> SUFFICES ASSUME NEW row \in script.failed, row \in openBefore PROVE Settled'
      OBVIOUS
    <3>1. row \in failureCache'
      BY <1>0, <2>1
    <3>2. row \notin AllOpen'
      BY <3>1 DEF AllOpen, OpenOf, Open
    <3> QED
      BY <2>1, <3>2 DEF Settled
  <2>5. Settled'
    BY <1>0, <2>1, <2>3, <2>4 DEF RunSettles
  <2> QED
    BY <1>1, <2>1, <2>2, <2>3, <2>5 DEF RunKnows, RunSettles
<1> QED
  BY <1>2, <1>3 DEF HeadwayInv

\* What is settled stays so while the script looks up and publishes what is ready.
LEMMA PublishingLeavesSettled ==
    ASSUME HeadwayInv, LookUpReady \/ \E applied \in BOOLEAN : PublishReady(applied)
    PROVE  HeadwayInv'
<1>0. /\ ScriptTypes /\ script.at \in {"ready", "publish"}
      /\ UNCHANGED <<summaryRows, failureCache, openBefore>>
  BY DEF HeadwayInv, LookUpReady, PublishReady
<1> DEFINE Moved ==
             /\ StagesKept' /\ script' \in Scripts /\ script'.at \in {"publish", "done"}
             /\ script'.failed = script.failed /\ script'.source = script.source
             /\ script'.retry = script.retry /\ script'.force = script.force
             /\ script'.codes = script.codes
<1>1. LookUpReady => Moved
  <2> SUFFICES ASSUME LookUpReady PROVE Moved
    OBVIOUS
  <2> DEFINE ready == ReadyUrls(Range(script.articles))
  <2>1. ready \in SUBSET Cards /\ <<>> \in Seq(Cards)
    BY <1>0 DEF ReadyUrls, Range, ScriptTypes, Scripts
  <2>2. script' = [script EXCEPT !.at = "publish", !.articles = <<>>, !.readyUrls = ready]
        /\ StagesKept'
    BY <1>0 DEF LookUpReady, ScriptTypes, StagesKept
  <2> HIDE DEF ready
  <2> QED
    BY <1>0, <2>1, <2>2 DEF ScriptTypes, Scripts
<1>2. ASSUME NEW applied \in BOOLEAN, PublishReady(applied) PROVE Moved
  <2>1. script' = [script EXCEPT !.at = "done"] /\ StagesKept'
    BY <1>0, <1>2 DEF PublishReady, ScriptTypes, StagesKept
  <2> QED
    BY <1>0, <2>1 DEF ScriptTypes, Scripts
<1>3. Moved
  BY <1>1, <1>2
<1> HIDE DEF Moved
<1>4. ScriptTypes'
  BY <1>0, <1>3 DEF Moved, ScriptTypes
<1>5. AllOpen' = AllOpen /\ (Settled' <=> Settled)
  BY <1>0, <1>3 DEF Moved, AllOpen, OpenOf, Open, Settled
<1>6. ASSUME Counted' PROVE RunKnows' /\ RunSettles'
  <2>1. Counted /\ RunKnows /\ RunSettles
    BY <1>0, <1>3, <1>6 DEF Moved, Counted, HeadwayInv
  <2> QED
    BY <1>0, <1>3, <1>5, <2>1 DEF Moved, RunKnows, RunSettles
<1> QED
  BY <1>4, <1>6 DEF HeadwayInv

LEMMA HeadwayKept == HeadwayInv /\ [BackfillNext]_backfillState => HeadwayInv'
<1> SUFFICES ASSUME HeadwayInv, [BackfillNext]_backfillState PROVE HeadwayInv'
  OBVIOUS
<1>1. CASE EndScript
  <2>1. Stopped \in Scripts /\ Stopped.at = "stopped"
    BY DEF Stopped, Scripts
  <2>2. ScriptTypes' /\ ~Counted'
    BY <1>1, <2>1 DEF EndScript, StopScript, HeadwayInv, ScriptTypes, StagesKept, Counted
  <2> QED
    BY <2>2 DEF HeadwayInv
<1>2. CASE UNCHANGED backfillState
  <2>1. /\ ScriptTypes' /\ AllOpen' = AllOpen /\ (Settled' <=> Settled)
        /\ \A u \in Cards : PlaceOf(u)' = PlaceOf(u) /\ OpenOf(u)' = OpenOf(u)
    BY <1>2 DEF backfillState, HeadwayInv, ScriptTypes, StagesKept, Scripts, AllOpen, OpenOf, Open,
                Settled, PlaceOf, UpTo
  <2>2. script' = script /\ (Counted' => Counted) /\ (RunKnows => RunKnows')
    BY <1>2, <2>1 DEF backfillState, Counted, RunKnows
  <2>3. OpenAhead => OpenAhead'
    BY <1>2, <2>1 DEF OpenAhead, backfillState
  <2>4. RunSettles => RunSettles'
    BY <1>2, <2>1, <2>2, <2>3 DEF RunSettles, backfillState
  <2> QED
    BY <2>1, <2>2, <2>4 DEF HeadwayInv
<1> QED
  BY <1>1, <1>2, StartIsAhead, ScanMakesHeadway, TranslationMakesHeadway, SavingSettles,
     PublishingLeavesSettled, WorkerLeavesHeadway DEF BackfillNext

\* A counted run of the script that is done has settled a row that was open at its start,
\* or there was none to settle (buildTranslationTasks, saveFailedTranslationCache).
THEOREM RunsMakeHeadway == BackfillSpec => []HeadwayIsMade
<1>1. HeadwayInv => HeadwayIsMade
  BY DEF HeadwayInv, Counted, RunSettles, Settled, AllOpen, OpenOf, HeadwayIsMade
<1> QED
  BY <1>1, HeadwayStart, HeadwayKept, PTL DEF BackfillSpec
===============================================================================
