------------------------- MODULE FailoverAlertsProofs -------------------------
(***************************************************************************)
(* What is proved of the failover alerts: types, and that nothing is       *)
(* suppressed that was not sent.  The invariant behind it says that a map, *)
(* the stored one or an invocation's copy, is never ahead of the           *)
(* deliveries, except for the alerts that invocation is about to deliver.  *)
(***************************************************************************)
EXTENDS FailoverAlerts, FiniteSetTheorems, TLAPS

\* Every alert a status calls for has a fingerprint.
LEMMA CandidatesTyped ==
    ASSUME NEW s \in AlertStatus, NEW t \in Nat
    PROVE  BuildFailoverAlertCandidates(s, t) \subseteq Fingerprints
<1>1. /\ MoveFingerprint("failover_to_vercel", s) \in Fingerprints
      /\ MoveFingerprint("failback_to_vps", s) \in Fingerprints
      /\ DriftFingerprint(s) \in Fingerprints
  BY DEF MoveFingerprint, DriftFingerprint, Fingerprints, AlertStatus
<1>2. /\ [type |-> "stale_controller", staleReason |-> s.staleReason] \in Fingerprints
      /\ [type |-> "manual_lock_enabled"] \in Fingerprints
  BY DEF Fingerprints, AlertStatus
<1> QED
  BY <1>1, <1>2 DEF BuildFailoverAlertCandidates

\* Every way of rewriting the status yields a status.
LEMMA StatusTyped ==
    ASSUME NEW s \in AlertStatus, NEW t \in Nat,
           NEW a \in Targets, NEW d \in Targets, NEW b \in BOOLEAN
    PROVE  /\ \A answers \in [Hosts -> Classifications] :
                 /\ ApplyDnsReadback(s, answers, t) \in AlertStatus
                 /\ Checked(s, d, answers, b, t) \in AlertStatus
           /\ \A action \in Reasons : Recorded(s, a, d, b, t, action) \in AlertStatus
<1>1. ASSUME NEW u \in AlertStatus, NEW answers \in [Hosts -> Classifications]
      PROVE  ApplyDnsReadback(u, answers, t) \in AlertStatus
  <2> DEFINE actual == [h \in Hosts |-> Classify(answers[h])]
  <2>1. actual \in [Hosts -> Classifications]
    BY DEF Classify, Classifications
  <2>2. DeriveActiveTargetFromActual(actual, u.activeDnsTarget) \in Targets
    BY DEF DeriveActiveTargetFromActual, AlertStatus
  <2> HIDE DEF actual
  <2>3. [u EXCEPT !.generatedAt = t,
                  !.activeDnsTarget = DeriveActiveTargetFromActual(actual, @),
                  !.actual = actual,
                  !.stale = FALSE] \in AlertStatus
    BY <2>1, <2>2 DEF AlertStatus
  <2> QED
    BY <2>3 DEF ApplyDnsReadback, actual
<1>2. ASSUME NEW answers \in [Hosts -> Classifications]
      PROVE  Checked(s, d, answers, b, t) \in AlertStatus
  <2>1. [s EXCEPT !.desiredDnsTarget = d] \in AlertStatus
    BY DEF AlertStatus
  <2>2. (b /\ IsPastPropagationWindow(s, t)) \in BOOLEAN
    BY DEF IsPastPropagationWindow
  <2>3. ApplyDnsReadback([s EXCEPT !.desiredDnsTarget = d], answers, t) \in AlertStatus
    BY <1>1, <2>1
  <2> QED
    BY <2>2, <2>3 DEF Checked, ApplyLiveOriginReadiness, AlertStatus, StaleReasons
<1>3. ASSUME NEW action \in Reasons
      PROVE  Recorded(s, a, d, b, t, action) \in AlertStatus
  BY DEF Recorded, ApplyDnsAction, AlertStatus, Time
<1> QED
  BY <1>1, <1>2, <1>3

\* Invocations keep their type.
LEMMA EmissionsTyped ==
    ASSUME NEW inv \in EmissionState, NEW s \in AlertStatus, NEW t \in Nat
    PROVE  /\ IdleEmission \in EmissionState
           /\ Continue(inv) \in EmissionState
           /\ \A then \in {"idle", "probing"} :
                 StartEmission(inv, s, t, then) \in EmissionState
<1>1. IdleEmission \in EmissionState
  BY DEF IdleEmission, EmissionState, Reasons
<1>2. Continue(inv) \in EmissionState
  BY <1>1 DEF Continue, IdleEmission, EmissionState
<1>3. ASSUME NEW then \in {"idle", "probing"}
      PROVE  StartEmission(inv, s, t, then) \in EmissionState
  BY CandidatesTyped DEF StartEmission, EmissionState
<1> QED
  BY <1>1, <1>2, <1>3

LEMMA MapsTyped ==
    ASSUME NEW map, TimeMap(map), NEW sent \in SUBSET Fingerprints, NEW t \in Nat
    PROVE  /\ TimeMap(Mark(map, sent, t))
           /\ TimeMap(NothingSent)
           /\ \A kept \in NewestEntries(map) :
                 TimeMap(kept) /\ Cardinality(DOMAIN kept) <= SentLimit
           /\ \A f \in sent : Latest(map, f, t) \in Nat
<1>1. TimeMap(Mark(map, sent, t)) /\ TimeMap(NothingSent)
  BY DEF TimeMap, Mark, NothingSent
<1>2. ASSUME NEW kept \in NewestEntries(map)
      PROVE  TimeMap(kept) /\ Cardinality(DOMAIN kept) <= SentLimit
  <2>1. PICK S \in SUBSET DOMAIN map :
            /\ kept = [f \in S |-> map[f]]
            /\ Cardinality(S) <= SentLimit
    BY DEF NewestEntries
  <2>2. DOMAIN kept = S
    BY <2>1
  <2>3. TimeMap(kept)
    BY <2>1, <2>2 DEF TimeMap
  <2> QED
    BY <2>1, <2>2, <2>3
<1>3. \A f \in sent : Latest(map, f, t) \in Nat
  BY DEF Latest, TimeMap
<1> QED
  BY <1>1, <1>2, <1>3

-----------------------------------------------------------------------------
(* Types. *)

LEMMA InitTyped == Init => TypeOK
<1> SUFFICES ASSUME Init PROVE TypeOK
  OBVIOUS
<1>1. status \in AlertStatus
  BY DEF Init, AlertStatus, Targets, Classifications, Time, NoTime, Reasons, StaleReasons
<1>2. TimeMap(NothingSent) /\ DOMAIN NothingSent = {}
  BY DEF TimeMap, NothingSent
<1>3. IdleEmission \in EmissionState
  BY DEF IdleEmission, EmissionState, Reasons
<1>4. Cardinality(DOMAIN sentAt) <= SentLimit
  BY <1>2, FS_EmptySet, AlertAssumption DEF Init
<1> QED
  BY <1>1, <1>2, <1>3, <1>4, AlertAssumption DEF Init, TypeOK

\* A stored status is read as a status.
LEMMA ReadTyped ==
    ASSUME NEW t \in Nat, status \in AlertStatus
    PROVE  ReadFailoverStatus(t) \subseteq AlertStatus
<1>1. StaleReasonsAt(t) \subseteq StaleReasons
  BY DEF StaleReasonsAt, StaleReasons, AlertStatus
<1>2. ASSUME NEW r \in StaleReasonsAt(t)
      PROVE  [status EXCEPT !.stale = (r # "none"), !.staleReason = r] \in AlertStatus
  <2>1. r \in StaleReasons /\ (r # "none") \in BOOLEAN
    BY <1>1
  <2> QED
    BY <2>1 DEF AlertStatus
<1> QED
  BY <1>2 DEF ReadFailoverStatus

\* Only an emission's own slot changes.
LEMMA EmitterTyped ==
    ASSUME TypeOK, NEW e \in Emitters, EmitterStep(e)
    PROVE  TypeOK'
<1>1. /\ emit[e] \in EmissionState /\ emit[e].nowMs \in Nat /\ now \in Nat
      /\ DOMAIN copy = Emitters /\ TimeMap(copy[e])
  BY AlertAssumption DEF TypeOK, EmissionState
<1>2. CASE RunHealthCheck(e)
  <2>1. ReadFailoverStatus(now) \subseteq AlertStatus
    BY <1>1, ReadTyped DEF TypeOK
  <2>2. [emit[e] EXCEPT !.pc = "probing", !.nowMs = now] \in EmissionState
    BY <1>1 DEF EmissionState
  <2>3. \A seen \in ReadFailoverStatus(now), then \in {"idle", "probing"} :
           StartEmission(emit[e], seen, now, then) \in EmissionState
    BY <1>1, <2>1, EmissionsTyped
  <2>4. emit' \in [Emitters -> EmissionState]
    BY <1>2, <2>2, <2>3 DEF RunHealthCheck, TypeOK
  <2> QED
    BY <1>2, <2>4 DEF RunHealthCheck, TypeOK
<1>3. CASE RecordCheck(e)
  <2>1. PICK desired \in Targets, answers \in [Hosts -> Contents], mismatch \in BOOLEAN :
           /\ status' = Checked(status, desired, answers, mismatch, emit[e].nowMs)
           /\ emit' = [emit EXCEPT ![e] = StartEmission(@, status', @.nowMs, "idle")]
    BY <1>3 DEF RecordCheck, TypeOK, AlertStatus
  <2>2. status' \in AlertStatus
    BY <1>1, <2>1, StatusTyped, AlertAssumption DEF TypeOK
  <2>3. StartEmission(emit[e], status', emit[e].nowMs, "idle") \in EmissionState
    BY <1>1, <2>2, EmissionsTyped
  <2>4. emit' \in [Emitters -> EmissionState]
    BY <2>1, <2>3 DEF TypeOK
  <2> QED
    BY <1>3, <2>2, <2>4 DEF RecordCheck, TypeOK
<1>4. ASSUME NEW action \in Requests, ExecuteManualLock(e, action) PROVE TypeOK'
  <2>1. PICK s \in ReadFailoverStatus(now) :
           status' = Recorded(s, s.activeDnsTarget, s.desiredDnsTarget,
                              action = "enable_manual_lock", now, action)
    BY <1>4 DEF ExecuteManualLock
  <2>2. /\ s \in AlertStatus
        /\ s.activeDnsTarget \in Targets
        /\ s.desiredDnsTarget \in Targets
        /\ action \in Reasons
    BY <1>1, <2>1, ReadTyped, AlertAssumption DEF TypeOK, AlertStatus
  <2>3. status' \in AlertStatus
    BY <1>1, <2>1, <2>2, StatusTyped
  <2>4. StartEmission(emit[e], status', now, "idle") \in EmissionState
    BY <1>1, <2>3, EmissionsTyped
  <2>5. emit' \in [Emitters -> EmissionState]
    BY <1>4, <2>4 DEF ExecuteManualLock, TypeOK
  <2> QED
    BY <1>4, <2>3, <2>5 DEF ExecuteManualLock, TypeOK
<1>5. ASSUME NEW action \in Requests, StartDnsAction(e, action) PROVE TypeOK'
  <2>1. status.manualLock \in BOOLEAN /\ action \in Reasons
    BY AlertAssumption DEF TypeOK, AlertStatus
  <2>2. [emit[e] EXCEPT !.pc = "acting", !.nowMs = now, !.action = action,
                        !.seenLock = status.manualLock] \in EmissionState
    BY <1>1, <2>1 DEF EmissionState
  <2>3. emit' \in [Emitters -> EmissionState]
    BY <1>5, <2>2 DEF StartDnsAction, TypeOK
  <2> QED
    BY <1>5, <2>3 DEF StartDnsAction, TypeOK
<1>6. CASE ExecuteDnsAction(e)
  <2> DEFINE target == IF emit[e].action = "force_dns_to_vercel" THEN "vercel" ELSE "vps"
  <2>1. /\ target \in Targets /\ [h \in Hosts |-> target] \in [Hosts -> Classifications]
        /\ emit[e].action \in Reasons /\ emit[e].seenLock \in BOOLEAN
    BY <1>1 DEF Targets, Classifications, EmissionState
  <2>2. CASE UNCHANGED status /\ emit' = [emit EXCEPT ![e] = IdleEmission]
    <3>1. emit' \in [Emitters -> EmissionState]
      BY <1>1, <2>2, EmissionsTyped DEF TypeOK
    <3> QED
      BY <1>6, <2>2, <3>1 DEF ExecuteDnsAction, TypeOK
  <2> DEFINE cleared == [status EXCEPT !.staleReason = "none"]
  <2>3. CASE /\ status' = Recorded(ApplyDnsReadback(cleared, [h \in Hosts |-> target], emit[e].nowMs),
                                   target, target, emit[e].seenLock, emit[e].nowMs, emit[e].action)
             /\ emit' = [emit EXCEPT ![e] = StartEmission(IdleEmission, status', now, "idle")]
    <3>0. cleared \in AlertStatus
      BY DEF TypeOK, AlertStatus, StaleReasons
    <3>1. ApplyDnsReadback(cleared, [h \in Hosts |-> target], emit[e].nowMs) \in AlertStatus
      BY <1>1, <2>1, <3>0, StatusTyped
    <3>2. status' \in AlertStatus
      BY <1>1, <2>1, <2>3, <3>1, StatusTyped
    <3>3. StartEmission(IdleEmission, status', now, "idle") \in EmissionState
      BY <1>1, <3>2, EmissionsTyped
    <3>4. emit' \in [Emitters -> EmissionState]
      BY <2>3, <3>3 DEF TypeOK
    <3> QED
      BY <1>6, <3>2, <3>4 DEF ExecuteDnsAction, TypeOK
  <2> QED
    BY <1>6, <2>2, <2>3 DEF ExecuteDnsAction
<1>7. CASE ReadAlertState(e)
  <2>1. ToSend(e) \in SUBSET Fingerprints
    BY <1>1 DEF ToSend, EmissionState
  <2>2. [emit[e] EXCEPT !.pc = "sending", !.candidates = {}, !.sending = ToSend(e)] \in EmissionState
    BY <1>1, <2>1 DEF EmissionState
  <2>3. Continue(emit[e]) \in EmissionState
    BY <1>1, EmissionsTyped DEF TypeOK
  <2>4. emit' \in [Emitters -> EmissionState]
    BY <1>7, <2>2, <2>3 DEF ReadAlertState, TypeOK
  <2>5. TimeMap(copy'[e])
    BY <1>1, <1>7, <2>1, MapsTyped DEF ReadAlertState, TypeOK
  <2>6. DOMAIN copy' = Emitters /\ \A q \in Emitters : TimeMap(copy'[q])
    BY <1>7, <2>5 DEF ReadAlertState, TypeOK
  <2> QED
    BY <1>7, <2>4, <2>6 DEF ReadAlertState, TypeOK
<1>8. ASSUME NEW f \in emit[e].sending, DeliverAlert(e, f) PROVE TypeOK'
  <2>1. /\ f \in Fingerprints
        /\ [emit[e] EXCEPT !.sending = @ \ {f}] \in EmissionState
    BY <1>1 DEF EmissionState
  <2>2. emit' \in [Emitters -> EmissionState]
    BY <1>8, <2>1 DEF DeliverAlert, TypeOK
  <2>3. Latest(delivered, f, emit[e].nowMs) \in Nat
    BY <1>1, <2>1, MapsTyped DEF TypeOK
  <2>4. TimeMap(delivered')
    BY <1>8, <2>1, <2>3, MapsTyped DEF DeliverAlert, TypeOK
  <2> QED
    BY <1>8, <2>2, <2>4 DEF DeliverAlert, TypeOK
<1>9. CASE WriteAlertState(e)
  <2>1. emit' \in [Emitters -> EmissionState]
    BY <1>1, <1>9, EmissionsTyped DEF WriteAlertState, TypeOK
  <2>2. TimeMap(sentAt') /\ Cardinality(DOMAIN sentAt') <= SentLimit
    BY <1>1, <1>9, MapsTyped DEF WriteAlertState
  <2>3. TimeMap(NothingSent)
    BY DEF TimeMap, NothingSent
  <2>4. DOMAIN copy' = Emitters /\ \A q \in Emitters : TimeMap(copy'[q])
    BY <1>9, <2>3 DEF WriteAlertState, TypeOK
  <2> QED
    BY <1>9, <2>1, <2>2, <2>4 DEF WriteAlertState, TypeOK
<1> QED
  BY <1>2, <1>3, <1>4, <1>5, <1>6, <1>7, <1>8, <1>9 DEF EmitterStep

LEMMA NextTyped == TypeOK /\ [Next]_vars => TypeOK'
<1> SUFFICES ASSUME TypeOK, [Next]_vars PROVE TypeOK'
  OBVIOUS
<1>1. ASSUME NEW e \in Emitters, EmitterStep(e) PROVE TypeOK'
  BY <1>1, EmitterTyped
<1>2. CASE Crash
  <2>1. IdleEmission \in EmissionState /\ TimeMap(NothingSent)
    BY DEF IdleEmission, EmissionState, Reasons, TimeMap, NothingSent
  <2>2. /\ emit' \in [Emitters -> EmissionState]
        /\ DOMAIN copy' = Emitters /\ \A e \in Emitters : TimeMap(copy'[e])
    BY <1>2, <2>1 DEF Crash
  <2>3. crashes' \in 0 .. MaxCrashes
    BY <1>2, AlertAssumption DEF Crash, TypeOK
  <2> QED
    BY <1>2, <2>2, <2>3 DEF Crash, TypeOK
<1>3. CASE Tick
  <2>1. now' \in 0 .. MaxTime
    BY <1>3, AlertAssumption DEF Tick, TypeOK
  <2> QED
    BY <1>3, <2>1 DEF Tick, TypeOK
<1>4. CASE UNCHANGED vars
  BY <1>4 DEF vars, TypeOK
<1> QED
  BY <1>1, <1>2, <1>3, <1>4 DEF Next

\* The status, the maps and the invocations keep their types, and the stored
\* map its bound.
THEOREM AlertTypes == Spec => []TypeOK
BY InitTyped, NextTyped, PTL DEF Spec

-----------------------------------------------------------------------------
(* Nothing is suppressed that was not sent. *)

\* A time on file is not ahead of the delivery it stands for.
Honest(map, f) == f \in DOMAIN delivered /\ map[f] <= delivered[f]

\* The stored map is honest; so is a copy, but for the alerts still to be
\* delivered, which it marks with the time they will be delivered under.
HonestMaps ==
    /\ \A f \in DOMAIN sentAt : Honest(sentAt, f)
    /\ \A e \in Emitters : emit[e].pc = "sending" =>
          /\ \A f \in DOMAIN copy[e] \ emit[e].sending : Honest(copy[e], f)
          /\ \A f \in emit[e].sending : f \in DOMAIN copy[e] /\ copy[e][f] = emit[e].nowMs

IInv == TypeOK /\ HonestMaps

LEMMA InitHonest == Init => HonestMaps
BY DEF Init, HonestMaps, NothingSent, IdleEmission

\* Steps that neither deliver nor write leave the maps alone, and no other
\* invocation's copy.
LEMMA QuietSteps ==
    ASSUME IInv, NEW e \in Emitters, TypeOK',
           UNCHANGED <<sentAt, delivered, copy>>,
           \A d \in Emitters \ {e} : emit'[d] = emit[d],
           emit'[e].pc # "sending"
    PROVE  HonestMaps'
BY DEF IInv, HonestMaps, Honest

LEMMA EmitterHonest ==
    ASSUME IInv, NEW e \in Emitters, EmitterStep(e)
    PROVE  HonestMaps'
<1>1. /\ TypeOK /\ TypeOK' /\ HonestMaps
      /\ emit[e] \in EmissionState /\ emit[e].nowMs \in Nat
      /\ DOMAIN emit = Emitters /\ DOMAIN copy = Emitters
  BY EmitterTyped DEF IInv, TypeOK, EmissionState
<1>2. \A inv \in EmissionState : Continue(inv).pc # "sending"
  <2> TAKE inv \in EmissionState
  <2>1. Continue(inv) = [IdleEmission EXCEPT !.pc = inv.then,
                         !.nowMs = IF inv.then = "probing" THEN inv.nowMs ELSE 0]
    BY DEF Continue
  <2>2. Continue(inv).pc = inv.then
    BY <2>1 DEF IdleEmission
  <2> QED
    BY <2>2 DEF EmissionState
<1>3. \A inv, s, t, then : "pc" \in DOMAIN inv => StartEmission(inv, s, t, then).pc = "configuring"
  BY DEF StartEmission
<1>4. "pc" \in DOMAIN emit[e] /\ "pc" \in DOMAIN IdleEmission
  BY <1>1 DEF EmissionState, IdleEmission
<1>5. CASE RunHealthCheck(e)
  <2>1. emit'[e].pc # "sending"
    BY <1>1, <1>3, <1>4, <1>5 DEF RunHealthCheck
  <2> QED
    BY <1>1, <1>5, <2>1, QuietSteps DEF RunHealthCheck
<1>6. CASE RecordCheck(e)
  <2>1. emit'[e].pc # "sending"
    BY <1>1, <1>3, <1>4, <1>6 DEF RecordCheck
  <2> QED
    BY <1>1, <1>6, <2>1, QuietSteps DEF RecordCheck
<1>7. ASSUME NEW action \in Requests, ExecuteManualLock(e, action) PROVE HonestMaps'
  <2>1. emit'[e].pc # "sending"
    BY <1>1, <1>3, <1>4, <1>7 DEF ExecuteManualLock
  <2> QED
    BY <1>1, <1>7, <2>1, QuietSteps DEF ExecuteManualLock
<1>8. ASSUME NEW action \in Requests, StartDnsAction(e, action) PROVE HonestMaps'
  <2>1. emit'[e].pc # "sending"
    BY <1>1, <1>4, <1>8 DEF StartDnsAction
  <2> QED
    BY <1>1, <1>8, <2>1, QuietSteps DEF StartDnsAction
<1>9. CASE ExecuteDnsAction(e)
  <2>1. emit'[e].pc # "sending"
    BY <1>1, <1>3, <1>4, <1>9 DEF ExecuteDnsAction, IdleEmission
  <2> QED
    BY <1>1, <1>9, <2>1, QuietSteps DEF ExecuteDnsAction
<1>10. CASE ReadAlertState(e)
  <2>1. CASE ToSend(e) = {}
    <3>1. emit'[e].pc # "sending"
      BY <1>1, <1>2, <1>10, <2>1 DEF ReadAlertState
    <3> QED
      BY <1>1, <1>10, <3>1 DEF ReadAlertState, HonestMaps, Honest
  <2>2. CASE ToSend(e) # {}
    <3>1. /\ emit'[e].sending = ToSend(e) /\ emit'[e].nowMs = emit[e].nowMs
          /\ copy'[e] = Mark(sentAt, ToSend(e), emit[e].nowMs)
      BY <1>1, <1>10, <2>2 DEF ReadAlertState, EmissionState
    <3>2. /\ \A f \in DOMAIN copy'[e] \ emit'[e].sending : Honest(copy[e], f)'
          /\ \A f \in emit'[e].sending : f \in DOMAIN copy'[e] /\ copy'[e][f] = emit'[e].nowMs
      BY <1>1, <1>10, <3>1 DEF ReadAlertState, HonestMaps, Honest, Mark
    <3>3. \A d \in Emitters \ {e} : emit'[d] = emit[d] /\ copy'[d] = copy[d]
      BY <1>1, <1>10 DEF ReadAlertState
    <3>4. UNCHANGED <<sentAt, delivered>>
      BY <1>10 DEF ReadAlertState
    <3> QED
      BY <1>1, <3>2, <3>3, <3>4 DEF HonestMaps, Honest
  <2> QED
    BY <2>1, <2>2
<1>11. ASSUME NEW f \in emit[e].sending, DeliverAlert(e, f) PROVE HonestMaps'
  <2>1. emit[e].pc = "sending" /\ UNCHANGED <<sentAt, copy>>
    BY <1>11 DEF DeliverAlert
  <2>2. /\ emit'[e].sending = emit[e].sending \ {f}
        /\ emit'[e].nowMs = emit[e].nowMs
        /\ \A d \in Emitters \ {e} : emit'[d] = emit[d]
    BY <1>1, <1>11 DEF DeliverAlert, EmissionState
  <2>3. /\ delivered' = [g \in DOMAIN delivered \cup {f} |->
                            IF g = f THEN Latest(delivered, f, emit[e].nowMs) ELSE delivered[g]]
        /\ TimeMap(delivered) /\ TimeMap(sentAt) /\ \A d \in Emitters : TimeMap(copy[d])
    BY <1>1, <1>11 DEF DeliverAlert, Mark, TypeOK
  <2>4. /\ f \in DOMAIN delivered' /\ emit[e].nowMs <= delivered'[f]
        /\ \A g \in DOMAIN delivered : g \in DOMAIN delivered' /\ delivered[g] <= delivered'[g]
    BY <1>1, <2>3 DEF Latest, TimeMap
  <2>5. \A g, t : t \in Nat /\ g \in DOMAIN delivered /\ t <= delivered[g]
                 => g \in DOMAIN delivered' /\ t <= delivered'[g]
    <3>1. /\ \A g \in DOMAIN delivered : delivered[g] \in Nat
          /\ \A g \in DOMAIN delivered' : delivered'[g] \in Nat
      BY <1>1 DEF TypeOK, TimeMap
    <3> QED
      BY <2>4, <3>1
  <2>6. \A g \in DOMAIN sentAt' : Honest(sentAt, g)'
    BY <1>1, <2>1, <2>3, <2>5 DEF HonestMaps, Honest, TimeMap
  <2>7. ASSUME NEW d \in Emitters, emit'[d].pc = "sending"
        PROVE  /\ \A g \in DOMAIN copy'[d] \ emit'[d].sending : Honest(copy[d], g)'
               /\ \A g \in emit'[d].sending : g \in DOMAIN copy'[d] /\ copy'[d][g] = emit'[d].nowMs
    <3>1. CASE d = e
      <4>1. Honest(copy[e], f)'
        BY <1>1, <1>11, <2>1, <2>4 DEF HonestMaps, Honest
      <4> QED
        BY <1>1, <2>1, <2>2, <2>3, <2>5, <3>1, <4>1 DEF HonestMaps, Honest, TimeMap
    <3>2. CASE d # e
      BY <1>1, <2>1, <2>2, <2>3, <2>5, <2>7, <3>2 DEF HonestMaps, Honest, TimeMap
    <3> QED
      BY <3>1, <3>2
  <2> QED
    BY <2>6, <2>7 DEF HonestMaps
<1>12. CASE WriteAlertState(e)
  <2>1. emit'[e].pc # "sending"
    BY <1>1, <1>2, <1>12 DEF WriteAlertState
  <2>2. PICK kept \in SUBSET DOMAIN copy[e] : sentAt' = [f \in kept |-> copy[e][f]]
    BY <1>12 DEF WriteAlertState, NewestEntries
  <2>3. \A f \in DOMAIN copy[e] : Honest(copy[e], f)
    BY <1>1, <1>12 DEF WriteAlertState, HonestMaps
  <2>4. UNCHANGED delivered /\ \A d \in Emitters \ {e} : emit'[d] = emit[d] /\ copy'[d] = copy[d]
    BY <1>1, <1>12 DEF WriteAlertState
  <2>5. \A f \in DOMAIN sentAt' : Honest(sentAt, f)'
    BY <2>2, <2>3, <2>4 DEF Honest
  <2> QED
    BY <1>1, <2>1, <2>4, <2>5 DEF HonestMaps, Honest
<1> QED
  BY <1>5, <1>6, <1>7, <1>8, <1>9, <1>10, <1>11, <1>12 DEF EmitterStep

LEMMA NextHonest == IInv /\ [Next]_vars => IInv'
<1> SUFFICES ASSUME IInv, [Next]_vars PROVE IInv'
  OBVIOUS
<1>1. TypeOK'
  BY NextTyped DEF IInv
<1>2. ASSUME NEW e \in Emitters, EmitterStep(e) PROVE HonestMaps'
  BY <1>2, EmitterHonest
<1>3. ASSUME Crash PROVE HonestMaps'
  BY <1>3 DEF Crash, IInv, HonestMaps, Honest, IdleEmission
<1>4. ASSUME Tick PROVE HonestMaps'
  BY <1>4 DEF Tick, IInv, HonestMaps, Honest
<1>5. ASSUME UNCHANGED vars PROVE HonestMaps'
  BY <1>5 DEF vars, IInv, HonestMaps, Honest
<1> QED
  BY <1>1, <1>2, <1>3, <1>4, <1>5 DEF Next, IInv

\* An alert left out of an emission was delivered within the rate limit
\* before it (emitFailoverAlerts), for any number of overlapping emissions,
\* crashes and evictions from the stored map.
THEOREM NothingSuppressedUnsent == Spec => SuppressedWasSent
<1>1. ASSUME IInv, NEW e \in Emitters, ReadAlertState(e),
             NEW f \in emit[e].candidates \ emit'[e].sending
      PROVE  f \in DOMAIN delivered /\ emit[e].nowMs - delivered[f] < RateLimit
  <2>1. /\ emit[e] \in EmissionState /\ emit[e].nowMs \in Nat
        /\ DOMAIN emit = Emitters /\ TimeMap(sentAt) /\ TimeMap(delivered)
    BY <1>1 DEF IInv, TypeOK, EmissionState
  <2>2. ToSend(e) # {} => emit'[e].sending = ToSend(e)
    BY <1>1, <2>1 DEF ReadAlertState, EmissionState
  <2>3. f \notin ToSend(e)
    BY <1>1, <2>2
  <2>4. f \in DOMAIN sentAt /\ emit[e].nowMs - sentAt[f] < RateLimit
    BY <1>1, <2>3 DEF ToSend, IsRateLimited
  <2>5. f \in DOMAIN delivered /\ sentAt[f] <= delivered[f]
    BY <1>1, <2>4 DEF IInv, HonestMaps, Honest
  <2> QED
    BY <2>1, <2>4, <2>5, AlertAssumption DEF TimeMap
<1>2. Init => IInv
  BY InitTyped, InitHonest DEF IInv
<1>3. IInv /\ [Next]_vars =>
        [\A e \in Emitters : ReadAlertState(e) =>
            \A f \in emit[e].candidates \ emit'[e].sending :
               f \in DOMAIN delivered /\ emit[e].nowMs - delivered[f] < RateLimit]_vars
  BY <1>1
<1> QED
  BY <1>2, <1>3, NextHonest, PTL DEF Spec, SuppressedWasSent
=============================================================================
