----------------------------- MODULE MCFailover -----------------------------
(***************************************************************************)
(* Instances of the failover controller for TLC.  A request is named after *)
(* what it asks for; a retry carries the key of the request it repeats.    *)
(***************************************************************************)
EXTENDS FailoverProperties, TLC

CONSTANTS r1, r2, lock, unlock, toVercel, retry, toVps

RunSymmetry == Permutations(Runs)

\* A request and its retry differ in nothing but their slot.
RetrySymmetry == Permutations({toVercel, retry})

MCAction ==
    [o \in Ops |->
        CASE o = lock -> "enable_manual_lock"
          [] o = unlock -> "disable_manual_lock"
          [] o = toVps -> "force_dns_to_vps"
          [] OTHER -> "force_dns_to_vercel"]

MCKey == [o \in Ops |-> IF o \in {toVercel, retry} THEN "move" ELSE o]

\* What a dashboard showed some time ago.
AnyAgreed == {[h \in Hosts |-> t] : t \in Targets}
AnyKnown == [Hosts -> Targets]

\* The records before a move to Vercel, and after half of it.
UntouchedOrHalfway ==
    {[apex |-> "vps", www |-> "vps"], [apex |-> "vercel", www |-> "vps"]}

NoContents == {}
Edits == {"unmanaged"}
=============================================================================
