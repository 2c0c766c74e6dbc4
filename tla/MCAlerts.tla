------------------------------ MODULE MCAlerts ------------------------------
(***************************************************************************)
(* Instances of the failover alerts for TLC.                               *)
(***************************************************************************)
EXTENDS FailoverAlerts

CONSTANTS w1, o1

Locks == {"enable_manual_lock"}
VercelOrLock == {"force_dns_to_vercel", "enable_manual_lock"}

NoRequests == {}

OneTarget == {"vercel"}
Unmanaged == {"vps", "unmanaged"}
=============================================================================
