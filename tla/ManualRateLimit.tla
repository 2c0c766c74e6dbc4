---------------------------- MODULE ManualRateLimit ----------------------------
(***************************************************************************)
(* The rate limit of manual requests (checkManualRefreshRateLimit in       *)
(* worker/src/index.ts), for one client.  Every request increments a Redis *)
(* counter; the request that finds itself the first of a window then gives *)
(* the counter its time to live, in a second call.  When Redis does not    *)
(* answer, the request is let through.                                     *)
(***************************************************************************)
EXTENDS FaultyCalls, FiniteSets

CONSTANTS
    Requests,   \* slots for the client's requests in flight
    Limit,      \* getUpstashRedisManualRateLimitMax
    Window      \* getUpstashRedisManualRateLimitWindowSeconds

ASSUME RateLimitAssumption ==
    /\ IsFiniteSet(Requests)
    /\ Limit \in Nat \ {0}
    /\ Window \in Nat \ {0}

VARIABLES
    count,      \* the counter, 0 when there is no key; above Limit all are alike
    ttl,        \* its time to live
    first,      \* requests that have read 1 and not set the time to live yet
    admitted    \* requests let through by a count, in the life of the key (history)

rateState == <<count, ttl, first, admitted>>
rateVars == <<rateState, faults>>

\* INCR makes a key that does not expire.
Forever == -1

RateInit == count = 0 /\ ttl = 0 /\ first = {} /\ admitted = 0

\* Every request starts the window anew.
EveryRequestBug(n) == TRUE

IsFirst(n) == n = 1

\* One request more than the limit.
OneMoreBug(n) == n <= Limit + 1

Allowed(n) == n <= Limit

Incremented == IF count > Limit THEN count ELSE count + 1

\* EXPIRE takes seconds.
WindowSeconds == Window

\* The request is let through by its count, once the EXPIRE it may have to send
\* is answered; without a count it is let through too.
Incr(r, outcome) ==
    /\ r \notin first
    /\ Call(outcome)
    /\ IF outcome = "failed" THEN UNCHANGED <<count, ttl>>
       ELSE /\ count' = Incremented
            /\ ttl' = IF count = 0 THEN Forever ELSE ttl
    /\ IF outcome = "answered"
       THEN /\ first' = IF IsFirst(Incremented) THEN first \cup {r} ELSE first
            /\ admitted' = IF Allowed(Incremented) THEN admitted + 1 ELSE admitted
       ELSE UNCHANGED <<first, admitted>>

\* The answer is not looked at.
Expire(r, outcome) ==
    /\ r \in first
    /\ Call(outcome)
    /\ first' = first \ {r}
    /\ ttl' = IF count > 0 /\ outcome # "failed" THEN WindowSeconds ELSE ttl
    /\ UNCHANGED <<count, admitted>>

\* The platform ends the invocation between the two calls.
Crash(r) ==
    /\ r \in first
    /\ Call("failed")
    /\ first' = first \ {r}
    /\ UNCHANGED <<count, ttl, admitted>>

Tick ==
    /\ ttl > 0
    /\ ttl' = ttl - 1
    /\ IF ttl = 1 THEN count' = 0 /\ admitted' = 0 ELSE UNCHANGED <<count, admitted>>
    /\ UNCHANGED <<first, faults>>

SendsExpire(r) == \E outcome \in Outcomes : Expire(r, outcome)

RateNext ==
    \/ \E r \in Requests : \/ \E outcome \in Outcomes : Incr(r, outcome)
                          \/ SendsExpire(r)
                          \/ Crash(r)
    \/ Tick

RateSpec == RateInit /\ faults = 0 /\ [][RateNext]_rateVars

\* Time passes and every call that was sent ends.
RateFairSpec == RateSpec /\ WF_rateVars(Tick) /\ \A r \in Requests : WF_rateVars(SendsExpire(r))

RateTypeOK ==
    /\ count \in 0..Limit + 1
    /\ ttl \in {Forever} \cup 0..Window
    /\ count = 0 <=> ttl = 0
    /\ first \in SUBSET Requests
    /\ admitted \in Nat
    /\ faults \in 0..MaxFaults

\* However requests overlap and whichever calls fail, no more requests are let
\* through by their count in one window than the limit allows.
LimitHeld == admitted <= Limit

\* A counter that does not expire, with no request left to send its EXPIRE.
Orphaned == ttl = Forever /\ first = {}

\* A client is not blocked for good, however often it asks meanwhile, unless a
\* lost call or a crash has orphaned the counter.
FreedUnlessOrphaned == []<>(count < Limit \/ Orphaned)
=============================================================================
