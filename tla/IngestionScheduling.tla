--------------------------- MODULE IngestionScheduling ---------------------------
(***************************************************************************)
(* The controller's scheduling cycle (controller/src/index.ts and          *)
(* ingestionScheduling.mjs).  The cron trigger, or a request, starts a     *)
(* cycle for one shard.  A cycle wakes the failover object and then, if    *)
(* the ingestion switch is on, has the shard's worker refresh its articles *)
(* and, that answered, work off its translations.  Cycles overlap when a   *)
(* shard takes longer than the time between two triggers.  Time counts in  *)
(* minutes and wraps around with the full cycle of all shards.  A trigger  *)
(* whose cycle the platform ends before it has asked its shard is made up  *)
(* for only by the shard's next turn, and is left out.                     *)
(***************************************************************************)
EXTENDS Integers

CONSTANTS
    ShardCount,     \* getShardCount
    RunInterval,    \* getRunIntervalMinutes
    CronPeriod,     \* minutes between cron triggers (wrangler.jsonc)
    MaxDelay,       \* by how much a trigger, with its wake call, may be late
    Cycles          \* slots for the cycles under way: a bound on how many there are

ASSUME ScheduleAssumption ==
    /\ ShardCount \in Nat \ {0}
    /\ RunInterval \in Nat \ {0}
    /\ CronPeriod \in Nat \ {0}
    /\ RunInterval % CronPeriod = 0
    /\ MaxDelay \in 0..CronPeriod - 1

VARIABLES
    minute,     \* the time
    due,        \* whether the last cron trigger has not started its cycle yet
    enabled,    \* the ingestion switch of the deployed controller
    cycle,      \* the cycles under way
    sinceWake,  \* minutes since the failover object was last woken (history)
    sinceRefresh    \* and since each shard was asked to refresh, or could be (history)

scheduleVars == <<minute, due, enabled, cycle, sinceWake, sinceRefresh>>

ShardIndexes == 0..ShardCount - 1

\* buildIngestionSchedulingStatus
FullCycleMinutes == ShardCount * RunInterval

NoCycle == [stage |-> "none", shard |-> 0, on |-> FALSE, mode |-> "both", scheduled |-> FALSE]

ScheduleInit ==
    /\ minute = 0
    /\ due = TRUE
    /\ enabled = TRUE
    /\ cycle = [c \in Cycles |-> NoCycle]
    /\ sinceWake = 0
    /\ sinceRefresh = [i \in ShardIndexes |-> 0]

-----------------------------------------------------------------------------

\* The index counts minutes, not windows.
PerMinuteBug == minute % ShardCount

\* getAutomaticShardIndex
AutomaticShardIndex == (minute \div RunInterval) % ShardCount

\* readIngestionSchedulingPolicy: the cycle goes by the deployment it started in.
StartCycle(c, shard, mode, scheduled) ==
    /\ cycle[c] = NoCycle
    /\ cycle' = [cycle EXCEPT ![c] =
                   IF enabled THEN [stage |-> "wake", shard |-> shard, on |-> TRUE,
                                    mode |-> mode, scheduled |-> scheduled]
                   ELSE [NoCycle EXCEPT !.stage = "wake", !.scheduled = scheduled]]

\* scheduled(), with translations switched on or off
CronTrigger(c, backlog) ==
    /\ due
    /\ due' = FALSE
    /\ StartCycle(c, AutomaticShardIndex, IF backlog THEN "both" ELSE "refresh", TRUE)
    /\ UNCHANGED <<minute, enabled, sinceWake, sinceRefresh>>

\* fetch(): of any shard or the one whose turn it is, and perhaps translations only
\* (parseManualShard, parseManualControllerMode)
ManualRequest(c, shard, mode) ==
    /\ StartCycle(c, shard, mode, FALSE)
    /\ UNCHANGED <<minute, due, enabled, sinceWake, sinceRefresh>>

\* wakeFailoverStateOwner: how it is answered makes no difference.  The first call of the
\* shard's worker follows at once; after a refresh, translations are called for as well.
Wake(c) ==
    LET k == cycle[c] IN
    /\ k.stage = "wake"
    /\ sinceWake' = 0
    /\ cycle' = [cycle EXCEPT ![c] =
                   IF k.on THEN [NoCycle EXCEPT !.stage = IF k.mode = "both" THEN "first"
                                                          ELSE "last"]
                   ELSE NoCycle]
    /\ sinceRefresh' = IF k.on /\ k.mode # "translate-backlog"
                       THEN [sinceRefresh EXCEPT ![k.shard] = 0] ELSE sinceRefresh
    /\ UNCHANGED <<minute, due, enabled>>

\* runShard returns, with an answer or an error.
ShardAnswered(c) ==
    /\ cycle[c].stage \in {"first", "last"}
    /\ cycle' = [cycle EXCEPT ![c] = IF @.stage = "first" THEN [@ EXCEPT !.stage = "last"]
                                     ELSE NoCycle]
    /\ UNCHANGED <<minute, due, enabled, sinceWake, sinceRefresh>>

\* The platform ends the invocation.
CycleCutOff(c) ==
    /\ cycle[c] # NoCycle
    /\ ~(cycle[c].stage = "wake" /\ cycle[c].scheduled)
    /\ cycle' = [cycle EXCEPT ![c] = NoCycle]
    /\ UNCHANGED <<minute, due, enabled, sinceWake, sinceRefresh>>

\* The controller is deployed with the switch turned.
TurnSwitch ==
    /\ enabled' = ~enabled
    /\ sinceRefresh' = [i \in ShardIndexes |-> 0]
    /\ UNCHANGED <<minute, due, cycle, sinceWake>>

Waiting == due \/ \E c \in Cycles : cycle[c].stage = "wake" /\ cycle[c].scheduled

\* Beyond the bounds the properties speak of all times are alike.
Later(since, bound) == IF since > bound + MaxDelay THEN since ELSE since + 1

Minute ==
    /\ Waiting => minute % CronPeriod < MaxDelay
    /\ minute' = (minute + 1) % FullCycleMinutes
    /\ due' = (due \/ minute' % CronPeriod = 0)
    /\ sinceWake' = Later(sinceWake, CronPeriod)
    /\ sinceRefresh' = [i \in ShardIndexes |->
                        IF enabled THEN Later(sinceRefresh[i], FullCycleMinutes) ELSE 0]
    /\ UNCHANGED <<enabled, cycle>>

ScheduleNext ==
    \/ \E c \in Cycles :
          \/ \E backlog \in BOOLEAN : CronTrigger(c, backlog)
          \/ \E shard \in ShardIndexes, mode \in {"refresh", "both", "translate-backlog"} :
                ManualRequest(c, shard, mode)
          \/ Wake(c)
          \/ ShardAnswered(c)
          \/ CycleCutOff(c)
    \/ TurnSwitch
    \/ Minute

ScheduleSpec == ScheduleInit /\ [][ScheduleNext]_scheduleVars

-----------------------------------------------------------------------------
(* Properties. *)

\* Every shard is asked to refresh within the full cycle the controller reports, however
\* cycles overlap, fail, come late or are joined by requests, and whenever the switch
\* was turned on; and whether it is on or not, the failover object is woken by every
\* trigger.
ScheduleKept ==
    /\ \A i \in ShardIndexes : sinceRefresh[i] <= FullCycleMinutes + MaxDelay
    /\ sinceWake <= CronPeriod + MaxDelay
=============================================================================
