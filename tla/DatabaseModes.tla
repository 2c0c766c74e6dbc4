----------------------------- MODULE DatabaseModes -----------------------------
(***************************************************************************)
(* The two databases behind the worker (worker/src/index.ts): Supabase and *)
(* the backend's PostgreSQL.  Every shard is deployed with a provider      *)
(* mode, which names the primary and, in shadow mode, a database that is   *)
(* only read, to compare it with the primary.  A run goes by the           *)
(* deployment it started in.  None starts while writes are paused, as they *)
(* are for a cutover, or in a mode that lacks its confirmation.            *)
(*                                                                         *)
(* A write adds its number to a database; a read answers with the numbers  *)
(* there.  Who deploys, and copies one database to the other, is not part  *)
(* of the repository.  A change of the primary is taken to be done in      *)
(* order, shard by shard: all shards are paused, the runs under way end,   *)
(* the data is copied, and when every shard has the new primary and        *)
(* nothing is missing there, shards are let go on.                         *)
(***************************************************************************)
EXTENDS FaultyCalls

CONSTANTS
    DbShards,
    MaxWrites   \* bound on the writes

ASSUME DatabaseAssumption == MaxWrites \in Nat

VARIABLES
    deployed,   \* the configuration each shard is deployed with
    running,    \* the mode of each shard's run, or "none"
    tablesOf,   \* the writes each database holds
    written,    \* the writes that were answered (history)
    informed    \* whether each run's last read told it of all answered writes (history)

dbState == <<deployed, running, tablesOf, written, informed>>
dbVars == <<dbState, faults>>

Databases == {"supabase", "backend_postgres"}

Modes == {"supabase_primary", "backend_postgres_shadow", "backend_postgres_primary"}

\* The confirmation is there for the one mode that asks for it.
Configurations ==
    {c \in [mode : Modes, paused : BOOLEAN, confirmed : BOOLEAN] :
        c.confirmed => c.mode = "backend_postgres_primary"}

\* createWorkerDatabaseClient
PrimaryOf(mode) == IF mode = "backend_postgres_primary" THEN "backend_postgres" ELSE "supabase"

DbInit ==
    /\ deployed = [s \in DbShards |-> [mode |-> "supabase_primary", paused |-> FALSE,
                                       confirmed |-> FALSE]]
    /\ running = [s \in DbShards |-> "none"]
    /\ tablesOf = [d \in Databases |-> {}]
    /\ written = {}
    /\ informed = [s \in DbShards |-> TRUE]

-----------------------------------------------------------------------------

\* A run starts though writes are paused.
PauseIgnoredBug(c) == c.mode = "backend_postgres_primary" => c.confirmed

\* isProductionWritesPaused, getDatabaseProviderMode and createWorkerDatabaseClient
MayStart(c) == ~c.paused /\ (c.mode = "backend_postgres_primary" => c.confirmed)

StartDbRun(s) ==
    /\ running[s] = "none"
    /\ MayStart(deployed[s])
    /\ running' = [running EXCEPT ![s] = deployed[s].mode]
    /\ UNCHANGED <<deployed, tablesOf, written, informed, faults>>

\* compareShadowRead: the shadow's answer, or its failure, is only logged.
AnswerOf(mode) == tablesOf[PrimaryOf(mode)]

\* An error of the primary is the run's to deal with; one of the shadow is not.
ReadDb(s, answered, shadowAnswered) ==
    /\ running[s] # "none"
    /\ shadowAnswered \/ running[s] = "backend_postgres_shadow"
    /\ Fault(~answered \/ ~shadowAnswered)
    /\ informed' = IF answered
                   THEN [informed EXCEPT ![s] = written \subseteq AnswerOf(running[s])]
                   ELSE informed
    /\ UNCHANGED <<deployed, running, tablesOf, written>>

\* assertNoShadowWrite
WrittenTo(mode) == {PrimaryOf(mode)}

WriteDb(s, n, outcome) ==
    /\ running[s] # "none"
    /\ \A d \in Databases : n \notin tablesOf[d]
    /\ Call(outcome)
    /\ tablesOf' = [d \in Databases |-> IF d \in WrittenTo(running[s]) /\ outcome # "failed"
                                        THEN tablesOf[d] \cup {n} ELSE tablesOf[d]]
    /\ written' = IF outcome = "answered" THEN written \cup {n} ELSE written
    /\ UNCHANGED <<deployed, running, informed>>

EndDbRun(s) ==
    /\ running[s] # "none"
    /\ running' = [running EXCEPT ![s] = "none"]
    /\ informed' = [informed EXCEPT ![s] = TRUE]
    /\ UNCHANGED <<deployed, tablesOf, written, faults>>

\* No shard may start a run, and none has one under way.
Quiet == \A t \in DbShards : deployed[t].paused /\ running[t] = "none"

\* Every shard has the database for its primary, which lacks no answered write.
Parity(d) ==
    /\ \A t \in DbShards : PrimaryOf(deployed[t].mode) = d
    /\ written \subseteq tablesOf[d]

DeployConfiguration(s, c) ==
    /\ c # deployed[s]
    /\ PrimaryOf(c.mode) # PrimaryOf(deployed[s].mode) => Quiet /\ c.paused
    /\ ~c.paused => Parity(PrimaryOf(c.mode))
    /\ deployed' = [deployed EXCEPT ![s] = c]
    /\ UNCHANGED <<running, tablesOf, written, informed, faults>>

\* One database is copied to the other, which is nobody's primary.
CopyDb(from, to) ==
    /\ from # to
    /\ \A s \in DbShards : PrimaryOf(deployed[s].mode) # to
                           /\ (running[s] # "none" => PrimaryOf(running[s]) # to)
    /\ tablesOf' = [tablesOf EXCEPT ![to] = tablesOf[from]]
    /\ UNCHANGED <<deployed, running, written, informed, faults>>

DbNext ==
    \/ \E s \in DbShards :
          \/ StartDbRun(s)
          \/ \E answered, shadowAnswered \in BOOLEAN : ReadDb(s, answered, shadowAnswered)
          \/ \E n \in 1..MaxWrites, outcome \in Outcomes : WriteDb(s, n, outcome)
          \/ EndDbRun(s)
          \/ \E c \in Configurations : DeployConfiguration(s, c)
    \/ \E from, to \in Databases : CopyDb(from, to)

DbSpec == DbInit /\ faults = 0 /\ [][DbNext]_dbVars

-----------------------------------------------------------------------------
(* Properties. *)

\* Whatever modes the shards are deployed with one after the other, whatever runs are
\* under way when that happens and whatever the shadow answers, every run has a primary
\* that holds all that was ever answered as written, and is told of it when it reads.
CutoverLosesNothing ==
    \A s \in DbShards :
        /\ informed[s]
        /\ running[s] # "none" => written \subseteq tablesOf[PrimaryOf(running[s])]
=============================================================================
