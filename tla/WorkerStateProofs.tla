--------------------------- MODULE WorkerStateProofs ---------------------------
(*****************************************************************************)
(* What the worker keeps of its databases, its feeds and its manual          *)
(* requests: no cutover loses a write, the health of a feed is sound, and    *)
(* the rate limit holds, for any number of shards, writes, runs, fetches and *)
(* requests, any limit and window, and any number of failed calls; and that  *)
(* the controller asks every shard in time, however its cycles overlap.      *)
(*****************************************************************************)
EXTENDS DatabaseModes, FeedHealth, ManualRateLimit, IngestionScheduling,
        FiniteSetTheorems, SequenceTheorems, TLAPS

-----------------------------------------------------------------------------
(* Cutovers between the databases. *)

DbTypes ==
    /\ deployed \in [DbShards -> Configurations]
    /\ running \in [DbShards -> Modes \cup {"none"}]
    /\ tablesOf \in [Databases -> SUBSET (1..MaxWrites)]
    /\ informed \in [DbShards -> BOOLEAN]

Primary(s) == PrimaryOf(deployed[s].mode)

\* While a run is under way, every shard is deployed with its primary.
RunsAgree == \A s, t \in DbShards : running[s] # "none" => Primary(t) = PrimaryOf(running[s])

\* While a shard is let go on, every shard is deployed with its primary, and nothing is
\* missing there.
OpenInParity ==
    \A s \in DbShards : ~deployed[s].paused =>
        /\ \A t \in DbShards : Primary(t) = Primary(s)
        /\ written \subseteq tablesOf[Primary(s)]

RunsComplete ==
    \A s \in DbShards : running[s] # "none" => written \subseteq tablesOf[PrimaryOf(running[s])]

AllInformed == \A s \in DbShards : informed[s]

DbInv == DbTypes /\ RunsAgree /\ OpenInParity /\ RunsComplete /\ AllInformed

LEMMA DbStart == ASSUME DbInit PROVE DbInv
<1> USE DEF DbInit
<1>1. DbTypes
  BY DEF DbTypes, Configurations, Modes, Databases
<1>2. RunsAgree /\ RunsComplete
  BY DEF RunsAgree, RunsComplete
<1>3. OpenInParity
  BY DEF OpenInParity, Primary
<1>4. AllInformed
  BY DEF AllInformed
<1> QED BY <1>1, <1>2, <1>3, <1>4 DEF DbInv

LEMMA PrimaryIsDatabase == \A m : PrimaryOf(m) \in Databases
BY DEF PrimaryOf, Databases

LEMMA DbStep == ASSUME DbInv, [DbNext]_dbVars PROVE DbInv'
<1> USE DEF DbInv
<1>1. ASSUME NEW s \in DbShards, StartDbRun(s) PROVE DbInv'
  <2>1. /\ ~deployed[s].paused /\ UNCHANGED <<deployed, tablesOf, written, informed>>
        /\ running' = [running EXCEPT ![s] = deployed[s].mode]
    BY <1>1 DEF StartDbRun, MayStart
  <2>2. DbTypes'
    BY <2>1 DEF DbTypes, Configurations
  <2>3. RunsAgree'
    BY <2>1 DEF RunsAgree, OpenInParity, Primary, DbTypes
  <2>4. RunsComplete'
    BY <2>1 DEF RunsComplete, OpenInParity, Primary, DbTypes
  <2> QED BY <2>1, <2>2, <2>3, <2>4 DEF OpenInParity, Primary, AllInformed
<1>2. ASSUME NEW s \in DbShards, NEW answered \in BOOLEAN, NEW shadowAnswered \in BOOLEAN,
             ReadDb(s, answered, shadowAnswered)
      PROVE  DbInv'
  <2>1. running[s] # "none" /\ UNCHANGED <<deployed, running, tablesOf, written>>
    BY <1>2 DEF ReadDb
  <2>2. written \subseteq AnswerOf(running[s])
    BY <2>1 DEF RunsComplete, AnswerOf
  <2>3. informed' = informed \/ informed' = [informed EXCEPT ![s] = TRUE]
    BY <1>2, <2>2 DEF ReadDb
  <2>4. DbTypes' /\ AllInformed'
    BY <2>1, <2>3 DEF DbTypes, AllInformed
  <2> QED BY <2>1, <2>4 DEF RunsAgree, OpenInParity, Primary, RunsComplete
<1>3. ASSUME NEW s \in DbShards, NEW n \in 1..MaxWrites, NEW outcome \in Outcomes,
             WriteDb(s, n, outcome)
      PROVE  DbInv'
  <2> DEFINE p == PrimaryOf(running[s])
  <2>1. running[s] # "none" /\ UNCHANGED <<deployed, running, informed>>
    BY <1>3 DEF WriteDb
  <2>2. /\ tablesOf' \in [Databases -> SUBSET (1..MaxWrites)]
        /\ written' \subseteq written \cup {n}
        /\ tablesOf[p] \subseteq tablesOf'[p]
        /\ n \in written' => n \in tablesOf'[p] \/ n \in written
    BY <1>3, PrimaryIsDatabase DEF WriteDb, WrittenTo, DbTypes
  <2>3. written' \subseteq tablesOf'[p]
    BY <2>1, <2>2 DEF RunsComplete
  <2>4. \A t \in DbShards : Primary(t) = p
    BY <2>1 DEF RunsAgree
  <2>5. \A t \in DbShards : running[t] # "none" => PrimaryOf(running[t]) = p
    BY <2>1, <2>4 DEF RunsAgree
  <2>6. DbTypes' /\ RunsAgree' /\ AllInformed'
    BY <2>1, <2>2 DEF DbTypes, RunsAgree, Primary, AllInformed
  <2>7. OpenInParity' /\ RunsComplete'
    BY <2>1, <2>3, <2>4, <2>5 DEF OpenInParity, Primary, RunsComplete
  <2> QED BY <2>6, <2>7
<1>4. ASSUME NEW s \in DbShards, EndDbRun(s) PROVE DbInv'
  BY <1>4 DEF EndDbRun, DbTypes, RunsAgree, OpenInParity, Primary, RunsComplete, AllInformed
<1>5. ASSUME NEW s \in DbShards, NEW c \in Configurations, DeployConfiguration(s, c)
      PROVE  DbInv'
  <2>1. /\ deployed' = [deployed EXCEPT ![s] = c]
        /\ UNCHANGED <<running, tablesOf, written, informed>>
    BY <1>5 DEF DeployConfiguration
  <2>2. DbTypes' /\ RunsComplete' /\ AllInformed'
    BY <2>1 DEF DbTypes, RunsComplete, AllInformed
  <2>3. CASE PrimaryOf(c.mode) = Primary(s)
    <3>1. \A t \in DbShards : Primary(t)' = Primary(t)
      BY <2>1, <2>3 DEF Primary, DbTypes
    <3>2. RunsAgree'
      BY <2>1, <3>1 DEF RunsAgree
    <3>3. ~c.paused => /\ \A t \in DbShards : Primary(t) = PrimaryOf(c.mode)
                       /\ written \subseteq tablesOf[PrimaryOf(c.mode)]
      BY <1>5 DEF DeployConfiguration, Parity, Primary
    <3>4. ASSUME NEW t \in DbShards, ~deployed'[t].paused
          PROVE  /\ \A q \in DbShards : Primary(q) = Primary(t)
                 /\ written \subseteq tablesOf[Primary(t)]
      <4>1. CASE t = s
        BY <2>1, <2>3, <3>3, <3>4, <4>1 DEF DbTypes
      <4>2. CASE t # s
        BY <2>1, <3>4, <4>2 DEF DbTypes, OpenInParity
      <4> QED BY <4>1, <4>2
    <3>5. OpenInParity'
      BY <2>1, <3>1, <3>4 DEF OpenInParity
    <3> QED BY <2>2, <3>2, <3>5
  <2>4. CASE PrimaryOf(c.mode) # Primary(s)
    <3>1. Quiet /\ c.paused
      BY <1>5, <2>4 DEF DeployConfiguration, Primary
    <3>2. RunsAgree'
      BY <2>1, <3>1 DEF Quiet, RunsAgree
    <3>3. \A t \in DbShards : deployed'[t].paused
      BY <2>1, <3>1 DEF Quiet, DbTypes
    <3>4. OpenInParity'
      BY <3>3 DEF OpenInParity
    <3> QED BY <2>2, <3>2, <3>4
  <2> QED BY <2>3, <2>4
<1>6. ASSUME NEW from \in Databases, NEW to \in Databases, CopyDb(from, to) PROVE DbInv'
  <2>1. UNCHANGED <<deployed, running, written, informed>>
    BY <1>6 DEF CopyDb
  <2>2. tablesOf' \in [Databases -> SUBSET (1..MaxWrites)]
    BY <1>6 DEF CopyDb, DbTypes
  <2>3. \A d \in Databases \ {to} : tablesOf'[d] = tablesOf[d]
    BY <1>6 DEF CopyDb, DbTypes
  <2>4. \A s \in DbShards : tablesOf'[Primary(s)] = tablesOf[Primary(s)]
    BY <1>6, <2>3, PrimaryIsDatabase DEF CopyDb, Primary
  <2>5. \A s \in DbShards : running[s] # "none" =>
            tablesOf'[PrimaryOf(running[s])] = tablesOf[PrimaryOf(running[s])]
    BY <1>6, <2>3, PrimaryIsDatabase DEF CopyDb
  <2>6. DbTypes' /\ RunsAgree' /\ AllInformed'
    BY <2>1, <2>2 DEF DbTypes, RunsAgree, Primary, AllInformed
  <2>7. OpenInParity' /\ RunsComplete'
    BY <2>1, <2>4, <2>5 DEF OpenInParity, Primary, RunsComplete
  <2> QED BY <2>6, <2>7
<1>7. ASSUME UNCHANGED dbVars PROVE DbInv'
  BY <1>7 DEF dbVars, dbState, DbTypes, RunsAgree, OpenInParity, Primary, RunsComplete,
     AllInformed
<1> QED BY <1>1, <1>2, <1>3, <1>4, <1>5, <1>6, <1>7 DEF DbNext

\* Whatever modes the shards are deployed with one after the other, in the order of a
\* cutover, and whatever runs are under way then, every run has a primary that holds all
\* that was ever answered as written, and reads it there (createWorkerDatabaseClient,
\* assertNoShadowWrite, compareShadowRead).
THEOREM CutoversLoseNothing == DbSpec => []CutoverLosesNothing
<1>1. DbInit /\ faults = 0 => DbInv
  BY DbStart
<1>2. DbInv /\ [DbNext]_dbVars => DbInv'
  BY DbStep
<1>3. DbInv => CutoverLosesNothing
  BY DEF DbInv, RunsComplete, AllInformed, CutoverLosesNothing
<1> QED BY <1>1, <1>2, <1>3, PTL DEF DbSpec

-----------------------------------------------------------------------------
(* The health of a feed. *)

HealthRows == [total : Nat, success : Nat, failure : Nat, consecutive : Nat]

HealthTypes ==
    /\ health \in HealthRows
    /\ healthPc \in [FeedRuns -> {"idle", "read", "save"}]
    /\ fetchOk \in [FeedRuns -> BOOLEAN]
    /\ previous \in [FeedRuns -> HealthRows]
    /\ fetched \in Seq(BOOLEAN)

\* The fetches that ended so, and the runs under way whose fetch did.
Ended(ok) == {i \in DOMAIN fetched : fetched[i] = ok}

Underway(ok) == {r \in FeedRuns : healthPc[r] # "idle" /\ fetchOk[r] = ok}

CountsFinite == \A ok \in BOOLEAN : IsFiniteSet(Ended(ok)) /\ IsFiniteSet(Underway(ok))

Good == Cardinality(Ended(TRUE))

Bad == Cardinality(Ended(FALSE))

EveryFetchEnded == Good + Bad = Len(fetched)

Count(row, ok) == IF ok THEN row.success ELSE row.failure

\* A row, stored or read by a run, leaves out at least the fetches of the runs under way.
Sound(row) ==
    /\ row.total = row.success + row.failure
    /\ row.consecutive <= row.failure
    /\ \A ok \in BOOLEAN :
          Count(row, ok) + Cardinality(Underway(ok)) <= Cardinality(Ended(ok))

RowsSound == Sound(health) /\ \A r \in FeedRuns : Sound(previous[r])

InARow == {i \in DOMAIN fetched : \A j \in Successes : j < i}

Exact(row) == row.total = Len(fetched) /\ row.consecutive = Cardinality(InARow)

\* While runs have come one after another, the row is exact but for the run under way.
ExactUndisturbed ==
    /\ \A r, q \in FeedRuns : healthPc[r] # "idle" /\ healthPc[q] # "idle" => r = q
    /\ (\A r \in FeedRuns : healthPc[r] = "idle") => Exact(health)
    /\ \A r \in FeedRuns :
          /\ healthPc[r] # "idle" => Exact(Counted(health, fetchOk[r]))
          /\ healthPc[r] = "save" => previous[r] = health

HealthInv ==
    /\ HealthTypes
    /\ CountsFinite
    /\ EveryFetchEnded
    /\ RowsSound
    /\ IsFiniteSet(InARow)
    /\ ~disturbed => ExactUndisturbed

LEMMA CountedIsRow ==
    ASSUME NEW row \in HealthRows, NEW ok \in BOOLEAN PROVE Counted(row, ok) \in HealthRows
<1>1. CASE ok
  BY <1>1 DEF Counted, HealthRows
<1>2. CASE ~ok
  BY <1>2 DEF Counted, HealthRows
<1> QED BY <1>1, <1>2

LEMMA HealthStart == ASSUME HealthInit PROVE HealthInv
<1> USE DEF HealthInit
<1>1. HealthTypes
  BY DEF HealthTypes, HealthRows, NoHealth
<1>2. \A ok \in BOOLEAN : Ended(ok) = {} /\ Underway(ok) = {}
  BY DEF Ended, Underway
<1>3. CountsFinite
  BY <1>2, FS_EmptySet DEF CountsFinite
<1>4. \A ok \in BOOLEAN : Cardinality(Ended(ok)) = 0 /\ Cardinality(Underway(ok)) = 0
  BY <1>2, FS_EmptySet
<1>5. EveryFetchEnded
  <2>1. Good = 0 /\ Bad = 0
    BY <1>4 DEF Good, Bad
  <2>2. Len(fetched) = 0
    OBVIOUS
  <2> QED BY <2>1, <2>2 DEF EveryFetchEnded
<1>6. \A ok \in BOOLEAN : Count(NoHealth, ok) = 0
  BY DEF Count, NoHealth
<1>7. \A ok \in BOOLEAN : Count(NoHealth, ok) + Cardinality(Underway(ok)) <= Cardinality(Ended(ok))
  BY <1>4, <1>6
<1>8. Sound(NoHealth)
  BY <1>7 DEF Sound, NoHealth
<1>9. RowsSound
  BY <1>8 DEF RowsSound
<1>10. InARow = {} /\ IsFiniteSet(InARow) /\ Cardinality(InARow) = 0
  BY FS_EmptySet DEF InARow
<1>11. ExactUndisturbed
  BY <1>10 DEF ExactUndisturbed, Exact, NoHealth
<1> QED BY <1>1, <1>3, <1>5, <1>9, <1>10, <1>11 DEF HealthInv

\* A run that ends is no longer among those under way; the fetches stay.
LEMMA EndCounts ==
    ASSUME HealthInv, NEW r \in FeedRuns, healthPc[r] # "idle", EndFeedRun(r), fetched' = fetched
    PROVE  \A ok \in BOOLEAN :
              /\ Ended(ok)' = Ended(ok)
              /\ IsFiniteSet(Underway(ok)')
              /\ Cardinality(Underway(ok)') =
                    Cardinality(Underway(ok)) - (IF ok = fetchOk[r] THEN 1 ELSE 0)
<1> SUFFICES ASSUME NEW ok \in BOOLEAN
             PROVE  /\ Ended(ok)' = Ended(ok)
                    /\ IsFiniteSet(Underway(ok)')
                    /\ Cardinality(Underway(ok)') =
                          Cardinality(Underway(ok)) - (IF ok = fetchOk[r] THEN 1 ELSE 0)
  OBVIOUS
<1> USE DEF HealthInv, HealthTypes
<1>1. Ended(ok)' = Ended(ok)
  BY DEF Ended
<1>2. \A q \in FeedRuns \ {r} : healthPc'[q] = healthPc[q] /\ fetchOk'[q] = fetchOk[q]
  BY DEF EndFeedRun
<1>3. healthPc'[r] = "idle"
  BY DEF EndFeedRun
<1>4. Underway(ok)' = Underway(ok) \ {r}
  BY <1>2, <1>3 DEF Underway
<1>5. r \in Underway(ok) <=> ok = fetchOk[r]
  BY DEF Underway
<1>6. IsFiniteSet(Underway(ok)) /\ Cardinality(Underway(ok)) \in Nat
  BY FS_CardinalityType DEF CountsFinite
<1>7. /\ IsFiniteSet(Underway(ok) \ {r})
      /\ Cardinality(Underway(ok) \ {r}) =
            IF r \in Underway(ok) THEN Cardinality(Underway(ok)) - 1
            ELSE Cardinality(Underway(ok))
  BY <1>6, FS_RemoveElement
<1> QED BY <1>1, <1>4, <1>5, <1>6, <1>7

\* A fetch adds one to the fetches that ended so, and to the runs under way.
LEMMA FetchCounts ==
    ASSUME HealthInv, NEW r \in FeedRuns, NEW fine \in BOOLEAN, FetchFeed(r, fine),
           NEW ok \in BOOLEAN
    PROVE  /\ IsFiniteSet(Ended(ok)') /\ IsFiniteSet(Underway(ok)')
           /\ Cardinality(Ended(ok)') = Cardinality(Ended(ok)) + (IF ok = fine THEN 1 ELSE 0)
           /\ Cardinality(Underway(ok)') =
                 Cardinality(Underway(ok)) + (IF ok = fine THEN 1 ELSE 0)
<1> USE DEF HealthInv, HealthTypes
<1> DEFINE n == Len(fetched) + 1
<1>1. /\ healthPc[r] = "idle" /\ fetched' = Append(fetched, fine)
      /\ healthPc' = [healthPc EXCEPT ![r] = "read"]
      /\ fetchOk' = [fetchOk EXCEPT ![r] = fine]
  BY DEF FetchFeed
<1>2. /\ DOMAIN fetched' = DOMAIN fetched \cup {n} /\ n \notin DOMAIN fetched
      /\ fetched'[n] = fine /\ \A i \in DOMAIN fetched : fetched'[i] = fetched[i]
  BY <1>1
<1> HIDE DEF n
<1>3. Ended(ok)' = IF ok = fine THEN Ended(ok) \cup {n} ELSE Ended(ok)
  BY <1>2 DEF Ended
<1>4. /\ \A q \in FeedRuns \ {r} : healthPc'[q] = healthPc[q] /\ fetchOk'[q] = fetchOk[q]
      /\ healthPc'[r] = "read" /\ fetchOk'[r] = fine
  BY <1>1
<1>5. Underway(ok)' = IF ok = fine THEN Underway(ok) \cup {r} ELSE Underway(ok)
  BY <1>1, <1>4 DEF Underway
<1>6. n \notin Ended(ok) /\ r \notin Underway(ok)
  BY <1>1, <1>2 DEF Ended, Underway
<1>7. IsFiniteSet(Ended(ok)) /\ IsFiniteSet(Underway(ok))
  BY DEF CountsFinite
<1>8. /\ IsFiniteSet(Ended(ok) \cup {n})
      /\ Cardinality(Ended(ok) \cup {n}) = Cardinality(Ended(ok)) + 1
  BY <1>6, <1>7, FS_AddElement
<1>9. /\ IsFiniteSet(Underway(ok) \cup {r})
      /\ Cardinality(Underway(ok) \cup {r}) = Cardinality(Underway(ok)) + 1
  BY <1>6, <1>7, FS_AddElement
<1>10. Cardinality(Ended(ok)) \in Nat /\ Cardinality(Underway(ok)) \in Nat
  BY <1>7, FS_CardinalityType
<1> QED BY <1>3, <1>5, <1>7, <1>8, <1>9, <1>10

\* A success ends the failures in a row, a failure is one more.
LEMMA FetchInARow ==
    ASSUME HealthInv, NEW r \in FeedRuns, NEW fine \in BOOLEAN, FetchFeed(r, fine)
    PROVE  /\ IsFiniteSet(InARow')
           /\ Cardinality(InARow') = IF fine THEN 0 ELSE Cardinality(InARow) + 1
<1> USE DEF HealthInv, HealthTypes
<1> DEFINE n == Len(fetched) + 1
<1>1. fetched' = Append(fetched, fine)
  BY DEF FetchFeed
<1>2. /\ DOMAIN fetched' = DOMAIN fetched \cup {n} /\ n \notin DOMAIN fetched /\ n \in Nat
      /\ fetched'[n] = fine /\ \A i \in DOMAIN fetched : fetched'[i] = fetched[i] /\ i < n
      /\ DOMAIN fetched \subseteq Nat
  BY <1>1
<1> HIDE DEF n
<1>3. CASE fine
  <2>1. n \in Successes'
    BY <1>2, <1>3 DEF Successes
  <2>2. \A i \in DOMAIN fetched' : ~(n < i)
    BY <1>2
  <2>3. InARow' = {}
    BY <2>1, <2>2 DEF InARow
  <2> QED BY <1>3, <2>3, FS_EmptySet
<1>4. CASE ~fine
  <2>1. Successes' = Successes
    BY <1>2, <1>4 DEF Successes
  <2>2. \A j \in Successes : j < n
    BY <1>2 DEF Successes
  <2>3. InARow' = InARow \cup {n} /\ n \notin InARow
    BY <1>2, <2>1, <2>2 DEF InARow
  <2> QED BY <1>4, <2>3, FS_AddElement
<1> QED BY <1>3, <1>4

\* A row stays sound as long as no more runs get under way than fetches end.
LEMMA StaysSound ==
    ASSUME NEW row \in HealthRows, Sound(row), CountsFinite, CountsFinite',
           \A ok \in BOOLEAN : Cardinality(Underway(ok)') - Cardinality(Underway(ok))
                                  <= Cardinality(Ended(ok)') - Cardinality(Ended(ok))
    PROVE  Sound(row)'
<1>1. \A ok \in BOOLEAN : /\ Cardinality(Underway(ok)) \in Nat /\ Cardinality(Ended(ok)) \in Nat
                          /\ Cardinality(Underway(ok)') \in Nat /\ Cardinality(Ended(ok)') \in Nat
                          /\ Count(row, ok) \in Nat
  BY FS_CardinalityType DEF CountsFinite, Count, HealthRows
<1>2. \A ok \in BOOLEAN :
         Count(row, ok) + Cardinality(Underway(ok)') <= Cardinality(Ended(ok)')
  BY <1>1 DEF Sound
<1> QED BY <1>2 DEF Sound, Count

LEMMA NothingIsSound == ASSUME HealthInv PROVE Sound(NoHealth) /\ NoHealth \in HealthRows
<1>1. \A ok \in BOOLEAN : /\ Cardinality(Underway(ok)) \in Nat /\ Cardinality(Ended(ok)) \in Nat
                          /\ Count(health, ok) \in Nat
                          /\ Count(health, ok) + Cardinality(Underway(ok)) <= Cardinality(Ended(ok))
  BY FS_CardinalityType DEF HealthInv, CountsFinite, Count, HealthTypes, HealthRows, RowsSound, Sound
<1>2. \A ok \in BOOLEAN : Cardinality(Underway(ok)) <= Cardinality(Ended(ok))
  BY <1>1
<1>3. \A ok \in BOOLEAN : Count(NoHealth, ok) = 0
  BY DEF Count, NoHealth
<1> QED BY <1>1, <1>2, <1>3 DEF Sound, NoHealth, HealthRows

LEMMA HealthStep == ASSUME HealthInv, [HealthNext]_healthVars PROVE HealthInv'
<1> USE DEF HealthInv, HealthTypes
<1>1. ASSUME NEW r \in FeedRuns, NEW fine \in BOOLEAN, FetchFeed(r, fine) PROVE HealthInv'
  <2>1. /\ healthPc[r] = "idle" /\ fetched' = Append(fetched, fine)
        /\ healthPc' = [healthPc EXCEPT ![r] = "read"]
        /\ fetchOk' = [fetchOk EXCEPT ![r] = fine]
        /\ UNCHANGED <<health, previous>>
        /\ disturbed' = (disturbed \/ ~OthersIdle(r))
    BY <1>1 DEF FetchFeed
  <2>2. HealthTypes'
    BY <2>1
  <2>3. \A ok \in BOOLEAN :
           /\ IsFiniteSet(Ended(ok)') /\ IsFiniteSet(Underway(ok)')
           /\ Cardinality(Ended(ok)') = Cardinality(Ended(ok)) + (IF ok = fine THEN 1 ELSE 0)
           /\ Cardinality(Underway(ok)') =
                 Cardinality(Underway(ok)) + (IF ok = fine THEN 1 ELSE 0)
    BY <1>1, FetchCounts
  <2>4. CountsFinite'
    BY <2>3 DEF CountsFinite
  <2>5. \A ok \in BOOLEAN : Cardinality(Ended(ok)) \in Nat /\ Cardinality(Underway(ok)) \in Nat
    BY FS_CardinalityType DEF CountsFinite
  <2>6. \A ok \in BOOLEAN : Cardinality(Underway(ok)') - Cardinality(Underway(ok))
                               <= Cardinality(Ended(ok)') - Cardinality(Ended(ok))
    <3> SUFFICES ASSUME NEW ok \in BOOLEAN
                 PROVE  Cardinality(Underway(ok)') - Cardinality(Underway(ok))
                           <= Cardinality(Ended(ok)') - Cardinality(Ended(ok))
      OBVIOUS
    <3>1. Cardinality(Ended(ok)) \in Nat /\ Cardinality(Underway(ok)) \in Nat
      BY <2>5
    <3>2. /\ Cardinality(Ended(ok)') = Cardinality(Ended(ok)) + (IF ok = fine THEN 1 ELSE 0)
          /\ Cardinality(Underway(ok)') =
                Cardinality(Underway(ok)) + (IF ok = fine THEN 1 ELSE 0)
      BY <2>3
    <3> QED BY <3>1, <3>2
  <2>7. RowsSound'
    <3>1. Sound(health)'
      BY <2>1, <2>4, <2>6, StaysSound DEF RowsSound, Sound
    <3>2. ASSUME NEW q \in FeedRuns PROVE Sound(previous[q])'
      BY <2>1, <2>4, <2>6, StaysSound DEF RowsSound, Sound
    <3> QED BY <3>1, <3>2 DEF RowsSound
  <2>8. EveryFetchEnded'
    <3>1. Len(fetched') = Len(fetched) + 1
      BY <2>1
    <3>2. Good' = Good + (IF TRUE = fine THEN 1 ELSE 0)
      BY <2>3 DEF Good
    <3>3. Bad' = Bad + (IF FALSE = fine THEN 1 ELSE 0)
      BY <2>3 DEF Bad
    <3>4. Good \in Nat /\ Bad \in Nat
      BY <2>5 DEF Good, Bad
    <3> QED BY <3>1, <3>2, <3>3, <3>4 DEF EveryFetchEnded
  <2>9. IsFiniteSet(InARow') /\ Cardinality(InARow') = IF fine THEN 0 ELSE Cardinality(InARow) + 1
    BY <1>1, FetchInARow
  <2>10. ASSUME ~disturbed' PROVE ExactUndisturbed'
    <3>1. ~disturbed /\ \A q \in FeedRuns : healthPc[q] = "idle"
      BY <2>1, <2>10 DEF OthersIdle
    <3>2. Exact(health)
      BY <3>1 DEF ExactUndisturbed
    <3>3. \A q \in FeedRuns \ {r} : healthPc'[q] = "idle"
      BY <2>1, <3>1
    <3>4. healthPc'[r] = "read" /\ fetchOk'[r] = fine /\ Len(fetched') = Len(fetched) + 1
      BY <2>1
    <3>5. Exact(Counted(health, fetchOk[r]))'
      BY <2>1, <2>9, <3>2, <3>4 DEF Exact, Counted
    <3> QED BY <3>3, <3>4, <3>5 DEF ExactUndisturbed
  <2> QED BY <2>2, <2>4, <2>7, <2>8, <2>9, <2>10
<1>2. ASSUME NEW r \in FeedRuns, NEW answered \in BOOLEAN, ReadHealth(r, answered)
      PROVE  HealthInv'
  <2> DEFINE row == IF answered THEN health ELSE NoHealth
  <2>1. /\ healthPc[r] = "read" /\ UNCHANGED <<health, fetchOk, fetched>>
        /\ previous' = [previous EXCEPT ![r] = row]
        /\ healthPc' = [healthPc EXCEPT ![r] = "save"]
        /\ disturbed' = (disturbed \/ ~answered)
    BY <1>2 DEF ReadHealth
  <2>2. HealthTypes'
    BY <2>1, NothingIsSound
  <2>3. \A q \in FeedRuns : healthPc'[q] # "idle" <=> healthPc[q] # "idle"
    BY <2>1
  <2>4. \A ok \in BOOLEAN : Underway(ok)' = Underway(ok) /\ Ended(ok)' = Ended(ok)
    BY <2>1, <2>3 DEF Underway, Ended
  <2>5. CountsFinite' /\ EveryFetchEnded'
    BY <2>1, <2>4 DEF CountsFinite, EveryFetchEnded, Good, Bad
  <2>6. \A q \in FeedRuns : previous'[q] = IF q = r THEN row ELSE previous[q]
    BY <2>1
  <2>7. \A q \in FeedRuns : Sound(previous'[q])
    BY <2>6, NothingIsSound DEF RowsSound
  <2>8. RowsSound'
    BY <2>1, <2>4, <2>7 DEF RowsSound, Sound
  <2>9. IsFiniteSet(InARow') /\ InARow' = InARow
    BY <2>1 DEF InARow, Successes
  <2>10. ASSUME ~disturbed' PROVE ExactUndisturbed'
    <3>1. ~disturbed /\ previous'[r] = health
      BY <2>1, <2>10
    <3>2. \A q \in FeedRuns \ {r} : healthPc'[q] = "idle"
      BY <2>1, <3>1 DEF ExactUndisturbed
    <3>3. Exact(Counted(health, fetchOk[r]))' /\ healthPc'[r] # "idle"
      BY <2>1, <2>9, <3>1 DEF ExactUndisturbed, Exact, Counted
    <3> QED BY <2>1, <3>1, <3>2, <3>3 DEF ExactUndisturbed
  <2> QED BY <2>2, <2>5, <2>8, <2>9, <2>10
<1>3. ASSUME NEW r \in FeedRuns, healthPc[r] # "idle", EndFeedRun(r), fetched' = fetched,
             \/ health' = health /\ disturbed'
             \/ /\ health' = Counted(previous[r], fetchOk[r])
                /\ healthPc[r] = "save" /\ (disturbed => disturbed')
      PROVE  HealthInv'
  <2>1. /\ healthPc' = [healthPc EXCEPT ![r] = "idle"]
        /\ fetchOk' = [fetchOk EXCEPT ![r] = FALSE]
        /\ previous' = [previous EXCEPT ![r] = NoHealth]
    BY <1>3 DEF EndFeedRun
  <2>2. HealthTypes'
    <3>1. previous[r] \in HealthRows /\ NoHealth \in HealthRows /\ fetchOk[r] \in BOOLEAN
      BY NothingIsSound
    <3>2. Counted(previous[r], fetchOk[r]) \in HealthRows
      BY <3>1, CountedIsRow
    <3> QED BY <1>3, <2>1, <3>1, <3>2
  <2>3. \A ok \in BOOLEAN :
           /\ Ended(ok)' = Ended(ok)
           /\ IsFiniteSet(Underway(ok)')
           /\ Cardinality(Underway(ok)') =
                 Cardinality(Underway(ok)) - (IF ok = fetchOk[r] THEN 1 ELSE 0)
    BY <1>3, EndCounts
  <2>4. CountsFinite' /\ EveryFetchEnded'
    BY <1>3, <2>3 DEF CountsFinite, EveryFetchEnded, Good, Bad
  <2>5. \A ok \in BOOLEAN : Cardinality(Ended(ok)) \in Nat /\ Cardinality(Underway(ok)) \in Nat
    BY FS_CardinalityType DEF CountsFinite
  <2>6. \A ok \in BOOLEAN : Cardinality(Underway(ok)') - Cardinality(Underway(ok))
                               <= Cardinality(Ended(ok)') - Cardinality(Ended(ok))
    <3> SUFFICES ASSUME NEW ok \in BOOLEAN
                 PROVE  Cardinality(Underway(ok)') - Cardinality(Underway(ok))
                           <= Cardinality(Ended(ok)') - Cardinality(Ended(ok))
      OBVIOUS
    <3>1. Cardinality(Ended(ok)) \in Nat /\ Cardinality(Underway(ok)) \in Nat
      BY <2>5
    <3>2. /\ Cardinality(Ended(ok)') = Cardinality(Ended(ok))
          /\ Cardinality(Underway(ok)') =
                Cardinality(Underway(ok)) - (IF ok = fetchOk[r] THEN 1 ELSE 0)
      BY <2>3
    <3> HIDE DEF HealthInv, HealthTypes
    <3> QED BY <3>1, <3>2
  <2>7. \A q \in FeedRuns : previous'[q] = IF q = r THEN NoHealth ELSE previous[q]
    BY <2>1
  <2>8. \A q \in FeedRuns : Sound(previous'[q]) /\ previous'[q] \in HealthRows
    BY <2>7, NothingIsSound DEF RowsSound
  <2>9. ASSUME NEW q \in FeedRuns PROVE Sound(previous[q])'
    BY <2>4, <2>6, <2>8, StaysSound DEF Sound
  <2>10. Sound(health)'
    <3>1. CASE health' = health
      BY <2>4, <2>6, <3>1, StaysSound DEF RowsSound, Sound
    <3>2. CASE health' = Counted(previous[r], fetchOk[r])
      <4>1. Sound(previous[r]) /\ previous[r] \in HealthRows
        BY DEF RowsSound
      <4>2. \A ok \in BOOLEAN :
               /\ Count(previous[r], ok) \in Nat
               /\ Count(previous[r], ok) + Cardinality(Underway(ok)) <= Cardinality(Ended(ok))
        BY <4>1 DEF Sound, Count, HealthRows
      <4>3. \A ok \in BOOLEAN : Count(health', ok) =
               Count(previous[r], ok) + (IF ok = fetchOk[r] THEN 1 ELSE 0)
        BY <3>2, <4>1 DEF Count, Counted, HealthRows
      <4>4. \A ok \in BOOLEAN :
               Count(health', ok) + Cardinality(Underway(ok)') <= Cardinality(Ended(ok)')
        <5> SUFFICES ASSUME NEW ok \in BOOLEAN
                     PROVE  Count(health', ok) + Cardinality(Underway(ok)') <= Cardinality(Ended(ok)')
          OBVIOUS
        <5>1. Cardinality(Ended(ok)') = Cardinality(Ended(ok))
          BY <2>3
        <5>2. Cardinality(Underway(ok)') =
                 Cardinality(Underway(ok)) - (IF ok = fetchOk[r] THEN 1 ELSE 0)
          BY <2>3
        <5>3. Cardinality(Ended(ok)) \in Nat /\ Cardinality(Underway(ok)) \in Nat
          BY <2>5
        <5>4. /\ Count(previous[r], ok) \in Nat
              /\ Count(previous[r], ok) + Cardinality(Underway(ok)) <= Cardinality(Ended(ok))
          BY <4>2
        <5>5. Count(health', ok) = Count(previous[r], ok) + (IF ok = fetchOk[r] THEN 1 ELSE 0)
          BY <4>3
        <5> HIDE DEF HealthInv, HealthTypes
        <5> QED BY <5>1, <5>2, <5>3, <5>4, <5>5
      <4>5. /\ health'.total = health'.success + health'.failure
            /\ health'.consecutive <= health'.failure
        BY <3>2, <4>1 DEF Sound, Counted, HealthRows
      <4> QED BY <4>4, <4>5 DEF Sound, Count
    <3> QED BY <1>3, <3>1, <3>2
  <2>11. IsFiniteSet(InARow') /\ InARow' = InARow
    BY <1>3 DEF InARow, Successes
  <2>12. ASSUME ~disturbed' PROVE ExactUndisturbed'
    <3>1. ~disturbed /\ healthPc[r] = "save" /\ health' = Counted(previous[r], fetchOk[r])
      BY <1>3, <2>12
    <3>2. \A q \in FeedRuns : healthPc'[q] = "idle"
      BY <1>3, <2>1, <3>1 DEF ExactUndisturbed
    <3>3. Exact(Counted(health, fetchOk[r])) /\ previous[r] = health
      BY <3>1 DEF ExactUndisturbed
    <3>4. Exact(health)'
      BY <1>3, <2>11, <3>1, <3>3 DEF Exact
    <3> QED BY <3>2, <3>4 DEF ExactUndisturbed
  <2> QED BY <2>2, <2>4, <2>9, <2>10, <2>11, <2>12 DEF RowsSound
<1>4. ASSUME NEW r \in FeedRuns, NEW outcome \in Outcomes, SaveHealth(r, outcome)
      PROVE  HealthInv'
  <2>1. healthPc[r] = "save" /\ EndFeedRun(r) /\ fetched' = fetched
    BY <1>4 DEF SaveHealth
  <2>2. CASE outcome = "failed"
    BY <1>3, <1>4, <2>1, <2>2 DEF SaveHealth
  <2>3. CASE outcome # "failed"
    <3>1. (disturbed => disturbed') /\ health' = Counted(previous[r], fetchOk[r])
      BY <1>4, <2>3 DEF SaveHealth
    <3> QED BY <1>3, <2>1, <3>1
  <2> QED BY <2>2, <2>3
<1>5. ASSUME NEW r \in FeedRuns, NotCounted(r) PROVE HealthInv'
  BY <1>3, <1>5 DEF NotCounted
<1>6. CASE UNCHANGED healthVars
  <2>1. UNCHANGED <<health, healthPc, fetchOk, previous, fetched, disturbed>>
    BY <1>6 DEF healthVars, healthState
  <2>2. \A ok \in BOOLEAN : Ended(ok)' = Ended(ok) /\ Underway(ok)' = Underway(ok)
    BY <2>1 DEF Ended, Underway
  <2>3. CountsFinite' /\ EveryFetchEnded'
    BY <2>1, <2>2 DEF CountsFinite, EveryFetchEnded, Good, Bad
  <2>4. RowsSound'
    BY <2>1, <2>2 DEF RowsSound, Sound
  <2>5. InARow' = InARow
    BY <2>1 DEF InARow, Successes
  <2>6. ~disturbed' => ExactUndisturbed'
    BY <2>1, <2>5 DEF ExactUndisturbed, Exact
  <2> QED BY <2>1, <2>3, <2>4, <2>5, <2>6
<1> QED BY <1>1, <1>2, <1>4, <1>5, <1>6 DEF HealthNext

\* However runs overlap, and whatever read, write or run fails, the feed's row counts no
\* success and no failure there was not, and its counters fit together; while the runs
\* come one after another and are saved it is exact (buildFeedHealthRows,
\* saveFeedHealthBatch), for any number of runs, fetches and failed calls.
THEOREM FeedHealthIsSound == HealthSpec => []FeedHealthSound
<1>1. HealthInit /\ faults = 0 => HealthInv
  BY HealthStart
<1>2. HealthInv /\ [HealthNext]_healthVars => HealthInv'
  BY HealthStep
<1>3. HealthInv => FeedHealthSound
  <2> SUFFICES ASSUME HealthInv PROVE FeedHealthSound
    OBVIOUS
  <2>1. \A ok \in BOOLEAN : /\ Cardinality(Ended(ok)) \in Nat /\ Cardinality(Underway(ok)) \in Nat
                            /\ Count(health, ok) \in Nat
                            /\ Count(health, ok) + Cardinality(Underway(ok))
                                  <= Cardinality(Ended(ok))
    BY FS_CardinalityType DEF HealthInv, CountsFinite, RowsSound, Sound, Count, HealthTypes,
       HealthRows
  <2>2. \A ok \in BOOLEAN : Count(health, ok) <= Cardinality(Ended(ok))
    BY <2>1
  <2>3. health.success <= Good /\ health.failure <= Bad
    <3>1. Count(health, TRUE) <= Good /\ Count(health, FALSE) <= Bad
      BY <2>2 DEF Good, Bad
    <3> QED BY <3>1 DEF Count
  <2>4. Good = Cardinality(Successes)
    <3>1. Ended(TRUE) = Successes
      BY DEF Ended, Successes, HealthInv, HealthTypes
    <3> QED BY <3>1 DEF Good
  <2>5. Bad = Len(fetched) - Cardinality(Successes)
    <3>1. Good \in Nat /\ Bad \in Nat
      BY <2>1 DEF Good, Bad
    <3> QED BY <2>4, <3>1 DEF HealthInv, EveryFetchEnded
  <2>6. health.total = health.success + health.failure /\ health.consecutive <= health.failure
    BY DEF HealthInv, RowsSound, Sound
  <2>7. ~disturbed /\ (\A r \in FeedRuns : healthPc[r] = "idle") => Exact(health)
    BY DEF HealthInv, ExactUndisturbed
  <2> QED BY <2>3, <2>4, <2>5, <2>6, <2>7 DEF FeedHealthSound, Exact, FailuresInARow, InARow
<1> QED BY <1>1, <1>2, <1>3, PTL DEF HealthSpec

-----------------------------------------------------------------------------
(* The limit of manual requests. *)

\* A request that was let through has left its mark on the counter, which forgets it
\* only together with the window.
AdmittedInv == admitted <= count /\ admitted <= Limit

RateInv == RateTypeOK /\ AdmittedInv

LEMMA CallBounded ==
    ASSUME NEW outcome, faults \in 0..MaxFaults, Call(outcome)
    PROVE  faults' \in 0..MaxFaults
BY FaultsAssumption DEF Call, Fault

LEMMA RateInit0 == ASSUME RateInit, faults = 0 PROVE RateInv
BY RateLimitAssumption, FaultsAssumption DEF RateInit, RateInv, RateTypeOK, AdmittedInv

LEMMA RateStep == ASSUME RateInv, [RateNext]_rateVars PROVE RateInv'
<1> USE RateLimitAssumption, FaultsAssumption DEF RateInv, RateTypeOK, AdmittedInv, Forever
<1>1. ASSUME NEW r \in Requests, NEW outcome \in Outcomes, Incr(r, outcome) PROVE RateInv'
  <2>1. faults' \in 0..MaxFaults
    BY <1>1, CallBounded DEF Incr
  <2>2. first' \in SUBSET Requests
    BY <1>1 DEF Incr
  <2>3. CASE outcome = "failed"
    BY <1>1, <2>1, <2>2, <2>3 DEF Incr
  <2>4. CASE outcome # "failed"
    <3>1. count' \in 1..Limit + 1 /\ count' >= count
      BY <1>1, <2>4 DEF Incr, Incremented
    <3>2. ttl' \in {Forever} \cup 0..Window /\ ttl' # 0
      BY <1>1, <2>4 DEF Incr
    <3>3. admitted' \in Nat /\ admitted' <= count' /\ admitted' <= Limit
      BY <1>1, <2>4 DEF Incr, Incremented, Allowed
    <3> QED BY <2>1, <2>2, <3>1, <3>2, <3>3
  <2> QED BY <2>3, <2>4
<1>2. ASSUME NEW r \in Requests, NEW outcome \in Outcomes, Expire(r, outcome) PROVE RateInv'
  <2>1. faults' \in 0..MaxFaults
    BY <1>2, CallBounded DEF Expire
  <2> QED BY <1>2, <2>1 DEF Expire, WindowSeconds
<1>3. ASSUME NEW r \in Requests, Crash(r) PROVE RateInv'
  <2>1. faults' \in 0..MaxFaults
    BY <1>3, CallBounded DEF Crash
  <2> QED BY <1>3, <2>1 DEF Crash
<1>4. ASSUME Tick PROVE RateInv'
  BY <1>4 DEF Tick
<1>5. ASSUME UNCHANGED rateVars PROVE RateInv'
  BY <1>5 DEF rateVars, rateState
<1> QED BY <1>1, <1>2, <1>3, <1>4, <1>5 DEF RateNext, SendsExpire

\* Requests, their lost calls and the expiry of the counter leave a state of the types.
\* (checkManualRefreshRateLimit)
THEOREM RateTypesKept == RateSpec => []RateTypeOK
<1>1. RateInit /\ faults = 0 => RateInv
  BY RateInit0
<1>2. RateInv /\ [RateNext]_rateVars => RateInv'
  BY RateStep
<1>3. RateInv => RateTypeOK
  BY DEF RateInv
<1> QED BY <1>1, <1>2, <1>3, PTL DEF RateSpec

\* However the requests of a client overlap and whichever calls fail, no more of them
\* are let through by their count in one window than the limit allows
\* (checkManualRefreshRateLimit).
THEOREM RateLimited == RateSpec => []LimitHeld
<1>1. RateInit /\ faults = 0 => RateInv
  BY RateInit0
<1>2. RateInv /\ [RateNext]_rateVars => RateInv'
  BY RateStep
<1>3. RateInv => LimitHeld
  BY DEF RateInv, AdmittedInv, LimitHeld
<1> QED BY <1>1, <1>2, <1>3, PTL DEF RateSpec

-----------------------------------------------------------------------------
(* The schedule of the controller: division. *)

LEMMA DivMod ==
    ASSUME NEW a \in Nat, NEW n \in Nat \ {0}
    PROVE  /\ a % n \in 0..n - 1
           /\ a \div n \in Nat
           /\ a = n * (a \div n) + (a % n)
OBVIOUS

LEMMA DivModUnique ==
    ASSUME NEW a \in Nat, NEW n \in Nat \ {0}, NEW q \in Nat, NEW r \in 0..n - 1, a = n * q + r
    PROVE  a % n = r /\ a \div n = q
OBVIOUS

LEMMA TimesSums ==
    ASSUME NEW a \in Int, NEW b \in Int, NEW n \in Int
    PROVE  n * (a + b) = n * a + n * b /\ n * a \in Int /\ n * b = b * n
OBVIOUS

LEMMA ModNext ==
    ASSUME NEW a \in Nat, NEW n \in Nat \ {0}
    PROVE  (a + 1) % n = IF a % n = n - 1 THEN 0 ELSE (a % n) + 1
<1> DEFINE q == a \div n
           r == a % n
<1>1. r \in 0..n - 1 /\ q \in Nat /\ a = n * q + r
  BY DivMod
<1> HIDE DEF q, r
<1>2. CASE r = n - 1
  <2>1. n * (q + 1) = n * q + n /\ n * q \in Int
    BY <1>1, TimesSums
  <2>2. a + 1 = n * (q + 1) + 0
    BY <1>1, <1>2, <2>1
  <2>3. q + 1 \in Nat /\ 0 \in 0..n - 1
    BY <1>1
  <2> QED BY <1>2, <2>2, <2>3, DivModUnique DEF r
<1>3. CASE r # n - 1
  <2>1. n * q \in Int
    BY <1>1, TimesSums
  <2>2. a + 1 = n * q + (r + 1) /\ r + 1 \in 0..n - 1
    BY <1>1, <1>3, <2>1
  <2>3. (a + 1) % n = r + 1
    BY <1>1, <2>2, DivModUnique
  <2> QED BY <1>3, <2>3 DEF r
<1> QED BY <1>2, <1>3

\* A multiple of a multiple is one.
LEMMA ModTimes ==
    ASSUME NEW i \in Nat, NEW b \in Nat, NEW n \in Nat \ {0}, b % n = 0
    PROVE  (i * b) % n = 0
<1> DEFINE q == b \div n
<1>1. q \in Nat /\ b = n * q + 0
  BY DivMod
<1> HIDE DEF q
<1>2. n * q = b
  BY <1>1, TimesSums
<1>3. i * q \in Nat
  BY <1>1
<1>4. n * (i * q) = i * (n * q)
  BY <1>1
<1>5. i * b = n * (i * q) + 0 /\ i * b \in Nat
  BY <1>2, <1>4
<1> QED BY <1>3, <1>5, DivModUnique

-----------------------------------------------------------------------------
(* The schedule: windows of the shards and slots of the triggers. *)

SlotAge == minute % CronPeriod

\* Minutes since the window of a shard last began.
TurnOf(i) == i * RunInterval
TurnAge(i) ==
    IF minute >= TurnOf(i) THEN minute - TurnOf(i) ELSE minute - TurnOf(i) + FullCycleMinutes

Wakes(c) == cycle[c].stage = "wake" /\ cycle[c].scheduled

CycleRecords ==
    [stage : {"none", "wake", "first", "last"}, shard : ShardIndexes, on : BOOLEAN,
     mode : {"refresh", "both", "translate-backlog"}, scheduled : BOOLEAN]

ScheduleTypes ==
    /\ minute \in 0..FullCycleMinutes - 1
    /\ due \in BOOLEAN
    /\ enabled \in BOOLEAN
    /\ cycle \in [Cycles -> CycleRecords]
    /\ sinceWake \in Nat
    /\ sinceRefresh \in [ShardIndexes -> Nat]

\* A trigger is started, and its wake call made, before the next one.
TriggersSettle ==
    /\ Waiting => SlotAge <= MaxDelay
    /\ \A c \in Cycles : Wakes(c) => ~due /\ \A d \in Cycles : Wakes(d) => d = c

\* One that is still to be made is of the shard whose window has just begun, if one has,
\* or was started with the switch off, and it was off since the trigger.
TriggersAreOfTheirShard ==
    \A c \in Cycles : Wakes(c) =>
        IF cycle[c].on
        THEN /\ cycle[c].mode # "translate-backlog"
             /\ \A i \in ShardIndexes : TurnAge(i) = SlotAge => i = cycle[c].shard
        ELSE \A i \in ShardIndexes : sinceRefresh[i] <= SlotAge

OffIsNoDelay == ~enabled => \A i \in ShardIndexes : sinceRefresh[i] = 0

WokenInTime == sinceWake <= SlotAge + IF Waiting THEN CronPeriod ELSE 0

\* A shard was asked since its window began, or its trigger is still waiting.
AskedInTime ==
    \A i \in ShardIndexes :
        \/ sinceRefresh[i] <= TurnAge(i)
        \/ Waiting /\ TurnAge(i) = SlotAge /\ sinceRefresh[i] <= FullCycleMinutes + SlotAge

ScheduleInv ==
    /\ ScheduleTypes /\ TriggersSettle /\ TriggersAreOfTheirShard /\ OffIsNoDelay
    /\ WokenInTime /\ AskedInTime

\* Every window lies within the full cycle and begins with a trigger.
LEMMA Windows ==
    ASSUME NEW i \in ShardIndexes
    PROVE  /\ TurnOf(i) \in 0..FullCycleMinutes - RunInterval
           /\ TurnOf(i) % CronPeriod = 0
           /\ FullCycleMinutes \in Nat
           /\ FullCycleMinutes % CronPeriod = 0
           /\ CronPeriod <= RunInterval
<1> USE ScheduleAssumption
<1>1. i \in Nat /\ i + 1 <= ShardCount
  BY DEF ShardIndexes
<1>2. (i + 1) * RunInterval <= ShardCount * RunInterval
  BY <1>1
<1>3. (i + 1) * RunInterval = i * RunInterval + RunInterval /\ i * RunInterval \in Nat
  BY <1>1
<1>4. ShardCount * RunInterval \in Nat
  OBVIOUS
<1>5. TurnOf(i) \in 0..FullCycleMinutes - RunInterval /\ FullCycleMinutes \in Nat
  BY <1>2, <1>3, <1>4 DEF TurnOf, FullCycleMinutes
<1>6. TurnOf(i) % CronPeriod = 0 /\ FullCycleMinutes % CronPeriod = 0
  <2>1. (i * RunInterval) % CronPeriod = 0
    BY <1>1, ModTimes
  <2>2. (ShardCount * RunInterval) % CronPeriod = 0
    BY ModTimes
  <2> QED BY <2>1, <2>2 DEF TurnOf, FullCycleMinutes
<1>7. ASSUME RunInterval < CronPeriod PROVE FALSE
  <2>1. RunInterval = CronPeriod * 0 + RunInterval
    OBVIOUS
  <2>2. RunInterval \in 0..CronPeriod - 1
    BY <1>7
  <2>3. RunInterval % CronPeriod = RunInterval
    BY <2>1, <2>2, DivModUnique
  <2> QED BY <2>3
<1>8. CronPeriod <= RunInterval
  BY <1>7
<1> QED BY <1>5, <1>6, <1>8

\* A shard's turn in the first slot of its window is the one getAutomaticShardIndex finds.
LEMMA FirstSlotIsItsTurn ==
    ASSUME minute \in 0..FullCycleMinutes - 1, NEW i \in ShardIndexes, TurnAge(i) = SlotAge
    PROVE  AutomaticShardIndex = i
<1> USE ScheduleAssumption
<1>1. SlotAge \in 0..CronPeriod - 1
  BY DivMod, Windows DEF SlotAge
<1>2. /\ TurnOf(i) \in 0..FullCycleMinutes - RunInterval
      /\ CronPeriod <= RunInterval
      /\ FullCycleMinutes \in Nat
  BY Windows
<1>3. minute = TurnOf(i) + SlotAge
  BY <1>1, <1>2 DEF TurnAge
<1>4. i \in Nat /\ i < ShardCount
  BY DEF ShardIndexes
<1>5. RunInterval * i = TurnOf(i)
  BY <1>4, TimesSums DEF TurnOf
<1>6. minute = RunInterval * i + SlotAge /\ SlotAge \in 0..RunInterval - 1 /\ minute \in Nat
  BY <1>1, <1>2, <1>3, <1>5
<1>7. minute \div RunInterval = i
  BY <1>4, <1>6, DivModUnique
<1>8. i = ShardCount * 0 + i /\ i \in 0..ShardCount - 1
  BY <1>4
<1>9. i % ShardCount = i
  BY <1>4, <1>8, DivModUnique
<1> QED BY <1>7, <1>9 DEF AutomaticShardIndex

LEMMA Ages ==
    ASSUME minute \in 0..FullCycleMinutes - 1, NEW i \in ShardIndexes
    PROVE  /\ SlotAge \in 0..CronPeriod - 1
           /\ TurnAge(i) \in 0..FullCycleMinutes - 1
<1> USE ScheduleAssumption
<1>1. /\ TurnOf(i) \in 0..FullCycleMinutes - RunInterval
      /\ FullCycleMinutes \in Nat
  BY Windows
<1>2. minute \in Nat
  BY <1>1
<1>3. SlotAge \in 0..CronPeriod - 1
  BY <1>2, DivMod DEF SlotAge
<1> QED BY <1>1, <1>3 DEF TurnAge

\* What a minute does to the times since a window, and a slot, began.
LEMMA MinutePasses ==
    ASSUME minute \in 0..FullCycleMinutes - 1, minute' = (minute + 1) % FullCycleMinutes,
           NEW i \in ShardIndexes
    PROVE  /\ minute' \in 0..FullCycleMinutes - 1
           /\ SlotAge' = (IF SlotAge = CronPeriod - 1 THEN 0 ELSE SlotAge + 1)
           /\ TurnAge(i)' = (IF TurnAge(i) = FullCycleMinutes - 1 THEN 0 ELSE TurnAge(i) + 1)
           /\ TurnAge(i)' = 0 => SlotAge' = 0
<1> USE ScheduleAssumption
<1>1. /\ TurnOf(i) \in 0..FullCycleMinutes - RunInterval
      /\ TurnOf(i) % CronPeriod = 0
      /\ FullCycleMinutes \in Nat
      /\ FullCycleMinutes % CronPeriod = 0
  BY Windows
<1>2. minute \in Nat /\ FullCycleMinutes > 0
  BY <1>1
<1>3. minute' = IF minute = FullCycleMinutes - 1 THEN 0 ELSE minute + 1
  <2>1. minute % FullCycleMinutes = minute
    <3> DEFINE F == FullCycleMinutes
    <3>1. F \in Nat \ {0} /\ minute \in 0..F - 1
      BY <1>1, <1>2
    <3> HIDE DEF F
    <3>2. minute = F * 0 + minute
      BY <1>2, <3>1
    <3>3. minute % F = minute
      BY <1>2, <3>1, <3>2, DivModUnique
    <3> QED BY <3>3 DEF F
  <2>2. FullCycleMinutes \in Nat \ {0}
    BY <1>1, <1>2
  <2>3. (minute + 1) % FullCycleMinutes
          = IF minute % FullCycleMinutes = FullCycleMinutes - 1 THEN 0
            ELSE (minute % FullCycleMinutes) + 1
    BY <1>2, <2>2, ModNext
  <2> QED BY <2>1, <2>3
<1>4. (minute + 1) % CronPeriod = IF SlotAge = CronPeriod - 1 THEN 0 ELSE SlotAge + 1
  BY <1>2, ModNext DEF SlotAge
<1>5. 0 % CronPeriod = 0
  <2>1. 0 = CronPeriod * 0 + 0
    OBVIOUS
  <2> QED BY <2>1, DivModUnique
<1>6. SlotAge' = (IF SlotAge = CronPeriod - 1 THEN 0 ELSE SlotAge + 1)
  <2>1. CASE minute = FullCycleMinutes - 1
    <3>1. (minute + 1) % CronPeriod = 0 /\ SlotAge' = 0
      BY <1>1, <1>3, <1>5, <2>1 DEF SlotAge
    <3> QED BY <1>2, <1>4, <3>1, DivMod DEF SlotAge
  <2>2. CASE minute # FullCycleMinutes - 1
    BY <1>3, <1>4, <2>2 DEF SlotAge
  <2> QED BY <2>1, <2>2
<1>7. TurnOf(i)' = TurnOf(i) /\ FullCycleMinutes' = FullCycleMinutes
  BY DEF TurnOf, FullCycleMinutes
<1>8. TurnAge(i)' = (IF TurnAge(i) = FullCycleMinutes - 1 THEN 0 ELSE TurnAge(i) + 1)
  BY <1>1, <1>2, <1>3, <1>7 DEF TurnAge
<1>9. TurnAge(i)' = 0 => minute' = TurnOf(i)
  BY <1>1, <1>2, <1>3, <1>7 DEF TurnAge
<1>10. minute' \in 0..FullCycleMinutes - 1
  BY <1>1, <1>2, <1>3
<1>11. minute' = TurnOf(i) => SlotAge' = 0
  BY <1>1 DEF SlotAge
<1> QED BY <1>6, <1>8, <1>9, <1>10, <1>11

LEMMA ScheduleStart == ASSUME ScheduleInit PROVE ScheduleInv
<1> USE ScheduleAssumption DEF ScheduleInit
<1>1. 0 \in ShardIndexes
  BY DEF ShardIndexes
<1>2. NoCycle \in CycleRecords /\ NoCycle.stage = "none"
  BY <1>1 DEF NoCycle, CycleRecords
<1>3. \A c \in Cycles : ~Wakes(c)
  BY <1>2 DEF Wakes
<1>4. FullCycleMinutes \in Nat \ {0}
  BY DEF FullCycleMinutes
<1>5. ScheduleTypes
  BY <1>2, <1>4 DEF ScheduleTypes
<1>6. SlotAge = 0
  <2>1. 0 = CronPeriod * 0 + 0 /\ 0 \in 0..CronPeriod - 1
    OBVIOUS
  <2>2. 0 % CronPeriod = 0
    BY <2>1, DivModUnique
  <2> QED BY <2>2 DEF SlotAge
<1>7. TriggersSettle /\ TriggersAreOfTheirShard /\ OffIsNoDelay
  BY <1>3, <1>6 DEF TriggersSettle, TriggersAreOfTheirShard, OffIsNoDelay
<1>8. WokenInTime
  BY <1>6 DEF WokenInTime
<1>9. AskedInTime
  <2>1. \A i \in ShardIndexes : TurnAge(i) >= 0
    BY <1>4, Ages
  <2> QED BY <2>1 DEF AskedInTime
<1> QED BY <1>5, <1>7, <1>8, <1>9 DEF ScheduleInv

\* A slot that is free is given to a cycle that does not wake, or to one of the trigger.
LEMMA TriggerStarts ==
    ASSUME ScheduleInv, NEW c \in Cycles, NEW backlog \in BOOLEAN, CronTrigger(c, backlog)
    PROVE  ScheduleInv'
<1> USE DEF ScheduleInv
<1> DEFINE mode == IF backlog THEN "both" ELSE "refresh"
           started == IF enabled THEN [stage |-> "wake", shard |-> AutomaticShardIndex,
                                       on |-> TRUE, mode |-> mode, scheduled |-> TRUE]
                      ELSE [NoCycle EXCEPT !.stage = "wake", !.scheduled = TRUE]
<1>1. /\ due /\ due' = FALSE
      /\ cycle' = [cycle EXCEPT ![c] = started]
      /\ UNCHANGED <<minute, enabled, sinceWake, sinceRefresh>>
  BY DEF CronTrigger, StartCycle
<1>2. SlotAge' = SlotAge /\ \A i \in ShardIndexes : TurnAge(i)' = TurnAge(i)
  BY <1>1 DEF SlotAge, TurnAge, TurnOf, FullCycleMinutes
<1>3. AutomaticShardIndex \in ShardIndexes /\ 0 \in ShardIndexes
  <2>1. FullCycleMinutes \in Nat /\ minute \in Nat
    BY ScheduleAssumption DEF FullCycleMinutes, ScheduleTypes
  <2>2. minute \div RunInterval \in Nat
    BY <2>1, ScheduleAssumption, DivMod
  <2> DEFINE windows == minute \div RunInterval
  <2>3. windows % ShardCount \in 0..ShardCount - 1
    <3> HIDE DEF windows
    <3> QED BY <2>2, ScheduleAssumption, DivMod DEF windows
  <2> QED BY <2>3, ScheduleAssumption DEF AutomaticShardIndex, ShardIndexes
<1>4. /\ started \in CycleRecords /\ started.stage = "wake" /\ started.scheduled
      /\ started.on = enabled
      /\ started.on => started.shard = AutomaticShardIndex /\ started.mode = mode
  BY <1>3 DEF CycleRecords, NoCycle, ScheduleTypes
<1> HIDE DEF started
<1>5. cycle'[c] = started /\ \A d \in Cycles \ {c} : cycle'[d] = cycle[d]
  BY <1>1 DEF ScheduleTypes
<1>6. ScheduleTypes'
  BY <1>1, <1>4 DEF ScheduleTypes
<1>7. Wakes(c)' /\ \A d \in Cycles \ {c} : ~Wakes(d)'
  BY <1>1, <1>4, <1>5 DEF Wakes, TriggersSettle
<1>8. Waiting /\ Waiting'
  BY <1>1, <1>7 DEF Waiting, Wakes
<1>9. TriggersSettle'
  BY <1>1, <1>2, <1>7, <1>8 DEF TriggersSettle
<1>10. TriggersAreOfTheirShard'
  <2>1. CASE enabled
    <3>1. \A i \in ShardIndexes : TurnAge(i) = SlotAge => i = AutomaticShardIndex
      BY FirstSlotIsItsTurn DEF ScheduleTypes
    <3> QED BY <1>2, <1>4, <1>5, <1>7, <2>1, <3>1 DEF TriggersAreOfTheirShard
  <2>2. CASE ~enabled
    <3>1. \A i \in ShardIndexes : sinceRefresh'[i] <= SlotAge'
      BY <1>1, <1>2, <2>2, Ages DEF OffIsNoDelay, ScheduleTypes
    <3> QED BY <1>4, <1>5, <1>7, <2>2, <3>1 DEF TriggersAreOfTheirShard
  <2> QED BY <2>1, <2>2
<1>11. OffIsNoDelay'
  BY <1>1 DEF OffIsNoDelay
<1>12. WokenInTime'
  BY <1>1, <1>2, <1>8 DEF WokenInTime
<1>13. AskedInTime'
  BY <1>1, <1>2, <1>8 DEF AskedInTime, FullCycleMinutes
<1> QED BY <1>6, <1>9, <1>10, <1>11, <1>12, <1>13

\* A step of a cycle that no trigger waits for, and that is none afterwards either.
LEMMA OthersChangeNothing ==
    ASSUME ScheduleInv, NEW c \in Cycles, NEW changed \in CycleRecords,
           ~Wakes(c), ~(changed.stage = "wake" /\ changed.scheduled),
           cycle' = [cycle EXCEPT ![c] = changed],
           UNCHANGED <<minute, due, enabled>>,
           sinceWake' \in {0, sinceWake},
           sinceRefresh' \in [ShardIndexes -> Nat],
           \A i \in ShardIndexes : sinceRefresh'[i] \in {0, sinceRefresh[i]}
    PROVE  ScheduleInv'
<1> USE DEF ScheduleInv
<1>1. SlotAge' = SlotAge /\ \A i \in ShardIndexes : TurnAge(i)' = TurnAge(i)
  BY DEF SlotAge, TurnAge, TurnOf, FullCycleMinutes
<1>2. cycle'[c] = changed /\ \A d \in Cycles \ {c} : cycle'[d] = cycle[d]
  BY DEF ScheduleTypes
<1>3. \A d \in Cycles : (Wakes(d)' <=> Wakes(d)) /\ (Wakes(d) => cycle'[d] = cycle[d])
  BY <1>2 DEF Wakes
<1>4. Waiting' <=> Waiting
  BY <1>3 DEF Waiting, Wakes
<1>5. \A i \in ShardIndexes : sinceRefresh'[i] \in Nat /\ sinceRefresh'[i] <= sinceRefresh[i]
  BY DEF ScheduleTypes
<1>6. sinceWake' \in Nat /\ sinceWake' <= sinceWake
  BY DEF ScheduleTypes
<1>7. ScheduleTypes'
  BY <1>6 DEF ScheduleTypes
<1>8. TriggersSettle'
  BY <1>1, <1>3, <1>4 DEF TriggersSettle
<1>9. SlotAge \in Nat /\ \A i \in ShardIndexes : SlotAge \in Int /\ TurnAge(i) \in Int
  <2>1. 0 \in ShardIndexes
    BY ScheduleAssumption DEF ShardIndexes
  <2> QED BY <2>1, Ages, Windows DEF ScheduleTypes
<1>10. TriggersAreOfTheirShard'
  <2> SUFFICES ASSUME NEW d \in Cycles, Wakes(d)
               PROVE  IF cycle[d].on
                      THEN /\ cycle[d].mode # "translate-backlog"
                           /\ \A i \in ShardIndexes : TurnAge(i) = SlotAge => i = cycle[d].shard
                      ELSE \A i \in ShardIndexes : sinceRefresh'[i] <= SlotAge
    BY <1>1, <1>3 DEF TriggersAreOfTheirShard
  <2> QED BY <1>5, <1>9 DEF TriggersAreOfTheirShard, ScheduleTypes
<1>11. OffIsNoDelay'
  BY <1>5 DEF OffIsNoDelay, ScheduleTypes
<1>12. WokenInTime'
  BY <1>1, <1>4, <1>6, <1>9, ScheduleAssumption DEF WokenInTime, ScheduleTypes
<1>13. AskedInTime'
  <2>1. FullCycleMinutes \in Nat /\ FullCycleMinutes' = FullCycleMinutes
    BY ScheduleAssumption DEF FullCycleMinutes
  <2> QED BY <1>1, <1>4, <1>5, <1>9, <2>1 DEF AskedInTime, ScheduleTypes
<1> QED BY <1>7, <1>8, <1>10, <1>11, <1>12, <1>13

\* The wake call of a trigger, and the call of its shard that follows at once.
LEMMA TriggerIsSettled ==
    ASSUME ScheduleInv, NEW c \in Cycles, Wakes(c), Wake(c)
    PROVE  ScheduleInv'
<1> USE DEF ScheduleInv
<1> DEFINE k == cycle[c]
           asks == k.on /\ k.mode # "translate-backlog"
           woken == IF k.on THEN [NoCycle EXCEPT !.stage = IF k.mode = "both" THEN "first"
                                                           ELSE "last"]
                    ELSE NoCycle
<1>1. /\ cycle' = [cycle EXCEPT ![c] = woken]
      /\ UNCHANGED <<minute, due, enabled>>
      /\ sinceWake' = 0
      /\ sinceRefresh' = IF asks THEN [sinceRefresh EXCEPT ![k.shard] = 0] ELSE sinceRefresh
  BY DEF Wake
<1>2. SlotAge' = SlotAge /\ \A i \in ShardIndexes : TurnAge(i)' = TurnAge(i)
  BY <1>1 DEF SlotAge, TurnAge, TurnOf, FullCycleMinutes
<1>3. 0 \in ShardIndexes
  BY ScheduleAssumption DEF ShardIndexes
<1>4. woken \in CycleRecords /\ woken.stage # "wake"
  BY <1>3 DEF CycleRecords, NoCycle
<1> HIDE DEF woken
<1>5. \A d \in Cycles : ~Wakes(d)'
  BY <1>1, <1>4 DEF Wakes, TriggersSettle, ScheduleTypes
<1>6. ~due /\ ~Waiting'
  BY <1>1, <1>5 DEF Waiting, Wakes, TriggersSettle
<1>7. ScheduleTypes'
  BY <1>1, <1>4 DEF ScheduleTypes
<1>8. TriggersSettle' /\ TriggersAreOfTheirShard'
  BY <1>5, <1>6 DEF TriggersSettle, TriggersAreOfTheirShard
<1>9. \A i \in ShardIndexes : sinceRefresh'[i] = sinceRefresh[i] \/ sinceRefresh'[i] = 0
  BY <1>1 DEF ScheduleTypes
<1>10. OffIsNoDelay'
  BY <1>1, <1>9 DEF OffIsNoDelay
<1>11. SlotAge \in Nat /\ \A i \in ShardIndexes : TurnAge(i) \in Nat
  BY <1>3, Ages, Windows DEF ScheduleTypes
<1>12. WokenInTime'
  BY <1>1, <1>2, <1>6, <1>11 DEF WokenInTime
<1>13. AskedInTime'
  <2> SUFFICES ASSUME NEW i \in ShardIndexes
               PROVE  sinceRefresh'[i] <= TurnAge(i)
    BY <1>2 DEF AskedInTime
  <2>1. CASE sinceRefresh[i] <= TurnAge(i)
    BY <1>9, <1>11, <2>1
  <2>2. CASE ~(sinceRefresh[i] <= TurnAge(i))
    <3>1. TurnAge(i) = SlotAge
      BY <2>2 DEF AskedInTime
    <3>2. CASE k.on
      <4>1. asks /\ i = k.shard
        BY <3>1, <3>2 DEF TriggersAreOfTheirShard
      <4>2. sinceRefresh'[i] = 0
        BY <1>1, <4>1 DEF ScheduleTypes
      <4> QED BY <1>11, <4>2
    <3>3. CASE ~k.on
      BY <2>2, <3>1, <3>3 DEF TriggersAreOfTheirShard
    <3> QED BY <3>2, <3>3
  <2> QED BY <2>1, <2>2
<1> QED BY <1>7, <1>8, <1>10, <1>12, <1>13

LEMMA OthersStep ==
    ASSUME ScheduleInv, NEW c \in Cycles,
           \/ \E shard \in ShardIndexes, mode \in {"refresh", "both", "translate-backlog"} :
                 ManualRequest(c, shard, mode)
           \/ Wake(c) /\ ~Wakes(c)
           \/ ShardAnswered(c)
           \/ CycleCutOff(c)
    PROVE  ScheduleInv'
<1>1. 0 \in ShardIndexes
  BY ScheduleAssumption DEF ShardIndexes
<1>2. cycle[c] \in CycleRecords /\ sinceRefresh \in [ShardIndexes -> Nat]
  BY DEF ScheduleInv, ScheduleTypes
<1>3. NoCycle \in CycleRecords /\ NoCycle.stage = "none"
  BY <1>1 DEF NoCycle, CycleRecords
<1>5. ASSUME NEW shard \in ShardIndexes, NEW mode \in {"refresh", "both", "translate-backlog"},
             ManualRequest(c, shard, mode)
      PROVE  ScheduleInv'
  <2> DEFINE started == IF enabled THEN [stage |-> "wake", shard |-> shard, on |-> TRUE,
                                         mode |-> mode, scheduled |-> FALSE]
                        ELSE [NoCycle EXCEPT !.stage = "wake", !.scheduled = FALSE]
  <2>1. /\ cycle[c] = NoCycle
        /\ cycle' = [cycle EXCEPT ![c] = started]
        /\ UNCHANGED <<minute, due, enabled, sinceWake, sinceRefresh>>
    BY <1>5 DEF ManualRequest, StartCycle
  <2>2. started \in CycleRecords /\ ~started.scheduled
    BY <1>1, <1>3 DEF CycleRecords, NoCycle
  <2> HIDE DEF started
  <2>3. ~Wakes(c)
    BY <1>3, <2>1 DEF Wakes
  <2> QED BY <1>2, <2>1, <2>2, <2>3, OthersChangeNothing
<1>6. ASSUME Wake(c), ~Wakes(c) PROVE ScheduleInv'
  <2> DEFINE k == cycle[c]
             woken == IF k.on THEN [NoCycle EXCEPT !.stage = IF k.mode = "both" THEN "first"
                                                             ELSE "last"]
                      ELSE NoCycle
  <2>1. /\ cycle' = [cycle EXCEPT ![c] = woken]
        /\ UNCHANGED <<minute, due, enabled>>
        /\ sinceWake' = 0
    BY <1>6 DEF Wake
  <2>2. sinceRefresh' \in [ShardIndexes -> Nat]
    BY <1>2, <1>6 DEF Wake
  <2>3. \A i \in ShardIndexes : sinceRefresh'[i] \in {0, sinceRefresh[i]}
    BY <1>2, <1>6 DEF Wake
  <2>4. woken \in CycleRecords /\ woken.stage # "wake"
    BY <1>1 DEF CycleRecords, NoCycle
  <2> HIDE DEF woken
  <2> QED BY <1>6, <2>1, <2>2, <2>3, <2>4, OthersChangeNothing
<1>7. ASSUME ShardAnswered(c) PROVE ScheduleInv'
  <2> DEFINE answered == IF cycle[c].stage = "first" THEN [cycle[c] EXCEPT !.stage = "last"]
                         ELSE NoCycle
  <2>1. /\ cycle[c].stage # "wake"
        /\ cycle' = [cycle EXCEPT ![c] = answered]
        /\ UNCHANGED <<minute, due, enabled, sinceWake, sinceRefresh>>
    BY <1>7 DEF ShardAnswered, ScheduleInv, ScheduleTypes
  <2>2. answered \in CycleRecords /\ answered.stage # "wake"
    BY <1>2, <1>3 DEF CycleRecords
  <2> HIDE DEF answered
  <2>3. ~Wakes(c)
    BY <2>1 DEF Wakes
  <2> QED BY <1>2, <2>1, <2>2, <2>3, OthersChangeNothing
<1>8. ASSUME CycleCutOff(c) PROVE ScheduleInv'
  <2>1. /\ ~Wakes(c)
        /\ cycle' = [cycle EXCEPT ![c] = NoCycle]
        /\ UNCHANGED <<minute, due, enabled, sinceWake, sinceRefresh>>
    BY <1>8 DEF CycleCutOff, Wakes
  <2> QED BY <1>2, <1>3, <2>1, OthersChangeNothing
<1> QED BY <1>5, <1>6, <1>7, <1>8

LEMMA SwitchTurns == ASSUME ScheduleInv, TurnSwitch PROVE ScheduleInv'
<1> USE DEF ScheduleInv, TurnSwitch
<1>1. SlotAge' = SlotAge /\ \A i \in ShardIndexes : TurnAge(i)' = TurnAge(i)
  BY DEF SlotAge, TurnAge, TurnOf, FullCycleMinutes
<1>2. \A c \in Cycles : Wakes(c)' <=> Wakes(c)
  BY DEF Wakes
<1>3. Waiting' <=> Waiting
  BY DEF Waiting
<1>4. SlotAge \in Nat /\ \A i \in ShardIndexes : TurnAge(i) \in Nat
  <2>1. 0 \in ShardIndexes
    BY ScheduleAssumption DEF ShardIndexes
  <2> QED BY <2>1, Ages, Windows DEF ScheduleTypes
<1>5. ScheduleTypes'
  BY DEF ScheduleTypes
<1>6. TriggersSettle'
  BY <1>1, <1>2, <1>3 DEF TriggersSettle
<1>7. TriggersAreOfTheirShard'
  BY <1>1, <1>2, <1>4 DEF TriggersAreOfTheirShard
<1>8. OffIsNoDelay'
  BY DEF OffIsNoDelay
<1>9. WokenInTime'
  BY <1>1, <1>3 DEF WokenInTime
<1>10. AskedInTime'
  BY <1>1, <1>4 DEF AskedInTime
<1> QED BY <1>5, <1>6, <1>7, <1>8, <1>9, <1>10

LEMMA MinuteStep == ASSUME ScheduleInv, Minute PROVE ScheduleInv'
<1> USE ScheduleAssumption DEF ScheduleInv
<1>1. 0 \in ShardIndexes
  BY DEF ShardIndexes
<1>2. FullCycleMinutes \in Nat /\ FullCycleMinutes' = FullCycleMinutes
  BY DEF FullCycleMinutes
<1>3. /\ Waiting => SlotAge < MaxDelay
      /\ minute' = (minute + 1) % FullCycleMinutes
      /\ due' \in BOOLEAN /\ (due' <=> due \/ SlotAge' = 0)
      /\ UNCHANGED <<enabled, cycle>>
  BY DEF Minute, SlotAge
<1>4. /\ minute' \in 0..FullCycleMinutes - 1
      /\ SlotAge \in 0..CronPeriod - 1
      /\ SlotAge' = (IF SlotAge = CronPeriod - 1 THEN 0 ELSE SlotAge + 1)
  BY <1>1, <1>3, MinutePasses, Ages DEF ScheduleTypes
<1>5. \A i \in ShardIndexes :
         /\ TurnAge(i) \in 0..FullCycleMinutes - 1
         /\ TurnAge(i)' = (IF TurnAge(i) = FullCycleMinutes - 1 THEN 0 ELSE TurnAge(i) + 1)
         /\ TurnAge(i)' = 0 => SlotAge' = 0
  BY <1>3, MinutePasses, Ages DEF ScheduleTypes
<1>6. /\ sinceWake' \in Nat
      /\ sinceWake' <= sinceWake + 1
  BY DEF Minute, Later, ScheduleTypes
<1>7. /\ sinceRefresh' \in [ShardIndexes -> Nat]
      /\ \A i \in ShardIndexes :
            /\ sinceRefresh'[i] <= sinceRefresh[i] + 1
            /\ ~enabled => sinceRefresh'[i] = 0
  <2>1. sinceRefresh' = [i \in ShardIndexes |->
                         IF enabled THEN Later(sinceRefresh[i], FullCycleMinutes) ELSE 0]
    BY DEF Minute
  <2>2. \A i \in ShardIndexes :
           /\ Later(sinceRefresh[i], FullCycleMinutes) \in Nat
           /\ Later(sinceRefresh[i], FullCycleMinutes) <= sinceRefresh[i] + 1
    BY DEF Later, ScheduleTypes
  <2>3. \A i \in ShardIndexes : 0 <= sinceRefresh[i] + 1
    BY DEF ScheduleTypes
  <2> QED BY <2>1, <2>2, <2>3
<1>8. \A c \in Cycles : Wakes(c)' <=> Wakes(c)
  BY <1>3 DEF Wakes
<1>9. (\E c \in Cycles : Wakes(c)) => Waiting /\ ~due /\ SlotAge' = SlotAge + 1
  BY <1>3, <1>4 DEF Waiting, Wakes, TriggersSettle, ScheduleTypes
<1>10. /\ Waiting => SlotAge' = SlotAge + 1 /\ SlotAge' <= MaxDelay /\ Waiting'
       /\ ~Waiting => (Waiting' <=> SlotAge' = 0)
  <2>1. Waiting <=> due \/ \E c \in Cycles : Wakes(c)
    BY DEF Waiting, Wakes
  <2>2. Waiting' <=> due' \/ \E c \in Cycles : Wakes(c)
    BY <1>8 DEF Waiting, Wakes
  <2>3. Waiting => SlotAge' = SlotAge + 1 /\ SlotAge' <= MaxDelay
    BY <1>3, <1>4
  <2> QED BY <1>3, <2>1, <2>2, <2>3
<1>11. ScheduleTypes'
  BY <1>2, <1>3, <1>4, <1>6, <1>7 DEF ScheduleTypes
<1>12. TriggersSettle'
  <2>1. Waiting' => SlotAge' <= MaxDelay
    BY <1>10
  <2>2. \A c \in Cycles : Wakes(c) => ~due'
    BY <1>3, <1>4, <1>9
  <2> QED BY <1>8, <2>1, <2>2 DEF TriggersSettle
<1>13. TriggersAreOfTheirShard'
  <2> SUFFICES ASSUME NEW c \in Cycles, Wakes(c)
               PROVE  IF cycle[c].on
                      THEN /\ cycle[c].mode # "translate-backlog"
                           /\ \A i \in ShardIndexes :
                                 TurnAge(i)' = SlotAge' => i = cycle[c].shard
                      ELSE \A i \in ShardIndexes : sinceRefresh'[i] <= SlotAge'
    BY <1>3, <1>8 DEF TriggersAreOfTheirShard
  <2>1. SlotAge' = SlotAge + 1
    BY <1>9
  <2>2. \A i \in ShardIndexes : TurnAge(i)' = SlotAge' => TurnAge(i) = SlotAge
    BY <1>4, <1>5, <2>1
  <2>3. \A i \in ShardIndexes :
           sinceRefresh[i] <= SlotAge => sinceRefresh'[i] <= SlotAge'
    BY <1>4, <1>7, <2>1 DEF ScheduleTypes
  <2> QED BY <2>2, <2>3 DEF TriggersAreOfTheirShard
<1>14. OffIsNoDelay'
  BY <1>3, <1>7 DEF OffIsNoDelay
<1>15. WokenInTime'
  BY <1>4, <1>6, <1>10 DEF WokenInTime, ScheduleTypes
<1>16. AskedInTime'
  <2> SUFFICES ASSUME NEW i \in ShardIndexes
               PROVE  \/ sinceRefresh'[i] <= TurnAge(i)'
                      \/ /\ Waiting' /\ TurnAge(i)' = SlotAge'
                         /\ sinceRefresh'[i] <= FullCycleMinutes + SlotAge'
    BY <1>2 DEF AskedInTime
  <2>1. /\ TurnAge(i) \in 0..FullCycleMinutes - 1
        /\ TurnAge(i)' = (IF TurnAge(i) = FullCycleMinutes - 1 THEN 0 ELSE TurnAge(i) + 1)
        /\ TurnAge(i)' = 0 => SlotAge' = 0
        /\ sinceRefresh[i] \in Nat /\ sinceRefresh'[i] \in Nat
        /\ sinceRefresh'[i] <= sinceRefresh[i] + 1
    BY <1>5, <1>7 DEF ScheduleTypes
  <2>2. CASE TurnAge(i) # FullCycleMinutes - 1
    <3>1. CASE sinceRefresh[i] <= TurnAge(i)
      BY <2>1, <2>2, <3>1
    <3>2. CASE ~(sinceRefresh[i] <= TurnAge(i))
      <4>1. Waiting /\ TurnAge(i) = SlotAge /\ sinceRefresh[i] <= FullCycleMinutes + SlotAge
        BY <3>2 DEF AskedInTime
      <4> QED BY <1>2, <1>4, <1>10, <2>1, <2>2, <4>1
    <3> QED BY <3>1, <3>2
  <2>3. CASE TurnAge(i) = FullCycleMinutes - 1
    <3>1. TurnAge(i)' = 0 /\ SlotAge' = 0
      BY <2>1, <2>3
    <3>2. ~Waiting /\ Waiting'
      BY <1>4, <1>10, <3>1
    <3>3. sinceRefresh[i] <= TurnAge(i)
      BY <3>2 DEF AskedInTime
    <3> QED BY <1>2, <2>1, <2>3, <3>1, <3>2, <3>3
  <2> QED BY <2>2, <2>3
<1> QED BY <1>11, <1>12, <1>13, <1>14, <1>15, <1>16

LEMMA ScheduleStep == ASSUME ScheduleInv, [ScheduleNext]_scheduleVars PROVE ScheduleInv'
<1>1. CASE UNCHANGED scheduleVars
  <2>1. UNCHANGED <<minute, due, enabled, cycle, sinceWake, sinceRefresh>>
    BY <1>1 DEF scheduleVars
  <2> QED BY <2>1 DEF ScheduleInv, ScheduleTypes, TriggersSettle, TriggersAreOfTheirShard,
       OffIsNoDelay, WokenInTime, AskedInTime, Waiting, Wakes, SlotAge, TurnAge, TurnOf,
       FullCycleMinutes
<1>2. ASSUME NEW c \in Cycles,
             \/ \E backlog \in BOOLEAN : CronTrigger(c, backlog)
             \/ \E shard \in ShardIndexes, mode \in {"refresh", "both", "translate-backlog"} :
                   ManualRequest(c, shard, mode)
             \/ Wake(c)
             \/ ShardAnswered(c)
             \/ CycleCutOff(c)
      PROVE  ScheduleInv'
  <2>1. CASE Wake(c) /\ Wakes(c)
    BY <2>1, TriggerIsSettled
  <2>2. CASE ~(Wake(c) /\ Wakes(c))
    BY <1>2, <2>2, TriggerStarts, OthersStep
  <2> QED BY <2>1, <2>2
<1>3. CASE TurnSwitch
  BY <1>3, SwitchTurns
<1>4. CASE Minute
  BY <1>4, MinuteStep
<1> QED BY <1>1, <1>2, <1>3, <1>4 DEF ScheduleNext

\* Every shard is asked within the full cycle, and the failover object woken by every
\* trigger, for any number of shards and cycles, any interval, period and delay, and
\* whenever the switch is turned (getAutomaticShardIndex).
THEOREM EveryShardHasItsTurn == ScheduleSpec => []ScheduleKept
<1>1. ASSUME ScheduleInv PROVE ScheduleKept
  <2> USE <1>1, ScheduleAssumption DEF ScheduleInv
  <2>1. 0 \in ShardIndexes
    BY DEF ShardIndexes
  <2>2. FullCycleMinutes \in Nat
    BY DEF FullCycleMinutes
  <2>3. SlotAge \in 0..CronPeriod - 1 /\ (Waiting => SlotAge <= MaxDelay)
    BY <2>1, Ages DEF ScheduleTypes, TriggersSettle
  <2>4. sinceWake <= CronPeriod + MaxDelay
    BY <2>3 DEF WokenInTime, ScheduleTypes
  <2>5. \A i \in ShardIndexes : sinceRefresh[i] <= FullCycleMinutes + MaxDelay
    <3> TAKE i \in ShardIndexes
    <3>1. TurnAge(i) \in 0..FullCycleMinutes - 1
      BY Ages DEF ScheduleTypes
    <3> QED BY <2>2, <2>3, <3>1 DEF AskedInTime, ScheduleTypes
  <2> QED BY <2>4, <2>5 DEF ScheduleKept
<1> QED BY <1>1, ScheduleStart, ScheduleStep, PTL DEF ScheduleSpec
================================================================================
