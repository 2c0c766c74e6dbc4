------------------------------ MODULE ProviderCalls ------------------------------
(***************************************************************************)
(* How a run has articles reviewed or summaries translated                 *)
(* (worker/src/index.ts).  A pool of concurrent callers works the tasks    *)
(* off, one after another (mapWithConcurrency).  A task is put to the      *)
(* local AI service and then, if that may be, to OpenAI, each so often,    *)
(* until one gives a usable answer; without one a review becomes a         *)
(* rejection and a translation is left out.  The local service             *)
(* (local-ai-service/server.mjs) keeps nothing between requests: every     *)
(* request is checked, put to its model and answered or aborted.           *)
(***************************************************************************)
EXTENDS Integers, Sequences

CONSTANTS
    TaskCount,  \* tasks of a run
    Callers     \* getAiReviewConcurrency, or 2 for translations

ASSUME ProviderAssumption == TaskCount \in Nat \ {0}

VARIABLES
    setting,    \* the run's configuration, as far as the providers go
    work,       \* "idle", "review" or "translation"
    wellFormed, \* the tasks that have all the texts the local service asks for
    nextTask,   \* nextIndex
    caller,     \* what each caller is doing
    asked,      \* how often each task was put to each provider
    result      \* who answered it: a provider, "nobody", or "pending"

providerVars == <<setting, work, wellFormed, nextTask, caller, asked, result>>

TaskIds == 1..TaskCount

Providers == {"local", "openai"}

Keys == {"absent", "unusable", "usable"}

\* What getRuntimeConfig lets through; a usable key is one that can be sent in a header.
Settings ==
    {c \in [local : Keys, openai : Keys, prefersLocal : BOOLEAN, fallback : BOOLEAN] :
        /\ c.fallback => c.openai # "absent"
        /\ c.local # "absent" \/ c.openai # "absent"
        /\ c.local # "absent" \/ ~c.prefersLocal \/ c.fallback}

Free == [task |-> 0, provider |-> "local", attempt |-> 0]

NothingAsked == [t \in TaskIds |-> [p \in Providers |-> 0]]

ProviderInit ==
    /\ setting = [local |-> "absent", openai |-> "usable", prefersLocal |-> FALSE,
                  fallback |-> TRUE]
    /\ work = "idle"
    /\ wellFormed = {}
    /\ nextTask = 1
    /\ caller = [w \in Callers |-> Free]
    /\ asked = NothingAsked
    /\ result = [t \in TaskIds |-> "pending"]

-----------------------------------------------------------------------------

\* getAiReviewProviderOrder and getSummaryTranslationProviderOrder: what the run logs and
\* counts its subrequests by.
ProviderOrder ==
    CASE setting.local # "absent" -> IF setting.fallback THEN <<"local", "openai">> ELSE <<"local">>
      [] setting.local = "absent" /\ setting.prefersLocal /\ ~setting.fallback -> <<"local">>
      [] OTHER -> <<"openai">>

\* AI_REVIEW_RETRY_ATTEMPTS, SUMMARY_TRANSLATION_RETRY_ATTEMPTS; OpenAI reviews once.
Attempts(provider) == IF work = "review" /\ provider = "openai" THEN 1 ELSE 2

\* Who comes after the local service.
ElseOpenAi(allowed) == IF allowed /\ setting.openai = "usable" THEN "openai" ELSE "nobody"

\* Without a usable key for the local service OpenAI is not tried either.
NoKeyNoFallbackBug ==
    CASE setting.local = "usable"   -> "local"
      [] setting.local = "unusable" -> "nobody"
      [] OTHER -> ElseOpenAi(~(setting.prefersLocal /\ ~setting.fallback))

\* Who is asked first.
FirstAsked ==
    CASE setting.local = "usable"   -> "local"
      [] setting.local = "unusable" -> ElseOpenAi(setting.fallback)
      [] OTHER -> ElseOpenAi(~(setting.prefersLocal /\ ~setting.fallback))

AskedNext(provider) == IF provider = "local" THEN ElseOpenAi(setting.fallback) ELSE "nobody"

StartWork(c, kind, complete) ==
    /\ work = "idle"
    /\ setting' = c
    /\ work' = kind
    /\ wellFormed' = complete
    /\ UNCHANGED <<nextTask, caller, asked, result>>

\* A caller takes the next task.
TakeTask(w) ==
    /\ work # "idle"
    /\ caller[w] = Free
    /\ nextTask <= TaskCount
    /\ nextTask' = nextTask + 1
    /\ IF FirstAsked = "nobody"
       THEN /\ result' = [result EXCEPT ![nextTask] = "nobody"]
            /\ UNCHANGED caller
       ELSE /\ caller' = [caller EXCEPT ![w] =
                            [task |-> nextTask, provider |-> FirstAsked, attempt |-> 1]]
            /\ UNCHANGED result
    /\ UNCHANGED <<setting, work, wellFormed, asked>>

\* handleReview and handleTranslate: a request that lacks a text is refused, any other is
\* put to the model, which may fail or not answer in time.
LocalMayAnswer(t) == t \in wellFormed

\* fetchWithTimeout, and what an answer has to be: parsed, complete, and for a summary of
\* the quality asked for.
MayAnswer(provider, t) == provider = "local" => LocalMayAnswer(t)

Asked(w) ==
    /\ caller[w] # Free
    /\ asked' = [asked EXCEPT ![caller[w].task][caller[w].provider] = @ + 1]
    /\ UNCHANGED <<setting, work, wellFormed, nextTask>>

LastTry(w) == caller[w].attempt = Attempts(caller[w].provider)

Settle(w, by) ==
    /\ result' = [result EXCEPT ![caller[w].task] = by]
    /\ caller' = [caller EXCEPT ![w] = Free]

Answer(w) ==
    /\ Asked(w)
    /\ MayAnswer(caller[w].provider, caller[w].task)
    /\ Settle(w, caller[w].provider)

AskAgain(w) ==
    /\ Asked(w)
    /\ ~LastTry(w)
    /\ caller' = [caller EXCEPT ![w].attempt = @ + 1]
    /\ UNCHANGED result

FallBack(w) ==
    /\ Asked(w)
    /\ LastTry(w)
    /\ AskedNext(caller[w].provider) # "nobody"
    /\ caller' = [caller EXCEPT ![w].provider = AskedNext(caller[w].provider), ![w].attempt = 1]
    /\ UNCHANGED result

\* An article without an answer is rejected, a summary left out.
GiveUp(w) ==
    /\ Asked(w)
    /\ LastTry(w)
    /\ AskedNext(caller[w].provider) = "nobody"
    /\ Settle(w, "nobody")

\* Promise.all: every caller has come to the end of the tasks.
WorkDone ==
    /\ work # "idle"
    /\ nextTask > TaskCount
    /\ \A w \in Callers : caller[w] = Free
    /\ work' = "idle"
    /\ wellFormed' = {}
    /\ nextTask' = 1
    /\ asked' = NothingAsked
    /\ result' = [t \in TaskIds |-> "pending"]
    /\ UNCHANGED <<setting, caller>>

ProviderNext ==
    \/ \E c \in Settings, kind \in {"review", "translation"}, complete \in SUBSET TaskIds :
          StartWork(c, kind, complete)
    \/ \E w \in Callers : TakeTask(w) \/ Answer(w) \/ AskAgain(w) \/ FallBack(w) \/ GiveUp(w)
    \/ WorkDone

ProviderSpec == ProviderInit /\ [][ProviderNext]_providerVars

-----------------------------------------------------------------------------
(* Properties. *)

Callable(provider) == setting[provider] = "usable"

\* How often a task is put to a provider that gives it no usable answer.
Fruitless(provider) == IF Callable(provider) THEN Attempts(provider) ELSE 0

InOrder(provider) == \E i \in DOMAIN ProviderOrder : ProviderOrder[i] = provider

Before(provider) == {ProviderOrder[i] : i \in {j \in DOMAIN ProviderOrder :
                        \E k \in DOMAIN ProviderOrder : j < k /\ ProviderOrder[k] = provider}}

\* An article is rejected, and a summary left out, for want of an answer only when every
\* provider of the order the run reports has been asked as often as it may be; an
\* answer comes from a provider of that order after all before it were; and no task is
\* asked for twice, whichever callers work side by side.
ProvidersExhausted ==
    \A t \in TaskIds :
        /\ \A p \in Providers : asked[t][p] <= IF InOrder(p) THEN Fruitless(p) ELSE 0
        /\ result[t] = "nobody" =>
               \A p \in Providers : InOrder(p) => asked[t][p] = Fruitless(p)
        /\ result[t] \in Providers =>
               /\ InOrder(result[t]) /\ asked[t][result[t]] > 0
               /\ \A p \in Before(result[t]) : asked[t][p] = Fruitless(p)
        /\ nextTask > TaskCount /\ (\A w \in Callers : caller[w] = Free) => result[t] # "pending"
=============================================================================
