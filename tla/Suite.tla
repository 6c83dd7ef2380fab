-------------------------------- MODULE Suite --------------------------------
(***************************************************************************)
(* Evaluation suites (eval.ts): runs of a suite, one after another, each   *)
(* case repeated over its trials, through the cache (cache.ts), the        *)
(* recorder of what is spent, and the retries of invoke.ts, under a budget *)
(* admitted beforehand (budget.ts).                                        *)
(*                                                                         *)
(* A run is sequential: a step is one request to the provider, or its      *)
(* answer from the cache. An answer is its number: two answers are two     *)
(* samples, even of one prompt. Scores, tokens and dollars are left out.   *)
(***************************************************************************)
EXTENDS Integers, FiniteSets, Sequences

CONSTANTS
  Cases,         \* the case_ids of the suite, 1..N in their order
  Missing,       \* those nobody wrote
  Trials, Attempts,
  Caps,          \* max_provider_calls a configuration may declare
  MaxRuns        \* bound on the runs of the suite over one cache

ASSUME SuiteAssumption ==
  /\ IsFiniteSet(Cases) /\ Cases = 1..Cardinality(Cases)
  /\ Missing \subseteq Cases
  /\ Trials \in Nat \ {0} /\ Attempts \in Nat \ {0}
  /\ Caps \subseteq Nat \ {0} /\ MaxRuns \in Nat

NoCap == 0       \* `budget: null`

Written == Cases \ Missing
Slots == Written \X (1..Trials)

NoAnswer == 0    \* of a trial that degraded, or of a key the cache does not hold

VARIABLES
  phase,      \* "idle", or "running"
  config,     \* of the run: whether decoding is stochastic and a cache was given, its cap,
              \* its case_ids and its trials
  at,         \* the case and the trial in hand
  attempt,    \* of the retries of the trial
  cache,      \* per key, the answer under it
  calls,      \* history: the requests that reached the provider
  cost,       \* what the recorder and the cache counted: provider_calls, cache_hits
  lost,       \* history: the requests that threw, and those that failed
  taken,      \* history: per trial, the answer it was scored on
  answers,    \* history: the answers the provider gave so far
  runs

suiteVars == <<phase, config, at, attempt, cache, calls, cost, lost, taken, answers, runs>>

CacheKeys == (BOOLEAN \X (Caps \cup {NoCap})) \X Written \X (0..Trials)

\* What configuration_id is a hash of, as far as configurations differ here.
ConfigurationId == <<config.stochastic, config.cap>>

\* The trial left out of the key, as (config_hash, case_hash) was.
CaseKey(c, t) == <<ConfigurationId, c, 0>>

\* cacheKey: the trial is part of it exactly when the decoding is stochastic.
cacheKey(c, t) == <<ConfigurationId, c, IF config.stochastic THEN t ELSE 0>>

\* plannedCalls: trials collapse to one call when decoding is deterministic.
plannedCalls(c) == Cardinality(c.cases) * (IF c.stochastic THEN c.trials ELSE 1)

\* admitRun, on a cap of calls.
Admitted(c) == c.cap = NoCap \/ plannedCalls(c) <= c.cap

NoCost == [provider_calls |-> 0, cache_hits |-> 0]
NoLoss == [thrown |-> 0, failed |-> 0]
NothingTaken == [s \in Slots |-> NoAnswer]

\* The trials a run has requests for: a missing case is scored without one.
Todo(c) == {u \in Slots : u[1] \in c.cases /\ u[2] <= c.trials}

Before(u, v) == u[1] < v[1] \/ (u[1] = v[1] /\ u[2] < v[2])
Earliest(slots) == CHOOSE u \in slots : \A v \in slots : ~Before(v, u)
Later(u) == {v \in Todo(config) : Before(u, v)}

NoRun == [stochastic |-> FALSE, cached |-> FALSE, cap |-> NoCap, cases |-> {}, trials |-> 1]
NothingCached == [k \in CacheKeys |-> NoAnswer]

SuiteInit ==
  /\ phase = "idle"
  /\ config = NoRun
  /\ at = Earliest(Slots)
  /\ attempt = 1
  /\ cache = NothingCached
  /\ calls = 0
  /\ cost = NoCost
  /\ lost = NoLoss
  /\ taken = NothingTaken
  /\ answers = 0
  /\ runs = 0

\* runSuite, up to its first request: a run whose plan is over its cap is refused whole.
Start(c) ==
  /\ phase = "idle"
  /\ Admitted(c)
  /\ config' = c
  /\ phase' = IF Todo(c) = {} THEN "idle" ELSE "running"
  /\ at' = IF Todo(c) = {} THEN at ELSE Earliest(Todo(c))
  /\ attempt' = 1
  /\ calls' = 0
  /\ cost' = NoCost
  /\ lost' = NoLoss
  /\ taken' = NothingTaken

\* The trial is over, with an answer or without: the next one, or the end of the run.
Scored(answer) ==
  /\ taken' = [taken EXCEPT ![at] = answer]
  /\ attempt' = 1
  /\ IF Later(at) = {} THEN phase' = "idle" /\ UNCHANGED at
     ELSE at' = Earliest(Later(at)) /\ UNCHANGED phase

Key == cacheKey(at[1], at[2])
IsHit == config.cached /\ cache[Key] # NoAnswer

\* A recorder around the cache.
HitAsCall(c) == [c EXCEPT !.cache_hits = @ + 1, !.provider_calls = @ + 1]

\* The recorder is inside the cache: a hit is no call.
Hit(c) == [c EXCEPT !.cache_hits = @ + 1]

\* It counts a call when the provider has answered or failed, not when it threw.
Recorded(c) == [c EXCEPT !.provider_calls = @ + 1]

FromCache ==
  /\ phase = "running"
  /\ IsHit
  /\ cost' = Hit(cost)
  /\ Scored(cache[Key])
  /\ UNCHANGED <<config, cache, calls, lost, answers, runs>>

Called ==
  /\ phase = "running"
  /\ ~IsHit
  /\ calls' = calls + 1
  /\ UNCHANGED <<config, runs>>

Answered ==
  /\ Called
  /\ answers' = answers + 1
  /\ cost' = Recorded(cost)
  /\ cache' = IF config.cached THEN [cache EXCEPT ![Key] = answers + 1] ELSE cache
  /\ Scored(answers + 1)
  /\ UNCHANGED lost

\* One attempt too many.
MayRetryOnce(n) == n <= Attempts

MayRetry(n) == n < Attempts

\* A failure is never cached; a retriable one is asked again, as a request of its own.
Failed ==
  /\ Called
  /\ cost' = Recorded(cost)
  /\ lost' = [lost EXCEPT !.failed = @ + 1]
  /\ \/ Scored(NoAnswer)
     \/ /\ MayRetry(attempt)
        /\ attempt' = attempt + 1
        /\ UNCHANGED <<phase, at, taken>>
  /\ UNCHANGED <<cache, answers>>

\* An adapter that throws ends the trial.
Threw ==
  /\ Called
  /\ lost' = [lost EXCEPT !.thrown = @ + 1]
  /\ Scored(NoAnswer)
  /\ UNCHANGED <<cache, cost, answers>>

\* A run of the whole suite by a caller of runSuite that keeps one cache.
CallerStarts ==
  /\ runs < MaxRuns
  /\ \E stochastic, cached \in BOOLEAN, cap \in Caps :
       Start([stochastic |-> stochastic, cached |-> cached, cap |-> cap, cases |-> Cases,
              trials |-> Trials])
  /\ runs' = runs + 1
  /\ UNCHANGED <<cache, answers>>

Request == FromCache \/ Answered \/ Failed \/ Threw

SuiteNext == CallerStarts \/ Request

SuiteSpec == SuiteInit /\ [][SuiteNext]_suiteVars

-----------------------------------------------------------------------------
(* Properties.                                                             *)

\* Under stochastic decoding every trial that was answered was answered by a sample of its own:
\* the cache never makes one answer stand for two trials, in this run or after an earlier one.
TrialsAreSamples ==
  config.stochastic =>
    \A s, u \in Slots : s # u /\ taken[s] # NoAnswer => taken[s] # taken[u]

\* What a run is charged is what it called: each request that reached the provider and came
\* back, and no answer of the cache.
CostIsWhatWasCalled ==
  /\ cost.provider_calls + lost.thrown = calls
  /\ cost.cache_hits <= Cardinality({s \in Slots : taken[s] # NoAnswer})

\* A run of which no request failed stays within the plan it was admitted on, and so within its
\* cap: its trials are calls of their own, or one call and hits. Any run stays within what its
\* trials would cost with every retry.
CallsWithinPlan ==
  /\ lost = NoLoss /\ (config.stochastic \/ config.cached \/ config.trials = 1) =>
       calls <= plannedCalls(config) /\ (config.cap = NoCap \/ calls <= config.cap)
  /\ calls <= Cardinality(Todo(config)) * Attempts

\* A run admitted on a cap makes no more calls than the cap: budget.ts, "Refuse before
\* dispatch", and the comment on admission in eval.ts.
CapHolds == config.cap = NoCap \/ calls <= config.cap
=============================================================================
