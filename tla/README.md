# NexusPrompt in TLA+

NexusPrompt compiles a brief into a system prompt by running an eleven-stage pipeline of
model calls and deterministic checks, keeps the evidence of every run on the machine it runs
on, and decides from evaluation suites what may be released. This project models the parts of
it that keep state, act concurrently or must survive failures, checks them with TLC on small
instances, and proves the most important results with TLAPS for every value of the constants.

## The system and its components

| Component | State it keeps | Operations | Interacts with | Module |
|---|---|---|---|---|
| Pipeline runner, `application/src/pipeline.ts` with `core/src/stages/pipeline.ts` | plan, position, context, ids of the run's revisions, feedback rounds | admission, skip, decide, invoke, reduce, persist, feedback | provider, revision store, content store | `Pipeline` |
| Retry, `application/src/invoke.ts`; admission, `core/src/eval/budget.ts` | attempt number; the call cap | `invokeWithRetry`, `admitRun`, `plannedPipelineCalls` | provider | `Pipeline`, `Gateway`, `Suite` |
| `storage-local` | one JSON file per run, or one manifest; a promise chain and the set of runs written, per process | `append`, `commitManifest`, `markStale`, `evict`, reads | the file system, other processes on the directory | `LocalStore` |
| `storage-db` | two SQLite tables | the same port, each operation a transaction | SQLite | `RevisionStore` |
| `content-local`, and the retention and sweep of the runner | one file per body, at its hash | `put`, `get`, `has`, `sweep`; `retain`, live set, trust check | the revision store, other runs | `ContentPlane` |
| Judging of bundles, `application/src/judge-bundle.ts` | none | `judgeBundle` | the bundle of a run, finished or not | `Judge` |
| Release, `application/src/release.ts`, `core/src/release/promote.ts`; `evidence-local` | records written once, one file each | `freezeBaseline`, `promote`, `rollback`, `current`; `put`, `get`, `list` | clients in several processes | `Release` |
| Comparison of two runs, `core/src/eval/compare.ts` | running totals | `compare` | suites, recall probes | `Comparator` |
| Evaluation suites, `application/src/eval.ts`, `cache.ts` | cost, cache, usages | `runSuite`, hits, misses, retries | provider | `Suite` |
| Eval command, `scripts/run-eval.ts`, `core/src/eval/preflight.ts`, `transport-validity.ts` | none between invocations | dry run, run, `--compare` | suites | `EvalCommand` |
| API shell, `shells/api/src/security.ts`, `app.ts`; Orchestrator (one stage) | the counts of a fixed window; none | rate check, authentication, shared ceiling; admission, invoke, append | provider, revision store | `Gateway` |
| Health of `provider-hosted-server` | a cache of entries by provider | `health`, `probeModel`, `healthCheck` | hosted providers | `HostedHealth` |
| Workbench, `proposals/spb-pipeline-workbench` | context, stale marks, revision numbers, settings | run all, one or the stale stages; edit, switch, stop, reset | provider | `Workbench` |
| The workbench's lists in the browser | revision history and vault, in memory and in two backends | load, archive, save, import, clear | `window.storage`, `localStorage` | `Shelf` |
| Judge and pilot, gates, lint primitives, statistics, routing, redaction, other provider adapters, CLI and UI shells, contracts, scripts, frozen sources | none, or text and floating point | | | not modelled |

The runner is one async function per run. Within a process runs overlap (the API and the UI
shells serve requests concurrently), and several processes (CLI, UI) share
`.nexusprompt/runs`, `.nexusprompt/content` and the evidence directory below one working
directory.

### What is hard here

- **Interleaving.** Every `await` lets other calls and other processes in: between a read of a
  bundle and the write back, between the listing a sweep relies on and its deletions, between
  the creation of a file and its bytes, between the four records a promotion is decided on, between
  the click that edits a template and the end of a run made from the old one.
- **Crash.** A process may stop between a rename and the eviction that follows, or between
  the opening of a file and its bytes; a torn evidence record can never be written again.
- **Partial failure.** A stage degrades to a placeholder, throws, or its provider adapter does;
  the first of two puts succeeds and the second does not; a trial of a suite is retried or lost.
- **Loops and retries.** Feedback jumps back to `refine`; every stage execution retries. The
  budget is checked once, before all of it, and for a suite by another rule than the calls made.
- **Bounds.** Eight bundles: whole runs are evicted, the manifests other callers published
  included, while runs are still appending. Three ceilings share one fixed window.
- **Staleness.** Verdicts about a prompt that has been replaced; descendants of a superseded
  revision, in a bundle in any order; one cached answer for two trials; health entries that
  replace each other out of order; lists loaded after they were changed.
- **Boundaries of arithmetic.** The comparator's verdict, refusal and floor meet at equalities
  of fractions; the wait told to a client is a rounded division.

`PROJECT.json` lists each hazard at its line with the properties that cover it.

### What makes each component correct

- Stores: no acknowledged revision is lost; one mode per run; manifests are immutable;
  eviction is whole and oldest first; the bound is restored; every call settles; the file
  store behaves as the transactional one.
- Pipeline: calls stay within what was admitted; verdicts are about the prompt they stand
  beside; nothing unmarked is made from a placeholder; the FRESH revisions of a bundle are
  the plan; every run ends. What a judge would grade, at any moment, is the run's prompt.
- Content: a ref in a stored revision resolves; what nothing names is reclaimed; nothing that
  a surviving revision cites is.
- Release: whole records never change; every promotion on record, and every rollback to one,
  satisfies the five conditions on the evidence it names; `current` misses no record that was
  there when it was asked.
- Comparator: no verdict is what unequal detectors make of equal arms; a refusal for size is
  one no evidence could have avoided.
- Suites and their command: a trial is a sample; the cost is what was called; the calls
  stay within the plan; a dry run predicts the run.
- API shell: a window serves no more than its ceilings; refused callers use up nothing shared;
  waiting as told helps; every request is answered.
- Workbench: a verdict judges the prompt it is shown under; the texts on the screen are made by
  the templates as they are, and by no stage marked stale; the lists in the browser survive their
  next opening.

## The modules

**`Revisions`** has what both stores compute on entries and bundles: the cascade of
`markStale` (`Cascade`, the loop of storage-local:443-453), the sets an eviction pass may
choose (`DoomedSets`), the change of freshness (`StaleIn`). A bundle is the sequence of its
entries and the empty sequence a run that is not stored. An entry keeps its id, parents,
timestamp, freshness, and whether it has lineage at all.

**`RevisionStore`** is storage-db. Each operation is a `BEGIN IMMEDIATE` transaction, so one
action: `AppendEntry` (refuse a committed run, insert, evict), `CommitManifest`, `MarkStale`.
A refused call rolls back and is no step. It is also the abstract specification of the port.

**`LocalStore`** is storage-local, one action per stretch between two awaits. `queue` is the
chain of `serialise`: the head runs, the others wait. `AppendOpen` is the synchronous checks,
`AppendRead` the read, `AppendWrite` the rename, `EvictScan` and `EvictRemove` the eviction;
`CommitOpen` and `CommitLink` the two halves of `commitManifest`. `markStale` is outside the
chain: `CallStale`, `StaleRead`, then `StaleOpen` and `StaleWrite`, because `writeFile`
truncates first and fills later; a file renamed over or removed in between takes the bytes
with it (`handles`). `Crash` and `Restart` act on a process. `written` is the set behind the
guard on vanished bundles. `stored` is a history variable: the ids whose write succeeded since
the run was last evicted. `readAll` reads files one by one and is taken as one step.
Two constants bound the environment: `Kinds`, the operations callers use, and
`StaleAlone`, which forbids callers to overlap `markStale` with another call.

**`Pipeline`** is one run. `pc` says which await the runner is at; `ctx` is `PipelineContext`
with each text reduced to absent, real or placeholder, plus the version of the prompt, the
unusable inputs it was made from (`origin`), and the version each verdict is about. `Skip`,
`StageThrows`, `EstimateCost`, `Lint`, `Feedback`, `Decide`, `Call`, `Settle` are the
branches of the loop; `StoreThrows` is the one failure that rejects the run. The answers of a
provider are those `invokeWithRetry` and `refuseForgedMarker` leave: real, placeholder,
thrown. `lint` is a function of its prompt and the model keeps it one (`LintOutcomes`).
Staleness uses `Revisions`. **`Judge`** extends it with `judgeBundle`: which bundles it
refuses and which revision it grades, evaluated in every state of the run, because the command
may be given while the run goes on or after it aborted.

**`ContentPlane`** is the runs of several processes with one content directory: `PutOpen`,
`PutFill` and `PutVerify` are `put`; `Retain` and `RetentionFails` the code around it;
`AppendEntry` the revision with the eviction it causes; `SweepList`, `SweepRead`,
`SweepDecide`, `SweepFile` the end of `runPipeline`. A body is its address. The bundles follow
`RevisionStore`, with recency of the last append for the timestamps. The history variable
`seen` remembers whether two runs were ever in progress at once and whether a listing ever left
bundles out; the properties that need neither say so.

**`Release`** is the evidence plane with the operations on it. A file is absent, torn or a record;
`put` opens it with `wx` (`Creates`) and fills it (`PutFill`), and a client may stop in between
for good (`Fails`). A promotion loads its records one by one, decides on the five conditions of
`decidePromotion`, and writes. A run and a comparison enter as what a caller measured
(`Measured`); of each failure mode a run has how many cases passed of how many scored, and rates
are compared as fractions. `current` lists file by file.

**`Comparator`** is `compare()` in exact fractions. Cases are scored one by one into the totals
the code computes (a cluster is a case, its rows the looks at it), then one step judges: the
instruments equalised, the refusals in their order, the floor, the exact test, the resolution,
the verdict. A caller may name the correction for a family; `Divisor` is what the level is divided
by.

**`Suite`** is `runSuite`: runs one after another over one cache, a step for each request
that reaches the provider or is answered by the cache. An answer is its number, so that two
trials scored on one answer can be told from two samples. **`EvalCommand`** extends it with
`main()` of run-eval: invocations that refuse, print a plan or run the suite, with every exit code.

**`Gateway`** is the API shell. The hook refuses a request (`Refused`), lets it through to a route
that answers at once (`General`, `Passing`) or to a run of the orchestrator (`Compile`). It reads
the clock twice, so that the shared ceiling may be checked in another window than the client's.
The runs interleave at every await (`CallEnds`, `WaitEnds`, `Stored`). `window` carries what the
code keeps (start, counts) and the history the properties compare it with.

**`HostedHealth`** has overlapping questions about the health of hosted providers: an entry
of the cache when it is young, else a probe, which looks, and answers or is timed out; an
answer waits for the slowest provider. `seen` is history: when an entry was true.

**`Workbench`** is the nine-stage component. A step is one browser task. A text is the set of
stages and template versions it was made from; a template is its version and the texts it reads,
since `fillTemplate` gives every template every text of the context, and an edit may change both
(`Rewrites` has what each may come to read). A prompt has an identity and a verdict the identity of
the prompt it judged. The code keeps neither: its revision numbers stand for them. Templates are
edited at any time; the history variable `crossed` records that an edit fell into a run since the
context was last empty.

**`Shelf`** is what the workbench keeps: for the history and the vault, the list on the screen,
what each backend holds, the load in progress and the writes the sandbox has not settled.
`Persist` is the effect that stores the history. The history variable `kept` is what the
user made of what was stored.

`MC*` modules and `.cfg` files instantiate them. `MCRelease`, `MCProvider` and `MCWorkbench` hold
several programs that share no state, and each behaviour runs one of them. `*Proofs` hold the
theorems: `RevisionsProofs` lemmas for both stores, `PipelineProofs` what concerns `Judge` too,
`ReleaseProofs` `Comparator`, `WorkbenchProofs` `Shelf`, and `ProviderProofs` the four programs
that call a provider outside the pipeline.

Operators named after a variation of another (`YoungWhenever` beside `Young`,
`SkipForgetsCritique` beside `ShouldSkip`) stand just before the definition they vary. They are
plausible bugs; no action uses them, and `PROJECT.json` lists the property each one breaks.

## What the runs check

Passing runs:

| Run | Question | Instance |
|---|---|---|
| `store_db` | Is eviction whole, from both tables, and oldest first? Does the fixpoint loop of `markStale` reach exactly the descendants? | 3 runs (one from before 1.3.1), bound 1, 3 revisions, 2 timestamps; every lineage of 3 entries over 4 ids as a bundle found on disk |
| `local_one` | In one process, does no reader see a partial file, and is the file store a `RevisionStore`? | 2 clients, 3 runs, bound 1, 3 revisions |
| `local_crash` | With a crash between any two steps, is nothing acknowledged lost, no run in both modes, the bound restored? Does every queued call settle? | the same and 1 crash, fair |
| `local_two` | Can a second process replace a manifest? | 2 processes, 1 crash |
| `pipeline` | Budget, verdicts, placeholders, FRESH bundle, what a judge grades, termination | 3 depths, `max_iterations` 0, 1 and 4 clamped to 2, cap 20 or none, 2 attempts, 2 faults |
| `content` | Do refs resolve; is everything else reclaimed, and only that; can eviction leave part of a run? | 2 runs of 2 stages, in sequence or overlapping, 2 bodies, bound 1, 2 faults (failed writes and reads, short listings, crashes) |
| `release` | Are promotions certified by what is stored, records immutable, `current` fresh? Are verdicts and refusals of the comparator sound? | 2 clients, 2 runs, 1 baseline, 1 comparison, 2 promotions, 2 times; 7 cases of 1 or 2 rows, alpha 1/20, families 1 and 2, corrected for or not, resolutions 1/2 and 1/14, seven recalls |
| `workbench` | Does a verdict judge its prompt, with edits during runs too? Are the texts on the screen made by the current templates and by no marked stage, for an orderly user? Are the lists in the browser what the user made of them? | stakes LOW and HIGH, Harden switched, 2 runs, 2 changes, Compile may come to read the prompt and the critique; 3 lists found, both backends, lists of 2, 2 changes, 2 writes in flight |
| `provider` | Ceilings, shared budget, Retry-After, every request answered; samples, cost and plan of suites; dry runs; the age of a health answer | 2 clients with limits 1, 1 and 2, window of 3 with a second of 2, clock to 6, 2 handlers, 2 attempts; 3 cases (1 missing, 1 for the stub only), 2 trials, caps 3 and 6, 2 runs; 2 askers, 3 providers (1 without a key), cache 1, time-out 1 |

Runs that find the code contradicting what the repository says of it:

| Run | What happens |
|---|---|
| `local_race` | `markStale` reads, an append completes, `markStale` writes back: the appended revision is gone. The comment at storage-local:33 promises safety to concurrent callers in one process. |
| `content_overlap` | Run 1 sweeps between run 2's put and its append; run 2's revision refers to nothing. |
| `eval_dry` | `--local --dry-run --max-calls` below the plan exits 0 and the same invocation without `--dry-run` exits 2; preflight.ts:9-12 says the two cannot diverge. |

The passing runs on the stores assume `StaleAlone`, three properties of `ContentPlane` are stated
for runs that do not overlap, `OrderlyTextsCurrent` for a user who edits between runs and lets
Deconstruct and Calibrate read nothing made after them, and `PaidDryRunPredicts` is
`DryRunPredicts` for the transport that costs money, exactly because of what happens without. The
pipeline keeps `StaleAlone` for its own run, since it awaits each call.
Losing an append to another process's is a documented limit of storage-local (index.ts:34-38) and
not counted as a finding.

### Further deviations

More configurations are kept beside the runs. Each checks one property TLC refutes; run it with
`tlc -config <file>.cfg <module>`.

| Configuration, module | Property | What happens |
|---|---|---|
| `MCLocalStoreTorn`, `MCLocalStore` | `ReadersSeeWholeFiles` | `markStale` truncates in place and a reader in another process parses a partial file (storage-local:317 promises old or new, never partial). |
| `MCContentPlaneSame`, `MCContentPlane` | `NoFalseCorruption` | Run 2 puts the body run 1 has opened and not filled, reads an empty file and reports a corrupt store. The comment at content-local:104-106 has the loser of that race return success. |
| `MCPipelineAbsent`, `MCPipeline` | `NothingFromNothing` | `compile` FAILED; `harden` runs on the empty text and its answer becomes the prompt. |
| `MCPipelineJudge`, `MCPipeline` | `JudgedSurvives` | A run aborted or still in a feedback round: the revision graded is marked STALE. |
| `MCReleaseRollback`, `MCRelease` | `RollbackRestores` | A rollback copies the pointers of the very promotion it reverses: `current` names the configuration that was to be undone, where release.ts says undoing makes the one before it current again. |
| `MCReleaseDead`, `MCRelease` | `NoArtifact` | A detector that is dead on one arm makes a verdict of equal failures; run-eval fails a run with a dead detector, but looks at the first of the two arms only. |
| `MCReleaseFloor`, `MCRelease` | `RefusedIsHopeless` | At a level that is exactly the smallest p, the floor counts with <= and the test rejects with >=: a suite is given a look that cannot decide. |
| `MCReleaseSign`, `MCRelease` | `NoWrongSign` | With several rows a case, a verdict may go against most of the cases it rests on (about two minutes). |
| `MCGatewayWindow`, `MCProvider` | `CeilingsAgree` | A request counted for its client in one window and served in the next: a client gets one more than its limit, where the comment on the shared key has both counts agree. |
| `MCSuiteCap`, `MCProvider` | `CapHolds` | Retries, or repeated trials without a cache, take a run past the cap it was admitted on. |
| `MCEvalEmpty`, `MCProvider` | `NothingScoredNeverPasses` | A suite of cases for the stub only runs nothing on a real transport and exits 0. |
| `MCWorkbenchEdit`, `Workbench` | `VerdictFollowsTemplates` | A template is edited during a run. The edit empties the context and marks its stages; the answer then puts the context of the run back, unmarks its stage, and Lint gives a verdict on a prompt made by the old template. The workbench's README, lines 18-19, has the verdict disappear until the stages are recomputed. |
| `MCWorkbenchReads`, `MCWorkbench` | `KeptTextsCurrent` | The template of Deconstruct is made to read the prompt, and Deconstruct runs again after Compile. An edit of Compile then keeps the spec, made from what the old template of Compile wrote: `invalidateFrom` follows the dependencies of the default templates. A rerun of the stale stages builds on it, where the comment at SystemPromptBuilderPipeline.tsx:2356 says that what precedes them is still valid. |
| `MCWorkbenchOne`, `Workbench` | `VerdictWaits` | A rerun of the stale stages is stopped after Compile and Lint run alone: a verdict is shown while Harden, Critique and Refine are marked, against the same lines of the README. |
| `MCWorkbenchKeys`, `MCWorkbench` | `PrimaryActionRuns` | When only stages that cannot run are stale, the keyboard's primary action does nothing. |
| `MCWorkbenchHarden`, `MCWorkbench` | `HardenMandatory` | Running one stage alone reaches a verdict at SAFETY-CRITICAL without Harden. |
| `MCShelfRead`, `MCWorkbench` | `ShelfKept` | The sandbox refuses the first read: the history counts as loaded and empty, and the effect stores the empty list over what was there, which the guard at SystemPromptBuilderPipeline.tsx:2063 is for. |

`ShelfKept` is refuted as well with `InOrder = FALSE` (the empty list of the first effect settles
after a later one) and with `LoadsFirst = FALSE` (a prompt archived or saved before the load ended
is replaced by what was stored). The sandbox that refuses one write also leaves the newer list in
`localStorage`, where it is not read while the sandbox holds the older one.

Met while modelling, without a configuration:

- Stores: two processes, one appending and one committing the same run id, can leave it in both
  modes, which storage-local:515 says the store refuses to create. `commitManifest` never evicts,
  so manifests alone take the store past its bound; the next append restores it.
- Runner: when the put of a stage's input returns and that of its output throws, the revision
  keeps its input ref, where pipeline.ts:519 says the refs stay null. `compile` has no guard
  against the placeholder spec of a degraded `deconstruct`: what it makes of it carries no marker.
- Judge: every run whose `refine` was SKIPPED is refused; a prompt made from nothing after a
  FAILED `compile` is accepted, and so is an unfinished run; the walk relies on append order,
  which storage-db's reads only approximate by timestamp.
- Workbench: running one stage marks nothing downstream stale; an edit of a later stage rebuilds
  everything despite the comment at 2354-2358; a lint at lower stakes stays current after they rise; `refine`
  may use the critique of an older prompt; numbers of revisions restart at 0 with the page, so the
  stored history holds equal numbers; running all again, and Reset, archive nothing; a model list
  from the cache does not supersede an older request still in flight.
- Hosted server: an older, slower probe may replace a newer entry; `checked_at` is when the
  question was asked, not when the entry was made; the 60 s it tells a retry to wait is cut by
  `invokeWithRetry`.

### Bounds

Three runs with a bound of one make eviction choose, and evict more than one at once after
commits. Two clients reach every pair of interleaved calls, and the chain makes a third wait
behind them without new overlap. Two timestamps give ties and order. Three revisions suffice for
an append to each of two runs and a third that evicts or supersedes. For the cascade, three
entries and a dangling id give chains, diamonds, cycles and every order. In the pipeline the depth
`COMPREHENSIVE` has the plan of `STANDARD`; two rounds show a round superseded twice and a cap
clamped; two faults let one stage degrade and a later one fail, or one exhaust its attempts. In
`ContentPlane` two stages let one retention fail and the other succeed, and two faults let a crash
or a short listing follow a partial file. `content_overlap` needs one stage and no fault.

In `Release` two clients reach every pair of interleaved operations and two promotions a rollback
or a tie. The candidate is judged and down by exactly the granularity, one case of four, or has no
case of the mode, so regression and the judge decide in the run. The comparison it stores is
significant and equalized, and no run exceeds its budget: that those three conditions are kept is
left to `EveryPromotionIsCertified`. In the comparator seven
clusters are one more than the six signs that reach 1/20 and, halved by a family of two, not, unless
the caller corrects for nothing: both sides of the floor occur; the resolutions lie on both
sides of a recall gap; the recalls are equal, unequal either way, dead, and unknown in three ways.
In `Suite` a second run meets what the first left in the cache, two trials make retries and
repeats differ, and one cap lies below the plan with retries and one above. In `Gateway` a window
of three with a second of two makes the division round; the limits are the smallest at which a
client and the shared ceiling run out in either order; the clock covers two windows. In
`HostedHealth` the answer reaches the oldest age allowed at time 2, before the bound on time. In
`Workbench` HIGH requires the critic and runs every stage, and LOW has none; two runs, either of
them the rerun of a part or of one stage, with two edits let the second come during a run or before
the first was recomputed. Compile may come to read the prompt and the critique, so that its texts
and those of the stages after it are made of each other; other rewritings, a Deconstruct that reads
its own last text among them, are left to the proof. In `Shelf` two changes put an archive after an import
or a removal, and lists of two make both limits cut. `MaxTouches`, `MaxAsked`, `MaxClock`,
`MaxTime`, `MaxSwings`, `MaxRuns`, `MaxChanges`, `MaxClusters`, `MaxFaults` and `Excess` bound the
environment, never the code. Symmetry is used over the run ids a configuration treats alike and
over bodies, in runs with no liveness property.

### Fairness

`CallsSettle` assumes weak fairness of each client's steps: the event loop and the file system
finish what a call awaits. Nothing forces a caller to make calls, or a crash.
`Terminates` assumes weak fairness of the runner's own steps: whatever it awaits settles
(provider calls time out in the adapters). The failure of the store is not among them.
`RequestsSettle` assumes weak fairness of each handler's run: a call ends, by its own time-out if
nothing else, a timer of bounded length fires, an append returns. The provider may ask for an
endless wait, and the bounded back-off is what ends it. No strong fairness is assumed.

## What is proved

All proofs are checked from nothing by `tlapm`, for every value of the constants that satisfies
the named assumption of the module. Every invariant and action property of the passing runs is
stated by a theorem; the run shows it on a small instance, and the inductive invariants below were
checked with TLC on such instances, as far as it can evaluate them. The assumptions bound what a
program is given: finite sets of runs and of cases, bounds and limits that are positive where the
code's are, lists in the browser that are lists of entries. Hypotheses beyond the assumption are
in the statement, and are those the run makes.

### The stores

`RevisionsProofs` has the lemmas both stores use about `StaleIn`, `Append` and `DoomedSets`, and
`CascadeIsSpread`: the passes of the loop, a recursive function, reach the least set that
holds the superseded revision and is closed. The induction is over the number of ids
not yet reached, by way of a least counterexample.

`RevisionStoreProofs`, for any runs, bound, ids and timestamps:

- `TypeCorrect` and `CommittedRunsHaveRevisions`: `Inv` is `TypeOK` with `CommittedHasRevisions`,
  which needs the first for eviction to remove from both tables at once. `CommittedNeverEdited`
  and `AppendRestoresBound` are action properties from it; the second counts, by
  `DoomedLeavesBound`, what a pass over a finite set of runs leaves.
- `EvictionIsWhole`: a run is evicted with all it has, and none goes before an older one. A pass
  dooms a set no one outside of which is older, and the set is chosen after the append.
- `StalenessReachesDescendants`: `markStale` reaches the descendants and nothing else. The lemma
  under it, `DescendantsOf`, is about any bundle, cycles and dangling parents included, as is the
  run, which starts from every lineage of three entries (`MCInit`, wider than `Init`).

`LocalStoreProofs`. `TypeCorrect` and `ManifestsNeverReplaced` hold for any number of processes,
with overlapping `markStale` and with crashes. The others assume one process (`OneProcess`) and
callers that keep `markStale` to itself (`StaleAlone`); `local_race` shows what happens otherwise.

- `OneModeInOneProcess`, `NothingLostInOneProcess`, with any number of crashes. Neither property
  is inductive. `InOneProcess` says what is true in the middle of a call: only the head of the
  chain is past `queued` (`OneAtATime`), a `markStale` is alone (`StaleIsAlone`), clients of a
  crashed process are down together (`DownTogether`), what a call has checked still holds when it
  writes and what it has read is still what is on disk (`Checked`), a torn file is read as empty
  (`TornIsEmpty`). From those, each write adds exactly its own entry to what is stored.
- `ReturnsWithinBound`, with any number of crashes: what an eviction pass still has to delete,
  deleted, leaves the store within its bound (`PassesLeave`), and nothing joins meanwhile.
- `NoReaderFindsATornFile`, without crashes: a file is torn only while the `markStale` that
  truncated it has still to fill it (`TornIsHeld`), and then nobody else is at work.
- `FilesAreARevisionStore`, without crashes: **storage-local implements `RevisionStore`**. The
  mapping takes back the entry of an append until its eviction pass has chosen and the runs
  chosen from then on, so an append takes effect at that choice, a commit at its link, a
  `markStale` at its write; every other step is invisible. `StoreInv` says what the abstract action needs there: the
  chain holds each call once (`Chained`), the ids a queued call carries are in no file and no other
  call (`CarriedIsNew`), its timestamps are not before those ahead of it in the chain
  (`ChainInOrder`) or in the file (`CarriedIsLast`), so bundles are in timestamp order and
  the latest entry is the last (`FilesInOrder`), and an append about to evict has just written its
  entry (`Scanning`). One lemma for each action says which abstract action it is.

### The pipeline, its content and its judge

`PipelineProofs`, for any provider, depth, limits and faults:

- `TypeCorrect`, `VerdictsNeverStale` and `NothingIsLaundered` follow from `Inv`, which adds to
  the three properties what is true while a stage is at work (`AtWork`): its index is in the
  plan, its inputs are the ones it accepted, and there is an answer to settle.
- `BudgetKept` needs `Budget`: the calls made are at most `MaxAttempts` for every execution behind
  the runner, and the attempts of the one in hand. A feedback round takes the runner back, so
  those executions are counted as the generating stages before its index and `PerRound` for
  each round; `RoundCovers` shows that `PerRound` covers what a jump back undoes.
- `TheFreshAreThePlan`, `FreshVerdictsAreCurrent` and `RoundsAreSpent` need what the run leaves on
  record (`Recorded`). The revisions are a chain (`Chain`), so a round, which cascades from the
  latest `refine`, stales the tail of the record that starts there; what stays FRESH is the plan
  up to `refine`, then what ran since (`Layout`); a FRESH verdict is about the prompt as it
  stands (`VerdictsAbout`); and past `lint` the gates fail only with no round left (`GateSpent`).
- `TheJudgedIsModelOutput` is about `Judge`: the bundle accepted at any moment has, as its last
  prompt, the one in the context; the invariant (`Bundle`) relates the version each revision is
  about to the version of the context.

`ContentPlaneProofs`, for any runs, bodies, bound and faults. `TypeCorrect` and `BundlesAreWhole`
hold whatever overlaps. `RefsAlwaysResolve`, `RetainedBodiesSurvive` and `SweepsReclaim` state
properties that say themselves what they are about (no overlap; for the first, complete listings).
The invariant is of the one run in progress: what it retained and what its next revision will name
is whole, its partial file is its own (`Intact`), and its sweep has found live every body that a
bundle names, or has still to read that bundle (`Sweeping`).

### Release and the comparator

`ReleaseProofs`, for any clients, interleaved anywhere and stopping anywhere:

- What makes a decision outlast the reads it was made from is that a whole record never changes
  (`RecordsNeverChange`). Three facts carry that: the file a client fills is torn and no other
  client fills it (`Filling`), what a client has read is what the file holds (`ReadsHold`), and a
  record is certified before its file is opened (`DraftsCertified`). `EveryPromotionIsCertified`
  follows, through any chain of rollbacks.
- `CurrentIsNoOlder`: a call of `current` has read, or has still to read, every promotion there
  was when it began (`FloorRead`), and the promotions have a latest one (`ListBounded`).
- `NoVerdictIsAnArtifact`, for any detectors, recalls, suites, levels and numbers of cases. The
  invariant is the shape of the totals, that they add up, and what a judgement was made from. The
  argument is the one of the code's comment, in products of integers: arms that failed equally
  often differ by at most the recall gap times the rows, which the widened resolution exceeds.
- `RefusalsAreHopeless` assumes `OffTheGrid`: no number of signs has a smallest p equal to the
  corrected level. `RefusalsAtOneInTwenty` shows that the level 0.05, the only one the callers
  pass, is off that grid in families of any size, by residues of powers of two modulo five;
  `MCReleaseFloor` is a level on the grid, where the refusal is wrong.

### The callers of a provider

`ProviderProofs`:

- `Gateway`: `Sound` says of a window what the three theorems need; one lemma for each function
  the hook applies to the window shows that it is kept, and a request is a composition of them.
  `BudgetsBound` allows exactly the one request that straddles two windows.
- `Suite`: the trials a run is done with (`Visited`) grow by the one that is scored. The calls
  are bounded by the size of that set times the attempts (`RetriesBound`) or by the size of the set
  of its keys (`KeysBound`), the whole set is no larger than the plan, and an answer taken belongs
  to one slot (`AnswersApart`). `TrialsAreTheirOwn`, `ChargedForCalls` and `PlanIsKept` follow, for
  callers of `runSuite` and, by `CommandKeepsItsSuites`, for the runs of the eval command.
- `EvalCommand`: `PaidPlansArePredicted` from `CommandInv`: what a dry run said is what `main()`
  returns of it, `main()` returns the same of the plan it is the dry run of
  (`DryRefusesTheSame`), and what it let through the admission of `runSuite` lets through.
- `HostedHealth`: `HealthAnswersAreRecent`, for any overlap of questions. An entry is concluded at
  most a time-out after what it says was so (`EntryRecent`), and what a question holds was so less
  than an entry's life and a time-out before it was asked (`HeldRecent`).

### The workbench

`WorkbenchProofs`:

- A run and the screen are two contexts under one set of revision numbers and marks. `Verified`
  relates a context to the numbers and `Fresh` to the marks and templates; both are kept of both
  contexts at once, which the screen needs when the run replaces it. `VerdictsJudgeTheirPrompt`
  holds of any user, with templates edited at any time to read anything.
- `OrderlyTextsAreCurrent` is about a user who is `Orderly`. An edit empties the slots of its stage
  and of the stages after it along the default dependencies, which always include the prompt and
  the critique, and leaves at most the spec and the calibration. Those are current after it if they
  come from Deconstruct and from these two alone, which they do when their templates read nothing
  made later. A template may be rewritten and put back, so `Fresh` asks it only of stages not
  marked (`EarlyOne`, `EarlyTwo`): an edit marks its stage, and the mark goes with the text that
  the stage makes next. `FreshInv` says it while no edit has fallen into a run (`crossed`), and
  that the run then uses the templates as they are. `MCWorkbenchEdit` and `MCWorkbenchReads` show
  that neither half of `Orderly` can be left out.
- `NothingKeptIsLost`, about `Shelf`: for any lists found, `localStorage` working or not, if the
  user waits for a list to have loaded and a sandbox, where there is one, refuses nothing and
  settles in order; the property needs each of these (see "Further deviations"). Settled states are not
  inductive: `Ahead` says of the states between that the last write asked for a list, or what is
  stored when there is none, is what the user made of it; `Untouched` that a list still loading was
  neither changed nor written, which is the guard on `revisionHistoryReady`.

### Only model-checked

The three liveness properties, `CallsSettle`, `Terminates` and `RequestsSettle`: liveness under
fairness and `ENABLED` are out of the prover's reach. The properties of the configurations that
expect a violation are refuted by TLC and have no theorem. With crashes, `ImplementsRevisionStore`
and `ReadersSeeWholeFiles` are false, as TLC finds with `MaxCrashes = 1`: a file torn by a crash
stays torn, and a crash between the rename and the eviction leaves an append half done.

The type invariants and two action properties of `RevisionStore` are proved and not run any more;
every other listed theorem states a property some run checks, `CommandKeepsItsSuites` three.

## What is not modelled

Text (templates, prompts, reports, gate findings, markers inside a text), events and redaction,
hashes (a body is its address, an entry of the history its hash), routing scores, command lines,
rendering, the CORS and body checks of HTTP. Statistics over graded scores and spreads are
floating point. The judge's own admission and the judge pilot are one provider call for each
candidate and a statistic over the answers; `Release` takes a judgement as none, refused or
admitted. Provider adapters other than the health checks are HTTP clients: the models have the
results their callers see. Of the workbench, telemetry, model lists and exports are left out, and
a second tab. The frozen sources are hashed by the build and not part of the running system.

In the revision stores timestamps are numbers of one clock that does not step back. Delays of
retries are modelled in `Gateway` only; elsewhere an attempt succeeds or fails. Symbolic links,
permissions and a directory removed by hand are left out; a failed write is not. `Shelf` reads the
sandbox and `localStorage` in one step, closes no page with a write in flight, and has a
`localStorage` that works or does not.

## Plan

Done: `Revisions`, `RevisionStore`, `LocalStore`, `Pipeline`, `ContentPlane`, since bundles are
what everything else cites; then `Release`, `Gateway`, `Suite`, `EvalCommand`, `Comparator`,
`Judge`, `Workbench`, and last `HostedHealth` and `Shelf`.

Next, modules, in this order:

1. The read order of the two stores compared, for entries with equal timestamps, under `Judge`.
2. `pipeline-eval.ts`: the pipeline run on every case of a suite, over `Pipeline` and `Suite`.
3. The request window and the classification of failures of `provider-hosted-server`, under
   `invokeWithRetry`.
4. The admission of a judge by its calibration (`judge-policy.ts`).

Next, theorems: whatever the modules above bring; `RefsAlwaysResolve` for runs that overlap and
never sweep; how far `FilesAreARevisionStore` holds when a process crashes between calls only.
