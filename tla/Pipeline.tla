------------------------------- MODULE Pipeline -------------------------------
(***************************************************************************)
(* One run of the eleven-stage pipeline: application/src/pipeline.ts walks *)
(* the plan core/src/stages/pipeline.ts selects, calls the provider with   *)
(* retries, persists one revision per stage execution, and jumps back from *)
(* `lint` to `refine` when gates fail and the topology is reflexive.       *)
(*                                                                         *)
(* Texts are what the stages tell apart: absent, real model output, or a   *)
(* labelled placeholder. `version` counts the prompts; `origin` records    *)
(* which unusable inputs the current prompt was made from. Every await     *)
(* ends a step. Events, hashes and timestamps are left out.                *)
(***************************************************************************)
EXTENDS Revisions

CONSTANTS
  Depths,             \* the depths a command may resolve to
  Iterations,         \* max_iterations a command may ask for; 0: not reflexive, or none declared
  Caps,               \* max_provider_calls a budget may declare, NoCap for none
  NoCap,
  MaxFeedbackRounds,  \* MAX_FEEDBACK_ROUNDS (3)
  MaxAttempts,        \* provider attempts per request, the first included
  MaxFaults           \* bound: failed calls and throws explored in one run

AllStages ==
  <<"deconstruct", "calibrate", "compile", "harden", "critique", "refine", "lint",
    "critic", "preview", "cost_estimate", "tone_check">>

DEPTH_PLAN ==
  [TINY |-> <<"deconstruct", "calibrate", "compile", "lint", "preview", "cost_estimate">>,
   MINIMAL |-> <<"deconstruct", "calibrate", "compile", "harden", "lint", "preview",
                 "cost_estimate">>,
   STANDARD |-> AllStages,
   COMPREHENSIVE |-> AllStages]

ASSUME PipelineAssumption ==
  /\ Depths \subseteq DOMAIN DEPTH_PLAN
  /\ Iterations \subseteq Nat
  /\ Caps \ {NoCap} \subseteq Nat
  /\ MaxFeedbackRounds \in Nat
  /\ MaxAttempts \in Nat \ {0}
  /\ MaxFaults \in Nat

VARIABLES
  command,   \* what the run was asked: depth, max_iterations, stakes, budget
  pc,        \* where the runner is
  i,         \* index of the stage in the plan
  attempt,   \* attempt number of the provider call in progress
  answer,    \* what the last attempt of the call ended with
  ctx,       \* PipelineContext, with the history fields version, origin, lintOf, criticOf
  revs,      \* the run's revisions, as the store holds them
  calls,     \* provider calls made
  faults     \* failures so far

vars == <<command, pc, i, attempt, answer, ctx, revs, calls, faults>>

Deterministic == {"lint", "cost_estimate"}

plan == DEPTH_PLAN[command.depth]

Stage == plan[i]

InPlan(s) == s \in ToSet(plan)

IndexOf(s) == CHOOSE k \in DOMAIN plan : plan[k] = s

-----------------------------------------------------------------------------
(* Admission.                                                              *)

Lesser(a, b) == IF a <= b THEN a ELSE b

\* The generating stages of the slice of the plan a feedback round executes again.
PerRound ==
  IF InPlan("refine") /\ InPlan("lint")
  THEN Cardinality({k \in IndexOf("refine") .. IndexOf("lint") : plan[k] \notin Deterministic})
  ELSE 0

FeedbackCap == Lesser(command.asked, MaxFeedbackRounds)

\* A reservation of one attempt per stage execution.
PlannedNoRetries ==
  Cardinality({k \in DOMAIN plan : plan[k] \notin Deterministic}) + FeedbackCap * PerRound

plannedPipelineCalls ==
  (Cardinality({k \in DOMAIN plan : plan[k] \notin Deterministic}) + FeedbackCap * PerRound)
    * MaxAttempts

\* Admission before the first call: the plan's worst case must fit the declared cap.
Admit ==
  /\ pc = "start"
  /\ pc' = IF command.cap # NoCap /\ plannedPipelineCalls > command.cap THEN "refused" ELSE "stage"
  /\ UNCHANGED <<command, i, attempt, answer, ctx, revs, calls, faults>>

-----------------------------------------------------------------------------
(* The registry: when a stage skips, and what it does to the context.      *)

\* refine declines a placeholder prompt and a clean critique only.
SkipForgetsCritique(s, c) ==
  \/ s \in {"harden", "critique", "refine", "critic", "preview", "tone_check"}
     /\ c.prompt = "placeholder"
  \/ s = "refine" /\ c.critique = "clean"
  \/ s = "critic" /\ ~command.careful

ShouldSkip(s, c) ==
  \/ s \in {"harden", "critique", "refine", "critic", "preview", "tone_check"}
     /\ c.prompt = "placeholder"
  \/ s = "refine" /\ c.critique \in {"clean", "placeholder"}
  \/ s = "critic" /\ ~command.careful

ReduceSkipped(s, c) ==
  CASE s = "critique" -> [c EXCEPT !.critique = "skipped"]
    [] s = "refine"   -> [c EXCEPT !.critique = "empty"]
    [] s = "critic"   -> [c EXCEPT !.criticVerdict = "SKIPPED"]
    [] OTHER          -> c

\* What a stage that rewrites the prompt reads from the context.
Reads(s) ==
  CASE s = "harden" -> {"prompt"} [] s = "refine" -> {"prompt", "critique"} [] OTHER -> {}

\* ... and what of it is no artifact: a placeholder, or no prompt at all.
UnusableInputs(s, c) ==
  {x \in Reads(s) : c[x] = "placeholder"}
    \cup (IF "prompt" \in Reads(s) /\ c.prompt = "absent" THEN {"nothing"} ELSE {})

\* A new prompt that leaves the verdicts about the old one in place.
NewPromptOldVerdicts(s, c, text) ==
  [c EXCEPT !.prompt = text, !.version = @ + 1, !.origin = @ \cup UnusableInputs(s, c)]

\* A new prompt clears the verdicts about the old one.
NewPrompt(s, c, text) ==
  [c EXCEPT !.prompt = text, !.version = @ + 1, !.origin = @ \cup UnusableInputs(s, c),
            !.lintStatus = "unset", !.criticVerdict = "unset"]

\* The contexts reduce may return for a text that is real or a placeholder: a real critique
\* may be clean, a real critic may return any verdict.
Reduced(s, c, text) ==
  CASE s = "deconstruct" -> {[c EXCEPT !.spec = text]}
    [] s = "calibrate"   -> {[c EXCEPT !.calibration = text]}
    [] s \in {"compile", "harden"} -> {NewPrompt(s, c, text)}
    [] s = "critique"    -> {[c EXCEPT !.critique = x] :
                               x \in IF text = "real" THEN {"clean", "items"} ELSE {text}}
    [] s = "refine"      -> {[NewPrompt(s, c, text) EXCEPT !.critique = "empty"]}
    [] s = "critic"      -> {[c EXCEPT !.criticVerdict = v, !.criticOf = c.version] :
                               v \in IF text = "real" THEN {"PASS", "GATE_FAIL"} ELSE {"DEGRADED"}}
    [] OTHER             -> {c}

\* lint is a pure function of the prompt: null when there is none to check, and the same
\* status again for a prompt it has checked. "throws" when a gate does.
LintOutcomes(c) ==
  IF c.prompt # "real" THEN {"null"}
  ELSE IF c.lintStatus \notin {"unset", "null"} THEN {c.lintStatus}
  ELSE {"PASS", "DEGRADED", "GATE_FAIL", "throws"}

-----------------------------------------------------------------------------
(* The revisions.                                                          *)

\* A revision that records no parent, as every writer did before contract 1.3.1.
ParentsNone == {}

\* The parent is whatever ran immediately before.
Parents == IF revs = <<>> THEN {} ELSE {Len(revs)}

Persist(status, about) ==
  revs' = Append(revs, [id |-> Len(revs) + 1, parents |-> Parents, stale |-> FALSE,
                        lineaged |-> TRUE, stage |-> Stage, status |-> status, about |-> about])

\* The latest execution of a stage.
LatestOf(s) == Max({k \in DOMAIN revs : revs[k].stage = s})

-----------------------------------------------------------------------------
(* The runner.                                                             *)

NextStage == i' = i + 1 /\ pc' = "stage"

AtStage == pc = "stage" /\ i <= Len(plan)

\* A skip is persisted like any other outcome.
Skip ==
  /\ AtStage
  /\ ShouldSkip(Stage, ctx)
  /\ ctx' = ReduceSkipped(Stage, ctx)
  /\ Persist("SKIPPED", ctx.version)
  /\ NextStage
  /\ UNCHANGED <<command, attempt, answer, calls, faults>>

\* A stage that throws, or an adapter that does, is a FAILED stage, not an aborted run.
FailStage ==
  /\ Persist("FAILED", ctx.version)
  /\ NextStage
  /\ UNCHANGED <<command, attempt, answer, ctx, calls>>

\* decide, or a deterministic stage other than lint, throws.
StageThrows ==
  /\ AtStage
  /\ ~ShouldSkip(Stage, ctx)
  /\ Stage # "lint"
  /\ faults < MaxFaults
  /\ FailStage
  /\ faults' = faults + 1

EstimateCost ==
  /\ AtStage
  /\ Stage = "cost_estimate"
  /\ Persist("SUCCEEDED", ctx.version)
  /\ NextStage
  /\ UNCHANGED <<command, attempt, answer, ctx, calls, faults>>

Lint ==
  /\ AtStage
  /\ Stage = "lint"
  /\ \E status \in LintOutcomes(ctx) :
       IF status = "throws" THEN FailStage
       ELSE /\ ctx' = [ctx EXCEPT !.lintStatus = status, !.lintOf = ctx.version]
            /\ Persist("SUCCEEDED", ctx.version)
            /\ pc' = "feedback"
            /\ UNCHANGED <<command, i, attempt, answer, calls>>
  /\ UNCHANGED faults

\* One round fewer than declared.
RoundsLeftShort == ctx.rounds + 1 < FeedbackCap

RoundsLeft == ctx.rounds < FeedbackCap

\* decideGateFeedback. (A reflexive topology without a cap, and any other, ask for 0.)
Retry ==
  /\ RoundsLeft
  /\ ctx.lintStatus = "GATE_FAIL"
  /\ InPlan("refine") /\ InPlan("lint")
  /\ ctx.prompt # "placeholder"

\* The stage whose latest revision a retry supersedes: here the one that failed the gates.
SupersededLint == LatestOf("lint")

Superseded == LatestOf("refine")

\* After lint: go on, or take the gate failures back to refine, whose previous revision
\* and everything computed from it are marked stale first.
Feedback ==
  /\ pc = "feedback"
  /\ IF Retry
     THEN /\ ctx' = [ctx EXCEPT !.critique = "items", !.rounds = @ + 1]
          /\ revs' = StaleIn(revs, Cascade(revs, Superseded))
          /\ i' = IndexOf("refine")
          /\ pc' = "stage"
     ELSE NextStage /\ UNCHANGED <<ctx, revs>>
  /\ UNCHANGED <<command, attempt, answer, calls, faults>>

\* decide: a request for the provider.
Decide ==
  /\ AtStage
  /\ Stage \notin Deterministic
  /\ ~ShouldSkip(Stage, ctx)
  /\ attempt' = 1
  /\ pc' = "call"
  /\ UNCHANGED <<command, i, answer, ctx, revs, calls, faults>>

\* invokeWithRetry, one attempt: an answer, one that forges a marker (refuseForgedMarker),
\* a failure that may be retried, one that may not, or an adapter that throws.
Call ==
  /\ pc = "call"
  /\ calls' = calls + 1
  /\ \/ /\ answer' = "real"
        /\ pc' = "settle"
        /\ UNCHANGED <<attempt, faults>>
     \/ /\ faults < MaxFaults
        /\ faults' = faults + 1
        /\ \/ answer' \in {"placeholder", "threw"} /\ pc' = "settle" /\ UNCHANGED attempt
           \/ IF attempt < MaxAttempts
              THEN attempt' = attempt + 1 /\ UNCHANGED <<pc, answer>>
              ELSE answer' = "placeholder" /\ pc' = "settle" /\ UNCHANGED attempt
  /\ UNCHANGED <<command, i, ctx, revs>>

\* A runner that goes on waiting for an adapter that threw.
HandledNever == FALSE

Handled == answer = "threw"

\* reduce, which may throw, and persist. A body retained on the way changes nothing here.
Settle ==
  /\ pc = "settle"
  /\ \/ /\ Handled
        /\ FailStage
        /\ UNCHANGED faults
     \/ /\ answer # "threw"
        /\ faults < MaxFaults
        /\ FailStage
        /\ faults' = faults + 1
     \/ /\ answer # "threw"
        /\ \E c \in Reduced(Stage, ctx, answer) :
             /\ ctx' = c
             /\ Persist(IF answer = "real" THEN "SUCCEEDED" ELSE "DEMO", c.version)
        /\ NextStage
        /\ UNCHANGED <<command, attempt, answer, calls, faults>>

\* append or markStale throws: nothing catches it, so the run rejects.
StoreThrows ==
  /\ \/ AtStage
     \/ pc = "settle"
     \/ pc = "feedback" /\ Retry
  /\ pc' = "aborted"
  /\ UNCHANGED <<command, i, attempt, answer, ctx, revs, calls, faults>>

Finish ==
  /\ pc = "stage"
  /\ i > Len(plan)
  /\ pc' = "done"
  /\ UNCHANGED <<command, i, attempt, answer, ctx, revs, calls, faults>>

Commands == [depth : Depths, asked : Iterations, careful : BOOLEAN, cap : Caps]

Init ==
  /\ command \in Commands
  /\ pc = "start"
  /\ i = 1
  /\ attempt = 1
  /\ answer = "none"
  /\ ctx = [spec |-> "absent", calibration |-> "absent", prompt |-> "absent",
            critique |-> "absent", lintStatus |-> "unset", criticVerdict |-> "unset",
            rounds |-> 0, version |-> 0, origin |-> {}, lintOf |-> 0, criticOf |-> 0]
  /\ revs = <<>>
  /\ calls = 0
  /\ faults = 0

\* The steps of the runner itself.
Progress ==
  \/ Admit \/ Skip \/ StageThrows \/ EstimateCost \/ Lint \/ Feedback
  \/ Decide \/ Call \/ Settle \/ Finish

Next == Progress \/ StoreThrows

Spec == Init /\ [][Next]_vars

\* The runner is one async function: whatever it awaits settles, and it goes on.
\* No run relies on a store that throws in order to end.
FairSpec == Spec /\ WF_vars(Progress)

-----------------------------------------------------------------------------
(* Properties.                                                             *)

Texts == {"absent", "real", "placeholder"}

Contexts ==
  [spec : Texts, calibration : Texts, prompt : Texts,
   critique : Texts \cup {"clean", "items", "skipped", "empty"},
   lintStatus : {"unset", "null", "PASS", "DEGRADED", "GATE_FAIL"},
   criticVerdict : {"unset", "SKIPPED", "PASS", "DEGRADED", "GATE_FAIL"},
   rounds : 0 .. MaxFeedbackRounds, version : Nat,
   origin : SUBSET {"prompt", "critique", "nothing"}, lintOf : Nat, criticOf : Nat]

TypeOK ==
  /\ command \in Commands
  /\ pc \in {"start", "refused", "stage", "call", "settle", "feedback", "aborted", "done"}
  /\ i \in 1 .. Len(plan) + 1
  /\ attempt \in 1 .. MaxAttempts
  /\ answer \in {"none", "real", "placeholder", "threw"}
  /\ ctx \in Contexts
  /\ calls \in Nat
  /\ faults \in 0 .. MaxFaults

\* The budget that admitted the run bounds every call it makes, retries and feedback
\* rounds included (core/src/eval/budget: "A budget must bound the worst case").
CallsWithinPlan ==
  /\ calls <= plannedPipelineCalls
  /\ command.cap # NoCap => calls <= command.cap

\* A verdict in the context is about the prompt in the context ("a stale PASS beside a
\* changed prompt is worse than no verdict").
VerdictsCurrent ==
  /\ ctx.lintStatus \in {"PASS", "DEGRADED", "GATE_FAIL"} => ctx.lintOf = ctx.version
  /\ ctx.criticVerdict \in {"PASS", "DEGRADED", "GATE_FAIL"} => ctx.criticOf = ctx.version

\* No stage rewrites a placeholder prompt, or a prompt against a placeholder critique, into
\* a text without a marker, in any round (stages/pipeline.ts, notes on harden and refine).
NoPromptLaundered ==
  ctx.prompt = "real" => ctx.origin \cap {"prompt", "critique"} = {}

Fresh == {k \in DOMAIN revs : ~revs[k].stale}

\* When the run returns, the FRESH revisions of its bundle are the plan, once each and in
\* order: a skip or a failure leaves a record, a superseded round leaves none that is FRESH.
FreshBundleIsThePlan ==
  pc = "done" =>
    /\ Cardinality(Fresh) = Len(plan)
    /\ \A k \in Fresh : revs[k].stage = plan[Cardinality({j \in Fresh : j <= k})]

\* ... and the FRESH lint and critic verdicts among them are about the prompt returned.
FreshVerdictsCurrent ==
  pc = "done" =>
    \A k \in DOMAIN revs :
      revs[k].stage \in {"lint", "critic"} /\ revs[k].status = "SUCCEEDED" /\ ~revs[k].stale =>
        revs[k].about = ctx.version

\* A reflexive run returns an artifact that fails its gates only after spending every round
\* it was allowed.
GateFailsExhaustRounds ==
  pc = "done" /\ InPlan("refine") /\ ctx.lintStatus = "GATE_FAIL" => ctx.rounds = FeedbackCap

\* Every run ends: the feedback loop cannot run for ever, whatever fails.
Terminates == <>(pc \in {"refused", "aborted", "done"})

\* No prompt is made by transforming one that does not exist ("You cannot critique a
\* non-artifact any more than you can harden one").
NothingFromNothing == ctx.prompt = "real" => "nothing" \notin ctx.origin
=============================================================================
