---------------------------- MODULE PipelineProofs ----------------------------
(***************************************************************************)
(* Theorems about Pipeline, for every choice of depths, iteration limits,  *)
(* budgets, attempts and faults.                                           *)
(*                                                                         *)
(* The type of the state is not inductive alone: the stage index stays     *)
(* within the plan because a call, its answer and a feedback decision keep *)
(* it there (AtWork). The same invariant says that a stage which calls the *)
(* provider did not decline its inputs, and that they are what they were   *)
(* when it decided, which is why no placeholder is laundered.              *)
(*                                                                         *)
(* The budget has an invariant of its own (Budget), since a feedback round *)
(* takes the runner back and the count of stages behind it with it.        *)
(*                                                                         *)
(* So has the record the run leaves (Recorded): its revisions are a chain, *)
(* a round stales the tail of it from the latest refine on, and what stays *)
(* FRESH is the plan as far as the runner has come.                        *)
(***************************************************************************)
EXTENDS Judge, RevisionsProofs

\* While a stage is at work its index is in the plan, its inputs are the ones it accepted,
\* and there is an answer to settle.
AtWork ==
  /\ pc \in {"call", "settle", "feedback"} => i \in DOMAIN plan
  /\ pc \in {"call", "settle"} => ~ShouldSkip(Stage, ctx)
  /\ pc = "settle" => answer \in {"real", "placeholder", "threw"}

\* No prompt was ever made from a placeholder prompt or against a placeholder critique.
OriginClean == ctx.origin \cap {"prompt", "critique"} = {}

Inv == TypeOK /\ AtWork /\ OriginClean /\ VerdictsCurrent

-----------------------------------------------------------------------------
(* Lemmas on the operators.                                                *)

StageNames ==
  {"deconstruct", "calibrate", "compile", "harden", "critique", "refine", "lint",
   "critic", "preview", "cost_estimate", "tone_check"}

\* A plan is a sequence of stages.
LEMMA PlanIsSeq ==
  ASSUME command \in Commands
  PROVE  plan \in Seq(StageNames) /\ Len(plan) \in Nat /\ DOMAIN plan = 1 .. Len(plan)
<1>1. AllStages \in Seq(StageNames)
  BY DEF AllStages, StageNames
<1>2. DEPTH_PLAN.TINY \in Seq(StageNames) /\ DEPTH_PLAN.MINIMAL \in Seq(StageNames)
  BY DEF DEPTH_PLAN, StageNames
<1>3. DEPTH_PLAN.STANDARD = AllStages /\ DEPTH_PLAN.COMPREHENSIVE = AllStages
  BY DEF DEPTH_PLAN
<1>4. command.depth \in {"TINY", "MINIMAL", "STANDARD", "COMPREHENSIVE"}
  BY PipelineAssumption DEF Commands, DEPTH_PLAN
<1>5. plan \in Seq(StageNames)
  BY <1>1, <1>2, <1>3, <1>4 DEF plan
<1> QED BY <1>5

\* The context a skip leaves has the fields and the prompt of the one before.
LEMMA ReduceSkippedContext ==
  ASSUME NEW c \in Contexts, NEW s
  PROVE  /\ ReduceSkipped(s, c) \in Contexts
         /\ ReduceSkipped(s, c).origin = c.origin
         /\ ReduceSkipped(s, c).version = c.version
         /\ ReduceSkipped(s, c).rounds = c.rounds
         /\ ReduceSkipped(s, c).lintStatus = c.lintStatus
         /\ ReduceSkipped(s, c).lintOf = c.lintOf
         /\ ReduceSkipped(s, c).criticVerdict \in {c.criticVerdict, "SKIPPED"}
         /\ ReduceSkipped(s, c).criticOf = c.criticOf
BY DEF ReduceSkipped, Contexts, Texts

\* A stage that accepts its inputs makes no new prompt of a placeholder.
LEMMA AcceptedInputs ==
  ASSUME NEW c \in Contexts, NEW s, ~ShouldSkip(s, c)
  PROVE  UnusableInputs(s, c) \subseteq {"nothing"}
BY DEF ShouldSkip, UnusableInputs, Reads, Contexts

LEMMA NewPromptContext ==
  ASSUME NEW c \in Contexts, NEW s, ~ShouldSkip(s, c), NEW text \in Texts
  PROVE  /\ NewPrompt(s, c, text) \in Contexts
         /\ NewPrompt(s, c, text).origin \subseteq c.origin \cup {"nothing"}
         /\ NewPrompt(s, c, text).rounds = c.rounds
         /\ NewPrompt(s, c, text).lintStatus = "unset"
         /\ NewPrompt(s, c, text).criticVerdict = "unset"
<1> DEFINE grown == c.origin \cup UnusableInputs(s, c)
           d == [c EXCEPT !.prompt = text, !.version = @ + 1, !.origin = grown,
                          !.lintStatus = "unset", !.criticVerdict = "unset"]
<1>1. grown \in SUBSET {"prompt", "critique", "nothing"}
  BY AcceptedInputs DEF Contexts
<1>2. grown \subseteq c.origin \cup {"nothing"}
  BY AcceptedInputs
<1>3. NewPrompt(s, c, text) = d
  BY DEF NewPrompt, Contexts
<1> HIDE DEF grown
<1>4. d \in Contexts
  <2>1. c.version + 1 \in Nat
    BY DEF Contexts
  <2> QED BY <1>1, <2>1 DEF Contexts
<1>5. d.origin = grown /\ d.rounds = c.rounds /\ d.lintStatus = "unset" /\ d.criticVerdict = "unset"
  BY DEF Contexts
<1> QED BY <1>2, <1>3, <1>4, <1>5

\* What a settled stage leaves: a well-formed context, an origin no worse, and verdicts that
\* are those of before about the same prompt, cleared, or about this prompt.
LEMMA ReducedContext ==
  ASSUME NEW c \in Contexts, NEW s, ~ShouldSkip(s, c),
         NEW text \in {"real", "placeholder"}, NEW d \in Reduced(s, c, text)
  PROVE  /\ d \in Contexts
         /\ d.rounds = c.rounds
         /\ d.origin \subseteq c.origin \cup {"nothing"}
         /\ \/ d.lintStatus = "unset"
            \/ d.lintStatus = c.lintStatus /\ d.lintOf = c.lintOf /\ d.version = c.version
         /\ \/ d.criticVerdict = "unset"
            \/ d.criticVerdict = c.criticVerdict /\ d.criticOf = c.criticOf
                 /\ d.version = c.version
            \/ d.criticOf = d.version
<1>1. CASE s \in {"compile", "harden"}
  <2>1. d = NewPrompt(s, c, text)
    BY <1>1 DEF Reduced
  <2> QED BY <2>1, NewPromptContext DEF Texts
<1>2. CASE s = "refine"
  <2>1. d = [NewPrompt(s, c, text) EXCEPT !.critique = "empty"]
    BY <1>2 DEF Reduced
  <2> QED BY <2>1, NewPromptContext DEF Texts, Contexts
<1>3. CASE s = "critic"
  <2>1. PICK v \in {"PASS", "GATE_FAIL", "DEGRADED"} :
          d = [c EXCEPT !.criticVerdict = v, !.criticOf = c.version]
    BY <1>3 DEF Reduced
  <2> QED BY <2>1 DEF Contexts
<1>4. CASE s = "critique"
  <2>1. PICK x \in {"clean", "items", "real", "placeholder"} : d = [c EXCEPT !.critique = x]
    BY <1>4 DEF Reduced
  <2> QED BY <2>1 DEF Contexts, Texts
<1>5. CASE s \in {"deconstruct", "calibrate"}
  <2>1. d = [c EXCEPT !.spec = text] \/ d = [c EXCEPT !.calibration = text]
    BY <1>5 DEF Reduced
  <2> QED BY <2>1 DEF Contexts, Texts
<1>6. CASE s \notin {"compile", "harden", "refine", "critic", "critique", "deconstruct",
                     "calibrate"}
  BY <1>6 DEF Reduced
<1> QED BY <1>1, <1>2, <1>3, <1>4, <1>5, <1>6

-----------------------------------------------------------------------------
(* The inductive invariant.                                                *)

LEMMA InitInv == Init => Inv
<1> SUFFICES ASSUME Init PROVE Inv
  OBVIOUS
<1>1. i \in 1 .. Len(plan) + 1
  BY PlanIsSeq DEF Init
<1>2. ctx \in Contexts
  BY PipelineAssumption DEF Init, Contexts, Texts
<1>3. TypeOK
  BY <1>1, <1>2, PipelineAssumption DEF Init, TypeOK
<1>4. AtWork /\ OriginClean /\ VerdictsCurrent
  BY DEF Init, AtWork, OriginClean, VerdictsCurrent
<1> QED BY <1>3, <1>4 DEF Inv

LEMMA StepInv == Inv /\ [Next]_vars => Inv'
<1> SUFFICES ASSUME Inv, [Next]_vars PROVE Inv'
  OBVIOUS
<1> USE DEF Inv
<1>1. command \in Commands /\ ctx \in Contexts
  BY DEF TypeOK
<1>2. Len(plan) \in Nat /\ DOMAIN plan = 1 .. Len(plan)
  BY <1>1, PlanIsSeq
<1>3. i \in DOMAIN plan => i + 1 \in 1 .. Len(plan) + 1
  BY <1>2
<1>4. AtStage => i \in DOMAIN plan
  BY <1>2 DEF AtStage, TypeOK
<1>5. command' = command => plan' = plan
  BY DEF plan
<1>6. CASE Admit
  <2>1. TypeOK'
    BY <1>5, <1>6 DEF Admit, TypeOK
  <2>2. AtWork' /\ OriginClean' /\ VerdictsCurrent'
    BY <1>6 DEF Admit, AtWork, OriginClean, VerdictsCurrent
  <2> QED BY <2>1, <2>2
<1>7. CASE Skip
  <2>1. ctx' = ReduceSkipped(Stage, ctx) /\ pc' = "stage"
    BY <1>7 DEF Skip, NextStage
  <2>2. ctx' \in Contexts
    BY <1>1, <2>1, ReduceSkippedContext
  <2>3. TypeOK'
    BY <1>3, <1>4, <1>5, <1>7, <2>2 DEF Skip, NextStage, TypeOK
  <2>4. OriginClean' /\ VerdictsCurrent'
    BY <1>1, <2>1, ReduceSkippedContext DEF OriginClean, VerdictsCurrent
  <2>5. AtWork'
    BY <2>1 DEF AtWork
  <2> QED BY <2>3, <2>4, <2>5
<1>8. CASE StageThrows
  <2>1. TypeOK'
    BY <1>3, <1>4, <1>5, <1>8, PipelineAssumption DEF StageThrows, FailStage, NextStage, TypeOK
  <2>2. AtWork' /\ OriginClean' /\ VerdictsCurrent'
    BY <1>8 DEF StageThrows, FailStage, NextStage, AtWork, OriginClean, VerdictsCurrent
  <2> QED BY <2>1, <2>2
<1>9. CASE EstimateCost
  <2>1. TypeOK'
    BY <1>3, <1>4, <1>5, <1>9 DEF EstimateCost, NextStage, TypeOK
  <2>2. AtWork' /\ OriginClean' /\ VerdictsCurrent'
    BY <1>9 DEF EstimateCost, NextStage, AtWork, OriginClean, VerdictsCurrent
  <2> QED BY <2>1, <2>2
<1>10. CASE Lint
  <2>1. CASE FailStage
    <3>1. TypeOK'
      BY <1>3, <1>4, <1>5, <1>10, <2>1 DEF Lint, FailStage, NextStage, TypeOK
    <3>2. AtWork' /\ OriginClean' /\ VerdictsCurrent'
      BY <2>1 DEF FailStage, NextStage, AtWork, OriginClean, VerdictsCurrent
    <3> QED BY <3>1, <3>2
  <2>2. CASE ~FailStage
    <3>1. PICK status \in LintOutcomes(ctx) \ {"throws"} :
            ctx' = [ctx EXCEPT !.lintStatus = status, !.lintOf = ctx.version]
      BY <1>10, <2>2 DEF Lint
    <3>2. status \in {"null", "PASS", "DEGRADED", "GATE_FAIL"}
      BY <1>1, <3>1 DEF LintOutcomes, Contexts
    <3>3. ctx' \in Contexts
      BY <1>1, <3>1, <3>2 DEF Contexts
    <3>4. /\ pc' = "feedback"
          /\ UNCHANGED <<command, i, attempt, answer, calls, faults>>
      BY <1>10, <2>2 DEF Lint
    <3>5. TypeOK'
      BY <1>5, <3>3, <3>4 DEF TypeOK
    <3>6. AtWork'
      BY <1>4, <1>5, <1>10, <3>4 DEF Lint, AtWork
    <3>7. OriginClean' /\ VerdictsCurrent'
      BY <1>1, <3>1 DEF OriginClean, VerdictsCurrent, Contexts
    <3> QED BY <3>5, <3>6, <3>7
  <2> QED BY <2>1, <2>2
<1>11. CASE Feedback
  <2>1. CASE Retry
    <3>1. /\ ctx' = [ctx EXCEPT !.critique = "items", !.rounds = @ + 1]
          /\ i' = IndexOf("refine") /\ pc' = "stage"
          /\ UNCHANGED <<command, attempt, answer, calls, faults>>
      BY <1>11, <2>1 DEF Feedback
    <3>2. i' \in DOMAIN plan
      BY <1>1, <2>1, <3>1, PlanIsSeq DEF Retry, InPlan, IndexOf, ToSet
    <3>3. ctx.rounds + 1 \in 0 .. MaxFeedbackRounds
      <4>1. command.asked \in Nat /\ MaxFeedbackRounds \in Nat
        BY <1>1, PipelineAssumption DEF Commands
      <4>2. FeedbackCap \in Nat /\ FeedbackCap <= MaxFeedbackRounds
        BY <4>1 DEF FeedbackCap, Lesser
      <4>3. ctx.rounds \in Nat
        BY <1>1, <4>1 DEF Contexts
      <4> QED BY <2>1, <4>1, <4>2, <4>3 DEF Retry, RoundsLeft
    <3>4. ctx' \in Contexts
      BY <1>1, <3>1, <3>3 DEF Contexts
    <3>5. TypeOK'
      BY <1>2, <1>5, <3>1, <3>2, <3>4 DEF TypeOK
    <3>6. AtWork'
      BY <3>1 DEF AtWork
    <3>7. OriginClean' /\ VerdictsCurrent'
      BY <1>1, <3>1 DEF OriginClean, VerdictsCurrent, Contexts
    <3> QED BY <3>5, <3>6, <3>7
  <2>2. CASE ~Retry
    <3>1. TypeOK'
      BY <1>3, <1>5, <1>11, <2>2 DEF Feedback, NextStage, TypeOK, AtWork
    <3>2. AtWork' /\ OriginClean' /\ VerdictsCurrent'
      BY <1>11, <2>2 DEF Feedback, NextStage, AtWork, OriginClean, VerdictsCurrent
    <3> QED BY <3>1, <3>2
  <2> QED BY <2>1, <2>2
<1>12. CASE Decide
  <2>1. TypeOK'
    BY <1>5, <1>12, PipelineAssumption DEF Decide, TypeOK
  <2>2. Stage' = Stage /\ ShouldSkip(Stage, ctx)' = ShouldSkip(Stage, ctx)
    BY <1>5, <1>12 DEF Decide, Stage, ShouldSkip
  <2>3. AtWork'
    BY <1>4, <1>5, <1>12, <2>2 DEF Decide, AtWork
  <2>4. OriginClean' /\ VerdictsCurrent'
    BY <1>12 DEF Decide, OriginClean, VerdictsCurrent
  <2> QED BY <2>1, <2>3, <2>4
<1>13. CASE Call
  <2>1. /\ pc' \in {"call", "settle"} /\ UNCHANGED <<command, i, ctx>>
        /\ calls' = calls + 1
        /\ pc' = "settle" => answer' \in {"real", "placeholder", "threw"}
    BY <1>13 DEF Call
  <2>2. /\ attempt' \in 1 .. MaxAttempts
        /\ answer' \in {"none", "real", "placeholder", "threw"}
        /\ faults' \in 0 .. MaxFaults
    BY <1>13, PipelineAssumption DEF Call, TypeOK
  <2>3. TypeOK'
    BY <1>5, <2>1, <2>2 DEF TypeOK
  <2>4. Stage' = Stage /\ ShouldSkip(Stage, ctx)' = ShouldSkip(Stage, ctx)
    BY <1>5, <2>1 DEF Stage, ShouldSkip
  <2>5. AtWork'
    BY <1>5, <1>13, <2>1, <2>4 DEF Call, AtWork
  <2>6. OriginClean' /\ VerdictsCurrent'
    BY <2>1 DEF OriginClean, VerdictsCurrent
  <2> QED BY <2>3, <2>5, <2>6
<1>14. CASE Settle
  <2>1. pc = "settle" /\ i \in DOMAIN plan /\ ~ShouldSkip(Stage, ctx)
    BY <1>14 DEF Settle, AtWork
  <2>2. CASE FailStage
    <3>1. faults' \in 0 .. MaxFaults
      BY <1>14, PipelineAssumption DEF Settle, TypeOK
    <3>2. TypeOK'
      BY <1>3, <1>5, <2>1, <2>2, <3>1 DEF FailStage, NextStage, TypeOK
    <3>3. AtWork' /\ OriginClean' /\ VerdictsCurrent'
      BY <2>2 DEF FailStage, NextStage, AtWork, OriginClean, VerdictsCurrent
    <3> QED BY <3>2, <3>3
  <2>3. CASE ~FailStage
    <3>1. ctx' \in Reduced(Stage, ctx, answer) /\ answer \in {"real", "placeholder"}
      BY <1>14, <2>1, <2>3 DEF Settle, AtWork
    <3>2. i' = i + 1 /\ pc' = "stage" /\ UNCHANGED <<command, attempt, answer, calls, faults>>
      BY <1>14, <2>3 DEF Settle, NextStage
    <3>3. /\ ctx' \in Contexts
          /\ ctx'.origin \subseteq ctx.origin \cup {"nothing"}
          /\ \/ ctx'.lintStatus = "unset"
             \/ /\ ctx'.lintStatus = ctx.lintStatus /\ ctx'.lintOf = ctx.lintOf
                /\ ctx'.version = ctx.version
          /\ \/ ctx'.criticVerdict = "unset"
             \/ /\ ctx'.criticVerdict = ctx.criticVerdict /\ ctx'.criticOf = ctx.criticOf
                /\ ctx'.version = ctx.version
             \/ ctx'.criticOf = ctx'.version
      BY <1>1, <2>1, <3>1, ReducedContext
    <3>4. TypeOK'
      BY <1>3, <1>5, <2>1, <3>2, <3>3 DEF TypeOK
    <3>5. AtWork'
      BY <3>2 DEF AtWork
    <3>6. OriginClean' /\ VerdictsCurrent'
      BY <3>3 DEF OriginClean, VerdictsCurrent
    <3> QED BY <3>4, <3>5, <3>6
  <2> QED BY <2>2, <2>3
<1>15. CASE StoreThrows
  <2>1. TypeOK'
    BY <1>5, <1>15 DEF StoreThrows, TypeOK
  <2>2. AtWork' /\ OriginClean' /\ VerdictsCurrent'
    BY <1>15 DEF StoreThrows, AtWork, OriginClean, VerdictsCurrent
  <2> QED BY <2>1, <2>2
<1>16. CASE Finish
  <2>1. TypeOK'
    BY <1>5, <1>16 DEF Finish, TypeOK
  <2>2. AtWork' /\ OriginClean' /\ VerdictsCurrent'
    BY <1>16 DEF Finish, AtWork, OriginClean, VerdictsCurrent
  <2> QED BY <2>1, <2>2
<1>17. CASE UNCHANGED vars
  <2>1. UNCHANGED plan /\ UNCHANGED Stage /\ ShouldSkip(Stage, ctx)' = ShouldSkip(Stage, ctx)
    BY <1>17 DEF vars, plan, Stage, ShouldSkip
  <2> QED BY <1>17, <2>1 DEF vars, TypeOK, AtWork, OriginClean, VerdictsCurrent
<1> QED
  BY <1>6, <1>7, <1>8, <1>9, <1>10, <1>11, <1>12, <1>13, <1>14, <1>15, <1>16, <1>17
  DEF Next, Progress

LEMMA InvAlways == Spec => []Inv
<1> QED BY InitInv, StepInv, PTL DEF Spec

-----------------------------------------------------------------------------
(* The budget. What has been called is bounded by the stage executions     *)
(* behind the runner, each with all its attempts, and the attempts of the  *)
(* one in hand; a feedback round moves the runner back by what the plan    *)
(* reserved for that round.                                                *)

Generating(k) == {j \in 1 .. k : plan[j] \notin Deterministic}

\* The generating stages among the first k of the plan.
Done(k) == Cardinality(Generating(k))

\* The executions of n feedback rounds, and the attempts of n executions.
Again(n) == n * PerRound
Granted(n) == n * MaxAttempts

\* The stage executions behind the runner that called the provider.
Executed == Done(i - 1) + Again(ctx.rounds)

\* The attempts made or granted for the stage execution in hand.
InHand == IF pc = "call" THEN attempt - 1 ELSE IF pc = "settle" THEN MaxAttempts ELSE 0

Budget ==
  /\ ctx.rounds <= FeedbackCap
  /\ pc \in {"call", "settle"} => Stage \notin Deterministic
  /\ pc = "feedback" => Stage = "lint"
  /\ pc # "aborted" => calls <= Granted(Executed) + InHand
  /\ pc = "aborted" => calls <= plannedPipelineCalls
  /\ pc \in {"start", "refused"} => calls = 0
  /\ pc \notin {"start", "refused"} /\ command.cap # NoCap => plannedPipelineCalls <= command.cap

LEMMA DoneIsNat ==
  ASSUME NEW k \in Int
  PROVE  IsFiniteSet(Generating(k)) /\ Done(k) \in Nat
<1>1. IsFiniteSet(1 .. k) /\ Generating(k) \in SUBSET (1 .. k)
  BY FS_Interval DEF Generating
<1>2. IsFiniteSet(Generating(k))
  BY <1>1, FS_Subset
<1> QED BY <1>2, FS_CardinalityType DEF Done

LEMMA DoneGrows ==
  ASSUME NEW j \in Int, NEW k \in Int, j <= k
  PROVE  Done(j) <= Done(k)
<1>1. Generating(j) \in SUBSET Generating(k)
  BY DEF Generating
<1> QED BY <1>1, DoneIsNat, FS_Subset DEF Done

LEMMA DoneStep ==
  ASSUME NEW k \in Nat \ {0}, plan[k] \notin Deterministic
  PROVE  Done(k) = Done(k - 1) + 1
<1>1. Generating(k) = Generating(k - 1) \cup {k} /\ k \notin Generating(k - 1)
  BY DEF Generating
<1>2. IsFiniteSet(Generating(k - 1))
  BY DoneIsNat
<1> QED BY <1>1, <1>2, FS_AddElement DEF Done

\* A plan holds lint at most once.
LEMMA LintOnce ==
  ASSUME command \in Commands,
         NEW j \in DOMAIN plan, NEW k \in DOMAIN plan, plan[j] = "lint", plan[k] = "lint"
  PROVE  j = k
<1>1. command.depth \in {"TINY", "MINIMAL", "STANDARD", "COMPREHENSIVE"}
  BY PipelineAssumption DEF Commands, DEPTH_PLAN
<1>2. CASE command.depth = "TINY"
  BY <1>2 DEF plan, DEPTH_PLAN
<1>3. CASE command.depth = "MINIMAL"
  BY <1>3 DEF plan, DEPTH_PLAN
<1>4. CASE command.depth \in {"STANDARD", "COMPREHENSIVE"}
  <2>1. plan = AllStages
    BY <1>4 DEF plan, DEPTH_PLAN
  <2> QED BY <2>1 DEF AllStages
<1> QED BY <1>1, <1>2, <1>3, <1>4

LEMMA IndexInPlan ==
  ASSUME NEW s, InPlan(s)
  PROVE  IndexOf(s) \in DOMAIN plan /\ plan[IndexOf(s)] = s
BY DEF InPlan, IndexOf, ToSet

\* The slice a feedback round executes again is finite.
LEMMA PerRoundIsNat ==
  ASSUME command \in Commands
  PROVE  PerRound \in Nat
<1>1. CASE InPlan("refine") /\ InPlan("lint")
  <2> DEFINE slice == {k \in IndexOf("refine") .. IndexOf("lint") : plan[k] \notin Deterministic}
  <2>1. IndexOf("refine") \in Int /\ IndexOf("lint") \in Int
    BY <1>1, IndexInPlan, PlanIsSeq
  <2>2. IsFiniteSet(IndexOf("refine") .. IndexOf("lint"))
    BY <2>1, FS_Interval
  <2>3. IsFiniteSet(slice)
    BY <2>2, FS_Subset
  <2>4. Cardinality(slice) \in Nat
    BY <2>3, FS_CardinalityType
  <2> QED BY <1>1, <2>4 DEF PerRound
<1> QED BY <1>1 DEF PerRound

\* Going back from lint to refine takes the runner back by no more than PerRound executions.
LEMMA RoundCovers ==
  ASSUME command \in Commands, InPlan("refine"), i \in DOMAIN plan, Stage = "lint"
  PROVE  Done(i - 1) <= Done(IndexOf("refine") - 1) + PerRound
<1> DEFINE from == IndexOf("refine")
           slice == {k \in from .. IndexOf("lint") : plan[k] \notin Deterministic}
<1>1. i \in Nat \ {0} /\ from \in Nat \ {0}
  BY IndexInPlan, PlanIsSeq
<1>2. InPlan("lint") /\ IndexOf("lint") = i
  <2>1. InPlan("lint")
    BY DEF InPlan, Stage, ToSet
  <2> QED BY <2>1, IndexInPlan, LintOnce DEF Stage
<1>3. IsFiniteSet(slice)
  <2>1. IsFiniteSet(from .. IndexOf("lint"))
    BY <1>1, <1>2, FS_Interval
  <2> QED BY <2>1, FS_Subset
<1>4. PerRound = Cardinality(slice)
  BY <1>2 DEF PerRound
<1>5. IsFiniteSet(Generating(from - 1))
  BY <1>1, DoneIsNat
<1>6. Generating(i - 1) \in SUBSET (Generating(from - 1) \cup slice)
  BY <1>1, <1>2 DEF Generating
<1>7. /\ IsFiniteSet(Generating(from - 1) \cup slice)
      /\ Cardinality(Generating(from - 1) \cup slice) <= Done(from - 1) + PerRound
  <2>1. IsFiniteSet(Generating(from - 1) \cap slice)
    BY <1>3, FS_Subset
  <2>2. Cardinality(Generating(from - 1) \cap slice) \in Nat
    BY <2>1, FS_CardinalityType
  <2>3. Done(from - 1) \in Nat /\ PerRound \in Nat
    BY <1>1, DoneIsNat, PerRoundIsNat
  <2> QED BY <1>3, <1>4, <1>5, <2>2, <2>3, FS_Union DEF Done
<1>8. Cardinality(Generating(i - 1)) <= Cardinality(Generating(from - 1) \cup slice)
  BY <1>6, <1>7, FS_Subset
<1>9. Done(i - 1) \in Nat /\ Done(from - 1) \in Nat /\ PerRound \in Nat
  BY <1>1, DoneIsNat, PerRoundIsNat
<1>10. Cardinality(Generating(from - 1) \cup slice) \in Nat
  BY <1>7, FS_CardinalityType
<1> QED BY <1>7, <1>8, <1>9, <1>10 DEF Done

LEMMA Times ==
  ASSUME NEW x \in Nat, NEW m \in Nat
  PROVE  x * m \in Nat /\ (x + 1) * m = x * m + m
OBVIOUS

LEMMA Scale ==
  ASSUME NEW x \in Nat, NEW y \in Nat, NEW m \in Nat, x <= y
  PROVE  x * m <= y * m
<1>1. PICK d \in Nat : y = x + d
  <2>1. y - x \in Nat /\ y = x + (y - x)
    OBVIOUS
  <2> QED BY <2>1
<1>2. y * m = x * m + d * m
  BY <1>1
<1>3. x * m \in Nat /\ d * m \in Nat
  OBVIOUS
<1> QED BY <1>2, <1>3

LEMMA GrantedGrows ==
  /\ \A x \in Nat : Granted(x) \in Nat /\ Granted(x + 1) = Granted(x) + MaxAttempts
  /\ \A x, y \in Nat : x <= y => Granted(x) <= Granted(y)
BY PipelineAssumption, Times, Scale DEF Granted

LEMMA AgainGrows ==
  ASSUME command \in Commands
  PROVE  /\ \A x \in Nat : Again(x) \in Nat /\ Again(x + 1) = Again(x) + PerRound
         /\ \A x, y \in Nat : x <= y => Again(x) <= Again(y)
BY PerRoundIsNat, Times, Scale DEF Again

\* Where the index of the stage is.
LEMMA IndexTypes ==
  ASSUME Inv
  PROVE  /\ i \in Nat \ {0} /\ Len(plan) \in Nat /\ i <= Len(plan) + 1
         /\ i - 1 \in Int /\ i \in Int /\ Len(plan) \in Int
         /\ i - 1 <= i /\ i - 1 <= Len(plan)
         /\ i \in DOMAIN plan <=> i <= Len(plan)
<1>1. command \in Commands /\ i \in 1 .. Len(plan) + 1
  BY DEF Inv, TypeOK
<1>2. Len(plan) \in Nat /\ DOMAIN plan = 1 .. Len(plan)
  BY <1>1, PlanIsSeq
<1>3. i \in Nat \ {0} /\ i <= Len(plan) + 1
  BY <1>1, <1>2
<1> QED BY <1>2, <1>3

\* The types of the quantities the budget is made of.
LEMMA BudgetTypes ==
  ASSUME Inv
  PROVE  /\ MaxAttempts \in Nat \ {0} /\ attempt \in 1 .. MaxAttempts
         /\ PerRound \in Nat /\ ctx.rounds \in Nat /\ FeedbackCap \in Nat /\ calls \in Nat
         /\ Done(i - 1) \in Nat /\ Done(i) \in Nat /\ Done(Len(plan)) \in Nat
         /\ Again(ctx.rounds) \in Nat /\ Again(FeedbackCap) \in Nat
         /\ Executed \in Nat /\ Granted(Executed) \in Nat
<1>1. command \in Commands /\ ctx \in Contexts /\ i \in 1 .. Len(plan) + 1
  BY DEF Inv, TypeOK
<1>2. Len(plan) \in Nat /\ DOMAIN plan = 1 .. Len(plan)
  BY <1>1, PlanIsSeq
<1>3. FeedbackCap \in Nat
  BY <1>1, PipelineAssumption DEF Commands, FeedbackCap, Lesser
<1>4. ctx.rounds \in Nat
  BY <1>1, PipelineAssumption DEF Contexts
<1>5. PerRound \in Nat
  BY <1>1, PerRoundIsNat
<1>6. Done(i - 1) \in Nat /\ Done(i) \in Nat /\ Done(Len(plan)) \in Nat
  <2>1. i - 1 \in Int /\ i \in Int /\ Len(plan) \in Int
    BY <1>1, <1>2
  <2>2. \A k \in Int : Done(k) \in Nat
    BY DoneIsNat
  <2> QED BY <2>1, <2>2
<1>7. MaxAttempts \in Nat \ {0} /\ attempt \in 1 .. MaxAttempts /\ calls \in Nat
  BY PipelineAssumption DEF Inv, TypeOK
<1>8. Again(ctx.rounds) \in Nat /\ Again(FeedbackCap) \in Nat
  BY <1>1, <1>3, <1>4, AgainGrows
<1>9. Executed \in Nat
  BY <1>6, <1>8 DEF Executed
<1>10. Granted(Executed) \in Nat
  BY <1>9, GrantedGrows
<1> QED BY <1>1, <1>2, <1>3, <1>4, <1>5, <1>6, <1>7, <1>8, <1>9, <1>10

\* The reservation in the terms of the budget.
LEMMA PlannedIs ==
  ASSUME Inv
  PROVE  /\ plannedPipelineCalls = Granted(Done(Len(plan)) + Again(FeedbackCap))
         /\ plannedPipelineCalls \in Nat
<1>1. plannedPipelineCalls = Granted(Done(Len(plan)) + Again(FeedbackCap))
  <2>1. DOMAIN plan = 1 .. Len(plan)
    BY PlanIsSeq DEF Inv, TypeOK
  <2> QED BY <2>1 DEF plannedPipelineCalls, Done, Generating, Granted, Again
<1>2. Done(Len(plan)) + Again(FeedbackCap) \in Nat
  BY BudgetTypes
<1> QED BY <1>1, <1>2, GrantedGrows

\* What the invariant is for: no run makes more calls than were planned.
LEMMA BudgetBounds ==
  ASSUME Inv, Budget
  PROVE  calls <= plannedPipelineCalls
<1> DEFINE left == Done(Len(plan)) + Again(FeedbackCap)
           spent == Executed + (IF pc \in {"call", "settle"} THEN 1 ELSE 0)
<1>1. Again(ctx.rounds) <= Again(FeedbackCap)
  <2>1. command \in Commands
    BY DEF Inv, TypeOK
  <2>2. ctx.rounds \in Nat /\ FeedbackCap \in Nat /\ ctx.rounds <= FeedbackCap
    BY BudgetTypes DEF Budget
  <2> QED BY <2>1, <2>2, AgainGrows
<1>2. left \in Nat /\ Executed \in Nat /\ spent \in Nat /\ Done(i - 1) \in Nat
      /\ Done(Len(plan)) \in Nat /\ Again(ctx.rounds) \in Nat /\ Again(FeedbackCap) \in Nat
      /\ Executed = Done(i - 1) + Again(ctx.rounds)
  <2>1. /\ Done(i - 1) \in Nat /\ Done(Len(plan)) \in Nat /\ Executed \in Nat
        /\ Again(ctx.rounds) \in Nat /\ Again(FeedbackCap) \in Nat
    BY BudgetTypes
  <2> QED BY <2>1 DEF Executed
<1>3. spent <= left
  <2>1. CASE pc \in {"call", "settle"}
    <3>1. i \in DOMAIN plan
      BY <2>1 DEF Inv, AtWork
    <3>2. Done(i) = Done(i - 1) + 1
      BY <2>1, IndexTypes, DoneStep DEF Budget, Stage
    <3>3. Done(i) <= Done(Len(plan))
      <4>1. i \in Int /\ Len(plan) \in Int /\ i <= Len(plan)
        BY <3>1, IndexTypes
      <4> QED BY <4>1, DoneGrows
    <3>4. Done(i - 1) + 1 <= Done(Len(plan))
      BY <3>2, <3>3
    <3> QED BY <1>1, <1>2, <2>1, <3>4
  <2>2. CASE pc \notin {"call", "settle"}
    <3>1. Done(i - 1) <= Done(Len(plan))
      <4>1. i - 1 \in Int /\ Len(plan) \in Int /\ i - 1 <= Len(plan)
        BY IndexTypes
      <4> QED BY <4>1, DoneGrows
    <3> QED BY <1>1, <1>2, <2>2, <3>1
  <2> QED BY <2>1, <2>2
<1>4. pc # "aborted" => calls <= Granted(Executed) + InHand
  BY DEF Budget
<1>5. InHand <= (IF pc \in {"call", "settle"} THEN MaxAttempts ELSE 0) /\ InHand \in Nat
  <2>1. MaxAttempts \in Nat \ {0} /\ attempt \in 1 .. MaxAttempts
    BY BudgetTypes
  <2> QED BY <2>1 DEF InHand
<1>6. Granted(spent)
        = Granted(Executed) + (IF pc \in {"call", "settle"} THEN MaxAttempts ELSE 0)
  <2>1. Granted(Executed) \in Nat /\ Granted(Executed + 1) = Granted(Executed) + MaxAttempts
    BY <1>2, GrantedGrows
  <2> QED BY <1>2, <2>1
<1>7. plannedPipelineCalls = Granted(left)
  BY PlannedIs
<1> HIDE DEF left, spent
<1>8. Granted(spent) <= Granted(left)
      /\ Granted(spent) \in Nat /\ Granted(left) \in Nat
  BY <1>2, <1>3, GrantedGrows
<1>9. CASE pc = "aborted"
  BY <1>9 DEF Budget
<1>10. CASE pc # "aborted"
  <2>1. calls \in Nat /\ MaxAttempts \in Nat /\ Granted(Executed) \in Nat
    BY BudgetTypes
  <2> QED BY <1>4, <1>5, <1>6, <1>7, <1>8, <1>10, <2>1
<1> QED BY <1>9, <1>10

\* The runner leaves a stage behind: what it had in hand is paid for by one more execution.
LEMMA AdvanceKeepsBudget ==
  ASSUME Inv, Budget, i \in DOMAIN plan, pc \in {"stage", "settle", "feedback"},
         command' = command, i' = i + 1, pc' = "stage", ctx'.rounds = ctx.rounds, calls' = calls
  PROVE  Budget'
<1> DEFINE before == Done(i - 1) + Again(ctx.rounds)
           after == Done(i) + Again(ctx.rounds)
<1>1. plan' = plan
  BY DEF plan
<1>2. /\ FeedbackCap' = FeedbackCap /\ PerRound' = PerRound
      /\ plannedPipelineCalls' = plannedPipelineCalls
  BY <1>1 DEF FeedbackCap, PerRound, plannedPipelineCalls, InPlan, IndexOf
<1>3. Executed' = after
  <2>1. i' - 1 = i
    BY IndexTypes
  <2>2. Done(i - 1)' = Done(i)
    BY <1>1, <2>1 DEF Done, Generating
  <2>3. Again(ctx.rounds)' = Again(ctx.rounds)
    BY <1>2 DEF Again
  <2> QED BY <2>2, <2>3 DEF Executed
<1>4. Again(ctx.rounds) \in Nat /\ Done(i - 1) \in Nat /\ Done(i) \in Nat /\ calls \in Nat
      /\ MaxAttempts \in Nat
  BY BudgetTypes
<1>5. before \in Nat /\ after \in Nat
  BY <1>4
<1>6. before <= after
  <2>1. i - 1 \in Int /\ i \in Int /\ i - 1 <= i
    BY IndexTypes
  <2>2. Done(i - 1) <= Done(i)
    BY <2>1, DoneGrows
  <2> QED BY <1>4, <2>2
<1>7. pc = "settle" => after = before + 1
  <2>1. pc = "settle" => Done(i) = Done(i - 1) + 1
    BY IndexTypes, DoneStep DEF Budget, Stage
  <2> QED BY <1>4, <2>1
<1>8. calls <= Granted(before) + (IF pc = "settle" THEN MaxAttempts ELSE 0)
  BY DEF Budget, InHand, Executed
<1> HIDE DEF before, after
<1>9. calls <= Granted(after)
  <2>1. CASE pc = "settle"
    <3>1. Granted(after) = Granted(before) + MaxAttempts
      BY <1>5, <1>7, <2>1, GrantedGrows
    <3> QED BY <1>8, <2>1, <3>1
  <2>2. CASE pc # "settle"
    <3>1. /\ Granted(before) <= Granted(after)
          /\ Granted(before) \in Nat /\ Granted(after) \in Nat
      BY <1>5, <1>6, GrantedGrows
    <3> QED BY <1>4, <1>8, <2>2, <3>1
  <2> QED BY <2>1, <2>2
<1>10. Granted(after) \in Nat
  BY <1>5, GrantedGrows
<1>11. calls' <= Granted(Executed') + InHand'
  <2>1. InHand' = 0
    BY DEF InHand
  <2> QED BY <1>3, <1>9, <1>10, <2>1
<1> QED BY <1>2, <1>11 DEF Budget

\* A feedback round: back to refine, with one round more.
LEMMA RetryKeepsBudget ==
  ASSUME Inv, Budget, Retry, pc = "feedback", i \in DOMAIN plan,
         command' = command, i' = IndexOf("refine"), pc' = "stage",
         ctx'.rounds = ctx.rounds + 1, calls' = calls
  PROVE  Budget'
<1> DEFINE before == Done(i - 1) + Again(ctx.rounds)
           after == Done(IndexOf("refine") - 1) + Again(ctx.rounds + 1)
<1>1. plan' = plan
  BY DEF plan
<1>2. /\ FeedbackCap' = FeedbackCap /\ PerRound' = PerRound
      /\ plannedPipelineCalls' = plannedPipelineCalls
  BY <1>1 DEF FeedbackCap, PerRound, plannedPipelineCalls, InPlan, IndexOf
<1>3. Executed' = after
  <2>1. Done(i - 1)' = Done(IndexOf("refine") - 1)
    BY <1>1 DEF Done, Generating
  <2>2. Again(ctx.rounds)' = Again(ctx.rounds + 1)
    BY <1>2 DEF Again
  <2> QED BY <2>1, <2>2 DEF Executed
<1>4. command \in Commands /\ Stage = "lint" /\ InPlan("refine")
  BY DEF Inv, TypeOK, Budget, Retry
<1>5. IndexOf("refine") - 1 \in Nat
  BY <1>4, IndexInPlan, PlanIsSeq
<1>6. Done(IndexOf("refine") - 1) \in Nat
  BY <1>5, DoneIsNat
<1>7. Done(i - 1) <= Done(IndexOf("refine") - 1) + PerRound
  BY <1>4, RoundCovers
<1>8. /\ Again(ctx.rounds) \in Nat
      /\ Again(ctx.rounds + 1) = Again(ctx.rounds) + PerRound
  <2>1. ctx.rounds \in Nat
    BY BudgetTypes
  <2> QED BY <1>4, <2>1, AgainGrows
<1>9. before \in Nat /\ after \in Nat /\ before <= after
  <2>1. Done(i - 1) \in Nat /\ PerRound \in Nat
    BY BudgetTypes
  <2> QED BY <1>6, <1>7, <1>8, <2>1
<1>10. Granted(before) <= Granted(after)
       /\ Granted(before) \in Nat /\ Granted(after) \in Nat
  BY <1>9, GrantedGrows
<1>11. calls <= Granted(before)
  <2>1. calls <= Granted(before) + 0
    BY DEF Budget, InHand, Executed
  <2> QED BY <1>10, <2>1
<1>12. calls' <= Granted(Executed') + InHand'
  <2>1. InHand' = 0
    BY DEF InHand
  <2> HIDE DEF before, after
  <2> QED BY <1>3, <1>10, <1>11, <2>1, BudgetTypes
<1>13. ctx'.rounds <= FeedbackCap'
  BY <1>2, BudgetTypes DEF Retry, RoundsLeft
<1> QED BY <1>2, <1>12, <1>13 DEF Budget

\* The budget admitted is kept by every step.
LEMMA BudgetStep == Inv /\ Inv' /\ Budget /\ [Next]_vars => Budget'
<1> SUFFICES ASSUME Inv, Inv', Budget, [Next]_vars PROVE Budget'
  OBVIOUS
<1>1. AtStage => i \in DOMAIN plan /\ pc = "stage"
  BY IndexTypes DEF AtStage
<1>2. pc \in {"settle", "feedback"} => i \in DOMAIN plan
  BY DEF Inv, AtWork
<1>3. ctx \in Contexts
  BY DEF Inv, TypeOK
<1>4. ASSUME command' = command, i' = i, ctx'.rounds = ctx.rounds
      PROVE  /\ Executed' = Executed /\ FeedbackCap' = FeedbackCap /\ Stage' = Stage
             /\ plannedPipelineCalls' = plannedPipelineCalls
  <2>1. plan' = plan
    BY <1>4 DEF plan
  <2>2. FeedbackCap' = FeedbackCap /\ PerRound' = PerRound
    BY <1>4, <2>1 DEF FeedbackCap, PerRound, InPlan, IndexOf
  <2>3. Done(i - 1)' = Done(i - 1)
    BY <1>4, <2>1 DEF Done, Generating
  <2>4. plannedPipelineCalls' = plannedPipelineCalls
    BY <2>1, <2>2 DEF plannedPipelineCalls
  <2>5. Stage' = Stage
    BY <1>4, <2>1 DEF Stage
  <2>6. Again(ctx.rounds)' = Again(ctx.rounds)
    BY <1>4, <2>2 DEF Again
  <2> QED BY <2>2, <2>3, <2>4, <2>5, <2>6 DEF Executed
<1>5. CASE Admit
  <2>1. /\ pc = "start" /\ pc' \in {"stage", "refused"} /\ UNCHANGED <<command, i, ctx, calls>>
        /\ pc' = "stage" /\ command.cap # NoCap => ~(plannedPipelineCalls > command.cap)
    BY <1>5 DEF Admit
  <2>2. command.cap # NoCap => command.cap \in Nat
    BY PipelineAssumption DEF Inv, TypeOK, Commands
  <2>3. plannedPipelineCalls \in Nat
    BY PlannedIs
  <2>4. InHand' = InHand
    BY <2>1 DEF InHand
  <2> QED BY <1>4, <2>1, <2>2, <2>3, <2>4 DEF Budget
<1>6. CASE Skip
  <2>1. ctx'.rounds = ctx.rounds
    BY <1>3, <1>6, ReduceSkippedContext DEF Skip
  <2> QED BY <1>1, <1>6, <2>1, AdvanceKeepsBudget DEF Skip, NextStage
<1>7. CASE StageThrows
  BY <1>1, <1>7, AdvanceKeepsBudget DEF StageThrows, FailStage, NextStage
<1>8. CASE EstimateCost
  BY <1>1, <1>8, AdvanceKeepsBudget DEF EstimateCost, NextStage
<1>9. CASE Lint
  <2>1. CASE FailStage
    BY <1>1, <1>9, <2>1, AdvanceKeepsBudget DEF Lint, FailStage, NextStage
  <2>2. CASE ~FailStage
    <3>1. PICK status : ctx' = [ctx EXCEPT !.lintStatus = status, !.lintOf = ctx.version]
      BY <1>9, <2>2 DEF Lint
    <3>2. ctx'.rounds = ctx.rounds
      BY <1>3, <3>1 DEF Contexts
    <3>3. /\ pc = "stage" /\ pc' = "feedback" /\ Stage = "lint"
          /\ UNCHANGED <<command, i, calls>>
      BY <1>9, <2>2 DEF Lint, AtStage
    <3> QED BY <1>4, <3>2, <3>3 DEF Budget, InHand
  <2> QED BY <2>1, <2>2
<1>10. CASE Feedback
  <2>1. CASE Retry
    <3>1. /\ ctx' = [ctx EXCEPT !.critique = "items", !.rounds = @ + 1]
          /\ pc = "feedback" /\ i' = IndexOf("refine") /\ pc' = "stage"
          /\ UNCHANGED <<command, calls>>
      BY <1>10, <2>1 DEF Feedback
    <3>2. ctx'.rounds = ctx.rounds + 1
      BY <1>3, <3>1 DEF Contexts
    <3> QED BY <1>2, <2>1, <3>1, <3>2, RetryKeepsBudget
  <2>2. CASE ~Retry
    BY <1>2, <1>10, <2>2, AdvanceKeepsBudget DEF Feedback, NextStage
  <2> QED BY <2>1, <2>2
<1>11. CASE Decide
  <2>1. InHand' = InHand
    BY <1>11 DEF Decide, AtStage, InHand
  <2> QED BY <1>4, <1>11, <2>1 DEF Decide, AtStage, Budget
<1>12. CASE Call
  <2>1. pc = "call" /\ calls' = calls + 1 /\ UNCHANGED <<command, i, ctx>>
        /\ pc' \in {"call", "settle"}
    BY <1>12 DEF Call
  <2>2. InHand = attempt - 1
    BY <2>1 DEF InHand
  <2>3. InHand' \in Nat /\ InHand' >= attempt
    <3>1. MaxAttempts \in Nat \ {0} /\ attempt \in 1 .. MaxAttempts
      BY BudgetTypes
    <3>2. CASE pc' = "settle"
      BY <3>1, <3>2 DEF InHand
    <3>3. CASE pc' = "call"
      <4>1. attempt' = attempt + 1
        BY <1>12, <2>1, <3>3 DEF Call
      <4> QED BY <3>1, <3>3, <4>1 DEF InHand
    <3> QED BY <2>1, <3>2, <3>3
  <2>4. calls' <= Granted(Executed') + InHand'
    <3>1. Executed' = Executed
      BY <1>4, <2>1
    <3>2. calls <= Granted(Executed) + (attempt - 1)
      BY <2>1, <2>2 DEF Budget
    <3>3. /\ Granted(Executed)' = Granted(Executed)
          /\ Granted(Executed) \in Nat /\ calls \in Nat /\ attempt \in Nat
      BY <3>1, BudgetTypes DEF Granted
    <3> QED BY <2>1, <2>3, <3>1, <3>2, <3>3
  <2> QED BY <1>4, <2>1, <2>4 DEF Budget
<1>13. CASE Settle
  <2>1. CASE FailStage
    BY <1>2, <1>13, <2>1, AdvanceKeepsBudget DEF Settle, FailStage, NextStage
  <2>2. CASE ~FailStage
    <3>1. /\ pc = "settle" /\ ctx' \in Reduced(Stage, ctx, answer)
          /\ answer \in {"real", "placeholder"} /\ ~ShouldSkip(Stage, ctx)
      BY <1>13, <2>2 DEF Settle, Inv, AtWork
    <3>2. ctx'.rounds = ctx.rounds
      BY <1>3, <3>1, ReducedContext
    <3> QED BY <1>2, <1>13, <2>2, <3>2, AdvanceKeepsBudget DEF Settle, NextStage
  <2> QED BY <2>1, <2>2
<1>14. CASE StoreThrows
  <2>1. pc' = "aborted" /\ pc \notin {"start", "refused", "call"} /\ UNCHANGED <<command, i, ctx, calls>>
    BY <1>14 DEF StoreThrows, AtStage
  <2>2. calls <= plannedPipelineCalls
    BY BudgetBounds
  <2> QED BY <1>4, <2>1, <2>2 DEF Budget
<1>15. CASE Finish
  BY <1>4, <1>15 DEF Finish, Budget, InHand
<1>16. CASE UNCHANGED vars
  BY <1>4, <1>16 DEF vars, Budget, InHand
<1> QED
  BY <1>5, <1>6, <1>7, <1>8, <1>9, <1>10, <1>11, <1>12, <1>13, <1>14, <1>15, <1>16
  DEF Next, Progress

LEMMA BudgetInit == Init => Budget
<1> SUFFICES ASSUME Init PROVE Budget
  OBVIOUS
<1>1. Inv
  BY InitInv
<1>2. ctx.rounds = 0 /\ calls = 0 /\ pc = "start"
  BY DEF Init
<1>3. InHand = 0
  BY <1>2 DEF InHand
<1> QED BY <1>1, <1>2, <1>3, BudgetTypes DEF Budget

-----------------------------------------------------------------------------
(* The theorems.                                                           *)

\* Every reachable state of a run is well formed: the index stays within the plan, retries
\* within the attempts and rounds within the cap.
THEOREM TypeCorrect == Spec => []TypeOK
<1>1. Inv => TypeOK
  BY DEF Inv
<1> QED BY <1>1, InvAlways, PTL

\* A verdict in the context is always about the prompt in the context, whatever fails and
\* however many rounds rewrite the prompt.
THEOREM VerdictsNeverStale == Spec => []VerdictsCurrent
<1>1. Inv => VerdictsCurrent
  BY DEF Inv
<1> QED BY <1>1, InvAlways, PTL

\* No prompt is ever made from a placeholder prompt, or against a placeholder critique.
THEOREM NothingIsLaundered == Spec => []NoPromptLaundered
<1>1. Inv => NoPromptLaundered
  BY DEF Inv, OriginClean, NoPromptLaundered
<1> QED BY <1>1, InvAlways, PTL

\* The calls a run makes, retries and feedback rounds included, never exceed the worst case
\* its plan was admitted with, nor the cap its budget declared.
THEOREM BudgetKept == Spec => []CallsWithinPlan
<1>1. Inv /\ Budget => CallsWithinPlan
  <2> SUFFICES ASSUME Inv, Budget PROVE CallsWithinPlan
    OBVIOUS
  <2>1. calls <= plannedPipelineCalls /\ plannedPipelineCalls \in Nat /\ calls \in Nat
    BY BudgetBounds, PlannedIs, BudgetTypes
  <2>2. command.cap # NoCap => command.cap \in Nat
    BY PipelineAssumption DEF Inv, TypeOK, Commands
  <2> QED BY <2>1, <2>2 DEF Budget, CallsWithinPlan
<1> QED BY <1>1, BudgetInit, BudgetStep, InvAlways, PTL DEF Spec

-----------------------------------------------------------------------------
(* What judgeBundle grades. The last revision of a stage that makes the    *)
(* prompt, when it succeeded, is the prompt in the context: a later        *)
(* execution of such a stage leaves a later revision, whatever became of   *)
(* it. And where no revision is a DEMO no text is a placeholder.           *)

Revision ==
  [id : Nat, parents : SUBSET Nat, stale : BOOLEAN, lineaged : BOOLEAN, stage : StageNames,
   status : {"SUCCEEDED", "DEMO", "SKIPPED", "FAILED"}, about : Nat]

\* Revision k is the last of a stage that makes the prompt.
LastProduced(k) ==
  revs[k].stage \in PROMPT_PRODUCING_STAGES /\ \A j \in Produced : j <= k

LastIsThePrompt ==
  \A k \in DOMAIN revs :
    LastProduced(k) /\ revs[k].status = "SUCCEEDED" =>
      revs[k].about = ctx.version /\ ctx.prompt = "real"

Clean(c) == "placeholder" \notin {c.spec, c.calibration, c.critique}

SomeLast == Produced # {} => \E m \in Produced : \A j \in Produced : j <= m

Bundle == revs \in Seq(Revision) /\ SomeLast /\ LastIsThePrompt /\ (~Demoed => Clean(ctx))

\* A skip makes no prompt and no placeholder.
LEMMA SkippedTexts ==
  ASSUME NEW c \in Contexts, NEW s
  PROVE  /\ ReduceSkipped(s, c).prompt = c.prompt
         /\ ReduceSkipped(s, c).version = c.version
         /\ Clean(c) => Clean(ReduceSkipped(s, c))
BY DEF ReduceSkipped, Contexts, Texts, Clean

\* A settled stage makes the prompt its answer, or leaves it; a real answer is no placeholder.
LEMMA ReducedTexts ==
  ASSUME NEW c \in Contexts, NEW s, NEW text \in {"real", "placeholder"},
         NEW d \in Reduced(s, c, text)
  PROVE  /\ s \in PROMPT_PRODUCING_STAGES => d.prompt = text
         /\ s \notin PROMPT_PRODUCING_STAGES => d.prompt = c.prompt /\ d.version = c.version
         /\ text = "real" /\ Clean(c) => Clean(d)
<1> USE DEF PROMPT_PRODUCING_STAGES, Clean, Contexts, Texts
<1>1. CASE s \in {"compile", "harden"}
  <2>1. d = NewPrompt(s, c, text)
    BY <1>1 DEF Reduced
  <2> QED BY <1>1, <2>1 DEF NewPrompt
<1>2. CASE s = "refine"
  <2>1. d = [NewPrompt(s, c, text) EXCEPT !.critique = "empty"]
    BY <1>2 DEF Reduced
  <2> QED BY <1>2, <2>1 DEF NewPrompt
<1>3. CASE s = "critic"
  <2>1. PICK v \in {"PASS", "GATE_FAIL", "DEGRADED"} :
          d = [c EXCEPT !.criticVerdict = v, !.criticOf = c.version]
    BY <1>3 DEF Reduced
  <2> QED BY <1>3, <2>1
<1>4. CASE s = "critique"
  <2>1. PICK x \in (IF text = "real" THEN {"clean", "items"} ELSE {text}) :
          d = [c EXCEPT !.critique = x]
    BY <1>4 DEF Reduced
  <2> QED BY <1>4, <2>1
<1>5. CASE s = "deconstruct"
  <2>1. d = [c EXCEPT !.spec = text]
    BY <1>5 DEF Reduced
  <2> QED BY <1>5, <2>1
<1>6. CASE s = "calibrate"
  <2>1. d = [c EXCEPT !.calibration = text]
    BY <1>6 DEF Reduced
  <2> QED BY <1>6, <2>1
<1>7. CASE s \notin {"compile", "harden", "refine", "critic", "critique", "deconstruct",
                     "calibrate"}
  BY <1>7 DEF Reduced
<1> QED BY <1>1, <1>2, <1>3, <1>4, <1>5, <1>6, <1>7

\* One more revision, and the context it was made with.
LEMMA PersistKeepsBundle ==
  ASSUME Bundle, Inv, Inv', NEW status \in {"SUCCEEDED", "DEMO", "SKIPPED", "FAILED"},
         NEW about \in Nat, Stage \in StageNames, Persist(status, about),
         Stage \in PROMPT_PRODUCING_STAGES /\ status = "SUCCEEDED" =>
           about = ctx'.version /\ ctx'.prompt = "real",
         Stage \notin PROMPT_PRODUCING_STAGES =>
           ctx'.prompt = ctx.prompt /\ ctx'.version = ctx.version,
         status # "DEMO" /\ Clean(ctx) => Clean(ctx')
  PROVE  Bundle'
<1> DEFINE e == [id |-> Len(revs) + 1, parents |-> Parents, stale |-> FALSE, lineaged |-> TRUE,
                 stage |-> Stage, status |-> status, about |-> about]
<1>1. revs \in Seq(Revision) /\ Len(revs) \in Nat /\ DOMAIN revs = 1 .. Len(revs)
  BY DEF Bundle
<1>2. e \in Revision
  <2>1. Parents \in SUBSET Nat
    BY <1>1 DEF Parents
  <2> QED BY <1>1, <2>1 DEF Revision
<1>3. revs' = Append(revs, e)
  BY DEF Persist
<1>4. e.stage = Stage /\ e.status = status /\ e.about = about
  OBVIOUS
<1> HIDE DEF e
<1>5. /\ revs' \in Seq(Revision) /\ DOMAIN revs' = 1 .. Len(revs) + 1
      /\ revs'[Len(revs) + 1] = e
      /\ \A k \in DOMAIN revs : revs'[k] = revs[k]
  BY <1>1, <1>2, <1>3
<1>6. Demoed' <=> Demoed \/ status = "DEMO"
  BY <1>1, <1>4, <1>5 DEF Demoed
<1>7. LastIsThePrompt'
  <2> SUFFICES ASSUME NEW k \in DOMAIN revs', LastProduced(k)', revs'[k].status = "SUCCEEDED"
               PROVE  revs'[k].about = ctx'.version /\ ctx'.prompt = "real"
    BY DEF LastIsThePrompt
  <2>1. CASE k = Len(revs) + 1
    BY <1>4, <1>5, <2>1 DEF LastProduced
  <2>2. CASE k \in DOMAIN revs
    <3>1. Stage \notin PROMPT_PRODUCING_STAGES
      <4> SUFFICES ASSUME Stage \in PROMPT_PRODUCING_STAGES PROVE FALSE
        OBVIOUS
      <4>1. Len(revs) + 1 \in Produced'
        BY <1>1, <1>4, <1>5 DEF Produced
      <4>2. Len(revs) + 1 <= k
        BY <4>1 DEF LastProduced
      <4> QED BY <1>1, <2>2, <4>2
    <3>2. Produced \subseteq Produced'
      BY <1>1, <1>5 DEF Produced
    <3>3. LastProduced(k)
      BY <1>5, <2>2, <3>2 DEF LastProduced
    <3> QED BY <1>5, <2>2, <3>1, <3>3 DEF Bundle, LastIsThePrompt
  <2> QED BY <1>1, <1>5, <2>1, <2>2
<1>8. SomeLast'
  <2>1. /\ Produced \subseteq Produced'
        /\ Produced' \subseteq Produced \cup {Len(revs) + 1}
        /\ Produced \subseteq 1 .. Len(revs)
    BY <1>1, <1>5 DEF Produced
  <2>2. CASE Len(revs) + 1 \in Produced'
    <3>1. \A j \in Produced' : j <= Len(revs) + 1
      BY <1>1, <2>1
    <3> QED BY <2>2, <3>1 DEF SomeLast
  <2>3. CASE Len(revs) + 1 \notin Produced'
    <3>1. Produced' = Produced
      BY <2>1, <2>3
    <3> QED BY <3>1 DEF Bundle, SomeLast
  <2> QED BY <2>2, <2>3
<1> QED BY <1>5, <1>6, <1>7, <1>8 DEF Bundle

\* Marking revisions stale changes nothing the judge looks at.
LEMMA StaleKeepsBundle ==
  ASSUME Bundle, NEW S, revs' = StaleIn(revs, S),
         ctx'.prompt = ctx.prompt, ctx'.version = ctx.version, Clean(ctx) => Clean(ctx')
  PROVE  Bundle'
<1>1. revs \in Seq(Revision) /\ Len(revs) \in Nat /\ DOMAIN revs = 1 .. Len(revs)
  BY DEF Bundle
<1>2. DOMAIN revs' = DOMAIN revs
  BY DEF StaleIn
<1>3. \A k \in DOMAIN revs :
        /\ revs'[k] \in Revision
        /\ revs'[k].stage = revs[k].stage
        /\ revs'[k].status = revs[k].status
        /\ revs'[k].about = revs[k].about
  <2> SUFFICES ASSUME NEW k \in DOMAIN revs
               PROVE  /\ revs'[k] \in Revision
                      /\ revs'[k].stage = revs[k].stage
                      /\ revs'[k].status = revs[k].status
                      /\ revs'[k].about = revs[k].about
    OBVIOUS
  <2>1. revs[k] \in Revision
    BY <1>1
  <2>2. revs'[k] = revs[k] \/ revs'[k] = [revs[k] EXCEPT !.stale = TRUE]
    BY DEF StaleIn
  <2> QED BY <2>1, <2>2 DEF Revision
<1>4. revs' \in Seq(Revision)
  BY <1>1, <1>2, <1>3 DEF StaleIn
<1>5. Produced' = Produced /\ (Demoed' <=> Demoed)
  BY <1>2, <1>3 DEF Produced, Demoed
<1>6. LastIsThePrompt'
  <2> SUFFICES ASSUME NEW k \in DOMAIN revs', LastProduced(k)', revs'[k].status = "SUCCEEDED"
               PROVE  revs'[k].about = ctx'.version /\ ctx'.prompt = "real"
    BY DEF LastIsThePrompt
  <2>1. LastProduced(k) /\ revs[k].status = "SUCCEEDED"
    BY <1>2, <1>3, <1>5 DEF LastProduced
  <2> QED BY <1>2, <1>3, <2>1 DEF Bundle, LastIsThePrompt
<1>7. SomeLast'
  BY <1>5 DEF Bundle, SomeLast
<1> QED BY <1>4, <1>5, <1>6, <1>7 DEF Bundle

\* A failed execution leaves its revision and the context as it was.
LEMMA FailKeepsBundle ==
  ASSUME Bundle, Inv, Inv', Stage \in StageNames, FailStage
  PROVE  Bundle'
<1>1. Persist("FAILED", ctx.version) /\ ctx' = ctx
  BY DEF FailStage
<1>2. ctx.version \in Nat
  BY DEF Inv, TypeOK, Contexts
<1> QED BY <1>1, <1>2, PersistKeepsBundle

LEMMA BundleInit == Init => Bundle
<1> SUFFICES ASSUME Init PROVE Bundle
  OBVIOUS
<1>1. revs \in Seq(Revision) /\ DOMAIN revs = {}
  BY DEF Init
<1>2. Clean(ctx)
  BY DEF Init, Clean
<1> QED BY <1>1, <1>2 DEF Bundle, SomeLast, LastIsThePrompt, Produced

LEMMA BundleStep == Inv /\ Inv' /\ Bundle /\ [Next]_vars => Bundle'
<1> SUFFICES ASSUME Inv, Inv', Bundle, [Next]_vars PROVE Bundle'
  OBVIOUS
<1>1. ctx \in Contexts /\ ctx.version \in Nat
  BY DEF Inv, TypeOK, Contexts
<1>2. i \in DOMAIN plan => Stage \in StageNames
  BY PlanIsSeq DEF Inv, TypeOK, Stage
<1>3. AtStage => i \in DOMAIN plan
  BY PlanIsSeq DEF AtStage, Inv, TypeOK
<1>4. pc = "settle" => i \in DOMAIN plan
  BY DEF Inv, AtWork
<1>5. ASSUME UNCHANGED <<revs, ctx>> PROVE Bundle'
  BY <1>5 DEF Bundle, SomeLast, LastIsThePrompt, LastProduced, Produced, Demoed, Clean
<1>6. CASE Skip
  <2>1. /\ ctx' = ReduceSkipped(Stage, ctx) /\ Persist("SKIPPED", ctx.version)
        /\ Stage \in StageNames
    BY <1>2, <1>3, <1>6 DEF Skip
  <2> QED BY <1>1, <2>1, SkippedTexts, PersistKeepsBundle
<1>7. CASE StageThrows
  BY <1>2, <1>3, <1>7, FailKeepsBundle DEF StageThrows
<1>8. CASE EstimateCost
  <2>1. /\ Stage = "cost_estimate" /\ Stage \in StageNames /\ ctx' = ctx
        /\ Persist("SUCCEEDED", ctx.version)
    BY <1>2, <1>3, <1>8 DEF EstimateCost
  <2> QED BY <1>1, <2>1, PersistKeepsBundle DEF PROMPT_PRODUCING_STAGES
<1>9. CASE Lint
  <2>1. Stage = "lint" /\ Stage \in StageNames
    BY <1>2, <1>3, <1>9 DEF Lint
  <2>2. CASE FailStage
    BY <2>1, <2>2, FailKeepsBundle
  <2>3. CASE ~FailStage
    <3>1. PICK status \in LintOutcomes(ctx) \ {"throws"} :
            ctx' = [ctx EXCEPT !.lintStatus = status, !.lintOf = ctx.version]
      BY <1>9, <2>3 DEF Lint
    <3>2. Persist("SUCCEEDED", ctx.version)
      BY <1>9, <2>3 DEF Lint
    <3>3. ctx'.prompt = ctx.prompt /\ ctx'.version = ctx.version /\ (Clean(ctx) => Clean(ctx'))
      BY <1>1, <3>1 DEF Contexts, Clean
    <3> QED BY <1>1, <2>1, <3>2, <3>3, PersistKeepsBundle DEF PROMPT_PRODUCING_STAGES
  <2> QED BY <2>2, <2>3
<1>10. CASE Feedback
  <2>1. CASE Retry
    <3>1. /\ ctx' = [ctx EXCEPT !.critique = "items", !.rounds = @ + 1]
          /\ revs' = StaleIn(revs, Cascade(revs, Superseded))
      BY <1>10, <2>1 DEF Feedback
    <3>2. ctx'.prompt = ctx.prompt /\ ctx'.version = ctx.version /\ (Clean(ctx) => Clean(ctx'))
      BY <1>1, <3>1 DEF Contexts, Clean
    <3> QED BY <3>1, <3>2, StaleKeepsBundle
  <2>2. CASE ~Retry
    BY <1>5, <1>10, <2>2 DEF Feedback
  <2> QED BY <2>1, <2>2
<1>11. CASE Settle
  <2>1. pc = "settle" /\ Stage \in StageNames
    BY <1>2, <1>4, <1>11 DEF Settle
  <2>2. CASE FailStage
    BY <2>1, <2>2, FailKeepsBundle
  <2>3. CASE ~FailStage
    <3>1. /\ ctx' \in Reduced(Stage, ctx, answer) /\ answer \in {"real", "placeholder"}
          /\ Persist(IF answer = "real" THEN "SUCCEEDED" ELSE "DEMO", ctx'.version)
      BY <1>11, <2>1, <2>3 DEF Settle, Inv, AtWork
    <3>2. ctx'.version \in Nat
      BY DEF Inv, TypeOK, Contexts
    <3>3. /\ Stage \in PROMPT_PRODUCING_STAGES => ctx'.prompt = answer
          /\ Stage \notin PROMPT_PRODUCING_STAGES =>
               ctx'.prompt = ctx.prompt /\ ctx'.version = ctx.version
          /\ answer = "real" /\ Clean(ctx) => Clean(ctx')
      BY <1>1, <3>1, ReducedTexts
    <3>4. CASE answer = "real"
      <4>1. Persist("SUCCEEDED", ctx'.version)
        BY <3>1, <3>4
      <4> QED BY <2>1, <3>2, <3>3, <3>4, <4>1, PersistKeepsBundle
    <3>5. CASE answer = "placeholder"
      <4>1. Persist("DEMO", ctx'.version)
        BY <3>1, <3>5
      <4> QED BY <2>1, <3>2, <3>3, <3>5, <4>1, PersistKeepsBundle
    <3> QED BY <3>1, <3>4, <3>5
  <2> QED BY <2>2, <2>3
<1>12. CASE Admit \/ Decide \/ Call \/ StoreThrows \/ Finish \/ UNCHANGED vars
  BY <1>5, <1>12 DEF Admit, Decide, Call, StoreThrows, Finish, vars
<1> QED BY <1>6, <1>7, <1>8, <1>9, <1>10, <1>11, <1>12 DEF Next, Progress

\* The latest of the stages that made the prompt is one of them, and after them all.
LEMMA CompiledIsLast ==
  ASSUME Bundle, Produced # {}
  PROVE  compiled \in DOMAIN revs /\ LastProduced(compiled)
<1>1. DOMAIN revs \subseteq Int /\ Produced \subseteq DOMAIN revs
  BY DEF Bundle, Produced
<1>2. \E m \in Produced : \A j \in Produced : j <= m
  BY DEF Bundle, SomeLast
<1>3. compiled \in Produced /\ \A j \in Produced : j <= compiled
  BY <1>1, <1>2 DEF compiled, Max
<1> QED BY <1>1, <1>3 DEF LastProduced, Produced

\* Whenever a run is judged, in progress, aborted or done, what is graded is its prompt as it
\* stands, made by a model from what a model made (judgeBundle).
THEOREM TheJudgedIsModelOutput == Spec => []JudgedIsModelOutput
<1>1. Inv /\ Bundle => JudgedIsModelOutput
  <2> SUFFICES ASSUME Inv, Bundle, Judgeable
               PROVE  /\ revs[compiled].about = ctx.version
                      /\ ctx.prompt = "real"
                      /\ "placeholder" \notin {ctx.spec, ctx.calibration, ctx.critique}
                      /\ ctx.origin \cap {"prompt", "critique"} = {}
    BY DEF JudgedIsModelOutput
  <2>1. compiled \in DOMAIN revs /\ LastProduced(compiled)
    BY CompiledIsLast DEF Judgeable
  <2>2. revs[compiled].about = ctx.version /\ ctx.prompt = "real"
    BY <2>1 DEF Judgeable, Bundle, LastIsThePrompt
  <2> QED BY <2>2 DEF Judgeable, Bundle, Clean, Inv, OriginClean
<1> QED BY <1>1, InitInv, StepInv, BundleInit, BundleStep, PTL DEF Spec

-----------------------------------------------------------------------------
(* The record a run leaves. Its revisions are a chain, each the parent of  *)
(* the next, so a feedback round, which cascades from the latest refine,   *)
(* stales the tail of the record that starts there. What stays FRESH is    *)
(* the plan up to refine, then what ran since: between them lie the        *)
(* `superseded` revisions of the rounds before.                            *)

\* The stages of the plan the FRESH revisions are about.
Behind == IF pc = "feedback" THEN i ELSE i - 1

superseded == Len(revs) - Behind

\* The stage a feedback round goes back to, or the end of the plan.
Turn == IF InPlan("refine") THEN IndexOf("refine") ELSE Len(plan) + 1

Chain ==
  \A k \in DOMAIN revs : revs[k].id = k /\ revs[k].parents = (IF k = 1 THEN {} ELSE {k - 1})

Layout ==
  /\ superseded \in Nat
  /\ superseded > 0 => InPlan("refine") /\ Turn - 1 <= Behind
  /\ \A k \in DOMAIN revs :
       /\ k < Turn => ~revs[k].stale /\ revs[k].stage = plan[k]
       /\ Turn <= k /\ k < Turn + superseded => revs[k].stale
       /\ Turn + superseded <= k => ~revs[k].stale /\ revs[k].stage = plan[k - superseded]

\* A FRESH verdict is about the prompt as it stands.
VerdictsAbout ==
  \A k \in DOMAIN revs :
    revs[k].stage \in {"lint", "critic"} /\ revs[k].status = "SUCCEEDED" /\ ~revs[k].stale =>
      revs[k].about = ctx.version

\* Past lint, gates fail only when no round is left.
GateSpent ==
  InPlan("refine") /\ ctx.lintStatus = "GATE_FAIL" =>
    ctx.prompt = "real" /\ (i <= IndexOf("lint") \/ ctx.rounds = FeedbackCap)

Recorded ==
  /\ pc = "done" => i = Len(plan) + 1
  /\ GateSpent
  /\ pc # "aborted" => Chain /\ Layout /\ VerdictsAbout

\* The plans, as far as feedback and verdicts go: lint follows refine, and no verdict comes
\* before a stage that makes the prompt.
LEMMA PlanOrder ==
  ASSUME command \in Commands
  PROVE  /\ InPlan("refine") => /\ Len(plan) = 11 /\ IndexOf("refine") = 6 /\ IndexOf("lint") = 7
                                /\ plan[6] = "refine" /\ plan[7] = "lint"
         /\ \A j, k \in DOMAIN plan :
              plan[j] \in {"lint", "critic"} /\ plan[k] \in PROMPT_PRODUCING_STAGES => k < j
<1>1. command.depth \in {"TINY", "MINIMAL", "STANDARD", "COMPREHENSIVE"}
  BY PipelineAssumption DEF Commands, DEPTH_PLAN
<1>2. CASE command.depth = "TINY"
  <2>1. plan = <<"deconstruct", "calibrate", "compile", "lint", "preview", "cost_estimate">>
    BY <1>2 DEF plan, DEPTH_PLAN
  <2>2. ~InPlan("refine")
    BY <2>1 DEF InPlan, ToSet
  <2> QED BY <2>1, <2>2 DEF PROMPT_PRODUCING_STAGES
<1>3. CASE command.depth = "MINIMAL"
  <2>1. plan = <<"deconstruct", "calibrate", "compile", "harden", "lint", "preview", "cost_estimate">>
    BY <1>3 DEF plan, DEPTH_PLAN
  <2>2. ~InPlan("refine")
    BY <2>1 DEF InPlan, ToSet
  <2> QED BY <2>1, <2>2 DEF PROMPT_PRODUCING_STAGES
<1>4. CASE command.depth \in {"STANDARD", "COMPREHENSIVE"}
  <2>1. plan = AllStages
    BY <1>4 DEF plan, DEPTH_PLAN
  <2>2. /\ Len(plan) = 11 /\ plan[6] = "refine" /\ plan[7] = "lint" /\ DOMAIN plan = 1 .. 11
        /\ \A k \in DOMAIN plan : /\ plan[k] = "refine" => k = 6
                                  /\ plan[k] = "lint" => k = 7
    BY <2>1 DEF AllStages
  <2>3. IndexOf("refine") = 6 /\ IndexOf("lint") = 7
    BY <2>2 DEF IndexOf
  <2>4. \A j, k \in DOMAIN plan :
          plan[j] \in {"lint", "critic"} /\ plan[k] \in PROMPT_PRODUCING_STAGES => k < j
    BY <2>1 DEF AllStages, PROMPT_PRODUCING_STAGES
  <2> QED BY <2>2, <2>3, <2>4
<1> QED BY <1>1, <1>2, <1>3, <1>4

\* Where a round turns back is in the plan or just after it.
LEMMA TurnIs ==
  ASSUME Inv
  PROVE  /\ Turn \in 1 .. Len(plan) + 1 /\ Turn \in Nat
         /\ InPlan("refine") => Turn = 6
         /\ Behind \in 0 .. Len(plan) /\ Behind \in Nat /\ Behind \in Int
         /\ i \in Nat /\ Len(plan) \in Nat
<1>1. command \in Commands
  BY DEF Inv, TypeOK
<1>2. Len(plan) \in Nat /\ i \in 1 .. Len(plan) + 1 /\ DOMAIN plan = 1 .. Len(plan)
  BY <1>1, PlanIsSeq DEF Inv, TypeOK
<1>3. Behind \in 0 .. Len(plan)
  <2>1. pc = "feedback" => i \in 1 .. Len(plan)
    BY <1>2 DEF Inv, AtWork
  <2> QED BY <1>2, <2>1 DEF Behind
<1>4. InPlan("refine") => Turn = 6 /\ Len(plan) = 11
  BY <1>1, PlanOrder DEF Turn
<1>5. ~InPlan("refine") => Turn = Len(plan) + 1
  BY DEF Turn
<1> QED BY <1>2, <1>3, <1>4, <1>5

\* A FRESH revision is of a stage behind the runner.
LEMMA FreshIsBehind ==
  ASSUME Inv, revs \in Seq(Revision), Layout, NEW k \in DOMAIN revs, ~revs[k].stale
  PROVE  \E j \in DOMAIN plan : j <= Behind /\ revs[k].stage = plan[j]
<1>1. Len(revs) \in Nat /\ k \in 1 .. Len(revs) /\ DOMAIN plan = 1 .. Len(plan)
  BY PlanIsSeq DEF Inv, TypeOK
<1>2. superseded \in Nat /\ Len(revs) = superseded + Behind /\ Behind \in 0 .. Len(plan)
      /\ Turn \in Nat /\ Turn >= 1
  BY <1>1, TurnIs DEF Layout, superseded
<1>3. superseded > 0 => Turn - 1 <= Behind
  BY DEF Layout
<1>4. CASE k < Turn
  <2>1. revs[k].stage = plan[k]
    BY <1>4 DEF Layout
  <2>2. k <= Behind
    BY <1>1, <1>2, <1>3, <1>4
  <2> QED BY <1>1, <1>2, <2>1, <2>2
<1>5. CASE Turn + superseded <= k
  <2>1. revs[k].stage = plan[k - superseded]
    BY <1>5 DEF Layout
  <2>2. k - superseded \in 1 .. Len(plan) /\ k - superseded <= Behind
    BY <1>1, <1>2, <1>5
  <2> QED BY <1>1, <2>1, <2>2
<1>6. ~(Turn <= k /\ k < Turn + superseded)
  BY DEF Layout
<1> QED BY <1>1, <1>2, <1>4, <1>5, <1>6

\* One more revision, of the stage the runner is at, when the runner goes past it.
LEMMA PersistKeepsRecord ==
  ASSUME Inv, Inv', Bundle, Chain, Layout, VerdictsAbout, command' = command,
         i \in DOMAIN plan, pc # "feedback", Behind' = Behind + 1,
         NEW status \in {"SUCCEEDED", "DEMO", "SKIPPED", "FAILED"}, NEW about \in Nat,
         Persist(status, about),
         Stage \in {"lint", "critic"} /\ status = "SUCCEEDED" => about = ctx'.version,
         Stage \notin PROMPT_PRODUCING_STAGES => ctx'.version = ctx.version
  PROVE  Chain' /\ Layout' /\ VerdictsAbout'
<1> DEFINE n == Len(revs)
           e == [id |-> n + 1, parents |-> Parents, stale |-> FALSE, lineaged |-> TRUE,
                 stage |-> Stage, status |-> status, about |-> about]
<1>1. revs \in Seq(Revision) /\ n \in Nat /\ DOMAIN revs = 1 .. n
  BY DEF Bundle
<1>2. revs' = Append(revs, e)
  BY DEF Persist
<1>3. /\ e.id = n + 1 /\ e.parents = (IF n + 1 = 1 THEN {} ELSE {(n + 1) - 1})
      /\ e.stale = FALSE /\ e.stage = Stage /\ e.status = status /\ e.about = about
  <2>1. revs = <<>> <=> n = 0
    BY <1>1
  <2> QED BY <1>1, <2>1 DEF Parents
<1>4. /\ Len(revs') = n + 1 /\ DOMAIN revs' = 1 .. n + 1 /\ revs'[n + 1] = e
      /\ \A k \in 1 .. n : revs'[k] = revs[k]
  <2> HIDE DEF e
  <2> QED BY <1>1, <1>2
<1> HIDE DEF e
<1>5. plan' = plan /\ Turn' = Turn /\ (InPlan("refine")' <=> InPlan("refine")) /\ Stage = plan[i]
  BY DEF plan, Turn, InPlan, IndexOf, Stage
<1>6. /\ i \in Nat /\ Behind = i - 1 /\ Behind \in 0 .. Len(plan) /\ Turn \in Nat /\ 1 <= Turn
      /\ Turn <= Len(plan) + 1 /\ Len(plan) \in Nat
  BY TurnIs DEF Behind
<1>7. superseded' = superseded /\ n = superseded + Behind /\ superseded \in Nat
  <2>1. superseded = n - Behind
    BY DEF superseded
  <2>2. superseded' = (n + 1) - (Behind + 1)
    BY <1>4 DEF superseded
  <2>3. superseded \in Nat
    BY DEF Layout
  <2>4. n \in Nat /\ Behind \in Nat
    BY <1>1, <1>6
  <2> HIDE DEF n
  <2>5. (n + 1) - (Behind + 1) = n - Behind
    BY <2>4
  <2>6. n = (n - Behind) + Behind
    BY <2>4
  <2> QED BY <2>1, <2>2, <2>3, <2>5, <2>6
<1>8. Chain'
  <2> SUFFICES ASSUME NEW k \in 1 .. n + 1
               PROVE  revs'[k].id = k /\ revs'[k].parents = (IF k = 1 THEN {} ELSE {k - 1})
    BY <1>4 DEF Chain
  <2>1. CASE k = n + 1
    BY <1>3, <1>4, <2>1
  <2>2. CASE k \in 1 .. n
    BY <1>1, <1>4, <2>2 DEF Chain
  <2> QED BY <1>1, <2>1, <2>2
<1>9. Layout'
  <2>1. superseded > 0 => InPlan("refine") /\ Turn - 1 <= Behind
    BY DEF Layout
  <2>2. ASSUME NEW k \in 1 .. n + 1
        PROVE  /\ k < Turn => ~revs'[k].stale /\ revs'[k].stage = plan[k]
               /\ Turn <= k /\ k < Turn + superseded => revs'[k].stale
               /\ Turn + superseded <= k => ~revs'[k].stale /\ revs'[k].stage = plan[k - superseded]
    <3>1. CASE k \in 1 .. n
      <4>1. /\ k < Turn => ~revs[k].stale /\ revs[k].stage = plan[k]
            /\ Turn <= k /\ k < Turn + superseded => revs[k].stale
            /\ Turn + superseded <= k => ~revs[k].stale /\ revs[k].stage = plan[k - superseded]
        BY <1>1, <3>1 DEF Layout
      <4>2. revs'[k] = revs[k]
        BY <1>4, <3>1
      <4> QED BY <4>1, <4>2
    <3>2. CASE k = n + 1
      <4>1. revs'[k].stale = FALSE /\ revs'[k].stage = plan[i]
        BY <1>3, <1>4, <1>5, <3>2
      <4>2. k = superseded + i
        <5>1. n = superseded + Behind /\ superseded \in Nat
          BY <1>7
        <5>2. Behind = i - 1 /\ i \in Nat
          BY <1>6
        <5>3. (superseded + (i - 1)) + 1 = superseded + i
          BY <5>1, <5>2
        <5> QED BY <3>2, <5>1, <5>2, <5>3
      <4> DEFINE m == superseded
                 t == Turn
      <4>a. m \in Nat /\ t \in Nat /\ i \in Nat /\ (m > 0 => t <= i) /\ k = m + i
        BY <1>6, <1>7, <2>1, <4>2
      <4> HIDE DEF m, t
      <4>b. k < t => m = 0 /\ k = i
        BY <4>a
      <4>c. ~(t <= k /\ k < t + m)
        BY <4>a
      <4>3. k < Turn => superseded = 0 /\ k = i
        BY <4>b DEF m, t
      <4>4. ~(Turn <= k /\ k < Turn + superseded)
        BY <4>c DEF m, t
      <4>5. k - superseded = i
        BY <1>6, <1>7, <4>2
      <4> QED BY <4>1, <4>3, <4>4, <4>5
    <3> QED BY <1>1, <2>2, <3>1, <3>2
  <2>3. superseded > 0 => InPlan("refine") /\ Turn - 1 <= Behind + 1
    BY <1>6, <1>7, <2>1
  <2> QED BY <1>4, <1>5, <1>7, <2>2, <2>3 DEF Layout
<1>10. VerdictsAbout'
  <2> SUFFICES ASSUME NEW k \in 1 .. n + 1, revs'[k].stage \in {"lint", "critic"},
                      revs'[k].status = "SUCCEEDED", ~revs'[k].stale
               PROVE  revs'[k].about = ctx'.version
    BY <1>4 DEF VerdictsAbout
  <2>1. CASE k = n + 1
    BY <1>3, <1>4, <2>1
  <2>2. CASE k \in 1 .. n
    <3>1. revs'[k] = revs[k] /\ k \in DOMAIN revs
      BY <1>1, <1>4, <2>2
    <3>2. PICK j \in DOMAIN plan : j <= Behind /\ revs[k].stage = plan[j]
      BY <1>1, <3>1, FreshIsBehind
    <3>3. Stage \notin PROMPT_PRODUCING_STAGES
      <4> SUFFICES ASSUME Stage \in PROMPT_PRODUCING_STAGES PROVE FALSE
        OBVIOUS
      <4>1. i < j
        BY <1>5, <3>1, <3>2, PlanOrder DEF Inv, TypeOK
      <4>2. j \in Nat
        BY PlanIsSeq DEF Inv, TypeOK
      <4> QED BY <1>6, <3>2, <4>1, <4>2
    <3>4. ctx'.version = ctx.version
      BY <3>3
    <3> QED BY <3>1, <3>4 DEF VerdictsAbout
  <2> QED BY <1>1, <2>1, <2>2
<1> QED BY <1>8, <1>9, <1>10

\* A failed execution leaves its revision.
LEMMA FailKeepsRecord ==
  ASSUME Inv, Inv', Bundle, Chain, Layout, VerdictsAbout, i \in DOMAIN plan, pc # "feedback",
         FailStage
  PROVE  Chain' /\ Layout' /\ VerdictsAbout'
<1>1. Persist("FAILED", ctx.version) /\ ctx' = ctx /\ command' = command /\ i' = i + 1 /\ pc' = "stage"
  BY DEF FailStage, NextStage
<1>2. ctx.version \in Nat
  BY DEF Inv, TypeOK, Contexts
<1>3. Behind' = Behind + 1
  BY <1>1, TurnIs DEF Behind
<1> QED BY <1>1, <1>2, <1>3, PersistKeepsRecord

\* A step that leaves the record and what is behind the runner.
LEMMA SameRecord ==
  ASSUME Chain, Layout, VerdictsAbout, UNCHANGED <<revs, command>>, Behind' = Behind,
         ctx'.version = ctx.version
  PROVE  Chain' /\ Layout' /\ VerdictsAbout'
<1>1. plan' = plan /\ Turn' = Turn /\ (InPlan("refine")' <=> InPlan("refine"))
  BY DEF plan, Turn, InPlan, IndexOf
<1>2. superseded' = superseded
  BY DEF superseded
<1>3. Chain' /\ VerdictsAbout'
  BY DEF Chain, VerdictsAbout
<1>4. Layout'
  BY <1>1, <1>2 DEF Layout
<1> QED BY <1>3, <1>4

\* A round stales the refine and the lint it follows, and nothing before them.
LEMMA RoundStales ==
  ASSUME Inv, Bundle, Budget, Chain, Layout, pc = "feedback", Retry
  PROVE  /\ Len(revs) = superseded + 7 /\ superseded \in Nat
         /\ Cascade(revs, Superseded) = {Len(revs) - 1, Len(revs)}
<1>1. /\ command \in Commands /\ InPlan("refine") /\ i \in DOMAIN plan /\ Stage = "lint"
  BY DEF Inv, TypeOK, AtWork, Retry, Budget
<1>2. /\ Turn = 6 /\ plan[6] = "refine" /\ plan[7] = "lint" /\ i = 7 /\ DOMAIN plan = 1 .. 11
  <2>1. Turn = 6 /\ plan[6] = "refine" /\ plan[7] = "lint" /\ Len(plan) = 11
    BY <1>1, TurnIs, PlanOrder
  <2>2. DOMAIN plan = 1 .. 11
    BY <1>1, <2>1, PlanIsSeq
  <2>3. i = 7
    BY <1>1, <2>1, <2>2, LintOnce DEF Stage
  <2> QED BY <2>1, <2>2, <2>3
<1> DEFINE n == Len(revs)
<1>3. revs \in Seq(Revision) /\ n \in Nat /\ DOMAIN revs = 1 .. n
  BY DEF Bundle
<1>4. superseded \in Nat /\ n = superseded + 7
  BY <1>2, <1>3 DEF Layout, superseded, Behind
<1>5. n \in DOMAIN revs /\ n - 1 \in DOMAIN revs
  BY <1>3, <1>4
<1>6. revs[n].stage = "lint" /\ revs[n - 1].stage = "refine"
  <2>1. Turn + superseded <= n /\ n - superseded = 7 /\ Turn + superseded <= n - 1
        /\ (n - 1) - superseded = 6
    BY <1>2, <1>4
  <2> QED BY <1>2, <1>5, <2>1 DEF Layout
<1>7. Superseded = n - 1
  <2> DEFINE S == {k \in DOMAIN revs : revs[k].stage = "refine"}
  <2>1. n - 1 \in S /\ \A k \in S : n - 1 >= k
    BY <1>3, <1>5, <1>6
  <2>2. \A m \in S : (\A k \in S : m >= k) => m = n - 1
    BY <1>3, <2>1
  <2>3. Superseded = CHOOSE m \in S : \A k \in S : m >= k
    BY DEF Superseded, LatestOf, Max
  <2> HIDE DEF S
  <2> QED BY <2>1, <2>2, <2>3
<1>8. \A k \in 1 .. n : revs[k].id = k /\ revs[k].parents = (IF k = 1 THEN {} ELSE {k - 1})
  BY <1>3 DEF Chain
<1>9. Cascade(revs, n - 1) = {n - 1, n}
  <2>1. Cascade(revs, n - 1) = Spread(revs, n - 1, {n - 1})
    BY <1>3, CascadeIsSpread
  <2>2. \A T : GrowStale(revs, T) = T \cup {k \in 1 .. n : k > 1 /\ k - 1 \in T}
    <3> SUFFICES ASSUME NEW T
                 PROVE  {e.id : e \in {x \in ToSet(revs) : x.parents \cap T # {}}}
                          = {k \in 1 .. n : k > 1 /\ k - 1 \in T}
      BY DEF GrowStale
    <3>1. ASSUME NEW k \in 1 .. n
          PROVE  /\ revs[k].parents \cap T # {} <=> k > 1 /\ k - 1 \in T
                 /\ revs[k].id = k
      <4>1. revs[k].parents = (IF k = 1 THEN {} ELSE {k - 1}) /\ revs[k].id = k
        BY <1>8
      <4>2. k > 1 <=> k # 1
        BY <1>3
      <4> HIDE DEF n
      <4> QED BY <4>1, <4>2
    <3>2. {e.id : e \in {x \in ToSet(revs) : x.parents \cap T # {}}}
            = {revs[k].id : k \in {j \in 1 .. n : revs[j].parents \cap T # {}}}
      BY <1>3 DEF ToSet
    <3>3. {revs[k].id : k \in {j \in 1 .. n : revs[j].parents \cap T # {}}}
            = {k \in 1 .. n : k > 1 /\ k - 1 \in T}
      <4> HIDE DEF n
      <4> QED BY <3>1
    <3> QED BY <3>2, <3>3
  <2>3. Known(revs, n - 1) = 1 .. n
    <3>1. {revs[k].id : k \in 1 .. n} = 1 .. n
      <4> HIDE DEF n
      <4>1. \A k \in 1 .. n : revs[k].id = k
        BY <1>8
      <4>2. {revs[k].id : k \in 1 .. n} \subseteq 1 .. n
        BY <4>1
      <4>3. 1 .. n \subseteq {revs[k].id : k \in 1 .. n}
        <5> SUFFICES ASSUME NEW k \in 1 .. n PROVE k \in {revs[m].id : m \in 1 .. n}
          OBVIOUS
        <5>1. k = revs[k].id
          BY <4>1
        <5> QED BY <5>1, Zenon
      <4> QED BY <4>2, <4>3
    <3> QED BY <1>3, <1>5, <3>1 DEF Known, Ids
  <2>4. {n - 1, n} \in SUBSET (1 .. n) /\ GrowStale(revs, {n - 1, n}) \subseteq {n - 1, n}
    BY <1>3, <1>5, <2>2
  <2>5. ASSUME NEW T \in SUBSET (1 .. n), {n - 1} \subseteq T, GrowStale(revs, T) \subseteq T
        PROVE  n - 1 \in T /\ n \in T
    <3>1. n \in 1 .. n /\ n > 1 /\ n - 1 \in T
      BY <1>3, <1>4, <2>5
    <3>2. n \in GrowStale(revs, T)
      BY <2>2, <3>1
    <3> QED BY <2>5, <3>1, <3>2
  <2> QED BY <2>1, <2>3, <2>4, <2>5 DEF Spread
<1> QED BY <1>4, <1>7, <1>9

\* A feedback round takes two revisions more out of the FRESH and goes back to refine.
LEMMA RoundKeepsRecord ==
  ASSUME Inv, Inv', Bundle, Budget, Chain, Layout, VerdictsAbout, Feedback, Retry
  PROVE  Chain' /\ Layout' /\ VerdictsAbout'
<1> DEFINE n == Len(revs)
<1>1. /\ pc = "feedback" /\ pc' = "stage" /\ command' = command /\ i' = IndexOf("refine")
      /\ revs' = StaleIn(revs, Cascade(revs, Superseded))
      /\ ctx' = [ctx EXCEPT !.critique = "items", !.rounds = @ + 1]
  BY DEF Feedback
<1>2. n = superseded + 7 /\ superseded \in Nat /\ Cascade(revs, Superseded) = {n - 1, n}
  BY <1>1, RoundStales
<1>3. InPlan("refine") /\ Turn = 6 /\ i' = 6 /\ plan' = plan /\ Turn' = 6 /\ InPlan("refine")'
  <2>1. InPlan("refine") /\ command \in Commands
    BY DEF Retry, Inv, TypeOK
  <2>2. Turn = 6 /\ IndexOf("refine") = 6
    BY <2>1, TurnIs, PlanOrder
  <2>3. plan' = plan
    BY <1>1 DEF plan
  <2>4. Turn' = Turn /\ (InPlan("refine")' <=> InPlan("refine"))
    BY <2>3 DEF Turn, InPlan, IndexOf
  <2> QED BY <1>1, <2>1, <2>2, <2>3, <2>4
<1>4. revs \in Seq(Revision) /\ DOMAIN revs = 1 .. n /\ n \in Nat
  BY DEF Bundle
<1>5. ASSUME NEW k \in 1 .. n
      PROVE  /\ revs'[k].id = revs[k].id /\ revs'[k].parents = revs[k].parents
             /\ revs'[k].stage = revs[k].stage /\ revs'[k].status = revs[k].status
             /\ revs'[k].about = revs[k].about
             /\ k >= n - 1 => revs'[k].stale
             /\ k < n - 1 => revs'[k].stale = revs[k].stale
  <2>0. n \in Nat /\ k \in DOMAIN revs
    BY <1>4
  <2>a. revs[k] \in Revision
    BY <1>4, <2>0
  <2>b. revs[k].id = k
    BY <2>0 DEF Chain
  <2>1. revs[k] \in Revision /\ revs[k].id = k
    BY <2>a, <2>b
  <2>2. revs'[k] = IF k \in {n - 1, n} THEN [revs[k] EXCEPT !.stale = TRUE] ELSE revs[k]
    BY <1>1, <1>2, <1>4, <2>1 DEF StaleIn
  <2> HIDE DEF n
  <2>3. k \in {n - 1, n} <=> k >= n - 1
    BY <2>0
  <2>4. k \in Int /\ n - 1 \in Int
    BY <2>0
  <2>5. CASE k \in {n - 1, n}
    <3>1. revs'[k] = [revs[k] EXCEPT !.stale = TRUE] /\ ~(k < n - 1)
      BY <2>2, <2>3, <2>4, <2>5
    <3> QED BY <2>1, <3>1 DEF Revision
  <2>6. CASE k \notin {n - 1, n}
    BY <2>2, <2>3, <2>6
  <2> QED BY <2>5, <2>6
<1>6. DOMAIN revs' = 1 .. n /\ Len(revs') = n
  <2>1. DOMAIN revs' = 1 .. n
    BY <1>1, <1>4 DEF StaleIn
  <2>2. revs' \in Seq(Revision)
    <3>1. Bundle'
      <4>1. /\ ctx'.prompt = ctx.prompt /\ ctx'.version = ctx.version
            /\ Clean(ctx) => Clean(ctx')
        BY <1>1 DEF Inv, TypeOK, Contexts, Clean
      <4> QED BY <1>1, <4>1, StaleKeepsBundle
    <3> QED BY <3>1 DEF Bundle
  <2> QED BY <1>4, <2>1, <2>2
<1>7. Behind' = 5 /\ superseded' = superseded + 2
  <2>1. Behind' = 5
    BY <1>1, <1>3 DEF Behind
  <2> QED BY <1>2, <1>6, <2>1 DEF superseded
<1>8. Chain'
  BY <1>4, <1>5, <1>6 DEF Chain
<1>9. Layout'
  <2>1. ASSUME NEW k \in 1 .. n
        PROVE  /\ k < 6 => ~revs'[k].stale /\ revs'[k].stage = plan[k]
               /\ 6 <= k /\ k < 6 + (superseded + 2) => revs'[k].stale
               /\ ~(6 + (superseded + 2) <= k)
    <3>1. CASE k < 6
      <4>1. ~revs[k].stale /\ revs[k].stage = plan[k] /\ k < n - 1
        BY <1>2, <1>3, <1>4, <3>1 DEF Layout
      <4> QED BY <1>2, <1>5, <3>1, <4>1
    <3>2. CASE 6 <= k /\ k < n - 1
      <4>1. revs[k].stale
        BY <1>2, <1>3, <1>4, <3>2 DEF Layout
      <4> QED BY <1>2, <1>5, <3>2, <4>1
    <3>3. CASE k >= n - 1
      <4>1. revs'[k].stale
        BY <1>5, <3>3
      <4> QED BY <1>2, <3>3, <4>1
    <3> QED BY <1>2, <3>1, <3>2, <3>3
  <2> QED BY <1>2, <1>3, <1>6, <1>7, <2>1 DEF Layout
<1>10. VerdictsAbout'
  <2>1. ctx'.version = ctx.version
    BY <1>1 DEF Inv, TypeOK, Contexts
  <2>2. ASSUME NEW k \in 1 .. n, ~revs'[k].stale PROVE ~revs[k].stale
    BY <1>4, <1>5, <2>2
  <2> QED BY <1>4, <1>5, <1>6, <2>1, <2>2 DEF VerdictsAbout
<1> QED BY <1>8, <1>9, <1>10

\* The gates, while the command and what they said of the prompt stay as they are.
LEMMA SameGate ==
  ASSUME Inv, GateSpent, command' = command, ctx'.prompt = ctx.prompt,
         ctx'.lintStatus = ctx.lintStatus, ctx'.rounds = ctx.rounds,
         \/ i' = i
         \/ i' = i + 1 /\ i \in DOMAIN plan /\ Stage # "lint"
  PROVE  GateSpent'
<1>1. /\ plan' = plan /\ FeedbackCap' = FeedbackCap /\ IndexOf("lint")' = IndexOf("lint")
      /\ (InPlan("refine")' <=> InPlan("refine"))
  BY DEF plan, FeedbackCap, IndexOf, InPlan
<1>2. InPlan("refine") => IndexOf("lint") = 7 /\ plan[7] = "lint"
  BY PlanOrder DEF Inv, TypeOK
<1>3. i \in Nat
  BY TurnIs
<1>4. InPlan("refine") /\ i <= IndexOf("lint") => i' <= IndexOf("lint")
  BY <1>2, <1>3 DEF Stage
<1> QED BY <1>1, <1>4 DEF GateSpent

\* A settled stage that makes no new prompt leaves the gates' word about it.
LEMMA ReducedGate ==
  ASSUME NEW c \in Contexts, NEW s, NEW text \in {"real", "placeholder"},
         NEW d \in Reduced(s, c, text)
  PROVE  /\ s \in PROMPT_PRODUCING_STAGES => d.lintStatus = "unset"
         /\ s \notin PROMPT_PRODUCING_STAGES => d.lintStatus = c.lintStatus
<1> USE DEF PROMPT_PRODUCING_STAGES, Contexts, Texts
<1>1. CASE s \in {"compile", "harden"}
  <2>1. d = NewPrompt(s, c, text)
    BY <1>1 DEF Reduced
  <2> QED BY <1>1, <2>1 DEF NewPrompt
<1>2. CASE s = "refine"
  <2>1. d = [NewPrompt(s, c, text) EXCEPT !.critique = "empty"]
    BY <1>2 DEF Reduced
  <2> QED BY <1>2, <2>1 DEF NewPrompt
<1>3. CASE s = "critic"
  <2>1. PICK v \in {"PASS", "GATE_FAIL", "DEGRADED"} :
          d = [c EXCEPT !.criticVerdict = v, !.criticOf = c.version]
    BY <1>3 DEF Reduced
  <2> QED BY <1>3, <2>1
<1>4. CASE s = "critique"
  <2>1. PICK x \in (IF text = "real" THEN {"clean", "items"} ELSE {text}) :
          d = [c EXCEPT !.critique = x]
    BY <1>4 DEF Reduced
  <2> QED BY <1>4, <2>1
<1>5. CASE s = "deconstruct"
  <2>1. d = [c EXCEPT !.spec = text]
    BY <1>5 DEF Reduced
  <2> QED BY <1>5, <2>1
<1>6. CASE s = "calibrate"
  <2>1. d = [c EXCEPT !.calibration = text]
    BY <1>6 DEF Reduced
  <2> QED BY <1>6, <2>1
<1>7. CASE s \notin {"compile", "harden", "refine", "critic", "critique", "deconstruct",
                     "calibrate"}
  BY <1>7 DEF Reduced
<1> QED BY <1>1, <1>2, <1>3, <1>4, <1>5, <1>6, <1>7

\* No revision, and nothing behind the runner.
LEMMA RecordInit == Init => Recorded
<1> SUFFICES ASSUME Init PROVE Recorded
  OBVIOUS
<1>1. revs = <<>> /\ i = 1 /\ pc = "start" /\ ctx.lintStatus = "unset"
  BY DEF Init
<1>2. DOMAIN revs = {} /\ Len(revs) = 0
  BY <1>1
<1>3. superseded = 0
  BY <1>1, <1>2 DEF superseded, Behind
<1> QED BY <1>1, <1>2, <1>3 DEF Recorded, GateSpent, Chain, Layout, VerdictsAbout

\* What lint says, it says of a prompt that is there; what it said of this prompt it says again.
LEMMA LintSays ==
  ASSUME Inv, NEW status \in LintOutcomes(ctx)
  PROVE  /\ status = "GATE_FAIL" => ctx.prompt = "real"
         /\ status = "throws" => ctx.prompt = "real" /\ ctx.lintStatus # "GATE_FAIL"
BY DEF LintOutcomes, Inv, TypeOK, Contexts

\* Every step of the runner keeps the record.
LEMMA RecordStep == Inv /\ Inv' /\ Bundle /\ Budget /\ Recorded /\ [Next]_vars => Recorded'
<1> SUFFICES ASSUME Inv, Inv', Bundle, Budget, Recorded, [Next]_vars PROVE Recorded'
  OBVIOUS
<1>1. ctx \in Contexts /\ ctx.version \in Nat /\ i \in Nat /\ GateSpent
  BY TurnIs DEF Inv, TypeOK, Contexts, Recorded
<1>2. AtStage => i \in DOMAIN plan /\ pc = "stage"
  BY PlanIsSeq DEF AtStage, Inv, TypeOK
<1>3. pc = "settle" => i \in DOMAIN plan
  BY DEF Inv, AtWork
<1>4. pc # "aborted" => Chain /\ Layout /\ VerdictsAbout
  BY DEF Recorded
<1>5. CASE Skip
  <2>1. /\ ctx' = ReduceSkipped(Stage, ctx) /\ Persist("SKIPPED", ctx.version)
        /\ i \in DOMAIN plan /\ pc = "stage" /\ pc' = "stage" /\ i' = i + 1
        /\ command' = command /\ ShouldSkip(Stage, ctx)
    BY <1>2, <1>5 DEF Skip, NextStage
  <2>2. Stage # "lint"
    BY <2>1 DEF ShouldSkip
  <2>3. /\ ctx'.version = ctx.version /\ ctx'.prompt = ctx.prompt
        /\ ctx'.lintStatus = ctx.lintStatus /\ ctx'.rounds = ctx.rounds
    BY <1>1, <2>1, ReduceSkippedContext, SkippedTexts
  <2>4. GateSpent'
    BY <1>1, <2>1, <2>2, <2>3, SameGate
  <2>5. Behind' = Behind + 1
    BY <1>1, <2>1 DEF Behind
  <2>6. Chain' /\ Layout' /\ VerdictsAbout'
    BY <1>1, <1>4, <2>1, <2>3, <2>5, PersistKeepsRecord
  <2> QED BY <2>1, <2>4, <2>6 DEF Recorded
<1>6. CASE StageThrows
  <2>1. FailStage /\ Stage # "lint" /\ i \in DOMAIN plan /\ pc = "stage"
    BY <1>2, <1>6 DEF StageThrows
  <2>2. ctx' = ctx /\ command' = command /\ i' = i + 1 /\ pc' = "stage"
    BY <2>1 DEF FailStage, NextStage
  <2>3. GateSpent'
    BY <1>1, <2>1, <2>2, SameGate
  <2>4. Chain' /\ Layout' /\ VerdictsAbout'
    BY <1>4, <2>1, FailKeepsRecord
  <2> QED BY <2>2, <2>3, <2>4 DEF Recorded
<1>7. CASE EstimateCost
  <2>1. /\ Stage = "cost_estimate" /\ Persist("SUCCEEDED", ctx.version) /\ ctx' = ctx
        /\ i \in DOMAIN plan /\ pc = "stage" /\ pc' = "stage" /\ i' = i + 1
        /\ command' = command
    BY <1>2, <1>7 DEF EstimateCost, NextStage
  <2>2. GateSpent'
    BY <1>1, <2>1, SameGate
  <2>3. Behind' = Behind + 1
    BY <1>1, <2>1 DEF Behind
  <2>4. Chain' /\ Layout' /\ VerdictsAbout'
    BY <1>1, <1>4, <2>1, <2>3, PersistKeepsRecord
  <2> QED BY <2>1, <2>2, <2>4 DEF Recorded
<1>8. CASE Lint
  <2>1. PICK status \in LintOutcomes(ctx) :
          IF status = "throws" THEN FailStage
          ELSE /\ ctx' = [ctx EXCEPT !.lintStatus = status, !.lintOf = ctx.version]
               /\ Persist("SUCCEEDED", ctx.version)
               /\ pc' = "feedback"
               /\ UNCHANGED <<command, i, attempt, answer, calls>>
    BY <1>8 DEF Lint
  <2>2. Stage = "lint" /\ i \in DOMAIN plan /\ pc = "stage"
    BY <1>2, <1>8 DEF Lint
  <2>3. CASE status = "throws"
    <3>1. FailStage /\ ctx.lintStatus # "GATE_FAIL"
      BY <2>1, <2>3, LintSays
    <3>2. ctx' = ctx /\ command' = command /\ i' = i + 1 /\ pc' = "stage"
      BY <3>1 DEF FailStage, NextStage
    <3>3. GateSpent'
      BY <3>1, <3>2 DEF GateSpent
    <3>4. Chain' /\ Layout' /\ VerdictsAbout'
      BY <1>4, <2>2, <3>1, FailKeepsRecord
    <3> QED BY <3>2, <3>3, <3>4 DEF Recorded
  <2>4. CASE status # "throws"
    <3>1. /\ ctx' = [ctx EXCEPT !.lintStatus = status, !.lintOf = ctx.version]
          /\ Persist("SUCCEEDED", ctx.version) /\ pc' = "feedback"
          /\ command' = command /\ i' = i
      BY <2>1, <2>4
    <3>2. ctx'.version = ctx.version /\ ctx'.prompt = ctx.prompt /\ ctx'.lintStatus = status
      BY <1>1, <3>1 DEF Contexts
    <3>3. status = "GATE_FAIL" => ctx.prompt = "real"
      BY <2>1, LintSays
    <3>4. GateSpent'
      <4>1. IndexOf("lint")' = IndexOf("lint") /\ (InPlan("refine")' <=> InPlan("refine"))
        BY <3>1 DEF plan, IndexOf, InPlan
      <4>2. InPlan("refine") => i = IndexOf("lint")
        BY <2>2, PlanOrder, LintOnce, PlanIsSeq DEF Stage, Inv, TypeOK
      <4> QED BY <1>1, <3>1, <3>2, <3>3, <4>1, <4>2 DEF GateSpent
    <3>5. Behind' = Behind + 1
      BY <1>1, <2>2, <3>1 DEF Behind
    <3>6. Chain' /\ Layout' /\ VerdictsAbout'
      BY <1>1, <1>4, <2>2, <3>1, <3>2, <3>5, PersistKeepsRecord
    <3> QED BY <3>1, <3>4, <3>6 DEF Recorded
  <2> QED BY <2>3, <2>4
<1>9. CASE Feedback
  <2>1. pc = "feedback" /\ command' = command /\ pc' = "stage" /\ i \in DOMAIN plan
    BY <1>9 DEF Feedback, NextStage, Inv, AtWork
  <2>2. CASE Retry
    <3>1. i' = IndexOf("refine") /\ ctx' = [ctx EXCEPT !.critique = "items", !.rounds = @ + 1]
      BY <1>9, <2>2 DEF Feedback
    <3>2. ctx'.prompt = ctx.prompt /\ ctx'.lintStatus = ctx.lintStatus
      BY <1>1, <3>1 DEF Contexts
    <3>3. i' = 6 /\ (InPlan("refine")' => IndexOf("lint")' = 7)
      <4>1. InPlan("refine") /\ plan' = plan
        BY <2>1, <2>2 DEF Retry, plan
      <4> QED BY <3>1, <4>1, PlanOrder DEF Inv, TypeOK, IndexOf, InPlan
    <3>4. GateSpent'
      <4>1. ctx.lintStatus = "GATE_FAIL" /\ InPlan("refine") => ctx.prompt = "real"
        BY <1>1 DEF GateSpent
      <4>2. InPlan("refine")' <=> InPlan("refine")
        BY <2>1 DEF InPlan, plan
      <4> QED BY <3>2, <3>3, <4>1, <4>2 DEF GateSpent
    <3>5. Chain' /\ Layout' /\ VerdictsAbout'
      BY <1>4, <1>9, <2>1, <2>2, RoundKeepsRecord
    <3> QED BY <2>1, <3>4, <3>5 DEF Recorded
  <2>3. CASE ~Retry
    <3>1. i' = i + 1 /\ UNCHANGED <<ctx, revs>>
      BY <1>9, <2>3 DEF Feedback, NextStage
    <3>2. GateSpent'
      <4>1. InPlan("refine") /\ ctx.lintStatus = "GATE_FAIL" =>
              ctx.prompt = "real" /\ ctx.rounds = FeedbackCap
        <5>1. InPlan("refine") => InPlan("lint")
          <6>1. InPlan("refine") => 7 \in DOMAIN plan /\ plan[7] = "lint"
            BY PlanOrder, PlanIsSeq DEF Inv, TypeOK
          <6> QED BY <6>1 DEF InPlan, ToSet
        <5>2. ctx.rounds \in Nat /\ FeedbackCap \in Nat /\ ctx.rounds <= FeedbackCap
          BY BudgetTypes DEF Budget
        <5>3. InPlan("refine") /\ ctx.lintStatus = "GATE_FAIL" => ctx.prompt = "real"
          BY <1>1 DEF GateSpent
        <5> QED BY <2>3, <5>1, <5>2, <5>3 DEF Retry, RoundsLeft
      <4>2. (InPlan("refine")' <=> InPlan("refine")) /\ FeedbackCap' = FeedbackCap
        BY <2>1 DEF InPlan, plan, FeedbackCap
      <4> QED BY <3>1, <4>1, <4>2 DEF GateSpent
    <3>3. Behind' = Behind
      BY <1>1, <2>1, <3>1 DEF Behind
    <3>4. Chain' /\ Layout' /\ VerdictsAbout'
      BY <1>4, <2>1, <3>1, <3>3, SameRecord
    <3> QED BY <2>1, <3>2, <3>4 DEF Recorded
  <2> QED BY <2>2, <2>3
<1>10. CASE Settle
  <2>1. pc = "settle" /\ i \in DOMAIN plan /\ Stage \notin Deterministic
    BY <1>3, <1>10 DEF Settle, Budget
  <2>2. Stage # "lint"
    BY <2>1 DEF Deterministic
  <2>3. CASE FailStage
    <3>1. ctx' = ctx /\ command' = command /\ i' = i + 1 /\ pc' = "stage"
      BY <2>3 DEF FailStage, NextStage
    <3>2. GateSpent'
      BY <1>1, <2>1, <2>2, <3>1, SameGate
    <3>3. Chain' /\ Layout' /\ VerdictsAbout'
      BY <1>4, <2>1, <2>3, FailKeepsRecord
    <3> QED BY <3>1, <3>2, <3>3 DEF Recorded
  <2>4. CASE ~FailStage
    <3>1. /\ ctx' \in Reduced(Stage, ctx, answer) /\ answer \in {"real", "placeholder"}
          /\ Persist(IF answer = "real" THEN "SUCCEEDED" ELSE "DEMO", ctx'.version)
          /\ i' = i + 1 /\ pc' = "stage" /\ command' = command
      BY <1>10, <2>1, <2>4 DEF Settle, Inv, AtWork, NextStage
    <3>2. ~ShouldSkip(Stage, ctx) /\ ctx'.version \in Nat
      BY <2>1 DEF Inv, AtWork, TypeOK, Contexts
    <3>3. /\ Stage \notin PROMPT_PRODUCING_STAGES =>
               ctx'.prompt = ctx.prompt /\ ctx'.version = ctx.version
                 /\ ctx'.lintStatus = ctx.lintStatus
          /\ Stage \in PROMPT_PRODUCING_STAGES => ctx'.lintStatus = "unset"
      BY <1>1, <3>1, ReducedTexts, ReducedGate
    <3>4. ctx'.rounds = ctx.rounds
      BY <1>1, <3>1, <3>2, ReducedContext
    <3>5. GateSpent'
      <4>1. CASE Stage \in PROMPT_PRODUCING_STAGES
        BY <3>3, <4>1 DEF GateSpent
      <4>2. CASE Stage \notin PROMPT_PRODUCING_STAGES
        BY <1>1, <2>1, <2>2, <3>1, <3>3, <3>4, <4>2, SameGate
      <4> QED BY <4>1, <4>2
    <3>6. Behind' = Behind + 1
      BY <1>1, <2>1, <3>1 DEF Behind
    <3>7. PICK status \in {"SUCCEEDED", "DEMO"} : Persist(status, ctx'.version)
      BY <3>1
    <3>8. Chain' /\ Layout' /\ VerdictsAbout'
      BY <1>1, <1>4, <2>1, <3>1, <3>2, <3>3, <3>6, <3>7, PersistKeepsRecord
    <3> QED BY <3>1, <3>5, <3>8 DEF Recorded
  <2> QED BY <2>3, <2>4
<1>11. CASE Admit \/ Decide \/ Call \/ StoreThrows \/ Finish \/ UNCHANGED vars
  <2>1. UNCHANGED <<command, i, ctx, revs>>
    BY <1>11 DEF Admit, Decide, Call, StoreThrows, Finish, vars
  <2>2. GateSpent'
    BY <1>1, <2>1, SameGate
  <2>3. pc' = "aborted" \/ (pc # "aborted" /\ (pc' = "feedback" <=> pc = "feedback"))
    BY <1>11 DEF Admit, Decide, Call, StoreThrows, Finish, vars, AtStage
  <2>4. pc' # "aborted" => Chain' /\ Layout' /\ VerdictsAbout'
    <3> SUFFICES ASSUME pc' # "aborted" PROVE Chain' /\ Layout' /\ VerdictsAbout'
      OBVIOUS
    <3>1. Behind' = Behind
      BY <2>1, <2>3 DEF Behind
    <3> QED BY <1>4, <2>1, <2>3, <3>1, SameRecord
  <2>5. pc' = "done" => i' = Len(plan') + 1
    <3>1. plan' = plan
      BY <2>1 DEF plan
    <3>2. CASE Finish
      <4>1. i > Len(plan) /\ i \in 1 .. Len(plan) + 1 /\ Len(plan) \in Nat
        BY <3>2, PlanIsSeq DEF Finish, Inv, TypeOK
      <4> QED BY <2>1, <3>1, <4>1
    <3>3. CASE UNCHANGED vars
      BY <2>1, <3>1, <3>3 DEF Recorded, vars
    <3>4. CASE Admit \/ Decide \/ Call \/ StoreThrows
      <4>1. pc' # "done"
        BY <3>4 DEF Admit, Decide, Call, StoreThrows
      <4> QED BY <4>1
    <3> QED BY <1>11, <3>2, <3>3, <3>4
  <2> QED BY <2>2, <2>4, <2>5 DEF Recorded
<1> QED BY <1>5, <1>6, <1>7, <1>8, <1>9, <1>10, <1>11 DEF Next, Progress

\* The record, with the invariants it rests on.
LEMMA RecordAlways == Spec => [](Inv /\ Bundle /\ Budget /\ Recorded)
BY InitInv, StepInv, BundleInit, BundleStep, BudgetInit, BudgetStep, RecordInit, RecordStep,
   PTL DEF Spec

\* What is left of 1 .. m + n when m numbers from t on are taken out.
LEMMA WithoutGap ==
  ASSUME NEW m \in Nat, NEW n \in Nat, NEW t \in 1 .. n + 1, NEW F \in SUBSET (1 .. m + n),
         \A k \in 1 .. m + n : k \in F <=> k < t \/ t + m <= k
  PROVE  /\ Cardinality(F) = n
         /\ \A k \in F : Cardinality({j \in F : j <= k}) = (IF k < t THEN k ELSE k - m)
<1>0. F = {k \in 1 .. m + n : k < t \/ t + m <= k}
  OBVIOUS
<1>1. ASSUME NEW k \in t + m - 1 .. m + n
      PROVE  Cardinality((1 .. t - 1) \cup (t + m .. k)) = k - m
  <2> DEFINE A == 1 .. t - 1
             B == t + m .. k
  <2>1. IsFiniteSet(A) /\ Cardinality(A) = t - 1
    <3>1. t \in Int /\ t - 1 \in Int /\ 1 \in Int /\ (1 > t - 1 => t - 1 = 0) /\ (t - 1) - 1 + 1 = t - 1
      OBVIOUS
    <3> QED BY <3>1, FS_Interval
  <2>2. IsFiniteSet(B) /\ Cardinality(B) = k - (t + m) + 1
    <3>1. t + m \in Int /\ k \in Int /\ (t + m > k => k - (t + m) + 1 = 0)
      OBVIOUS
    <3> QED BY <3>1, FS_Interval
  <2>3. A \cap B = {}
    OBVIOUS
  <2> HIDE DEF A, B
  <2>4. Cardinality(A \cup B) = Cardinality(A) + Cardinality(B) - Cardinality(A \cap B)
    BY <2>1, <2>2, FS_Union
  <2>5. Cardinality(A \cap B) = 0
    BY <2>3, FS_EmptySet
  <2>6. Cardinality(A \cup B) = k - m
    BY <2>1, <2>2, <2>4, <2>5
  <2> QED BY <2>6 DEF A, B
<1>2. Cardinality(F) = n
  <2>1. F = (1 .. t - 1) \cup (t + m .. m + n)
    BY <1>0
  <2>2. m + n \in t + m - 1 .. m + n /\ (m + n) - m = n
    OBVIOUS
  <2> QED BY <1>1, <2>1, <2>2
<1>3. ASSUME NEW k \in F
      PROVE  Cardinality({j \in F : j <= k}) = (IF k < t THEN k ELSE k - m)
  <2>1. k \in 1 .. m + n /\ (k < t \/ t + m <= k)
    BY <1>0
  <2>2. CASE k < t
    <3>1. {j \in F : j <= k} = 1 .. k
      BY <1>0, <2>1, <2>2
    <3>2. Cardinality(1 .. k) = k
      <4>1. k \in Int /\ 1 \in Int /\ ~(1 > k) /\ k - 1 + 1 = k
        BY <2>1
      <4> QED BY <4>1, FS_Interval
    <3> QED BY <2>2, <3>1, <3>2
  <2>3. CASE t + m <= k
    <3>1. {j \in F : j <= k} = (1 .. t - 1) \cup (t + m .. k)
      BY <1>0, <2>1, <2>3
    <3>2. k \in t + m - 1 .. m + n /\ ~(k < t)
      BY <2>1, <2>3
    <3> QED BY <1>1, <3>1, <3>2
  <2> QED BY <2>1, <2>2, <2>3
<1> QED BY <1>2, <1>3

\* When a run returns, its FRESH revisions are the plan, stage for stage: every skip and every
\* failure has left its record, and a superseded round none that is FRESH (runPipeline).
THEOREM TheFreshAreThePlan == Spec => []FreshBundleIsThePlan
<1>1. Inv /\ Bundle /\ Recorded => FreshBundleIsThePlan
  <2> SUFFICES ASSUME Inv, Bundle, Recorded, pc = "done"
               PROVE  /\ Cardinality(Fresh) = Len(plan)
                      /\ \A k \in Fresh :
                           revs[k].stage = plan[Cardinality({j \in Fresh : j <= k})]
    BY DEF FreshBundleIsThePlan
  <2>1. i = Len(plan) + 1 /\ Layout
    BY DEF Recorded
  <2>2. Behind = Len(plan) /\ Len(plan) \in Nat /\ Turn \in 1 .. Len(plan) + 1
    BY <2>1, TurnIs DEF Behind
  <2>3. superseded \in Nat /\ Len(revs) = superseded + Len(plan)
        /\ DOMAIN revs = 1 .. Len(revs)
    <3>1. superseded \in Nat /\ superseded = Len(revs) - Len(plan)
      BY <2>1, <2>2 DEF Layout, superseded
    <3>2. Len(revs) \in Nat /\ DOMAIN revs = 1 .. Len(revs)
      BY DEF Bundle
    <3> QED BY <2>2, <3>1, <3>2
  <2>4. Fresh = {k \in 1 .. superseded + Len(plan) : k < Turn \/ Turn + superseded <= k}
    <3>1. ASSUME NEW k \in DOMAIN revs
          PROVE  ~revs[k].stale <=> k < Turn \/ Turn + superseded <= k
      <4>1. Turn \in Nat /\ k \in Nat /\ superseded \in Nat
        BY <2>2, <2>3
      <4>2. (k < Turn \/ Turn + superseded <= k) \/ (Turn <= k /\ k < Turn + superseded)
        BY <4>1
      <4> QED BY <2>1, <4>2 DEF Layout
    <3> QED BY <2>3, <3>1 DEF Fresh
  <2>5. /\ Cardinality(Fresh) = Len(plan)
        /\ \A k \in Fresh :
             Cardinality({j \in Fresh : j <= k}) = (IF k < Turn THEN k ELSE k - superseded)
    <3>1. \A m \in Nat, n \in Nat : \A t \in 1 .. n + 1 : \A F \in SUBSET (1 .. m + n) :
            (\A k \in 1 .. m + n : k \in F <=> k < t \/ t + m <= k) =>
              /\ Cardinality(F) = n
              /\ \A k \in F : Cardinality({j \in F : j <= k}) = (IF k < t THEN k ELSE k - m)
      BY WithoutGap
    <3>2. superseded \in Nat /\ Len(plan) \in Nat /\ Turn \in 1 .. Len(plan) + 1
      BY <2>2, <2>3
    <3>3. /\ Fresh \in SUBSET (1 .. superseded + Len(plan))
          /\ \A k \in 1 .. superseded + Len(plan) :
               k \in Fresh <=> k < Turn \/ Turn + superseded <= k
      BY <2>4
    <3>4. \A t \in 1 .. Len(plan) + 1 : \A F \in SUBSET (1 .. superseded + Len(plan)) :
            (\A k \in 1 .. superseded + Len(plan) : k \in F <=> k < t \/ t + superseded <= k) =>
              /\ Cardinality(F) = Len(plan)
              /\ \A k \in F :
                   Cardinality({j \in F : j <= k}) = (IF k < t THEN k ELSE k - superseded)
      BY <3>1, <3>2, Zenon
    <3>5. \A F \in SUBSET (1 .. superseded + Len(plan)) :
            (\A k \in 1 .. superseded + Len(plan) : k \in F <=> k < Turn \/ Turn + superseded <= k) =>
              /\ Cardinality(F) = Len(plan)
              /\ \A k \in F :
                   Cardinality({j \in F : j <= k}) = (IF k < Turn THEN k ELSE k - superseded)
      BY <3>2, <3>4, Zenon
    <3> QED BY <3>3, <3>5, Zenon
  <2>6. ASSUME NEW k \in Fresh
        PROVE  revs[k].stage = plan[IF k < Turn THEN k ELSE k - superseded]
    <3>1. k \in DOMAIN revs /\ (k < Turn \/ Turn + superseded <= k)
      BY <2>3, <2>4
    <3>2. Turn \in Nat /\ k \in Nat /\ superseded \in Nat
      BY <2>2, <2>3, <3>1
    <3>3. Turn + superseded <= k => ~(k < Turn)
      BY <3>2
    <3> QED BY <2>1, <3>1, <3>3 DEF Layout
  <2> QED BY <2>5, <2>6
<1> QED BY <1>1, RecordAlways, PTL

\* ... and the FRESH lint and critic verdicts among them are about the prompt it returns, not
\* one a later stage replaced (runPipeline, decideGateFeedback).
THEOREM FreshVerdictsAreCurrent == Spec => []FreshVerdictsCurrent
<1>1. Recorded => FreshVerdictsCurrent
  BY DEF Recorded, VerdictsAbout, FreshVerdictsCurrent
<1> QED BY <1>1, RecordAlways, PTL

\* A reflexive run returns a prompt that fails its gates only with every round spent, whatever
\* was skipped or failed on the way (decideGateFeedback).
THEOREM RoundsAreSpent == Spec => []GateFailsExhaustRounds
<1>1. Inv /\ Recorded => GateFailsExhaustRounds
  <2> SUFFICES ASSUME Inv, Recorded, pc = "done", InPlan("refine"),
                      ctx.lintStatus = "GATE_FAIL"
               PROVE  ctx.rounds = FeedbackCap
    BY DEF GateFailsExhaustRounds
  <2>1. i = 12 /\ IndexOf("lint") = 7
    <3>1. Len(plan) = 11 /\ IndexOf("lint") = 7
      BY PlanOrder DEF Inv, TypeOK
    <3> QED BY <3>1 DEF Recorded
  <2> QED BY <2>1 DEF Recorded, GateSpent
<1> QED BY <1>1, RecordAlways, PTL
=============================================================================
