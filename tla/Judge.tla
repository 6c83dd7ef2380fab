-------------------------------- MODULE Judge --------------------------------
(***************************************************************************)
(* Judging a run (application/src/judge-bundle.ts): what judgeBundle       *)
(* refuses, and which text it grades, at any moment of a run: the command  *)
(* may be given while the run goes on, or after it aborted. The bundle is  *)
(* the revisions as storage-local returns them, in append order. Bodies    *)
(* evicted since, and the judge's own admission, only refuse more.         *)
(***************************************************************************)
EXTENDS Pipeline

PROMPT_PRODUCING_STAGES == {"compile", "harden", "refine"}

Produced == {k \in DOMAIN revs : revs[k].stage \in PROMPT_PRODUCING_STAGES}

\* A walk forward through the bundle.
FirstProduced == Min(Produced)

\* The last revision, in append order, of a stage that makes the prompt.
compiled == Max(Produced)

\* A run-level check: one stage that degraded is enough.
Demoed == \E k \in DOMAIN revs : revs[k].status = "DEMO"

\* A skipped or failed execution retains nothing.
HasRefs(k) == revs[k].status \notin {"SKIPPED", "FAILED"}

\* resolveBrief: the brief is in the request of the first deconstruct.
BriefFound ==
  \E k \in DOMAIN revs :
    /\ revs[k].stage = "deconstruct"
    /\ \A j \in 1 .. k - 1 : revs[j].stage # "deconstruct"
    /\ HasRefs(k)

Judgeable ==
  /\ ~Demoed
  /\ Produced # {}
  /\ revs[compiled].status = "SUCCEEDED"
  /\ BriefFound

-----------------------------------------------------------------------------
(* Properties.                                                             *)

\* What is graded is the prompt of the run, as it stands, and a model made it and everything it
\* was made from: "A later stage cannot undo an earlier stage's degradation" (judge-bundle.ts,
\* "What must never be graded").
JudgedIsModelOutput ==
  Judgeable =>
    /\ revs[compiled].about = ctx.version
    /\ ctx.prompt = "real"
    /\ "placeholder" \notin {ctx.spec, ctx.calibration, ctx.critique}
    /\ ctx.origin \cap {"prompt", "critique"} = {}

\* judge-bundle.ts: "the superseded revision is marked STALE, and the replacement is appended
\* after it. The last matching revision in append order is therefore the surviving one."
JudgedSurvives == Judgeable => ~revs[compiled].stale
=============================================================================
