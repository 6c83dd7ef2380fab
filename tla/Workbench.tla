------------------------------ MODULE Workbench ------------------------------
(***************************************************************************)
(* The nine-stage workbench (SystemPromptBuilderPipeline.tsx): runs of its *)
(* stages over a context, the edits that make stages stale, and the        *)
(* verdict under the prompt.                                               *)
(*                                                                         *)
(* A step is one task of the browser: a click, a keystroke, or the answer  *)
(* of a provider call with the stages after it that call nobody. A run     *)
(* works on its own copy of the context and puts it on the screen after    *)
(* every stage.                                                            *)
(*                                                                         *)
(* A text is what it was made from: the set of <<stage, template version>> *)
(* pairs behind it, empty when there is no text. A template is its version *)
(* and the texts it reads, which the user rewrites as he likes: every      *)
(* template may name every variable. A prompt has an identity and a        *)
(* verification result the identity of the prompt it judged, neither of    *)
(* which the code keeps: its revision numbers stand for them.              *)
(***************************************************************************)
EXTENDS Integers, FiniteSetsExt

CONSTANTS
  Results,            \* what Lint and Critic conclude
  Levels,             \* the stakes a user picks, as places in STAKES
  Switchable,         \* the stages a user switches on and off
  Rewrites,           \* pairs of a stage and what its template may be rewritten to read
  MaxRuns, MaxChanges \* bounds on the runs started, and on the edits and settings

\* The texts a template may read: {previous}, {calibration}, {prompt}, {critique}.
Slots == {"spec", "calibration", "prompt", "critique"}

ASSUME WorkbenchAssumption ==
  /\ "" \notin Results /\ "SKIPPED" \notin Results
  /\ Levels \subseteq 1..5
  /\ Switchable \subseteq 1..9
  /\ Rewrites \subseteq (1..6) \X SUBSET Slots

Stages == 1..9        \* Deconstruct, Calibrate, Compile, Harden, Critique, Refine, Lint, Critic, Preview
Editable == 1..6
Producing == {3, 4, 6}

Deps == <<{}, {1}, {1, 2}, {3}, {4}, {4, 5}, {6}, {7}, {6, 7, 8}>>

Consumers(s) == {d \in Stages : s \in Deps[d]}

\* The consumers alone, not theirs.
ConsumersOf == [s \in Stages |-> Consumers(s)]

\* descendantsOf: the least set with the consumers of s and of its members.
DescendantsOf ==
  [s \in Stages |->
     {d \in Stages : \A S \in SUBSET Stages :
        (Consumers(s) \subseteq S /\ \A e \in S : Consumers(e) \subseteq S) => d \in S}]

\* STAKES: LOW 1, MEDIUM 2, GUARDED 3, HIGH 4, SAFETY-CRITICAL 5.
DepthOf == <<1, 2, 3, 3, 4>>
DepthPlan == <<{1, 2, 3, 7, 9}, {1, 2, 3, 4, 7, 9}, Stages, Stages>>

None == {}
NoPrompt == [id |-> 0, from |-> None]
NoResult == [status |-> "", of |-> 0]
EmptyContext ==
  [spec |-> None, calibration |-> None, prompt |-> NoPrompt, critique |-> None,
   lint |-> NoResult, critic |-> NoResult]

\* The texts the stages' own templates read; those of Compile include the spec for the
\* techniques matched against it.
DefaultReads ==
  <<{}, {"spec"}, {"spec", "calibration"}, {"prompt"}, {"prompt"}, {"prompt", "critique"}>>

Unchecked == -1       \* a revision of null
NoRevisions == [prompt |-> 0, lint |-> Unchecked, critic |-> Unchecked]

VARIABLES
  stakes,     \* the effective stakes
  on,         \* the stages switched on
  template,   \* per editable stage, the version of its template and what that reads
  stale,      \* the stages marked stale
  ctx,        \* the context on the screen
  revisions,  \* of the prompt, and those Lint and Critic last judged
  left,       \* the stages the run in progress has not finished, none when no run is
  work,       \* the context of that run
  using,      \* the templates it took when it started
  made,       \* the prompts made so far
  crossed,    \* whether an edit fell into a run since the context was last empty
  runs, changes   \* counters of the bounds

vars == <<stakes, on, template, stale, ctx, revisions, left, work, using, made, crossed,
          runs, changes>>

running == left # {}

CriticRequired == stakes \in {4, 5}
LockedOn(s) == s = 7 \/ (stakes = 5 /\ s \in {4, 8})
LockedOff(s) == s = 8 /\ ~CriticRequired
Runnable == {s \in Stages : (s \in on \/ LockedOn(s)) /\ ~LockedOff(s)}

\* contextValueForStage: whether the slot a stage writes holds something.
Filled(s, c) ==
  CASE s = 1 -> c.spec # None
    [] s = 2 -> c.calibration # None
    [] s \in {3, 4, 6, 9} -> c.prompt # NoPrompt
    [] s = 5 -> c.critique # None
    [] s = 7 -> c.lint # NoResult
    [] s = 8 -> c.critic # NoResult

CanRunStage(s) == \A d \in Deps[s] : LockedOff(d) \/ Filled(d, ctx)

LintCurrent ==
  ctx.prompt # NoPrompt /\ ctx.lint # NoResult /\ revisions.lint = revisions.prompt
CriticCurrent ==
  CriticRequired =>
    /\ ctx.prompt # NoPrompt
    /\ ctx.critic.status \notin {"", "SKIPPED"}
    /\ revisions.critic = revisions.prompt

\* A verdict is shown.
Verdict == ctx.prompt # NoPrompt /\ LintCurrent /\ CriticCurrent

Init ==
  /\ stakes \in Levels
  /\ on = DepthPlan[DepthOf[stakes]]
  /\ template = [s \in Editable |-> [version |-> 0, reads |-> DefaultReads[s]]]
  /\ stale = {}
  /\ ctx = EmptyContext
  /\ revisions = NoRevisions
  /\ left = {}
  /\ work = EmptyContext
  /\ using = template
  /\ made = 0
  /\ crossed = FALSE
  /\ runs = 0
  /\ changes = 0

-----------------------------------------------------------------------------
(* Running stages. `v` is a run in progress: what is left of it, its       *)
(* context, the screen, the revisions and the stale marks.                 *)

First(todo) == IF todo = {} THEN 0 ELSE Min(todo)

\* The stage ends well: its mark goes, its context is shown, the run moves on.
Done(v, s, c) ==
  [v EXCEPT !.work = c, !.ctx = c, !.stale = v.stale \ {s}, !.left = v.left \ {s}]

\* Lint answers at once, and only when there is a prompt.
LintFirst(v, result) ==
  IF First(v.left) # 7 THEN v
  ELSE IF v.work.prompt = NoPrompt THEN Done(v, 7, v.work)
  ELSE [Done(v, 7, [v.work EXCEPT !.lint = [status |-> result, of |-> v.work.prompt.id]])
          EXCEPT !.revisions.lint = v.revisions.prompt]

Skipped(v) == [v.work EXCEPT !.critic = [status |-> "SKIPPED", of |-> 0]]

\* Critic asks nobody when it is not required, and keeps its mark then, or has no prompt.
CriticFirst(v) ==
  IF First(v.left) # 8 THEN v
  ELSE IF ~CriticRequired THEN [Done(v, 8, Skipped(v)) EXCEPT !.stale = v.stale]
  ELSE IF v.work.prompt = NoPrompt THEN Done(v, 8, Skipped(v))
  ELSE v

\* The run goes on to its next provider call, or to its end.
Proceed(v) ==
  \E result \in Results :
    LET w == CriticFirst(LintFirst(v, result)) IN
    /\ left' = w.left
    /\ ctx' = w.ctx
    /\ work' = IF w.left = {} THEN EmptyContext ELSE w.work
    /\ revisions' = w.revisions
    /\ stale' = w.stale

Starting(todo, c, shown, r, marks) ==
  [left |-> todo, work |-> c, ctx |-> shown, revisions |-> r, stale |-> marks]
InProgress == Starting(left, work, ctx, revisions, stale)

Begin(v) ==
  /\ runs < MaxRuns
  /\ runs' = runs + 1
  /\ using' = template
  /\ Proceed(v)
  /\ UNCHANGED <<stakes, on, template, made, changes>>

FullRun ==
  /\ Begin(Starting(Runnable, EmptyContext, EmptyContext, NoRevisions, {}))
  /\ crossed' = FALSE

RunAll == ~running /\ FullRun

\* From the first stale stage on, or all over when its inputs are gone.
RerunStale ==
  /\ ~running
  /\ stale \cap Runnable # {}
  /\ LET s == Min(stale \cap Runnable) IN
       \/ /\ CanRunStage(s)
          /\ Begin(Starting({d \in Runnable : d >= s}, ctx, ctx, revisions, stale))
          /\ UNCHANGED crossed
       \/ ~CanRunStage(s) /\ FullRun

RunOne(s) ==
  /\ ~running
  /\ CanRunStage(s)
  /\ Begin(Starting({s}, ctx, ctx, revisions, stale))
  /\ UNCHANGED crossed

-----------------------------------------------------------------------------
(* The provider's answers. An answer may be empty.                         *)

\* A new prompt voids what was verified of the one before; commitPromptRevision resets the
\* revisions with it.
Compiled(v, prompt) == [v.work EXCEPT !.prompt = prompt, !.lint = NoResult, !.critic = NoResult]

NextRevision(v) == [v EXCEPT !.revisions =
                      [prompt |-> v.revisions.prompt + 1, lint |-> Unchecked, critic |-> Unchecked]]

TextIn(slot, c) ==
  CASE slot = "spec" -> c.spec
    [] slot = "calibration" -> c.calibration
    [] slot = "prompt" -> c.prompt.from
    [] slot = "critique" -> c.critique

\* What goes into the text of a build stage: its template and the texts that reads.
MadeOf(s, c) ==
  {<<s, using[s].version>>} \cup UNION {TextIn(slot, c) : slot \in using[s].reads}

Text(s, c, full) == IF full THEN MadeOf(s, c) ELSE None
Prompt(s, c, full) == IF full THEN [id |-> made + 1, from |-> MadeOf(s, c)] ELSE NoPrompt

\* A prompt taken over as if its stage produced none: no revision, no result voided.
DraftedQuietly(v, s, full) == Done(v, s, [v.work EXCEPT !.prompt = Prompt(s, v.work, full)])

\* Refine has used up its critique.
Drafted(v, s, full) ==
  LET c == Compiled(v, Prompt(s, v.work, full)) IN
  Done(NextRevision(v), s, IF s = 6 THEN [c EXCEPT !.critique = None] ELSE c)

\* The provider answers the stage in hand.
Returns ==
  /\ running
  /\ LET s == First(left)
         v == InProgress IN
     \/ /\ s \in Producing
        /\ \E full \in BOOLEAN : Proceed(Drafted(v, s, full))
        /\ made' = made + 1
     \/ /\ s \in {1, 2, 5}
        /\ \E full \in BOOLEAN :
             LET text == Text(s, work, full) IN
             \/ s = 1 /\ Proceed(Done(v, s, [work EXCEPT !.spec = text]))
             \/ s = 2 /\ Proceed(Done(v, s, [work EXCEPT !.calibration = text]))
             \/ s = 5 /\ Proceed(Done(v, s, [work EXCEPT !.critique = text]))
        /\ UNCHANGED made
     \/ /\ s = 8
        /\ \E result \in Results :
             LET c == [work EXCEPT !.critic = [status |-> result, of |-> work.prompt.id]] IN
             Proceed([Done(v, s, c) EXCEPT !.revisions.critic = revisions.prompt])
        /\ UNCHANGED made
     \/ /\ s = 9
        /\ Proceed(Done(v, s, work))
        /\ UNCHANGED made
  /\ UNCHANGED <<stakes, on, template, using, crossed, runs, changes>>

\* The run is over: a call ran out of retries or time, a template names an unknown variable, or
\* the user stopped it.
Abandon ==
  /\ running
  /\ left' = {}
  /\ work' = EmptyContext
  /\ UNCHANGED <<stakes, on, template, stale, ctx, revisions, using, made, crossed, runs, changes>>

Fails == Abandon
Stop == Abandon

-----------------------------------------------------------------------------
(* The user, between the answers.                                          *)

Reset ==
  /\ ~running
  /\ stale' = {}
  /\ revisions' = NoRevisions
  /\ ctx' = EmptyContext
  /\ crossed' = FALSE
  /\ UNCHANGED <<stakes, on, template, left, work, using, made, runs, changes>>

\* invalidateFrom, on the context: the slots of the stages in `gone` are emptied.
Invalidated(c, gone) ==
  [spec |-> IF 1 \in gone THEN None ELSE c.spec,
   calibration |-> IF 2 \in gone THEN None ELSE c.calibration,
   prompt |-> IF gone \cap Producing # {} THEN NoPrompt ELSE c.prompt,
   critique |-> IF gone \cap {5, 6} # {} THEN None ELSE c.critique,
   lint |-> IF 7 \in gone THEN NoResult ELSE c.lint,
   critic |-> IF 8 \in gone THEN NoResult ELSE c.critic]

\* At any time: the box of a template stays open during a run.
EditTemplate(s) ==
  /\ changes < MaxChanges
  /\ changes' = changes + 1
  /\ \E reads \in {template[s].reads} \cup {w[2] : w \in {x \in Rewrites : x[1] = s}} :
       template' = [template EXCEPT ![s] = [version |-> @.version + 1, reads |-> reads]]
  /\ IF s \in stale THEN UNCHANGED <<stale, ctx>>
     ELSE LET gone == {s} \cup DescendantsOf[s] IN
          /\ stale' = stale \cup gone
          /\ ctx' = Invalidated(ctx, gone)
  /\ crossed' = (crossed \/ running)
  /\ UNCHANGED <<stakes, on, revisions, left, work, using, made, runs>>

\* selectStakes, or a brief whose triage moves the floor; another depth resets the switches.
SetStakes ==
  /\ ~running
  /\ changes < MaxChanges
  /\ changes' = changes + 1
  /\ \E level \in Levels \ {stakes} :
       /\ stakes' = level
       /\ on' = IF DepthOf[level] = DepthOf[stakes] THEN on ELSE DepthPlan[DepthOf[level]]
  /\ UNCHANGED <<template, stale, ctx, revisions, left, work, using, made, crossed, runs>>

ToggleStage(s) ==
  /\ ~running
  /\ ~LockedOn(s) /\ ~LockedOff(s)
  /\ changes < MaxChanges
  /\ changes' = changes + 1
  /\ on' = IF s \in on THEN on \ {s} ELSE on \cup {s}
  /\ UNCHANGED <<stakes, template, stale, ctx, revisions, left, work, using, made, crossed, runs>>

Next ==
  \/ RunAll \/ RerunStale \/ \E s \in Stages : RunOne(s)
  \/ Returns \/ Fails \/ Stop
  \/ Reset
  \/ \E s \in Editable : EditTemplate(s)
  \/ SetStakes
  \/ \E s \in Switchable : ToggleStage(s)

Spec == Init /\ [][Next]_vars

-----------------------------------------------------------------------------
(* Properties.                                                             *)

Templates == [version : Nat, reads : SUBSET Slots]

\* The state has the shape of the component's: a prompt revision is a number, those of the
\* verifications are numbers or null.
TypeOK ==
  /\ stakes \in 1..5
  /\ on \subseteq Stages /\ stale \subseteq Stages /\ left \subseteq Stages
  /\ template \in [Editable -> Templates] /\ using \in [Editable -> Templates]
  /\ revisions \in [prompt : Nat, lint : Nat \cup {Unchecked}, critic : Nat \cup {Unchecked}]
  /\ made \in Nat /\ crossed \in BOOLEAN
  /\ runs \in 0..MaxRuns /\ changes \in 0..MaxChanges

\* A verdict speaks of the prompt it is shown under: Lint judged exactly that prompt, and Critic
\* did where the stakes ask for one, whatever was run, rerun, stopped or edited in between.
ShippableIsVerified ==
  Verdict =>
    /\ ctx.lint.of = ctx.prompt.id
    /\ CriticRequired => ctx.critic.of = ctx.prompt.id

TextsOf(c) == c.spec \cup c.calibration \cup c.prompt.from \cup c.critique

\* Every text on the screen goes back only to stages that are not marked, and to their
\* templates as they are now.
TextsCurrent == \A p \in TextsOf(ctx) : p[1] \notin stale /\ p[2] = template[p[1]].version

\* A user who edits between runs, and lets Deconstruct and Calibrate read nothing that is made
\* after them.
Orderly ==
  /\ ~crossed
  /\ template[1].reads \subseteq {"spec"}
  /\ template[2].reads \subseteq {"spec", "calibration"}

\* What invalidateFrom keeps of the context is still valid, for an orderly user: whatever
\* Compile and the stages after it read, and whatever was run, rerun alone or stopped.
OrderlyTextsCurrent == Orderly => TextsCurrent

\* The same of a user who only keeps his edits out of the runs: rerunStale, "Invalidation only
\* ever marks a stage and its descendants, so everything before that point is still valid".
KeptTextsCurrent == ~crossed => TextsCurrent

\* A prompt with a verdict was made by the stages' templates as they are now: README.md of the
\* workbench, "Editing a stage template marks it and everything downstream stale, and the
\* verdict disappears until they are recomputed".
VerdictFollowsTemplates ==
  Verdict => \A p \in ctx.prompt.from : p[2] = template[p[1]].version

\* The same sentence of the marks, for a user who keeps his edits out of the runs: no verdict is
\* shown while a stage that a full run would recompute, other than Preview, is marked.
VerdictWaits == Verdict /\ ~crossed => stale \cap Runnable \subseteq {9}

\* The primary action of the keyboard does something whenever it is offered.
PrimaryActionRuns == ~running /\ stale # {} => stale \cap Runnable # {}

\* Harden is mandatory at SAFETY-CRITICAL: no verdict is shown under a prompt it had no part in.
HardenMandatory == Verdict /\ stakes = 5 => \E p \in ctx.prompt.from : p[1] = 4

=============================================================================
