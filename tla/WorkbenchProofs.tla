--------------------------- MODULE WorkbenchProofs ---------------------------
(***************************************************************************)
(* Theorems about Workbench, for any results, stakes, switches and numbers *)
(* of runs and edits, and about Shelf, for any prompts, lists found and    *)
(* limits.                                                                 *)
(*                                                                         *)
(* A run and the screen are two contexts under one set of revisions and    *)
(* one set of stale marks. `Verified` relates a context to the revisions,  *)
(* `Fresh` relates it to the marks and the templates; both are kept of the *)
(* two contexts at once, which is what the screen needs when the run       *)
(* replaces it. An edit during a run spoils the second until the context   *)
(* is next empty, which is what `crossed` records; and invalidateFrom      *)
(* reaches what an edit makes out of date only where nothing made later    *)
(* got into the two texts it may keep, the spec and the calibration. That  *)
(* is what Orderly asks of their templates, and `Fresh` of the contexts.   *)
(*                                                                         *)
(* What the browser keeps is in the last part: a list is what the user     *)
(* made of it once the writes under way have settled (Ahead).              *)
(***************************************************************************)
EXTENDS Workbench, Shelf, TLAPS, FiniteSetTheorems, SequenceTheorems

Judgements == [status : Results \cup {"", "SKIPPED"}, of : Nat]

Texts == SUBSET (Editable \X Nat)

Contexts ==
  [spec : Texts, calibration : Texts, prompt : [id : Nat, from : Texts],
   critique : Texts, lint : Judgements, critic : Judgements]

Counters == [prompt : Nat, lint : Nat \cup {Unchecked}, critic : Nat \cup {Unchecked}]

\* A run in progress.
Views ==
  [left : SUBSET Stages, work : Contexts, ctx : Contexts, revisions : Counters,
   stale : SUBSET Stages]

\* A result that counts for the prompt is one about it.
Verified(c, r) ==
  /\ c.lint # NoResult /\ r.lint = r.prompt => c.lint.of = c.prompt.id \/ c.prompt = NoPrompt
  /\ c.critic.status \notin {"", "SKIPPED"} /\ r.critic = r.prompt =>
       c.critic.of = c.prompt.id \/ c.prompt = NoPrompt

\* Deconstruct reads nothing made after it, or is to be run again; likewise Calibrate.
EarlyOne(marks, t) == 1 \in marks \/ t[1].reads \subseteq {"spec"}
EarlyTwo(marks, t) == 2 \in marks \/ t[2].reads \subseteq {"spec", "calibration"}

Current(p, marks, t) == p[1] \notin marks /\ p[2] = t[p[1]].version

\* Every text comes from unmarked stages, by their templates as they are, and the two that an
\* edit may leave come from the first stages only.
Fresh(c, marks, t) ==
  EarlyOne(marks, t) =>
    /\ \A p \in c.spec : p[1] = 1 /\ Current(p, marks, t)
    /\ EarlyTwo(marks, t) =>
         /\ \A p \in c.calibration : p[1] \in {1, 2}
         /\ \A p \in TextsOf(c) : Current(p, marks, t)

VerifiedView(v) ==
  v \in Views /\ Verified(v.work, v.revisions) /\ Verified(v.ctx, v.revisions)
FreshView(v, t) ==
  v \in Views /\ Fresh(v.work, v.stale, t) /\ Fresh(v.ctx, v.stale, t)

Shape ==
  /\ InProgress \in Views
  /\ template \in [Editable -> Templates] /\ using \in [Editable -> Templates]
  /\ made \in Nat
  /\ ~running => work = EmptyContext

VerifiedInv == Shape /\ VerifiedView(InProgress)
FreshInv ==
  Shape /\ (~crossed => FreshView(InProgress, template) /\ (running => using = template))

-----------------------------------------------------------------------------
(* Lemmas on the contexts.                                                 *)

LEMMA EmptyIsContext ==
  /\ EmptyContext \in Contexts /\ NoRevisions \in Counters
  /\ \A r : Verified(EmptyContext, r)
  /\ \A marks, t : Fresh(EmptyContext, marks, t)
BY DEF EmptyContext, Contexts, Texts, NoRevisions, Counters, Verified, Fresh, TextsOf, NoPrompt,
   NoResult, None, Judgements, Unchecked

LEMMA InProgressIs ==
  /\ InProgress.left = left /\ InProgress.work = work /\ InProgress.ctx = ctx
  /\ InProgress.revisions = revisions /\ InProgress.stale = stale
BY DEF InProgress, Starting

\* A stage that ends well puts its context on the screen.
LEMMA DoneIs ==
  ASSUME NEW v \in Views, NEW s, NEW c \in Contexts
  PROVE  LET w == Done(v, s, c) IN
         /\ w \in Views /\ w.left = v.left \ {s} /\ w.work = c /\ w.ctx = c
         /\ w.revisions = v.revisions /\ w.stale = v.stale \ {s}
BY DEF Done, Views

\* Every stage an edit can start from leads to the refined prompt, the first also to the
\* calibration, none back to the first, and none after Calibrate back to it.
LEMMA Descend ==
  /\ \A s \in Editable : DescendantsOf[s] \subseteq Stages /\ 1 \notin DescendantsOf[s]
  /\ \A s \in Editable : 6 \in {s} \cup DescendantsOf[s]
  /\ 2 \in DescendantsOf[1]
  /\ \A s \in Editable \ {1} : 2 \notin DescendantsOf[s]
<1>1. /\ Consumers(1) = {2, 3} /\ Consumers(2) = {3} /\ Consumers(3) = {4}
      /\ Consumers(4) = {5, 6} /\ Consumers(5) = {6}
  BY DEF Consumers, Stages, Deps
<1>2. \A d \in Stages : 1 \notin Consumers(d)
  BY DEF Consumers, Stages, Deps
<1>3. \A s \in Editable : s \in Stages /\ DescendantsOf[s] =
        {d \in Stages : \A S \in SUBSET Stages :
           (Consumers(s) \subseteq S /\ \A e \in S : Consumers(e) \subseteq S) => d \in S}
  BY DEF DescendantsOf, Stages, Editable
<1>4. ASSUME NEW s \in Editable PROVE 1 \notin DescendantsOf[s]
  <2> DEFINE S == Stages \ {1}
  <2>1. \A d \in Stages : Consumers(d) \subseteq S
    BY <1>2 DEF Consumers
  <2>2. S \in SUBSET Stages /\ 1 \notin S
    OBVIOUS
  <2>3. Consumers(s) \subseteq S /\ \A e \in S : Consumers(e) \subseteq S
    BY <1>3, <2>1
  <2> HIDE DEF S
  <2> SUFFICES ASSUME 1 \in DescendantsOf[s] PROVE 1 \in S
    BY <2>2
  <2> QED BY <1>3, <2>2, <2>3
<1>5. ASSUME NEW S \in SUBSET Stages, \A e \in S : Consumers(e) \subseteq S
      PROVE  /\ Consumers(1) \subseteq S => 2 \in S /\ 6 \in S
             /\ Consumers(2) \subseteq S => 6 \in S
             /\ Consumers(3) \subseteq S => 6 \in S
             /\ Consumers(4) \subseteq S => 6 \in S
             /\ Consumers(5) \subseteq S => 6 \in S
  <2>1. 3 \in S => 4 \in S
    BY <1>1, <1>5
  <2>2. 4 \in S => 6 \in S
    BY <1>1, <1>5
  <2> QED BY <1>1, <2>1, <2>2
<1>6. 2 \in DescendantsOf[1] /\ 6 \in DescendantsOf[1]
  BY <1>3, <1>5 DEF Stages, Editable
<1>7. 6 \in DescendantsOf[2] /\ 6 \in DescendantsOf[3]
  BY <1>3, <1>5 DEF Stages, Editable
<1>8. 6 \in DescendantsOf[4] /\ 6 \in DescendantsOf[5]
  BY <1>3, <1>5 DEF Stages, Editable
<1>9. \A s \in Editable : s = 1 \/ s = 2 \/ s = 3 \/ s = 4 \/ s = 5 \/ s = 6
  BY DEF Editable
<1>10. ASSUME NEW s \in Editable \ {1} PROVE 2 \notin DescendantsOf[s]
  <2> DEFINE S == Stages \ {1, 2}
  <2>1. \A d \in Stages \ {1} : Consumers(d) \subseteq S
    BY <1>2 DEF Consumers, Deps, Stages
  <2>2. S \in SUBSET Stages /\ 2 \notin S
    OBVIOUS
  <2>3. Consumers(s) \subseteq S /\ \A e \in S : Consumers(e) \subseteq S
    BY <1>3, <2>1
  <2> HIDE DEF S
  <2> SUFFICES ASSUME 2 \in DescendantsOf[s] PROVE 2 \in S
    BY <2>2
  <2> QED BY <1>3, <2>2, <2>3
<1> QED BY <1>3, <1>4, <1>6, <1>7, <1>8, <1>9, <1>10

\* What an invalidation leaves is what there was.
LEMMA InvalidatedIs ==
  ASSUME NEW c \in Contexts, NEW gone
  PROVE  LET k == Invalidated(c, gone) IN
         /\ k \in Contexts
         /\ \A r : Verified(c, r) => Verified(k, r)
         /\ k.spec = IF 1 \in gone THEN None ELSE c.spec
         /\ k.calibration = IF 2 \in gone THEN None ELSE c.calibration
         /\ 6 \in gone => k.prompt.from = None /\ k.critique = None
<1> DEFINE k == Invalidated(c, gone)
<1>1. /\ k.spec = (IF 1 \in gone THEN None ELSE c.spec)
      /\ k.calibration = (IF 2 \in gone THEN None ELSE c.calibration)
      /\ k.prompt = (IF gone \cap Producing # {} THEN NoPrompt ELSE c.prompt)
      /\ k.critique = (IF gone \cap {5, 6} # {} THEN None ELSE c.critique)
      /\ k.lint = (IF 7 \in gone THEN NoResult ELSE c.lint)
      /\ k.critic = (IF 8 \in gone THEN NoResult ELSE c.critic)
  BY DEF Invalidated
<1>2. NoPrompt \in [id : Nat, from : Texts] /\ NoResult \in Judgements
  BY DEF NoPrompt, NoResult, None, Judgements, Texts
<1>3. k = [spec |-> k.spec, calibration |-> k.calibration, prompt |-> k.prompt,
           critique |-> k.critique, lint |-> k.lint, critic |-> k.critic]
  BY DEF Invalidated
<1>4. k \in Contexts
  <2> HIDE DEF k
  <2>1. k.spec \in Texts /\ k.calibration \in Texts /\ k.critique \in Texts
    BY <1>1 DEF Contexts, Texts, None
  <2>2. k.prompt \in [id : Nat, from : Texts]
    BY <1>1, <1>2 DEF Contexts
  <2>3. k.lint \in Judgements /\ k.critic \in Judgements
    BY <1>1, <1>2 DEF Contexts
  <2> QED BY <1>3, <2>1, <2>2, <2>3 DEF Contexts
<1>5. ASSUME NEW r, Verified(c, r) PROVE Verified(k, r)
  <2> HIDE DEF k
  <2>1. k.prompt = c.prompt \/ k.prompt = NoPrompt
    BY <1>1
  <2>2. k.lint = c.lint \/ k.lint = NoResult
    BY <1>1
  <2>3. k.critic = c.critic \/ k.critic = NoResult
    BY <1>1
  <2>4. NoResult.status = ""
    BY DEF NoResult
  <2> QED BY <1>5, <2>1, <2>2, <2>3, <2>4 DEF Verified
<1>6. 6 \in gone => k.prompt.from = None /\ k.critique = None
  <2> HIDE DEF k
  <2>1. 6 \in gone => k.prompt = NoPrompt /\ k.critique = None
    BY <1>1 DEF Producing
  <2> QED BY <2>1 DEF NoPrompt
<1> HIDE DEF k
<1> QED BY <1>1, <1>4, <1>5, <1>6 DEF k

\* A stage after Calibrate ends well: it leaves the two early texts, and adds none but its own.
LEMMA LaterKeeps ==
  ASSUME NEW c \in Contexts, NEW d \in Contexts, NEW marks, NEW t,
         NEW s \in Stages \ {1, 2},
         d.spec = c.spec, d.calibration = c.calibration,
         \A p \in TextsOf(d) : p \in TextsOf(c) \/ (p[1] = s /\ p[2] = t[s].version),
         Fresh(c, marks, t)
  PROVE  Fresh(d, marks \ {s}, t)
<1> DEFINE m == marks \ {s}
<1>1. (EarlyOne(m, t) => EarlyOne(marks, t)) /\ (EarlyTwo(m, t) => EarlyTwo(marks, t))
  BY DEF EarlyOne, EarlyTwo
<1>2. \A p : Current(p, marks, t) => Current(p, m, t)
  BY DEF Current
<1>3. \A p : p[1] = s /\ p[2] = t[s].version => Current(p, m, t)
  BY DEF Current
<1> HIDE DEF m
<1> QED BY <1>1, <1>2, <1>3 DEF Fresh, m

-----------------------------------------------------------------------------
(* The verifications a run does on its way.                                *)

LEMMA LintFirstKeeps ==
  ASSUME NEW v \in Views, NEW result \in Results
  PROVE  LET w == LintFirst(v, result) IN
         /\ w \in Views
         /\ VerifiedView(v) => VerifiedView(w)
         /\ \A t : FreshView(v, t) => FreshView(w, t)
<1> DEFINE w == LintFirst(v, result)
<1>1. CASE First(v.left) # 7
  BY <1>1 DEF LintFirst
<1>2. CASE First(v.left) = 7 /\ v.work.prompt = NoPrompt
  <2>1. w = Done(v, 7, v.work)
    BY <1>2 DEF LintFirst
  <2>2. v.work \in Contexts
    BY DEF Views
  <2> HIDE DEF w
  <2>3. /\ w \in Views /\ w.work = v.work /\ w.ctx = v.work
        /\ w.revisions = v.revisions /\ w.stale = v.stale \ {7}
    BY <2>1, <2>2, DoneIs
  <2>4. ASSUME NEW t, FreshView(v, t) PROVE Fresh(v.work, v.stale \ {7}, t)
    <3>1. v.work \in Contexts /\ Fresh(v.work, v.stale, t) /\ 7 \in Stages \ {1, 2}
      BY <2>2, <2>4 DEF FreshView, Stages
    <3>2. \A c \in Contexts : Fresh(c, v.stale, t) => Fresh(c, v.stale \ {7}, t)
      BY <3>1, LaterKeeps
    <3> QED BY <3>1, <3>2
  <2> QED BY <2>3, <2>4 DEF w, VerifiedView, FreshView
<1>3. CASE First(v.left) = 7 /\ v.work.prompt # NoPrompt
  <2> DEFINE c == [v.work EXCEPT !.lint = [status |-> result, of |-> v.work.prompt.id]]
             u == Done(v, 7, c)
  <2>1. w = [u EXCEPT !.revisions.lint = v.revisions.prompt]
    BY <1>3 DEF LintFirst
  <2>2. v.work \in Contexts /\ v.revisions \in Counters
    BY DEF Views
  <2>3. /\ c \in Contexts /\ c.prompt = v.work.prompt /\ c.critic = v.work.critic
        /\ c.spec = v.work.spec /\ c.calibration = v.work.calibration
        /\ c.critique = v.work.critique /\ c.lint.of = c.prompt.id
    BY <2>2 DEF Contexts, Judgements
  <2> HIDE DEF c
  <2>4. /\ u \in Views /\ u.work = c /\ u.ctx = c
        /\ u.revisions = v.revisions /\ u.stale = v.stale \ {7}
    BY <2>3, DoneIs
  <2> DEFINE r == [u.revisions EXCEPT !.lint = v.revisions.prompt]
  <2>5. /\ r \in Counters /\ r.prompt = v.revisions.prompt /\ r.critic = v.revisions.critic
    BY <2>2, <2>4 DEF Counters
  <2> HIDE DEF u
  <2>6. w = [u EXCEPT !.revisions = r]
    BY <2>1, <2>4 DEF Views
  <2> HIDE DEF r, w
  <2>7. /\ w \in Views /\ w.work = c /\ w.ctx = c /\ w.revisions = r /\ w.stale = v.stale \ {7}
    BY <2>4, <2>5, <2>6 DEF Views
  <2>8. VerifiedView(v) => Verified(c, r)
    BY <2>3, <2>5 DEF VerifiedView, Verified
  <2>9. ASSUME NEW t, FreshView(v, t) PROVE Fresh(c, v.stale \ {7}, t)
    <3>1. TextsOf(c) = TextsOf(v.work)
      BY <2>3 DEF TextsOf
    <3>2. 7 \in Stages \ {1, 2} /\ Fresh(v.work, v.stale, t)
      BY <2>9 DEF FreshView, Stages
    <3> QED BY <2>2, <2>3, <3>1, <3>2, LaterKeeps
  <2> QED BY <2>7, <2>8, <2>9 DEF w, VerifiedView, FreshView
<1> QED BY <1>1, <1>2, <1>3

LEMMA SkippedIs ==
  ASSUME NEW v \in Views
  PROVE  LET c == Skipped(v) IN
         /\ c \in Contexts /\ c.lint = v.work.lint /\ c.prompt = v.work.prompt
         /\ c.spec = v.work.spec /\ c.calibration = v.work.calibration
         /\ TextsOf(c) = TextsOf(v.work) /\ c.critic.status = "SKIPPED"
BY DEF Skipped, Views, Contexts, Judgements, TextsOf

LEMMA CriticFirstKeeps ==
  ASSUME NEW v \in Views
  PROVE  LET w == CriticFirst(v) IN
         /\ w \in Views
         /\ VerifiedView(v) => VerifiedView(w)
         /\ \A t : FreshView(v, t) => FreshView(w, t)
<1> DEFINE w == CriticFirst(v)
           c == Skipped(v)
           u == Done(v, 8, c)
<1>1. CASE w = v
  BY <1>1
<1>2. CASE w = u \/ w = [u EXCEPT !.stale = v.stale]
  <2>1. /\ c \in Contexts /\ c.lint = v.work.lint /\ c.prompt = v.work.prompt
        /\ c.spec = v.work.spec /\ c.calibration = v.work.calibration
        /\ TextsOf(c) = TextsOf(v.work) /\ c.critic.status = "SKIPPED"
    BY SkippedIs
  <2> HIDE DEF c
  <2>2. /\ u \in Views /\ u.work = c /\ u.ctx = c
        /\ u.revisions = v.revisions /\ u.stale = v.stale \ {8}
    BY <2>1, DoneIs
  <2>3. v.stale \in SUBSET Stages
    BY DEF Views
  <2> HIDE DEF u, w
  <2>4. /\ w \in Views /\ w.work = c /\ w.ctx = c /\ w.revisions = v.revisions
        /\ w.stale = v.stale \/ w.stale = v.stale \ {8}
    BY <1>2, <2>2, <2>3 DEF Views
  <2>5. VerifiedView(v) => Verified(c, v.revisions)
    BY <2>1 DEF VerifiedView, Verified
  <2>6. ASSUME NEW t, FreshView(v, t) PROVE Fresh(c, w.stale, t)
    <3>1. v.work \in Contexts /\ Fresh(v.work, v.stale, t)
      BY <2>6 DEF FreshView, Views
    <3>2. CASE w.stale = v.stale
      BY <2>1, <3>1, <3>2 DEF Fresh
    <3>3. CASE w.stale = v.stale \ {8}
      <4>1. 8 \in Stages \ {1, 2} /\ \A p \in TextsOf(c) : p \in TextsOf(v.work)
        BY <2>1 DEF Stages
      <4>2. Fresh(c, v.stale \ {8}, t)
        BY <2>1, <3>1, <4>1, LaterKeeps
      <4> QED BY <3>3, <4>2
    <3> QED BY <2>4, <3>2, <3>3
  <2> QED BY <2>4, <2>5, <2>6 DEF w, VerifiedView, FreshView
<1>3. w = v \/ w = u \/ w = [u EXCEPT !.stale = v.stale]
  BY DEF CriticFirst
<1> QED BY <1>1, <1>2, <1>3

\* Wherever a run goes on from, it goes on to a state of the same kind.
LEMMA ProceedKeeps ==
  ASSUME NEW v \in Views, Proceed(v)
  PROVE  /\ InProgress' \in Views /\ (~running => work = EmptyContext)'
         /\ VerifiedView(v) => VerifiedView(InProgress)'
         /\ \A t : FreshView(v, t) => FreshView(InProgress', t)
<1>1. PICK result \in Results :
        LET w == CriticFirst(LintFirst(v, result)) IN
        /\ left' = w.left
        /\ ctx' = w.ctx
        /\ work' = IF w.left = {} THEN EmptyContext ELSE w.work
        /\ revisions' = w.revisions
        /\ stale' = w.stale
  BY DEF Proceed
<1> DEFINE w == CriticFirst(LintFirst(v, result))
<1>2. w \in Views /\ (VerifiedView(v) => VerifiedView(w)) 
      /\ \A t : FreshView(v, t) => FreshView(w, t)
  BY LintFirstKeeps, CriticFirstKeeps
<1>3. /\ left' = w.left /\ ctx' = w.ctx /\ revisions' = w.revisions /\ stale' = w.stale
      /\ work' = IF w.left = {} THEN EmptyContext ELSE w.work
  BY <1>1
<1> HIDE DEF w
<1> DEFINE n == InProgress'
<1>4. n = [left |-> w.left, ctx |-> w.ctx, revisions |-> w.revisions, stale |-> w.stale,
           work |-> IF w.left = {} THEN EmptyContext ELSE w.work]
  BY <1>3 DEF InProgress, Starting
<1> HIDE DEF n
<1>5. /\ n \in Views /\ n.ctx = w.ctx /\ n.revisions = w.revisions /\ n.stale = w.stale
      /\ n.work = EmptyContext \/ n.work = w.work
  BY <1>2, <1>4, EmptyIsContext DEF Views
<1>6. VerifiedView(v) => VerifiedView(n)
  BY <1>2, <1>5, EmptyIsContext DEF VerifiedView
<1>7. \A t : FreshView(v, t) => FreshView(n, t)
  BY <1>2, <1>5, EmptyIsContext DEF FreshView
<1>8. (~running => work = EmptyContext)'
  BY <1>3 DEF running
<1>9. VerifiedView(n) => VerifiedView(InProgress)'
  BY DEF n, VerifiedView, Verified
<1> QED BY <1>5, <1>6, <1>7, <1>8, <1>9 DEF n

-----------------------------------------------------------------------------
(* The steps.                                                              *)

LEMMA ViewOf ==
  ASSUME NEW todo \in SUBSET Stages, NEW c \in Contexts, NEW r \in Counters,
         NEW marks \in SUBSET Stages
  PROVE  LET v == Starting(todo, c, c, r, marks) IN
         /\ v \in Views
         /\ Verified(c, r) => VerifiedView(v)
         /\ \A t : Fresh(c, marks, t) => FreshView(v, t)
BY DEF Starting, Views, VerifiedView, FreshView

\* What a run starts from is what the screen shows, or nothing.
LEMMA BeginKeeps ==
  ASSUME Shape, NEW v \in Views, Begin(v)
  PROVE  /\ Shape'
         /\ VerifiedView(v) => VerifiedInv'
         /\ crossed' \/ FreshView(v, template) => FreshInv'
<1>1. Proceed(v) /\ using' = template /\ UNCHANGED <<template, made>>
  BY DEF Begin
<1>2. /\ InProgress' \in Views /\ (~running => work = EmptyContext)'
      /\ VerifiedView(v) => VerifiedView(InProgress)'
      /\ FreshView(v, template) => FreshView(InProgress, template)'
  BY <1>1, ProceedKeeps
<1>3. Shape'
  BY <1>1, <1>2 DEF Shape
<1> QED BY <1>1, <1>2, <1>3 DEF VerifiedInv, FreshInv

LEMMA RunnableAreStages == Runnable \subseteq Stages
BY DEF Runnable

LEMMA FullRunView ==
  LET v == Starting(Runnable, EmptyContext, EmptyContext, NoRevisions, {}) IN
  v \in Views /\ VerifiedView(v) /\ \A t : FreshView(v, t)
BY ViewOf, EmptyIsContext, RunnableAreStages

LEMMA FromScreenView ==
  ASSUME Shape, NEW todo \in SUBSET Stages
  PROVE  LET v == Starting(todo, ctx, ctx, revisions, stale) IN
         /\ v \in Views
         /\ VerifiedView(InProgress) => VerifiedView(v)
         /\ \A t : FreshView(InProgress, t) => FreshView(v, t)
<1>1. ctx \in Contexts /\ revisions \in Counters /\ stale \in SUBSET Stages
  BY InProgressIs DEF Shape, Views
<1>2. VerifiedView(InProgress) => Verified(ctx, revisions)
  BY InProgressIs DEF VerifiedView
<1>3. \A t : FreshView(InProgress, t) => Fresh(ctx, stale, t)
  BY InProgressIs DEF FreshView
<1> QED BY <1>1, <1>2, <1>3, ViewOf

\* The three buttons that start a run.
LEMMA StartKeeps ==
  ASSUME Shape, RunAll \/ RerunStale \/ \E s \in Stages : RunOne(s)
  PROVE  (VerifiedInv => VerifiedInv') /\ (FreshInv => FreshInv')
<1>1. CASE FullRun
  BY <1>1, FullRunView, BeginKeeps DEF FullRun
<1>2. ASSUME NEW todo \in SUBSET Stages, UNCHANGED crossed,
             Begin(Starting(todo, ctx, ctx, revisions, stale))
      PROVE  (VerifiedInv => VerifiedInv') /\ (FreshInv => FreshInv')
  <2> DEFINE v == Starting(todo, ctx, ctx, revisions, stale)
  <2>1. /\ v \in Views /\ (VerifiedView(InProgress) => VerifiedView(v))
        /\ FreshView(InProgress, template) => FreshView(v, template)
    BY FromScreenView
  <2> HIDE DEF v
  <2>2. Begin(v)
    BY <1>2 DEF v
  <2> QED BY <1>2, <2>1, <2>2, BeginKeeps DEF VerifiedInv, FreshInv
<1>3. CASE RunAll
  BY <1>1, <1>3 DEF RunAll
<1>4. CASE RerunStale
  <2>1. {d \in Runnable : d >= Min(stale \cap Runnable)} \in SUBSET Stages
    BY RunnableAreStages
  <2> QED BY <1>1, <1>2, <1>4, <2>1 DEF RerunStale
<1>5. ASSUME NEW s \in Stages, RunOne(s)
      PROVE  (VerifiedInv => VerifiedInv') /\ (FreshInv => FreshInv')
  <2>1. {s} \in SUBSET Stages
    BY <1>5
  <2> QED BY <1>2, <1>5, <2>1 DEF RunOne
<1> QED BY <1>3, <1>4, <1>5

\* What a build stage makes goes back to its template and to the texts that reads.
LEMMA MadeOfIs ==
  ASSUME Shape, NEW s \in Editable
  PROVE  LET texts == MadeOf(s, work)
             own == {<<s, using[s].version>>} IN
         /\ texts \in Texts
         /\ texts \subseteq TextsOf(work) \cup own
         /\ using[s].reads \subseteq {"spec"} => texts \subseteq work.spec \cup own
         /\ using[s].reads \subseteq {"spec", "calibration"} =>
              texts \subseteq work.spec \cup work.calibration \cup own
<1> DEFINE own == {<<s, using[s].version>>}
           texts == MadeOf(s, work)
<1>1. work \in Contexts /\ using[s] \in Templates
  BY InProgressIs DEF Shape, Views
<1>2. own \in Texts /\ using[s].reads \subseteq Slots
  BY <1>1 DEF Templates, Texts
<1>3. /\ TextIn("spec", work) = work.spec /\ TextIn("calibration", work) = work.calibration
      /\ TextIn("prompt", work) = work.prompt.from /\ TextIn("critique", work) = work.critique
  BY DEF TextIn
<1>4. \A p \in texts : p \in own \/ \E slot \in using[s].reads : p \in TextIn(slot, work)
  BY DEF MadeOf
<1> HIDE DEF own, texts
<1>5. \A slot \in Slots : TextIn(slot, work) \subseteq TextsOf(work)
  BY <1>3 DEF Slots, TextsOf
<1>6. texts \subseteq TextsOf(work) \cup own
  BY <1>2, <1>4, <1>5
<1>7. TextsOf(work) \in Texts
  BY <1>1 DEF TextsOf, Contexts, Texts
<1>8. texts \in Texts
  BY <1>2, <1>6, <1>7 DEF Texts
<1>9. using[s].reads \subseteq {"spec"} => texts \subseteq work.spec \cup own
  BY <1>3, <1>4
<1>10. using[s].reads \subseteq {"spec", "calibration"} =>
         texts \subseteq work.spec \cup work.calibration \cup own
  BY <1>3, <1>4
<1> QED BY <1>6, <1>8, <1>9, <1>10 DEF own, texts

\* A prompt and its revision: the results of the one before count no more.
LEMMA DraftedKeeps ==
  ASSUME Shape, running, NEW s \in Producing, NEW full \in BOOLEAN
  PROVE  LET v == Drafted(InProgress, s, full) IN
         /\ v \in Views /\ VerifiedView(v)
         /\ FreshInv /\ ~crossed => FreshView(v, template)
<1> DEFINE v == Drafted(InProgress, s, full)
           p == Prompt(s, work, full)
           k == Compiled(InProgress, p)
           c == IF s = 6 THEN [k EXCEPT !.critique = None] ELSE k
           u == NextRevision(InProgress)
           texts == MadeOf(s, work)
           own == {<<s, using[s].version>>}
<1>1. /\ InProgress \in Views /\ work \in Contexts /\ revisions \in Counters
      /\ stale \in SUBSET Stages /\ made \in Nat
  BY InProgressIs DEF Shape, Views
<1>2. s \in Editable /\ (s = 3 \/ s = 4 \/ s = 6)
  BY DEF Producing, Editable
<1>3. texts \in Texts /\ texts \subseteq TextsOf(work) \cup own
  BY <1>2, MadeOfIs
<1> HIDE DEF texts, own
<1>4. /\ p \in [id : Nat, from : Texts]
      /\ p.from \subseteq TextsOf(work) \cup own
  <2>1. CASE full
    <3>1. p = [id |-> made + 1, from |-> texts]
      BY <2>1 DEF Prompt, texts
    <3> QED BY <3>1, <1>1, <1>3
  <2>2. CASE ~full
    <3>1. p = [id |-> 0, from |-> {}]
      BY <2>2 DEF Prompt, NoPrompt, None
    <3> QED BY <3>1 DEF Texts
  <2> QED BY <2>1, <2>2
<1> HIDE DEF p
<1>6. /\ k = [work EXCEPT !.prompt = p, !.lint = NoResult, !.critic = NoResult]
      /\ NoResult \in Judgements /\ NoResult.status = ""
  BY InProgressIs DEF Compiled, NoResult, Judgements
<1> HIDE DEF k
<1>7. /\ k \in Contexts /\ k.prompt = p /\ k.lint = NoResult /\ k.critic = NoResult
      /\ k.spec = work.spec /\ k.calibration = work.calibration /\ k.critique = work.critique
  BY <1>1, <1>4, <1>6 DEF Contexts
<1>8. /\ c \in Contexts /\ c.prompt = p /\ c.lint = NoResult /\ c.critic = NoResult
      /\ c.spec = work.spec /\ c.calibration = work.calibration
      /\ c.critique = work.critique \/ c.critique = {}
  BY <1>7 DEF Contexts, Texts, None
<1> HIDE DEF c
<1>9. /\ u \in Views /\ u.stale = stale
      /\ u.revisions.lint = Unchecked /\ u.revisions.critic = Unchecked
      /\ u.revisions.prompt = revisions.prompt + 1
  <2> DEFINE r == [prompt |-> revisions.prompt + 1, lint |-> Unchecked, critic |-> Unchecked]
  <2>1. r \in Counters
    BY <1>1 DEF Counters
  <2>2. u = [InProgress EXCEPT !.revisions = r]
    BY InProgressIs DEF NextRevision
  <2>3. r.lint = Unchecked /\ r.critic = Unchecked /\ r.prompt = revisions.prompt + 1
    OBVIOUS
  <2> HIDE DEF r, u
  <2>4. u \in Views /\ u.stale = InProgress.stale /\ u.revisions = r
    BY <1>1, <2>1, <2>2 DEF Views
  <2> QED BY <2>3, <2>4, InProgressIs
<1> HIDE DEF u
<1>10. v = Done(u, s, c)
  BY InProgressIs DEF Drafted, c, k, u, p
<1> HIDE DEF v
<1>11. v \in Views /\ v.work = c /\ v.ctx = c /\ v.revisions = u.revisions
       /\ v.stale = stale \ {s}
  BY <1>8, <1>9, <1>10, DoneIs
<1>12. Verified(c, u.revisions)
  BY <1>6, <1>8 DEF Verified
<1>13. VerifiedView(v)
  BY <1>11, <1>12 DEF VerifiedView
<1>14. ASSUME FreshInv, ~crossed PROVE Fresh(c, stale \ {s}, template)
  <2>1. Fresh(work, stale, template) /\ using = template
    BY <1>14, InProgressIs DEF FreshInv, FreshView
  <2>2. TextsOf(c) \subseteq TextsOf(work) \cup own
    BY <1>4, <1>8 DEF TextsOf
  <2>3. \A q \in own : q[1] = s /\ q[2] = template[s].version
    BY <2>1 DEF own
  <2>4. s \in Stages \ {1, 2}
    BY <1>2 DEF Stages
  <2>5. \A q \in TextsOf(c) : q \in TextsOf(work) \/ (q[1] = s /\ q[2] = template[s].version)
    BY <2>2, <2>3
  <2> QED BY <1>1, <1>8, <2>1, <2>4, <2>5, LaterKeeps
<1>15. FreshInv /\ ~crossed => FreshView(v, template)
  BY <1>11, <1>14 DEF FreshView
<1> QED BY <1>11, <1>13, <1>15 DEF v

\* One text, empty or made by stage s, put where that stage writes.
Written(s, c) ==
  /\ c.prompt = work.prompt /\ c.lint = work.lint /\ c.critic = work.critic
  /\ \E text : /\ text = {} \/ text = MadeOf(s, work)
               /\ TextsOf(c) \subseteq TextsOf(work) \cup text
               /\ c.spec = IF s = 1 THEN text ELSE work.spec
               /\ c.calibration = IF s = 2 THEN text ELSE work.calibration

\* A stage that makes no prompt does that.
LEMMA TextIs ==
  ASSUME Shape, NEW s \in {1, 2, 5}, NEW full \in BOOLEAN, NEW c,
         LET text == Text(s, work, full) IN
         \/ s = 1 /\ c = [work EXCEPT !.spec = text]
         \/ s = 2 /\ c = [work EXCEPT !.calibration = text]
         \/ s = 5 /\ c = [work EXCEPT !.critique = text]
  PROVE  c \in Contexts /\ Written(s, c)
<1> DEFINE text == Text(s, work, full)
<1>1. work \in Contexts /\ s \in Editable
  BY InProgressIs DEF Shape, Views, Editable
<1>2. text = {} \/ text = MadeOf(s, work)
  BY DEF Text, None
<1>3. text \in Texts
  BY <1>1, <1>2, MadeOfIs DEF Texts
<1>4. \/ c = [work EXCEPT !.spec = text] /\ s = 1
      \/ c = [work EXCEPT !.calibration = text] /\ s = 2
      \/ c = [work EXCEPT !.critique = text] /\ s = 5
  OBVIOUS
<1> HIDE DEF text
<1>5. /\ c \in Contexts /\ c.prompt = work.prompt
      /\ c.lint = work.lint /\ c.critic = work.critic
      /\ c.spec = IF s = 1 THEN text ELSE work.spec
      /\ c.calibration = IF s = 2 THEN text ELSE work.calibration
      /\ c.critique = IF s = 5 THEN text ELSE work.critique
  BY <1>1, <1>3, <1>4 DEF Contexts
<1>6. TextsOf(c) \subseteq TextsOf(work) \cup text
  BY <1>5 DEF TextsOf
<1> QED BY <1>2, <1>5, <1>6 DEF Written

\* Deconstruct and Calibrate, read by the templates they were started with, make early texts.
LEMMA EarlyKeeps ==
  ASSUME Shape, NEW s \in {1, 2}, NEW c \in Contexts, Written(s, c),
         using = template, Fresh(work, stale, template)
  PROVE  Fresh(c, stale \ {s}, template)
<1> DEFINE m == stale \ {s}
           own == {<<s, using[s].version>>}
<1>1. (EarlyOne(m, template) => EarlyOne(stale, template))
      /\ (EarlyTwo(m, template) => EarlyTwo(stale, template))
  BY DEF EarlyOne, EarlyTwo
<1>2. \A p : Current(p, stale, template) => Current(p, m, template)
  BY DEF Current
<1>3. \A p \in own : p[1] = s /\ Current(p, m, template)
  BY DEF Current
<1> PICK text :
      /\ text = {} \/ text = MadeOf(s, work)
      /\ TextsOf(c) \subseteq TextsOf(work) \cup text
      /\ c.spec = IF s = 1 THEN text ELSE work.spec
      /\ c.calibration = IF s = 2 THEN text ELSE work.calibration
  BY DEF Written
<1>4. /\ text \subseteq TextsOf(work) \cup own
      /\ using[s].reads \subseteq {"spec"} => text \subseteq work.spec \cup own
      /\ using[s].reads \subseteq {"spec", "calibration"} =>
           text \subseteq work.spec \cup work.calibration \cup own
  BY MadeOfIs DEF Editable
<1>5. /\ s = 1 /\ EarlyOne(m, template) => using[s].reads \subseteq {"spec"}
      /\ s = 2 /\ EarlyTwo(m, template) => using[s].reads \subseteq {"spec", "calibration"}
  BY DEF EarlyOne, EarlyTwo
<1> HIDE DEF m, own
<1>6. ASSUME EarlyOne(m, template)
      PROVE  \A p \in c.spec : p[1] = 1 /\ Current(p, m, template)
  <2>1. \A p \in work.spec : p[1] = 1 /\ Current(p, m, template)
    BY <1>1, <1>2, <1>6 DEF Fresh
  <2>2. c.spec = work.spec \/ (s = 1 /\ c.spec \subseteq work.spec \cup own)
    BY <1>4, <1>5, <1>6
  <2> QED BY <1>3, <2>1, <2>2
<1>7. ASSUME EarlyOne(m, template), EarlyTwo(m, template)
      PROVE  /\ \A p \in c.calibration : p[1] \in {1, 2}
             /\ \A p \in TextsOf(c) : Current(p, m, template)
  <2>1. /\ \A p \in work.spec : p[1] = 1
        /\ \A p \in work.calibration : p[1] \in {1, 2}
        /\ \A p \in TextsOf(work) : Current(p, m, template)
    BY <1>1, <1>2, <1>7 DEF Fresh
  <2>2. \/ c.calibration = work.calibration
        \/ s = 2 /\ c.calibration \subseteq work.spec \cup work.calibration \cup own
    BY <1>4, <1>5, <1>7
  <2>3. TextsOf(c) \subseteq TextsOf(work) \cup own
    BY <1>4
  <2> QED BY <1>3, <2>1, <2>2, <2>3
<1> QED BY <1>6, <1>7 DEF Fresh, m

\* The context after such a stage.
LEMMA TextKeeps ==
  ASSUME Shape, running, NEW s \in {1, 2, 5}, NEW c \in Contexts, Written(s, c)
  PROVE  LET v == Done(InProgress, s, c) IN
         /\ v \in Views
         /\ VerifiedInv => VerifiedView(v)
         /\ FreshInv /\ ~crossed => FreshView(v, template)
<1> DEFINE v == Done(InProgress, s, c)
           own == {<<s, using[s].version>>}
<1>1. InProgress \in Views /\ work \in Contexts
  BY InProgressIs DEF Shape, Views
<1>2. /\ v \in Views /\ v.work = c /\ v.ctx = c /\ v.revisions = revisions
      /\ v.stale = stale \ {s}
  BY <1>1, DoneIs, InProgressIs
<1> HIDE DEF v
<1>3. VerifiedInv => Verified(c, revisions)
  BY InProgressIs DEF VerifiedInv, VerifiedView, Verified, Written
<1>4. ASSUME FreshInv, ~crossed PROVE Fresh(c, stale \ {s}, template)
  <2>1. Fresh(work, stale, template) /\ using = template
    BY <1>4, InProgressIs DEF FreshInv, FreshView
  <2>2. PICK text :
          /\ text = {} \/ text = MadeOf(s, work)
          /\ TextsOf(c) \subseteq TextsOf(work) \cup text
          /\ c.spec = IF s = 1 THEN text ELSE work.spec
          /\ c.calibration = IF s = 2 THEN text ELSE work.calibration
    BY DEF Written
  <2>3. CASE s \in {1, 2}
    BY <2>1, <2>3, EarlyKeeps
  <2>4. CASE s = 5
    <3>1. text \subseteq TextsOf(work) \cup own
      BY <2>2, <2>4, MadeOfIs DEF Editable
    <3>2. \A p \in own : p[1] = s /\ p[2] = template[s].version
      BY <2>1
    <3> HIDE DEF own
    <3>3. \A p \in TextsOf(c) : p \in TextsOf(work) \/ (p[1] = s /\ p[2] = template[s].version)
      BY <2>2, <3>1, <3>2
    <3>4. c.spec = work.spec /\ c.calibration = work.calibration /\ s \in Stages \ {1, 2}
      BY <2>2, <2>4 DEF Stages
    <3> QED BY <1>1, <2>1, <3>3, <3>4, LaterKeeps
  <2> QED BY <2>3, <2>4
<1> QED BY <1>2, <1>3, <1>4 DEF v, VerifiedView, FreshView

\* A judgement of Critic is about the prompt it was asked about, and is dated by its revision.
LEMMA CriticKeeps ==
  ASSUME Shape, running, NEW result \in Results
  PROVE  LET c == [work EXCEPT !.critic = [status |-> result, of |-> work.prompt.id]]
             v == [Done(InProgress, 8, c) EXCEPT !.revisions.critic = revisions.prompt] IN
         /\ v \in Views
         /\ VerifiedInv => VerifiedView(v)
         /\ FreshInv /\ ~crossed => FreshView(v, template)
<1> DEFINE c == [work EXCEPT !.critic = [status |-> result, of |-> work.prompt.id]]
           u == Done(InProgress, 8, c)
           v == [u EXCEPT !.revisions.critic = revisions.prompt]
           r == [revisions EXCEPT !.critic = revisions.prompt]
<1>1. InProgress \in Views /\ work \in Contexts /\ revisions \in Counters
  BY InProgressIs DEF Shape, Views
<1>2. /\ c \in Contexts /\ c.prompt = work.prompt /\ c.lint = work.lint
      /\ c.spec = work.spec /\ c.calibration = work.calibration
      /\ TextsOf(c) = TextsOf(work) /\ c.critic.of = c.prompt.id
  BY <1>1 DEF Contexts, Judgements, TextsOf
<1>3. r \in Counters /\ r.prompt = revisions.prompt /\ r.lint = revisions.lint
  BY <1>1 DEF Counters
<1> HIDE DEF c
<1>4. /\ u \in Views /\ u.work = c /\ u.ctx = c /\ u.revisions = revisions
      /\ u.stale = stale \ {8}
  BY <1>1, <1>2, DoneIs, InProgressIs
<1> HIDE DEF u
<1>5. v = [u EXCEPT !.revisions = r]
  BY <1>4 DEF Views
<1> HIDE DEF v, r
<1>6. /\ v \in Views /\ v.work = c /\ v.ctx = c /\ v.revisions = r /\ v.stale = stale \ {8}
  BY <1>3, <1>4, <1>5 DEF Views
<1>7. VerifiedInv => Verified(c, r)
  BY <1>2, <1>3, InProgressIs DEF VerifiedInv, VerifiedView, Verified
<1>8. ASSUME FreshInv, ~crossed PROVE Fresh(c, stale \ {8}, template)
  <2>1. Fresh(work, stale, template)
    BY <1>8, InProgressIs DEF FreshInv, FreshView
  <2>2. 8 \in Stages \ {1, 2}
    BY DEF Stages
  <2> QED BY <1>1, <1>2, <2>1, <2>2, LaterKeeps
<1> QED BY <1>6, <1>7, <1>8 DEF v, u, c, VerifiedView, FreshView

\* An answer of the provider.
LEMMA ReturnsKeeps ==
  ASSUME Shape, Returns
  PROVE  (VerifiedInv => VerifiedInv') /\ (FreshInv => FreshInv')
<1>1. running /\ UNCHANGED <<template, using, crossed>>
  BY DEF Returns
<1>2. ASSUME NEW v \in Views, Proceed(v), made' \in Nat,
             VerifiedInv => VerifiedView(v),
             FreshInv /\ ~crossed => FreshView(v, template)
      PROVE  (VerifiedInv => VerifiedInv') /\ (FreshInv => FreshInv')
  <2>1. /\ InProgress' \in Views /\ (~running => work = EmptyContext)'
        /\ VerifiedView(v) => VerifiedView(InProgress)'
        /\ FreshView(v, template) => FreshView(InProgress, template)'
    BY <1>1, <1>2, ProceedKeeps
  <2>2. Shape'
    BY <1>1, <1>2, <2>1 DEF Shape
  <2> QED BY <1>1, <1>2, <2>1, <2>2 DEF VerifiedInv, FreshInv
<1>3. CASE /\ First(left) \in Producing
           /\ \E full \in BOOLEAN : Proceed(Drafted(InProgress, First(left), full))
           /\ made' = made + 1
  <2>1. PICK full \in BOOLEAN : Proceed(Drafted(InProgress, First(left), full))
    BY <1>3
  <2>2. made' \in Nat
    BY <1>3 DEF Shape
  <2> QED BY <1>1, <1>2, <1>3, <2>1, <2>2, DraftedKeeps
<1>4. work \in Contexts /\ made \in Nat
  BY InProgressIs DEF Shape, Views
<1>5. ASSUME made' = made, NEW s \in {1, 2, 5}, NEW full \in BOOLEAN, NEW c,
             LET text == Text(s, work, full) IN
             \/ s = 1 /\ c = [work EXCEPT !.spec = text]
             \/ s = 2 /\ c = [work EXCEPT !.calibration = text]
             \/ s = 5 /\ c = [work EXCEPT !.critique = text],
             Proceed(Done(InProgress, s, c))
      PROVE  (VerifiedInv => VerifiedInv') /\ (FreshInv => FreshInv')
  <2>1. c \in Contexts /\ Written(s, c)
    BY <1>5, TextIs
  <2> DEFINE v == Done(InProgress, s, c)
  <2>2. /\ v \in Views /\ (VerifiedInv => VerifiedView(v))
        /\ FreshInv /\ ~crossed => FreshView(v, template)
    BY <1>1, <1>5, <2>1, TextKeeps
  <2>3. Proceed(v)
    BY <1>5
  <2> HIDE DEF v
  <2> QED BY <1>2, <1>4, <1>5, <2>2, <2>3
<1>6. ASSUME made' = made, NEW s \in {1, 2, 5}, NEW full \in BOOLEAN,
             LET text == Text(s, work, full) IN
             \/ s = 1 /\ Proceed(Done(InProgress, s, [work EXCEPT !.spec = text]))
             \/ s = 2 /\ Proceed(Done(InProgress, s, [work EXCEPT !.calibration = text]))
             \/ s = 5 /\ Proceed(Done(InProgress, s, [work EXCEPT !.critique = text]))
      PROVE  (VerifiedInv => VerifiedInv') /\ (FreshInv => FreshInv')
  BY <1>5, <1>6
<1>8. ASSUME made' = made, NEW result \in Results,
             LET c == [work EXCEPT !.critic = [status |-> result, of |-> work.prompt.id]] IN
             Proceed([Done(InProgress, 8, c) EXCEPT !.revisions.critic = revisions.prompt])
      PROVE  (VerifiedInv => VerifiedInv') /\ (FreshInv => FreshInv')
  BY <1>1, <1>2, <1>4, <1>8, CriticKeeps
<1>9. ASSUME made' = made, Proceed(Done(InProgress, 9, work))
      PROVE  (VerifiedInv => VerifiedInv') /\ (FreshInv => FreshInv')
  <2> DEFINE v == Done(InProgress, 9, work)
  <2>1. /\ v \in Views /\ v.work = work /\ v.ctx = work /\ v.revisions = revisions
        /\ v.stale = stale \ {9}
    BY <1>4, DoneIs, InProgressIs DEF Shape
  <2>2. Proceed(v)
    BY <1>9
  <2> HIDE DEF v
  <2>3. VerifiedInv => VerifiedView(v)
    BY <2>1, InProgressIs DEF VerifiedInv, VerifiedView
  <2>4. ASSUME FreshInv, ~crossed PROVE FreshView(v, template)
    <3>1. Fresh(work, stale, template)
      BY <2>4, InProgressIs DEF FreshInv, FreshView
    <3>2. Fresh(work, stale \ {9}, template)
      <4>1. 9 \in Stages \ {1, 2}
        BY DEF Stages
      <4> QED BY <1>4, <3>1, <4>1, LaterKeeps
    <3> QED BY <2>1, <3>2 DEF FreshView
  <2> QED BY <1>2, <1>4, <1>9, <2>1, <2>2, <2>3, <2>4
<1> QED BY <1>3, <1>6, <1>8, <1>9 DEF Returns

\* A run that is given up leaves the screen as it is.
LEMMA AbandonKeeps ==
  ASSUME Shape, Abandon
  PROVE  (VerifiedInv => VerifiedInv') /\ (FreshInv => FreshInv')
<1>1. /\ ctx' = ctx /\ revisions' = revisions /\ stale' = stale /\ template' = template
      /\ using' = using /\ made' = made /\ crossed' = crossed
      /\ left' = {} /\ work' = EmptyContext
  BY DEF Abandon
<1>2. ctx \in Contexts /\ revisions \in Counters /\ stale \in SUBSET Stages
  BY InProgressIs DEF Shape, Views
<1>3. /\ InProgress'.left = {} /\ InProgress'.work = EmptyContext /\ InProgress'.ctx = ctx
      /\ InProgress'.revisions = revisions /\ InProgress'.stale = stale
      /\ InProgress' \in Views
  BY <1>1, <1>2, EmptyIsContext DEF InProgress, Starting, Views
<1>4. Shape'
  BY <1>1, <1>3 DEF Shape
<1>5. VerifiedInv => VerifiedView(InProgress)'
  <2>1. VerifiedInv => VerifiedView(InProgress')
    BY <1>3, EmptyIsContext, InProgressIs DEF VerifiedInv, VerifiedView
  <2> QED BY <2>1 DEF VerifiedView, Verified
<1>6. FreshInv /\ ~crossed => FreshView(InProgress', template)
  BY <1>3, EmptyIsContext, InProgressIs DEF FreshInv, FreshView
<1>7. ~running'
  BY <1>1 DEF running
<1> QED BY <1>1, <1>4, <1>5, <1>6, <1>7 DEF VerifiedInv, FreshInv

\* What an edit leaves of fresh texts: none after one of Deconstruct, the spec after one of
\* Calibrate, both early texts after one of a later stage, and everything when the stage was
\* marked before and so had no text.
LEMMA EditedIs ==
  ASSUME NEW c \in Contexts, NEW marks \in SUBSET Stages, NEW s \in Editable,
         NEW t, NEW u,
         \A e \in Editable \ {s} : u[e] = t[e],
         Fresh(c, marks, t)
  PROVE  /\ s \in marks => Fresh(c, marks, u)
         /\ s \notin marks =>
              LET gone == {s} \cup DescendantsOf[s] IN Fresh(Invalidated(c, gone), marks \cup gone, u)
<1>1. TextsOf(c) \subseteq Editable \X Nat
  BY DEF TextsOf, Contexts, Texts
<1>2. ASSUME s \in marks PROVE Fresh(c, marks, u)
  <2>1. (EarlyOne(marks, u) => EarlyOne(marks, t)) /\ (EarlyTwo(marks, u) => EarlyTwo(marks, t))
    BY <1>2 DEF EarlyOne, EarlyTwo, Editable
  <2>2. \A p \in TextsOf(c) : Current(p, marks, t) => Current(p, marks, u)
    BY <1>1, <1>2 DEF Current
  <2>3. c.spec \subseteq TextsOf(c)
    BY DEF TextsOf
  <2> QED BY <2>1, <2>2, <2>3 DEF Fresh
<1>3. ASSUME s \notin marks
      PROVE  LET gone == {s} \cup DescendantsOf[s] IN Fresh(Invalidated(c, gone), marks \cup gone, u)
  <2> DEFINE gone == {s} \cup DescendantsOf[s]
             k == Invalidated(c, gone)
             m == marks \cup gone
  <2>1. /\ 6 \in gone /\ s \in gone
        /\ 1 \in gone => s = 1 /\ 2 \in gone
        /\ 2 \in gone => s \in {1, 2}
    BY Descend
  <2> HIDE DEF gone
  <2>2. /\ k.spec = IF 1 \in gone THEN None ELSE c.spec
        /\ k.calibration = IF 2 \in gone THEN None ELSE c.calibration
        /\ k.prompt.from = None /\ k.critique = None
    BY <2>1, InvalidatedIs
  <2> HIDE DEF k
  <2>3. TextsOf(k) = k.spec \cup k.calibration
    BY <2>2 DEF TextsOf, None
  <2>4. CASE 1 \in gone
    <3>1. k.spec = {} /\ k.calibration = {} /\ TextsOf(k) = {}
      BY <2>1, <2>2, <2>3, <2>4 DEF None
    <3> QED BY <3>1 DEF Fresh, k, gone
  <2>5. CASE 1 \notin gone
    <3>1. k.spec = c.spec /\ u[1] = t[1]
      BY <2>1, <2>2, <2>5 DEF Editable
    <3>2. EarlyOne(m, u) => EarlyOne(marks, t)
      BY <2>5, <3>1 DEF EarlyOne
    <3>3. ASSUME EarlyOne(m, u) PROVE \A p \in k.spec : p[1] = 1 /\ Current(p, m, u)
      BY <2>5, <3>1, <3>2, <3>3 DEF Fresh, Current
    <3>4. ASSUME EarlyOne(m, u), EarlyTwo(m, u)
          PROVE  \A p \in k.calibration : p[1] \in {1, 2} /\ Current(p, m, u)
      <4>1. CASE 2 \in gone
        BY <2>2, <4>1 DEF None
      <4>2. CASE 2 \notin gone
        <5>1. k.calibration = c.calibration /\ u[2] = t[2]
          BY <2>1, <2>2, <4>2 DEF Editable
        <5>2. EarlyTwo(marks, t)
          BY <3>4, <4>2, <5>1 DEF EarlyTwo
        <5>3. \A p \in c.calibration : p[1] \in {1, 2} /\ Current(p, marks, t)
          BY <3>2, <3>4, <5>2 DEF Fresh, TextsOf
        <5> QED BY <2>5, <3>1, <4>2, <5>1, <5>3 DEF Current
      <4> QED BY <4>1, <4>2
    <3> HIDE DEF m
    <3>5. Fresh(k, m, u)
      BY <2>3, <3>3, <3>4 DEF Fresh
    <3> QED BY <3>5 DEF k, m, gone
  <2> QED BY <2>4, <2>5
<1> QED BY <1>2, <1>3

LEMMA EditKeeps ==
  ASSUME Shape, NEW s \in Editable, EditTemplate(s)
  PROVE  /\ VerifiedInv => VerifiedInv'
         /\ FreshInv => FreshInv'
<1> DEFINE gone == {s} \cup DescendantsOf[s]
           k == Invalidated(ctx, gone)
<1>1. /\ \E reads \in {template[s].reads} \cup {w[2] : w \in {x \in Rewrites : x[1] = s}} :
           template' = [template EXCEPT ![s] = [version |-> @.version + 1, reads |-> reads]]
      /\ crossed' = (crossed \/ running)
      /\ UNCHANGED <<revisions, left, work, using, made>>
      /\ \/ s \in stale /\ stale' = stale /\ ctx' = ctx
         \/ s \notin stale /\ stale' = stale \cup gone /\ ctx' = k
  BY DEF EditTemplate
<1>2. /\ ctx \in Contexts /\ work \in Contexts /\ revisions \in Counters
      /\ stale \in SUBSET Stages /\ left \in SUBSET Stages
  BY InProgressIs DEF Shape, Views
<1>3. /\ k \in Contexts
      /\ \A r : Verified(ctx, r) => Verified(k, r)
      /\ k.spec = IF 1 \in gone THEN None ELSE ctx.spec
      /\ k.calibration = IF 2 \in gone THEN None ELSE ctx.calibration
      /\ 6 \in gone => k.prompt.from = None /\ k.critique = None
  BY <1>2, InvalidatedIs
<1>4. /\ gone \in SUBSET Stages /\ 6 \in gone /\ s \in gone
      /\ 1 \in gone => s = 1 /\ 2 \in gone
  BY Descend DEF Editable, Stages
<1> HIDE DEF k, gone
<1>5. /\ ctx' \in Contexts /\ stale' \in SUBSET Stages
      /\ \A r : Verified(ctx, r) => Verified(ctx', r)
  BY <1>1, <1>2, <1>3, <1>4
<1>6. /\ InProgress'.left = left /\ InProgress'.work = work /\ InProgress'.ctx = ctx'
      /\ InProgress'.revisions = revisions /\ InProgress'.stale = stale'
      /\ InProgress' \in Views
  BY <1>1, <1>2, <1>5 DEF InProgress, Starting, Views
<1>7. template' \in [Editable -> Templates] /\ \A e \in Editable \ {s} : template'[e] = template[e]
  <2>1. template \in [Editable -> Templates]
    BY DEF Shape
  <2>2. PICK reads \in {template[s].reads} \cup {w[2] : w \in {x \in Rewrites : x[1] = s}} :
          template' = [template EXCEPT ![s] = [version |-> template[s].version + 1, reads |-> reads]]
    BY <1>1
  <2>3. [version |-> template[s].version + 1, reads |-> reads] \in Templates
    <3>1. template[s].version \in Nat /\ template[s].reads \subseteq Slots
      BY <2>1 DEF Templates
    <3>2. \A w \in Rewrites : w[2] \subseteq Slots
      BY WorkbenchAssumption
    <3>3. reads \subseteq Slots
      BY <2>2, <3>1, <3>2
    <3> QED BY <3>1, <3>3 DEF Templates
  <2> QED BY <2>1, <2>2, <2>3
<1>8. Shape'
  BY <1>1, <1>6, <1>7 DEF Shape, running
<1>9. VerifiedInv => VerifiedView(InProgress)'
  <2>1. VerifiedInv => VerifiedView(InProgress')
    BY <1>5, <1>6, InProgressIs DEF VerifiedInv, VerifiedView
  <2> QED BY <2>1 DEF VerifiedView, Verified
<1>10. ASSUME FreshInv PROVE FreshInv'
  <2>1. CASE crossed'
    BY <1>8, <2>1 DEF FreshInv
  <2>2. CASE ~crossed'
    <3>1. ~crossed /\ ~running /\ ~running' /\ work = EmptyContext
      BY <1>1, <2>2 DEF Shape, running
    <3>2. Fresh(ctx, stale, template)
      BY <1>10, <3>1, InProgressIs DEF FreshInv, FreshView
    <3>3. Fresh(ctx', stale', template')
      <4>2. CASE s \in stale
        <5>1. stale' = stale /\ ctx' = ctx
          BY <1>1, <4>2
        <5>2. Fresh(ctx, stale, template')
          BY <1>2, <1>7, <3>2, <4>2, EditedIs
        <5> QED BY <5>1, <5>2
      <4>3. CASE s \notin stale
        <5>1. stale' = stale \cup gone /\ ctx' = k
          BY <1>1, <4>3
        <5>2. Fresh(k, stale \cup gone, template')
          BY <1>2, <1>7, <3>2, <4>3, EditedIs DEF k, gone
        <5> QED BY <5>1, <5>2
      <4> QED BY <4>2, <4>3
    <3>4. FreshView(InProgress', template')
      BY <1>6, <3>1, <3>3, EmptyIsContext DEF FreshView
    <3> QED BY <1>8, <3>1, <3>4 DEF FreshInv
  <2> QED BY <2>1, <2>2
<1> QED BY <1>8, <1>9, <1>10 DEF VerifiedInv

LEMMA ResetKeeps ==
  ASSUME Shape, Reset
  PROVE  VerifiedInv' /\ FreshInv'
<1>1. /\ ctx' = EmptyContext /\ revisions' = NoRevisions /\ stale' = {}
      /\ ~running /\ UNCHANGED <<template, left, work, using, made>>
  BY DEF Reset
<1>2. work' = EmptyContext /\ left' = {} /\ ~running'
  BY <1>1 DEF Shape, running
<1>3. InProgress' = Starting({}, EmptyContext, EmptyContext, NoRevisions, {})
  BY <1>1, <1>2 DEF InProgress
<1> DEFINE v == Starting({}, EmptyContext, EmptyContext, NoRevisions, {})
<1>4. v \in Views /\ VerifiedView(v) /\ \A t : FreshView(v, t)
  BY ViewOf, EmptyIsContext
<1> HIDE DEF v
<1>5. VerifiedView(InProgress)' /\ FreshView(InProgress', template')
  BY <1>3, <1>4 DEF v, VerifiedView, Verified
<1>6. Shape'
  BY <1>1, <1>2, <1>3, <1>4 DEF Shape, v
<1> QED BY <1>2, <1>5, <1>6 DEF VerifiedInv, FreshInv

\* The stakes, the switches and a step of nobody touch none of it.
LEMMA ElsewhereKeeps ==
  ASSUME UNCHANGED <<template, stale, ctx, revisions, left, work, using, made, crossed>>
  PROVE  (VerifiedInv => VerifiedInv') /\ (FreshInv => FreshInv')
<1>1. InProgress' = InProgress /\ running' = running
  BY DEF InProgress, Starting, running
<1>2. Shape => Shape'
  BY <1>1 DEF Shape
<1>3. VerifiedView(InProgress) => VerifiedView(InProgress)'
  BY <1>1 DEF VerifiedView, Verified
<1>4. FreshView(InProgress, template) => FreshView(InProgress', template')
  BY <1>1
<1> QED BY <1>1, <1>2, <1>3, <1>4 DEF VerifiedInv, FreshInv

LEMMA InitKeeps == Init => VerifiedInv /\ FreshInv
<1> SUFFICES ASSUME Init PROVE VerifiedInv /\ FreshInv
  OBVIOUS
<1> DEFINE v == Starting({}, EmptyContext, EmptyContext, NoRevisions, {})
<1>1. InProgress = v /\ ~running /\ work = EmptyContext
  BY DEF Init, InProgress, running
<1>2. v \in Views /\ VerifiedView(v) /\ \A t : FreshView(v, t)
  BY ViewOf, EmptyIsContext
<1>3. template \in [Editable -> Templates] /\ using = template /\ made \in Nat
  <2>1. \A s \in Editable : DefaultReads[s] \subseteq Slots
    BY DEF Editable, DefaultReads, Slots
  <2> QED BY <2>1 DEF Init, Templates
<1> QED BY <1>1, <1>2, <1>3 DEF VerifiedInv, FreshInv, Shape

LEMMA StepKeeps ==
  ASSUME Shape, [Next]_vars
  PROVE  /\ VerifiedInv => VerifiedInv'
         /\ FreshInv => FreshInv'
<1>1. CASE RunAll \/ RerunStale \/ \E s \in Stages : RunOne(s)
  BY <1>1, StartKeeps
<1>2. CASE Returns
  BY <1>2, ReturnsKeeps
<1>3. CASE Fails \/ Stop
  BY <1>3, AbandonKeeps DEF Fails, Stop
<1>4. CASE Reset
  BY <1>4, ResetKeeps
<1>5. CASE \E s \in Editable : EditTemplate(s)
  BY <1>5, EditKeeps
<1>6. CASE SetStakes
  BY <1>6, ElsewhereKeeps DEF SetStakes
<1>7. CASE \E s \in Switchable : ToggleStage(s)
  BY <1>7, ElsewhereKeeps DEF ToggleStage
<1>8. CASE UNCHANGED vars
  BY <1>8, ElsewhereKeeps DEF vars
<1> QED BY <1>1, <1>2, <1>3, <1>4, <1>5, <1>6, <1>7, <1>8 DEF Next

-----------------------------------------------------------------------------
(* Theorems.                                                               *)

\* A verdict is about the prompt it is shown under, for any order of runs, reruns, stops and
\* edits, those in the middle of a run included: runStage dates what it judges.
THEOREM VerdictsJudgeTheirPrompt == Spec => []ShippableIsVerified
<1>1. Init => VerifiedInv
  BY InitKeeps
<1>2. VerifiedInv /\ [Next]_vars => VerifiedInv'
  BY StepKeeps DEF VerifiedInv
<1>3. VerifiedInv => ShippableIsVerified
  BY InProgressIs DEF VerifiedInv, VerifiedView, Verified, ShippableIsVerified, Verdict,
     LintCurrent, CriticCurrent
<1> QED BY <1>1, <1>2, <1>3, PTL DEF Spec

LEMMA FreshAlways == Spec => []FreshInv
<1>1. Init => FreshInv
  BY InitKeeps
<1>2. FreshInv /\ [Next]_vars => FreshInv'
  BY StepKeeps DEF FreshInv
<1> QED BY <1>1, <1>2, PTL DEF Spec

\* OrderlyTextsCurrent: with edits kept out of the runs, and Deconstruct and Calibrate reading
\* nothing made after them, no text on the screen goes back to a stage marked stale or to a
\* template as it was, whatever the later stages were rewritten to read, and whatever was run,
\* rerun alone, stopped or left marked in between: descendantsOf covers what templates may read.
THEOREM OrderlyTextsAreCurrent == Spec => []OrderlyTextsCurrent
<1>1. FreshInv => OrderlyTextsCurrent
  BY InProgressIs DEF FreshInv, FreshView, Fresh, EarlyOne, EarlyTwo, Current,
     OrderlyTextsCurrent, Orderly, TextsCurrent
<1> QED BY <1>1, FreshAlways, PTL

-----------------------------------------------------------------------------
(* What the browser keeps, when the sandbox refuses nothing and settles    *)
(* writes in the order asked, and the user waits for the page to load.     *)
(* The state at rest follows from the state with writes under way: the     *)
(* last write asked for a list, or what is stored when there is none, is   *)
(* what the user made of it (Ahead).                                       *)

IsSeq(x) == \E S : x \in Seq(S)

Short(x) == IsSeq(x) /\ Len(x) <= MaxKept

\* What a backend may hold.
IsRaw(v) == v = Nothing \/ \E list : IsSeq(list) /\ v = {list}

\* The last of the writes asked of the sandbox for a list.
LastAsked(k, i) ==
  asked[i].key = k /\ \A j \in DOMAIN asked : asked[j].key = k => j <= i

NoneAsked(k) == \A j \in DOMAIN asked : asked[j].key # k

\* The writes under way, or the last one that ended, leave what the user made of the list.
Ahead(k) ==
  \/ \E i \in DOMAIN asked : LastAsked(k, i) /\ AsList(asked[i].value) = kept[k]
  \/ NoneAsked(k) /\ (k \in told \/ Reopened(k) = kept[k])

\* A list that is still loading was neither changed nor written.
Untouched(k) ==
  /\ shown[k] = <<>> /\ kept[k] = Reopened(k) /\ NoneAsked(k)
  /\ loads[k].at = "read" => AsList(loads[k].raw) = kept[k]

ShelfShape ==
  /\ boxed \in BOOLEAN /\ dirty \in BOOLEAN
  /\ DOMAIN box = Keys /\ DOMAIN local = Keys /\ DOMAIN shown = Keys /\ DOMAIN kept = Keys
  /\ DOMAIN loads = Keys /\ \A k \in Keys : DOMAIN loads[k] = {"at", "raw"} /\ IsRaw(loads[k].raw)
  /\ \A k \in Keys : IsRaw(box[k]) /\ IsRaw(local[k]) /\ Short(shown[k])
  /\ IsSeq(asked) /\ \A i \in DOMAIN asked : asked[i].key \in Keys /\ IsRaw(asked[i].value)
  /\ IsRaw(backup)

OneList(k) ==
  /\ loads[k].at # "done" => Untouched(k)
  /\ loads[k].at = "done" => shown[k] = kept[k]
  /\ loads[k].at = "done" /\ (k = "history" => ~dirty) => Ahead(k)

ShelfInv ==
  /\ ShelfShape
  /\ ~boxed => asked = <<>>
  /\ backup # Nothing => historyReady
  /\ \A k \in Keys : OneList(k)

LEMMA SeqIs ==
  ASSUME NEW x, IsSeq(x)
  PROVE  Len(x) \in Nat /\ DOMAIN x = 1 .. Len(x)
BY DEF IsSeq

LEMMA BuiltIsSeq ==
  ASSUME NEW N \in Nat, NEW g, g = [n \in 1 .. N |-> g[n]]
  PROVE  IsSeq(g)
<1> DEFINE S == {g[n] : n \in 1 .. N}
<1>1. g \in [1 .. N -> S]
  OBVIOUS
<1>2. g \in Seq(S)
  <2> HIDE DEF S
  <2> QED BY <1>1
<1> QED BY <1>2 DEF IsSeq

LEMMA AppendIs ==
  ASSUME NEW x, IsSeq(x), NEW e
  PROVE  /\ IsSeq(Append(x, e)) /\ DOMAIN Append(x, e) = 1 .. Len(x) + 1
         /\ Append(x, e)[Len(x) + 1] = e
         /\ \A i \in 1 .. Len(x) : Append(x, e)[i] = x[i]
<1>1. PICK S : x \in Seq(S)
  BY DEF IsSeq
<1>2. x \in Seq(S \cup {e}) /\ e \in S \cup {e}
  BY <1>1
<1> HIDE <1>1
<1>3. Append(x, e) \in Seq(S \cup {e})
  BY <1>2
<1> QED BY <1>2, <1>3 DEF IsSeq

LEMMA NewestIs ==
  ASSUME NEW x, IsSeq(x)
  PROVE  Short(Newest(x)) /\ (Len(x) <= MaxKept => Newest(x) = x)
<1>1. PICK S : x \in Seq(S)
  BY DEF IsSeq
<1>2. PICK n \in Nat : n = (IF Len(x) < MaxKept THEN Len(x) ELSE MaxKept)
  BY <1>1, ShelfAssumption
<1>3. n <= Len(x) /\ n <= MaxKept /\ Len(x) \in Nat /\ (Len(x) <= MaxKept => n = Len(x))
  BY <1>1, <1>2, ShelfAssumption
<1>4. Newest(x) = SubSeq(x, 1, n)
  BY <1>2 DEF Newest
<1>5. SubSeq(x, 1, n) \in Seq(S) /\ Len(SubSeq(x, 1, n)) = n
  BY <1>1, <1>3
<1>6. SubSeq(x, 1, Len(x)) = x
  BY <1>1
<1> QED BY <1>3, <1>4, <1>5, <1>6 DEF Short, IsSeq

LEMMA EmptyIs == Short(<<>>) /\ AsList(Nothing) = <<>> /\ IsRaw(Nothing)
<1>1. <<>> \in Seq({}) /\ Len(<<>>) = 0
  OBVIOUS
<1> QED BY <1>1, ShelfAssumption DEF Short, IsSeq, AsList, Nothing, IsRaw

LEMMA AsListIs ==
  /\ \A list : IsSeq(list) => IsRaw({list}) /\ AsList({list}) = Newest(list) /\ {list} # Nothing
  /\ \A v : IsRaw(v) => Short(AsList(v))
<1>1. ASSUME NEW list, IsSeq(list)
      PROVE  IsRaw({list}) /\ AsList({list}) = Newest(list) /\ {list} # Nothing
  <2>1. {list} # {} /\ (CHOOSE x \in {list} : TRUE) = list
    OBVIOUS
  <2> QED BY <1>1, <2>1 DEF IsRaw, AsList, Nothing
<1>2. ASSUME NEW v, IsRaw(v)
      PROVE  Short(AsList(v))
  <2>1. CASE v = Nothing
    BY <2>1, EmptyIs
  <2>2. CASE v # Nothing
    <3>1. PICK list : IsSeq(list) /\ v = {list}
      BY <1>2, <2>2 DEF IsRaw
    <3> QED BY <1>1, <3>1, NewestIs
  <2> QED BY <2>1, <2>2
<1> QED BY <1>1, <1>2

\* The history with one more entry in front, without one, or merged with another.
LEMMA ListIs ==
  ASSUME NEW x, IsSeq(x)
  PROVE  /\ \A e : Short(Newest(<<e>> \o x))
         /\ \A i \in DOMAIN x : Short(x) => Short(RemoveAt(x, i))
         /\ \A y : IsSeq(y) => Short(Merged(y, x))
<1>1. PICK S : x \in Seq(S)
  BY DEF IsSeq
<1>2. ASSUME NEW e PROVE Short(Newest(<<e>> \o x))
  <2>1. x \in Seq(S \cup {e}) /\ <<e>> \in Seq(S \cup {e})
    BY <1>1
  <2>2. <<e>> \o x \in Seq(S \cup {e})
    BY <2>1
  <2> QED BY <2>2, NewestIs DEF IsSeq
<1>3. ASSUME NEW i \in DOMAIN x, Short(x) PROVE Short(RemoveAt(x, i))
  <2>1. i \in 1 .. Len(x) /\ Len(x) \in Nat /\ Len(x) <= MaxKept
    BY <1>1, <1>3 DEF Short
  <2>2. SubSeq(x, 1, i - 1) \in Seq(S) /\ Len(SubSeq(x, 1, i - 1)) = i - 1
    BY <1>1, <2>1
  <2>3. SubSeq(x, i + 1, Len(x)) \in Seq(S) /\ Len(SubSeq(x, i + 1, Len(x))) = Len(x) - i
    BY <1>1, <2>1
  <2>4. RemoveAt(x, i) \in Seq(S) /\ Len(RemoveAt(x, i)) = (i - 1) + (Len(x) - i)
    BY <2>2, <2>3 DEF RemoveAt
  <2>5. (i - 1) + (Len(x) - i) <= MaxKept
    BY <2>1, ShelfAssumption
  <2> QED BY <2>4, <2>5 DEF Short, IsSeq
<1>4. ASSUME NEW y, IsSeq(y) PROVE Short(Merged(y, x))
  <2> DEFINE all == y \o x
             F == FirstOfHash(all)
  <2>1. PICK T : y \in Seq(T)
    BY <1>4 DEF IsSeq
  <2>2. Len(all) \in Nat /\ DOMAIN all = 1 .. Len(all)
    <3>1. x \in Seq(S \cup T) /\ y \in Seq(S \cup T)
      BY <1>1, <2>1
    <3>2. all \in Seq(S \cup T)
      BY <3>1
    <3> QED BY <3>2
  <2>3. IsFiniteSet(F) /\ Cardinality(F) \in Nat
    <3>1. F \in SUBSET (1 .. Len(all))
      BY <2>2 DEF FirstOfHash
    <3>2. IsFiniteSet(1 .. Len(all))
      BY <2>2, FS_Interval
    <3> QED BY <3>1, <3>2, FS_Subset, FS_CardinalityType
  <2>4. PICK order : Merged(y, x) = Newest([n \in 1 .. Cardinality(F) |-> all[order[n]]])
    BY DEF Merged
  <2>5. IsSeq([n \in 1 .. Cardinality(F) |-> all[order[n]]])
    <3> HIDE DEF F, all
    <3>1. PICK g : g = [n \in 1 .. Cardinality(F) |-> all[order[n]]]
      OBVIOUS
    <3>2. g = [n \in 1 .. Cardinality(F) |-> g[n]]
      BY <3>1
    <3> QED BY <2>3, <3>1, <3>2, BuiltIsSeq
  <2> QED BY <2>4, <2>5, NewestIs
<1> QED BY <1>2, <1>3, <1>4

LEMMA TailIs ==
  ASSUME NEW x, IsSeq(x), x # <<>>
  PROVE  /\ IsSeq(RemoveAt(x, 1)) /\ Len(x) >= 1 /\ DOMAIN RemoveAt(x, 1) = 1 .. Len(x) - 1
         /\ \A i \in 1 .. Len(x) - 1 : RemoveAt(x, 1)[i] = x[i + 1]
<1>1. PICK S : x \in Seq(S)
  BY DEF IsSeq
<1>2. Len(x) \in Nat /\ Len(x) >= 1
  BY <1>1, EmptySeq
<1>3. SubSeq(x, 1, 0) = <<>>
  BY <1>1, <1>2
<1>4. PICK t : t = SubSeq(x, 2, Len(x))
  OBVIOUS
<1>5. t \in Seq(S) /\ Len(t) = Len(x) - 1 /\ \A i \in 1 .. Len(x) - 1 : t[i] = x[i + 1]
  <2>1. t \in Seq(S)
    BY <1>1, <1>2, <1>4
  <2>2. t = [i \in 1 .. Len(x) - 1 |-> x[i + 1]]
    <3>1. /\ 1 .. (Len(x) - 2) + 1 = 1 .. Len(x) - 1
          /\ \A i \in 1 .. Len(x) - 1 : i + 2 - 1 = i + 1
      BY <1>2
    <3>2. t = [i \in 1 .. (Len(x) - 2) + 1 |-> x[i + 2 - 1]]
      BY <1>2, <1>4
    <3> QED BY <3>1, <3>2
  <2>3. DOMAIN t = 1 .. Len(t) /\ Len(t) \in Nat
    BY <2>1
  <2>4. DOMAIN t = 1 .. Len(x) - 1 /\ \A i \in 1 .. Len(x) - 1 : t[i] = x[i + 1]
    BY <2>2
  <2>5. Len(t) = Len(x) - 1
    BY <1>2, <2>3, <2>4
  <2> QED BY <2>1, <2>4, <2>5
<1>6. <<>> \o t = t
  BY <1>5
<1>7. RemoveAt(x, 1) = t
  BY <1>3, <1>4, <1>6 DEF RemoveAt
<1> QED BY <1>2, <1>5, <1>7 DEF IsSeq

\* A list that an action leaves alone: others' writes may join the queue or leave its front.
LEMMA SameList ==
  ASSUME ShelfInv, NEW k \in Keys,
         /\ loads'[k] = loads[k] /\ shown'[k] = shown[k] /\ kept'[k] = kept[k]
         /\ box'[k] = box[k] /\ local'[k] = local[k] /\ UNCHANGED <<boxed, localOK>>
         /\ k \in told' <=> k \in told
         /\ k = "history" => dirty' = dirty,
         \/ asked' = asked
         \/ \E x : asked' = Append(asked, x) /\ x.key # k
         \/ asked # <<>> /\ asked' = RemoveAt(asked, 1) /\ asked[1].key # k
  PROVE  OneList(k)'
<1> USE DEF ShelfInv, ShelfShape
<1>1. Reopened(k)' = Reopened(k)
  BY DEF Reopened, LocalAnswer
<1>2. Len(asked) \in Nat /\ DOMAIN asked = 1 .. Len(asked)
  BY SeqIs
<1>3. NoneAsked(k) => NoneAsked(k)'
  <2>1. CASE asked' = asked
    BY <2>1 DEF NoneAsked
  <2>2. ASSUME NEW x, asked' = Append(asked, x), x.key # k
        PROVE  NoneAsked(k) => NoneAsked(k)'
    <3>1. /\ DOMAIN asked' = 1 .. Len(asked) + 1 /\ asked'[Len(asked) + 1] = x
          /\ \A i \in 1 .. Len(asked) : asked'[i] = asked[i]
      BY <2>2, AppendIs
    <3>2. \A i \in DOMAIN asked' : i \in 1 .. Len(asked) \/ i = Len(asked) + 1
      BY <1>2, <3>1
    <3> QED BY <1>2, <2>2, <3>1, <3>2 DEF NoneAsked
  <2>3. CASE asked # <<>> /\ asked' = RemoveAt(asked, 1) /\ asked[1].key # k
    <3>1. /\ DOMAIN asked' = 1 .. Len(asked) - 1
          /\ \A i \in 1 .. Len(asked) - 1 : asked'[i] = asked[i + 1]
      BY <2>3, TailIs
    <3>2. \A i \in 1 .. Len(asked) - 1 : i + 1 \in DOMAIN asked
      BY <1>2
    <3> QED BY <3>1, <3>2 DEF NoneAsked
  <2> QED BY <2>1, <2>2, <2>3
<1>4. ASSUME NEW i \in DOMAIN asked, LastAsked(k, i)
      PROVE  \E j \in DOMAIN asked' : LastAsked(k, j)' /\ asked'[j] = asked[i]
  <2>1. CASE asked' = asked
    BY <1>4, <2>1 DEF LastAsked
  <2>2. ASSUME NEW x, asked' = Append(asked, x), x.key # k
        PROVE  \E j \in DOMAIN asked' : LastAsked(k, j)' /\ asked'[j] = asked[i]
    <3>1. /\ DOMAIN asked' = 1 .. Len(asked) + 1 /\ asked'[Len(asked) + 1] = x
          /\ \A m \in 1 .. Len(asked) : asked'[m] = asked[m]
      BY <2>2, AppendIs
    <3>2. i \in DOMAIN asked' /\ \A m \in DOMAIN asked' : m \in 1 .. Len(asked) \/ m = Len(asked) + 1
      BY <1>2, <3>1
    <3>3. LastAsked(k, i)'
      BY <1>2, <1>4, <2>2, <3>1, <3>2 DEF LastAsked
    <3> QED BY <1>2, <3>1, <3>2, <3>3
  <2>3. CASE asked # <<>> /\ asked' = RemoveAt(asked, 1) /\ asked[1].key # k
    <3>1. /\ DOMAIN asked' = 1 .. Len(asked) - 1
          /\ \A m \in 1 .. Len(asked) - 1 : asked'[m] = asked[m + 1]
      BY <2>3, TailIs
    <3>2. i # 1
      BY <1>4, <2>3 DEF LastAsked
    <3>3. i - 1 \in 1 .. Len(asked) - 1 /\ (i - 1) + 1 = i
      BY <1>2, <3>2
    <3>4. \A m \in 1 .. Len(asked) - 1 : m + 1 \in DOMAIN asked /\ (m + 1 <= i => m <= i - 1)
      BY <1>2
    <3>5. LastAsked(k, i - 1)'
      <4>1. asked'[i - 1].key = k
        BY <1>4, <3>1, <3>3 DEF LastAsked
      <4>2. \A m \in DOMAIN asked' : asked'[m].key = k => m <= i - 1
        BY <1>4, <3>1, <3>4 DEF LastAsked
      <4> QED BY <4>1, <4>2 DEF LastAsked
    <3> QED BY <3>1, <3>3, <3>5
  <2> QED BY <2>1, <2>2, <2>3
<1>5. Ahead(k) => Ahead(k)'
  <2>1. ASSUME NEW i \in DOMAIN asked, LastAsked(k, i), AsList(asked[i].value) = kept[k]
        PROVE  Ahead(k)'
    BY <1>4, <2>1 DEF Ahead, AsList
  <2>2. CASE NoneAsked(k) /\ (k \in told \/ Reopened(k) = kept[k])
    BY <1>1, <1>3, <2>2 DEF Ahead
  <2> QED BY <2>1, <2>2 DEF Ahead
<1>6. Untouched(k) => Untouched(k)'
  BY <1>1, <1>3 DEF Untouched, AsList
<1> QED BY <1>5, <1>6 DEF OneList

\* A write puts the list ahead.
LEMMA StoreIs ==
  ASSUME ShelfInv, NEW k \in Keys, NEW list, Short(list), Store(k, list), kept'[k] = list,
         UNCHANGED <<boxed, localOK, box>>
  PROVE  /\ Ahead(k)'
         /\ DOMAIN local' = Keys /\ \A j \in Keys : IsRaw(local'[j])
         /\ IsSeq(asked') /\ \A i \in DOMAIN asked' : asked'[i].key \in Keys /\ IsRaw(asked'[i].value)
         /\ ~boxed => asked' = <<>>
         /\ \A j \in Keys \ {k} : local'[j] = local[j] /\ (j \in told' <=> j \in told)
         /\ asked' = asked \/ \E x : asked' = Append(asked, x) /\ x.key = k
<1> USE DEF ShelfInv, ShelfShape
<1>1. IsSeq(list) /\ IsRaw({list}) /\ AsList({list}) = list /\ {list} # Nothing
  BY AsListIs, NewestIs DEF Short
<1>2. CASE boxed
  <2>n. /\ [key |-> k, value |-> {list}].key = k
        /\ [key |-> k, value |-> {list}].value = {list}
    OBVIOUS
  <2>p. PICK x : x = [key |-> k, value |-> {list}]
    OBVIOUS
  <2>a. x.key = k /\ x.value = {list}
    BY <2>n, <2>p
  <2>1. asked' = Append(asked, x) /\ local' = local /\ told' = told
    BY <1>2, <2>p DEF Store
  <2>2. Len(asked) \in Nat /\ DOMAIN asked = 1 .. Len(asked)
    BY SeqIs
  <2>3. /\ IsSeq(asked') /\ DOMAIN asked' = 1 .. Len(asked) + 1 /\ asked'[Len(asked) + 1] = x
        /\ \A i \in 1 .. Len(asked) : asked'[i] = asked[i]
    BY <2>1, AppendIs
  <2>4. /\ Len(asked) + 1 \in DOMAIN asked' /\ \A i \in DOMAIN asked' : i <= Len(asked) + 1
        /\ \A i \in DOMAIN asked' : i \in 1 .. Len(asked) \/ i = Len(asked) + 1
    BY <2>2, <2>3
  <2>5. Ahead(k)'
    <3>1. PICK n : n = Len(asked) + 1
      OBVIOUS
    <3>2. LastAsked(k, n)'
      BY <2>a, <2>3, <2>4, <3>1 DEF LastAsked
    <3>3. AsList(asked'[n].value) = kept'[k]
      BY <1>1, <2>a, <2>3, <3>1
    <3> QED BY <2>4, <3>1, <3>2, <3>3 DEF Ahead, AsList
  <2>6. \A i \in DOMAIN asked' : asked'[i].key \in Keys /\ IsRaw(asked'[i].value)
    BY <1>1, <2>a, <2>2, <2>3, <2>4
  <2> QED BY <1>2, <2>a, <2>1, <2>3, <2>5, <2>6
<1>3. CASE ~boxed
  <2>1. /\ asked' = asked /\ asked = <<>> /\ Tell(k, localOK, list)
        /\ local' = IF localOK THEN [local EXCEPT ![k] = {list}] ELSE local
    BY <1>3 DEF Store
  <2>2. Ahead(k)'
    <3>1. NoneAsked(k)'
      BY <2>1 DEF NoneAsked
    <3>2. CASE localOK
      <4>1. local'[k] = {list} /\ boxed' = FALSE /\ localOK' = TRUE
        BY <1>3, <2>1, <3>2
      <4>2. Reopened(k)' = AsList({list})
        BY <4>1 DEF Reopened, LocalAnswer, AsList
      <4> QED BY <1>1, <3>1, <4>2 DEF Ahead
    <3>3. CASE ~localOK /\ list = <<>>
      <4>1. Reopened(k)' = AsList(Nothing)
        BY <1>3, <3>3 DEF Reopened, LocalAnswer, AsList
      <4> QED BY <3>1, <3>3, <4>1, EmptyIs DEF Ahead
    <3>4. CASE ~localOK /\ list # <<>>
      BY <2>1, <3>1, <3>4 DEF Tell, Ahead
    <3> QED BY <3>2, <3>3, <3>4
  <2>3. DOMAIN local' = Keys /\ \A j \in Keys : IsRaw(local'[j])
    BY <1>1, <2>1
  <2>4. \A j \in Keys \ {k} : local'[j] = local[j] /\ (j \in told' <=> j \in told)
    BY <2>1 DEF Tell
  <2> QED BY <2>1, <2>2, <2>3, <2>4
<1> QED BY <1>2, <1>3

\* The writes the sandbox settles are the user's, in the order asked.
LEMMA SettleAhead ==
  ASSUME ShelfInv, ~BoxFails, asked # <<>>, NEW k \in Keys, k = asked[1].key, Ahead(k),
         asked' = RemoveAt(asked, 1),
         \E v : /\ v = asked[1].value
                /\ box' = [box EXCEPT ![k] = v]
                /\ local' = IF v = Nothing THEN [local EXCEPT ![k] = v] ELSE local,
         UNCHANGED <<boxed, localOK, kept>>
  PROVE  Ahead(k)'
<1> USE DEF ShelfInv, ShelfShape
<1>1. Len(asked) \in Nat /\ DOMAIN asked = 1 .. Len(asked) /\ Len(asked) >= 1
  BY SeqIs, TailIs
<1>2. PICK i \in DOMAIN asked : LastAsked(k, i) /\ AsList(asked[i].value) = kept[k]
  BY <1>1 DEF Ahead, NoneAsked
<1>3. PICK v : /\ v = asked[1].value
               /\ box' = [box EXCEPT ![k] = v]
               /\ local' = IF v = Nothing THEN [local EXCEPT ![k] = v] ELSE local
  OBVIOUS
<1>4. /\ DOMAIN asked' = 1 .. Len(asked) - 1
      /\ \A m \in 1 .. Len(asked) - 1 : asked'[m] = asked[m + 1]
  BY TailIs
<1>5. \A m \in 1 .. Len(asked) - 1 : m + 1 \in DOMAIN asked /\ m + 1 # 1
  BY <1>1
<1>6. CASE i = 1
  <2>1. NoneAsked(k)'
    <3>1. \A m \in 1 .. Len(asked) - 1 : asked[m + 1].key # k
      <4>1. \A m \in 1 .. Len(asked) - 1 : ~(m + 1 <= 1)
        BY <1>1
      <4> QED BY <1>2, <1>5, <1>6, <4>1 DEF LastAsked
    <3> QED BY <1>4, <3>1 DEF NoneAsked
  <2>2. boxed' = TRUE
    <3>1. boxed
      OBVIOUS
    <3>2. boxed' = boxed
      OBVIOUS
    <3> QED BY <3>1, <3>2
  <2>3. box'[k] = v
    BY <1>3
  <2>4. CASE v # Nothing
    <3>1. Reopened(k)' = AsList(v)
      <4>1. Reopened(k)' =
              AsList(IF boxed' /\ box'[k] # Nothing THEN box'[k] ELSE LocalAnswer(k)')
        BY Zenon DEF Reopened, AsList
      <4>2. (IF boxed' /\ box'[k] # Nothing THEN box'[k] ELSE LocalAnswer(k)') = v
        BY <2>2, <2>3, <2>4
      <4> QED BY <4>1, <4>2
    <3> QED BY <1>2, <1>3, <1>6, <2>1, <3>1 DEF Ahead
  <2>5. CASE v = Nothing
    <3>1. local'[k] = Nothing
      BY <1>3, <2>5
    <3>2. Reopened(k)' = AsList(Nothing)
      BY <2>3, <2>5, <3>1 DEF Reopened, LocalAnswer, AsList, Nothing
    <3> QED BY <1>2, <1>3, <1>6, <2>1, <2>5, <3>2 DEF Ahead
  <2> QED BY <2>4, <2>5
<1>7. CASE i # 1
  <2>1. PICK j \in 1 .. Len(asked) - 1 : j + 1 = i
    <3>1. i - 1 \in 1 .. Len(asked) - 1 /\ (i - 1) + 1 = i
      BY <1>1, <1>7
    <3> QED BY <3>1
  <2>2. asked'[j] = asked[i] /\ asked[i].key = k
    BY <1>2, <1>4, <2>1 DEF LastAsked
  <2>3. ASSUME NEW m \in DOMAIN asked', asked'[m].key = k PROVE m <= j
    <3>1. m \in 1 .. Len(asked) - 1 /\ m + 1 <= i
      BY <1>2, <1>4, <1>5, <2>3 DEF LastAsked
    <3> QED BY <1>1, <2>1, <3>1
  <2>4. LastAsked(k, j)'
    BY <2>2, <2>3 DEF LastAsked
  <2>5. j \in DOMAIN asked' /\ AsList(asked'[j].value) = kept'[k]
    BY <1>2, <1>4, <2>2
  <2> HIDE DEF ShelfInv, ShelfShape
  <2> QED BY <2>4, <2>5 DEF Ahead, AsList
<1> QED BY <1>6, <1>7

\* Where there is a sandbox, it refuses nothing and settles in order; the user waits.
Gentle == LoadsFirst /\ (boxed => ~BoxFails /\ InOrder)

LEMMA ShelfInvInit == ShelfInit => ShelfInv
<1> SUFFICES ASSUME ShelfInit PROVE ShelfInv
  OBVIOUS
<1>1. \A list \in Found : IsSeq(list)
  BY ShelfAssumption DEF IsSeq
<1>2. \A list \in Found : IsRaw({list})
  BY <1>1, AsListIs
<1>3. /\ boxed \in BOOLEAN /\ dirty \in BOOLEAN /\ asked = <<>> /\ DOMAIN asked = {} /\ backup = Nothing
      /\ \A k \in Keys : loads[k] = [at |-> "asked", raw |-> Nothing] /\ shown[k] = <<>>
      /\ \A k \in Keys : kept[k] = Reopened(k)
      /\ DOMAIN box = Keys /\ DOMAIN local = Keys /\ DOMAIN shown = Keys /\ DOMAIN kept = Keys
      /\ DOMAIN loads = Keys
  <2>1. asked = <<>> /\ DOMAIN asked = {}
    BY DEF ShelfInit
  <2>2. DOMAIN box = Keys /\ DOMAIN local = Keys
    BY DEF ShelfInit
  <2> QED BY <2>1, <2>2 DEF ShelfInit
<1>4. \A k \in Keys : IsRaw(box[k]) /\ IsRaw(local[k])
  <2> SUFFICES ASSUME NEW k \in Keys PROVE IsRaw(box[k]) /\ IsRaw(local[k])
    OBVIOUS
  <2>1. box[k] \in {{list} : list \in Found} \union {Nothing}
    BY DEF ShelfInit
  <2>2. local[k] \in {{list} : list \in Found} \union {Nothing}
    BY DEF ShelfInit
  <2> QED BY <1>2, <2>1, <2>2, EmptyIs
<1>5. IsSeq(asked)
  BY <1>3, EmptyIs DEF Short
<1>6. ShelfShape
  BY <1>3, <1>4, <1>5, EmptyIs DEF ShelfShape
<1>7. \A k \in Keys : OneList(k)
  BY <1>3 DEF OneList, Untouched, NoneAsked
<1> QED BY <1>3, <1>6, <1>7 DEF ShelfInv

LEMMA ReadKeeps ==
  ASSUME Gentle, ShelfInv, NEW k \in Keys, Read(k)
  PROVE  ShelfInv'
<1> USE DEF ShelfInv, ShelfShape, Read
<1>1. PICK raw \in Answers(k) : loads' = [loads EXCEPT ![k] = [at |-> "read", raw |-> raw]]
  OBVIOUS
<1>2. IsRaw(raw) /\ AsList(raw) = Reopened(k)
  <2>1. CASE boxed /\ box[k] # Nothing
    <3>1. raw = box[k]
      BY <1>1, <2>1 DEF Answers, Gentle
    <3> QED BY <2>1, <3>1 DEF Reopened
  <2>2. CASE ~(boxed /\ box[k] # Nothing)
    <3>1. raw = LocalAnswer(k)
      BY <1>1, <2>2 DEF Answers
    <3> QED BY <2>2, <3>1, EmptyIs DEF Reopened, LocalAnswer
  <2> QED BY <2>1, <2>2
<1>3. /\ loads'[k] = [at |-> "read", raw |-> raw] /\ loads'[k].at = "read" /\ loads'[k].raw = raw
      /\ \A j \in Keys \ {k} : loads'[j] = loads[j]
  BY <1>1
<1>4. OneList(k)'
  <2>1. Untouched(k)
    BY DEF OneList
  <2>2. Reopened(k)' = Reopened(k) /\ NoneAsked(k)' = NoneAsked(k)
    BY DEF Reopened, LocalAnswer, NoneAsked
  <2>3. AsList(loads'[k].raw) = kept'[k]
    BY <1>2, <1>3, <2>1 DEF Untouched
  <2>4. Untouched(k)'
    BY <2>1, <2>2, <2>3 DEF Untouched, AsList
  <2> QED BY <1>3, <2>4 DEF OneList
<1>5. \A j \in Keys \ {k} : OneList(j)'
  BY <1>3, SameList
<1>6. historyReady' = historyReady
  BY <1>3 DEF historyReady, Keys
<1>7. ShelfShape'
  BY <1>1, <1>2, <1>3
<1> QED BY <1>4, <1>5, <1>6, <1>7

LEMMA LoadedKeeps ==
  ASSUME ShelfInv, NEW k \in Keys, Loaded(k)
  PROVE  ShelfInv'
<1> USE DEF ShelfInv, ShelfShape, Loaded
<1>1. /\ loads'[k].at = "done" /\ loads'[k].raw = loads[k].raw /\ DOMAIN loads'[k] = {"at", "raw"}
      /\ \A j \in Keys \ {k} : loads'[j] = loads[j]
      /\ DOMAIN loads' = Keys
  OBVIOUS
<1>2. Untouched(k) /\ loads[k].at = "read"
  BY DEF OneList
<1>3. shown'[k] = kept[k] /\ DOMAIN shown' = Keys /\ \A j \in Keys \ {k} : shown'[j] = shown[j]
  <2>1. CASE loads[k].raw = Nothing
    <3>1. AsList(Nothing) = <<>>
      BY EmptyIs
    <3> QED BY <1>2, <2>1, <3>1 DEF Untouched
  <2>2. CASE loads[k].raw # Nothing
    BY <1>2, <2>2 DEF Untouched
  <2> QED BY <2>1, <2>2
<1>4. Short(kept[k])
  BY <1>2, AsListIs DEF Untouched
<1>5. OneList(k)'
  <2>1. Reopened(k)' = Reopened(k) /\ NoneAsked(k)' = NoneAsked(k)
    BY DEF Reopened, LocalAnswer, NoneAsked
  <2>2. Ahead(k)'
    BY <1>2, <2>1 DEF Untouched, Ahead
  <2> QED BY <1>1, <1>3, <2>2 DEF OneList
<1>6. \A j \in Keys \ {k} : OneList(j)'
  <2> SUFFICES ASSUME NEW j \in Keys \ {k} PROVE OneList(j)'
    OBVIOUS
  <2>1. j = "history" => k # "history"
    OBVIOUS
  <2>2. j = "history" => dirty' = dirty
    BY <2>1
  <2>3. loads'[j] = loads[j] /\ shown'[j] = shown[j]
    BY <1>1, <1>3
  <2> QED BY <2>2, <2>3, SameList
<1>7. historyReady => historyReady'
  BY <1>1 DEF historyReady, Keys
<1>8. ShelfShape'
  BY <1>1, <1>3, <1>4
<1> QED BY <1>5, <1>6, <1>7, <1>8

\* The effect stores the history there is on the screen.
LEMMA PersistKeeps ==
  ASSUME ShelfInv, Persist
  PROVE  ShelfInv'
<1> USE DEF ShelfInv, ShelfShape, Persist, MayPersist, historyReady
<1>1. PICK k \in Keys : k = "history"
  BY DEF Keys
<1>2. loads[k].at = "done" /\ shown[k] = kept[k] /\ Short(shown[k])
  BY <1>1 DEF OneList
<1>3. Newest(shown[k]) = kept[k]
  BY <1>2, NewestIs DEF Short
<1>4. Store(k, kept[k]) /\ kept'[k] = kept[k] /\ Short(kept[k])
  BY <1>1, <1>2, <1>3
<1>5. /\ Ahead(k)'
      /\ DOMAIN local' = Keys /\ \A j \in Keys : IsRaw(local'[j])
      /\ IsSeq(asked') /\ \A i \in DOMAIN asked' : asked'[i].key \in Keys /\ IsRaw(asked'[i].value)
      /\ ~boxed => asked' = <<>>
      /\ \A j \in Keys \ {k} : local'[j] = local[j] /\ (j \in told' <=> j \in told)
      /\ asked' = asked \/ \E x : asked' = Append(asked, x) /\ x.key = k
  BY <1>4, StoreIs
<1>6. \A j \in Keys \ {k} : OneList(j)'
  <2> SUFFICES ASSUME NEW j \in Keys \ {k} PROVE OneList(j)'
    OBVIOUS
  <2>1. asked' = asked \/ \E x : asked' = Append(asked, x) /\ x.key # j
    BY <1>5
  <2> QED BY <1>1, <1>5, <2>1, SameList
<1>7. OneList(k)'
  BY <1>2, <1>5 DEF OneList
<1>8. ShelfShape'
  BY <1>5
<1> QED BY <1>5, <1>6, <1>7, <1>8

\* The queue without its front holds writes of the queue.
LEMMA QueueLeft ==
  ASSUME ShelfShape, asked # <<>>, asked' = RemoveAt(asked, 1)
  PROVE  IsSeq(asked') /\ \A i \in DOMAIN asked' : asked'[i].key \in Keys /\ IsRaw(asked'[i].value)
<1>1. Len(asked) \in Nat /\ DOMAIN asked = 1 .. Len(asked)
  BY SeqIs DEF ShelfShape
<1>2. /\ IsSeq(asked') /\ DOMAIN asked' = 1 .. Len(asked) - 1
      /\ \A i \in 1 .. Len(asked) - 1 : asked'[i] = asked[i + 1]
  BY TailIs DEF ShelfShape
<1>3. \A i \in 1 .. Len(asked) - 1 : i + 1 \in DOMAIN asked
  BY <1>1
<1> QED BY <1>2, <1>3 DEF ShelfShape

LEMMA SettleKeeps ==
  ASSUME Gentle, ShelfInv, NEW n, Settle(n)
  PROVE  ShelfInv'
<1> USE DEF ShelfInv, ShelfShape
<1>1. /\ ~BoxFails /\ asked # <<>>
      /\ n = 1 /\ 1 \in DOMAIN asked /\ asked' = RemoveAt(asked, 1)
  <2>1. n \in DOMAIN asked /\ asked' = RemoveAt(asked, n) /\ (InOrder => n = 1)
    BY DEF Settle
  <2>2. asked # <<>>
    BY <2>1
  <2>3. ~BoxFails /\ InOrder
    BY <2>2 DEF Gentle
  <2> QED BY <2>1, <2>2, <2>3
<1>2. asked # <<>>
  BY <1>1
<1>3. PICK k, v : k = asked[1].key /\ v = asked[1].value
  OBVIOUS
<1>4. /\ box' = [box EXCEPT ![k] = v]
      /\ local' = IF v = Nothing THEN [local EXCEPT ![k] = v] ELSE local
      /\ told' = told \/ Tell(k, TRUE, AsList(v))
  BY <1>1, <1>3 DEF Settle
<1>5. UNCHANGED <<boxed, localOK, loads, shown, dirty, backup, kept, touches>>
  BY DEF Settle
<1>6. k \in Keys /\ IsRaw(v)
  BY <1>1, <1>3
<1>7. /\ IsSeq(asked') /\ \A i \in DOMAIN asked' : asked'[i].key \in Keys /\ IsRaw(asked'[i].value)
  BY <1>1, <1>2, QueueLeft
<1>8. loads[k].at = "done"
  BY <1>1, <1>3, <1>6 DEF OneList, Untouched, NoneAsked
<1>9. OneList(k)'
  <2>1. Ahead(k) => Ahead(k)'
    <3>1. \E w : /\ w = asked[1].value
                 /\ box' = [box EXCEPT ![k] = w]
                 /\ local' = IF w = Nothing THEN [local EXCEPT ![k] = w] ELSE local
      BY <1>3, <1>4
    <3> HIDE DEF ShelfInv, ShelfShape
    <3> QED BY <1>1, <1>2, <1>3, <1>5, <1>6, <3>1, SettleAhead
  <2> QED BY <1>5, <1>6, <1>8, <2>1 DEF OneList
<1>10. \A j \in Keys \ {k} : OneList(j)'
  <2> SUFFICES ASSUME NEW j \in Keys \ {k} PROVE OneList(j)'
    OBVIOUS
  <2>1. box'[j] = box[j] /\ local'[j] = local[j]
    BY <1>4
  <2>2. j \in told' <=> j \in told
    BY <1>4 DEF Tell
  <2>3. asked # <<>> /\ asked' = RemoveAt(asked, 1) /\ asked[1].key # j
    BY <1>1, <1>2, <1>3
  <2> HIDE DEF ShelfInv, ShelfShape
  <2> QED BY <1>5, <2>1, <2>2, <2>3, SameList
<1>11. /\ DOMAIN box' = Keys /\ DOMAIN local' = Keys
       /\ \A j \in Keys : IsRaw(box'[j]) /\ IsRaw(local'[j])
  BY <1>4, <1>6
<1>12. boxed' = boxed /\ boxed
  BY <1>2, <1>5
<1>13. ShelfShape'
  BY <1>5, <1>7, <1>11
<1>14. historyReady' = historyReady
  BY <1>5 DEF historyReady
<1>15. \A j \in Keys : OneList(j)'
  BY <1>9, <1>10
<1> QED BY <1>5, <1>12, <1>13, <1>14, <1>15

\* A change to the history on the screen, whatever becomes of it in the backends, leaves the
\* effect due.
LEMMA HistoryChanges ==
  ASSUME ShelfInv, NEW h, h = "history", h \in Keys, loads[h].at = "done",
         NEW list, Short(list),
         shown' = [shown EXCEPT ![h] = list], kept' = [kept EXCEPT ![h] = list],
         dirty' = TRUE, UNCHANGED <<boxed, localOK, box, loads, told>>,
         IsRaw(backup'),
         \/ asked' = asked /\ local' = local
         \/ asked' = asked /\ local' = [local EXCEPT ![h] = Nothing]
         \/ boxed /\ local' = local /\ \E x : asked' = Append(asked, x) /\ x.key = h /\ x.value = Nothing
  PROVE  ShelfInv'
<1> USE DEF ShelfInv, ShelfShape
<1>1. /\ IsSeq(asked') /\ \A i \in DOMAIN asked' : asked'[i].key \in Keys /\ IsRaw(asked'[i].value)
      /\ ~boxed => asked' = <<>>
      /\ asked' = asked \/ \E x : asked' = Append(asked, x) /\ x.key = h
  <2>1. CASE asked' = asked
    BY <2>1
  <2>2. ASSUME NEW x, boxed, asked' = Append(asked, x), x.key = h, x.value = Nothing
        PROVE  /\ IsSeq(asked')
               /\ \A i \in DOMAIN asked' : asked'[i].key \in Keys /\ IsRaw(asked'[i].value)
    <3>1. Len(asked) \in Nat /\ DOMAIN asked = 1 .. Len(asked)
      BY SeqIs
    <3>2. /\ IsSeq(asked') /\ DOMAIN asked' = 1 .. Len(asked) + 1 /\ asked'[Len(asked) + 1] = x
          /\ \A i \in 1 .. Len(asked) : asked'[i] = asked[i]
      BY <2>2, AppendIs
    <3>3. \A i \in DOMAIN asked' : i \in 1 .. Len(asked) \/ i = Len(asked) + 1
      BY <3>1, <3>2
    <3> QED BY <2>2, <3>1, <3>2, <3>3, EmptyIs
  <2> QED BY <2>1, <2>2
<1>2. /\ DOMAIN local' = Keys /\ \A j \in Keys : IsRaw(local'[j])
      /\ \A j \in Keys \ {h} : local'[j] = local[j]
  BY EmptyIs
<1>3. \A j \in Keys \ {h} : OneList(j)'
  <2> SUFFICES ASSUME NEW j \in Keys \ {h} PROVE OneList(j)'
    OBVIOUS
  <2>1. asked' = asked \/ \E x : asked' = Append(asked, x) /\ x.key # j
    BY <1>1
  <2>2. shown'[j] = shown[j] /\ kept'[j] = kept[j] /\ local'[j] = local[j] /\ j # "history"
    BY <1>2
  <2> HIDE DEF ShelfInv, ShelfShape
  <2> QED BY <2>1, <2>2, SameList
<1>4. OneList(h)'
  BY DEF OneList
<1>5. ShelfShape'
  BY <1>1, <1>2
<1>6. historyReady'
  BY DEF historyReady
<1> QED BY <1>1, <1>3, <1>4, <1>5, <1>6

LEMMA HistoryIsAKey == "history" \in Keys /\ "vault" \in Keys /\ "vault" # "history"
BY DEF Keys

\* The user waits for a list: it is loaded, and shows what the user made of it.
LEMMA TouchIs ==
  ASSUME Gentle, ShelfInv, NEW k \in Keys, Touch(k)
  PROVE  /\ loads[k].at = "done" /\ shown[k] = kept[k] /\ Short(shown[k]) /\ IsSeq(shown[k])
         /\ UNCHANGED <<boxed, localOK, loads>>
<1>1. loads[k].at = "done" /\ UNCHANGED <<boxed, localOK, loads>>
  BY DEF Touch, Gentle
<1> QED BY <1>1 DEF ShelfInv, ShelfShape, OneList, Short

LEMMA ArchiveKeeps ==
  ASSUME Gentle, ShelfInv, NEW e, Archive(e)
  PROVE  ShelfInv'
<1>1. PICK h : h = "history"
  OBVIOUS
<1>2. h \in Keys /\ Touch(h)
  BY <1>1, HistoryIsAKey DEF Archive
<1>3. /\ loads[h].at = "done" /\ shown[h] = kept[h] /\ IsSeq(shown[h])
      /\ UNCHANGED <<boxed, localOK, loads>>
  BY <1>2, TouchIs
<1>4. PICK list : list = Newest(<<e>> \o shown[h])
  OBVIOUS
<1>5. Short(list)
  BY <1>3, <1>4, ListIs
<1>6. shown' = [shown EXCEPT ![h] = list] /\ kept' = [kept EXCEPT ![h] = list]
  BY <1>1, <1>3, <1>4 DEF Archive
<1>7. /\ dirty' = TRUE /\ UNCHANGED <<box, told>>
      /\ asked' = asked /\ local' = local /\ backup' = backup
  BY DEF Archive
<1>8. IsRaw(backup')
  BY <1>7 DEF ShelfInv, ShelfShape
<1> QED BY <1>1, <1>2, <1>3, <1>5, <1>6, <1>7, <1>8, HistoryChanges

LEMMA ClearKeeps ==
  ASSUME Gentle, ShelfInv, ClearHistory
  PROVE  ShelfInv'
<1>1. PICK h : h = "history"
  OBVIOUS
<1>2. h \in Keys /\ Touch(h)
  BY <1>1, HistoryIsAKey DEF ClearHistory
<1>3. /\ loads[h].at = "done"
      /\ UNCHANGED <<boxed, localOK, loads>>
  BY <1>2, TouchIs
<1>4. PICK list : list = <<>>
  OBVIOUS
<1>5. Short(list)
  BY <1>4, EmptyIs
<1>6. shown' = [shown EXCEPT ![h] = list] /\ kept' = [kept EXCEPT ![h] = list]
  BY <1>1, <1>4 DEF ClearHistory
<1>7. dirty' = TRUE /\ UNCHANGED <<box, told>> /\ backup' = backup
  BY DEF ClearHistory
<1>8. IsRaw(backup')
  BY <1>7 DEF ShelfInv, ShelfShape
<1>9. \/ asked' = asked /\ local' = [local EXCEPT ![h] = Nothing]
      \/ boxed /\ local' = local /\ \E x : asked' = Append(asked, x) /\ x.key = h /\ x.value = Nothing
  <2>1. CASE ~boxed
    BY <1>1, <2>1 DEF ClearHistory
  <2>2. CASE boxed
    <3>1. PICK x : x = [key |-> h, value |-> Nothing]
      OBVIOUS
    <3>2. [key |-> h, value |-> Nothing].key = h /\ [key |-> h, value |-> Nothing].value = Nothing
      OBVIOUS
    <3>3. asked' = Append(asked, x) /\ local' = local
      BY <1>1, <2>2, <3>1 DEF ClearHistory
    <3> QED BY <2>2, <3>1, <3>2, <3>3
  <2> QED BY <2>1, <2>2
<1> QED BY <1>1, <1>2, <1>3, <1>5, <1>6, <1>7, <1>8, <1>9, HistoryChanges

LEMMA ConfirmKeeps ==
  ASSUME ShelfInv, NEW mode, Confirm(mode)
  PROVE  ShelfInv'
<1>1. PICK h : h = "history"
  OBVIOUS
<1>2. h \in Keys /\ loads[h].at = "done" /\ IsSeq(shown[h]) /\ Short(AsList(backup))
  BY <1>1, HistoryIsAKey, AsListIs DEF Confirm, ShelfInv, ShelfShape, historyReady, Short
<1>3. PICK list : list = IF mode = "merge" THEN Merged(AsList(backup), shown[h]) ELSE AsList(backup)
  OBVIOUS
<1>4. Short(list)
  <2>1. IsSeq(AsList(backup))
    BY <1>2 DEF Short
  <2>2. Short(Merged(AsList(backup), shown[h]))
    BY <1>2, <2>1, ListIs
  <2> QED BY <1>2, <1>3, <2>2
<1>5. shown' = [shown EXCEPT ![h] = list] /\ kept' = [kept EXCEPT ![h] = list]
  BY <1>1, <1>3 DEF Confirm
<1>6. /\ dirty' = TRUE /\ UNCHANGED <<boxed, localOK, box, loads, told>>
      /\ asked' = asked /\ local' = local /\ IsRaw(backup')
  BY EmptyIs DEF Confirm
<1> QED BY <1>1, <1>2, <1>4, <1>5, <1>6, HistoryChanges

\* A step that touches neither a list nor a backend.
LEMMA ListsKept ==
  ASSUME ShelfInv, UNCHANGED <<boxed, localOK, box, local, asked, loads, shown, dirty, told, kept>>,
         IsRaw(backup'), backup' # Nothing => historyReady \/ backup' = backup
  PROVE  ShelfInv'
<1>1. \A j \in Keys : OneList(j)'
  <2> SUFFICES ASSUME NEW j \in Keys PROVE OneList(j)'
    OBVIOUS
  <2> QED BY SameList
<1>2. historyReady' = historyReady
  BY DEF historyReady
<1>3. ShelfShape'
  BY DEF ShelfInv, ShelfShape
<1> QED BY <1>1, <1>2, <1>3 DEF ShelfInv

LEMMA ImportKeeps ==
  ASSUME Gentle, ShelfInv, NEW list \in Found, Import(list)
  PROVE  ShelfInv'
<1>1. historyReady /\ UNCHANGED <<boxed, localOK, loads>>
  BY HistoryIsAKey, TouchIs DEF Import, historyReady
<1>2. IsSeq(list)
  BY ShelfAssumption DEF IsSeq
<1>3. IsRaw(backup')
  <2>1. IsSeq(Newest(list))
    BY <1>2, NewestIs DEF Short
  <2> QED BY <2>1, AsListIs DEF Import
<1> QED BY <1>1, <1>3, ListsKept DEF Import

LEMMA CancelKeeps == ShelfInv /\ CancelImport => ShelfInv'
BY EmptyIs, ListsKept DEF CancelImport

\* A save, or the removal of a saved prompt.
LEMMA VaultKeeps ==
  ASSUME Gentle, ShelfInv, NEW k, k = "vault", NEW list, Short(list), PersistVault(list),
         kept' = [kept EXCEPT ![k] = list]
  PROVE  ShelfInv'
<1> USE DEF ShelfInv, ShelfShape
<1>1. k \in Keys /\ Touch(k)
  BY HistoryIsAKey DEF PersistVault
<1>2. loads[k].at = "done" /\ UNCHANGED <<boxed, localOK, loads>>
  BY <1>1, TouchIs
<1>3. /\ shown' = [shown EXCEPT ![k] = list] /\ Store(k, list) /\ UNCHANGED <<box, dirty, backup>>
  BY DEF PersistVault
<1>4. shown'[k] = list /\ kept'[k] = list
  BY <1>1, <1>3
<1>5. /\ Ahead(k)'
      /\ DOMAIN local' = Keys /\ \A j \in Keys : IsRaw(local'[j])
      /\ IsSeq(asked') /\ \A i \in DOMAIN asked' : asked'[i].key \in Keys /\ IsRaw(asked'[i].value)
      /\ ~boxed => asked' = <<>>
      /\ \A j \in Keys \ {k} : local'[j] = local[j] /\ (j \in told' <=> j \in told)
      /\ asked' = asked \/ \E x : asked' = Append(asked, x) /\ x.key = k
  <2> HIDE DEF ShelfInv, ShelfShape
  <2> QED BY <1>1, <1>2, <1>3, <1>4, StoreIs
<1>6. \A j \in Keys \ {k} : OneList(j)'
  <2> SUFFICES ASSUME NEW j \in Keys \ {k} PROVE OneList(j)'
    OBVIOUS
  <2>1. asked' = asked \/ \E x : asked' = Append(asked, x) /\ x.key # j
    BY <1>5
  <2>2. shown'[j] = shown[j] /\ kept'[j] = kept[j]
    BY <1>3
  <2> HIDE DEF ShelfInv, ShelfShape
  <2> QED BY <1>2, <1>3, <1>5, <2>1, <2>2, SameList
<1>7. OneList(k)'
  BY <1>2, <1>4, <1>5 DEF OneList
<1>8. historyReady' = historyReady
  BY <1>2 DEF historyReady
<1>9. DOMAIN shown' = Keys /\ DOMAIN kept' = Keys /\ \A j \in Keys : Short(shown'[j])
  BY <1>3
<1>10. ShelfShape'
  BY <1>2, <1>3, <1>5, <1>9
<1>11. \A j \in Keys : OneList(j)'
  BY <1>6, <1>7
<1> QED BY <1>2, <1>3, <1>5, <1>8, <1>10, <1>11

LEMMA SaveKeeps ==
  ASSUME Gentle, ShelfInv, NEW e, SaveFinal(e)
  PROVE  ShelfInv'
<1>1. PICK k : k = "vault"
  OBVIOUS
<1>2. k \in Keys /\ Touch(k)
  BY <1>1, HistoryIsAKey DEF SaveFinal, PersistVault
<1>3. shown[k] = kept[k] /\ IsSeq(shown[k])
  BY <1>2, TouchIs
<1>4. PICK list : list = Newest(<<e>> \o shown[k])
  OBVIOUS
<1>5. Short(list) /\ PersistVault(list)
  BY <1>1, <1>3, <1>4, ListIs DEF SaveFinal
<1>6. kept' = [kept EXCEPT ![k] = list]
  BY <1>1, <1>3, <1>4 DEF SaveFinal
<1> QED BY <1>1, <1>5, <1>6, VaultKeeps

LEMMA DiscardKeeps ==
  ASSUME Gentle, ShelfInv, NEW i, Discard(i)
  PROVE  ShelfInv'
<1>1. PICK k : k = "vault"
  OBVIOUS
<1>2. k \in Keys /\ Touch(k)
  BY <1>1, HistoryIsAKey DEF Discard, PersistVault
<1>3. shown[k] = kept[k] /\ IsSeq(shown[k]) /\ Short(shown[k])
  BY <1>2, TouchIs
<1>4. PICK list : list = RemoveAt(shown[k], i)
  OBVIOUS
<1>5. i \in DOMAIN shown[k] /\ PersistVault(list)
  BY <1>1, <1>4 DEF Discard
<1>6. Short(list)
  BY <1>3, <1>4, <1>5, ListIs
<1>7. kept' = [kept EXCEPT ![k] = list]
  BY <1>1, <1>3, <1>4, <1>5 DEF Discard
<1> QED BY <1>1, <1>5, <1>6, <1>7, VaultKeeps

LEMMA ShelfStep ==
  ASSUME Gentle, ShelfInv, [ShelfNext]_shelfVars
  PROVE  ShelfInv'
<1>1. CASE UNCHANGED shelfVars
  <2>1. IsRaw(backup)
    BY DEF ShelfInv, ShelfShape
  <2> QED BY <1>1, <2>1, ListsKept DEF shelfVars
<1>2. ASSUME NEW k \in Keys, Read(k) \/ Loaded(k) PROVE ShelfInv'
  BY <1>2, ReadKeeps, LoadedKeeps
<1>3. CASE Persist
  BY <1>3, PersistKeeps
<1>4. ASSUME NEW n \in 1 .. MaxAsked, Settle(n) PROVE ShelfInv'
  BY <1>4, SettleKeeps
<1>5. ASSUME NEW e \in Entries, Archive(e) \/ SaveFinal(e) PROVE ShelfInv'
  BY <1>5, ArchiveKeeps, SaveKeeps
<1>6. ASSUME NEW list \in Found, Import(list) PROVE ShelfInv'
  BY <1>6, ImportKeeps
<1>7. ASSUME NEW mode \in {"merge", "replace"}, Confirm(mode) PROVE ShelfInv'
  BY <1>7, ConfirmKeeps
<1>8. CASE CancelImport \/ ClearHistory
  BY <1>8, CancelKeeps, ClearKeeps
<1>9. ASSUME NEW i \in 1 .. MaxKept, Discard(i) PROVE ShelfInv'
  BY <1>9, DiscardKeeps
<1> QED BY <1>1, <1>2, <1>3, <1>4, <1>5, <1>6, <1>7, <1>8, <1>9 DEF ShelfNext

\* Whether there is a sandbox is settled when the page opens.
LEMMA GentleStays == Gentle /\ [ShelfNext]_shelfVars => Gentle'
<1> SUFFICES ASSUME [ShelfNext]_shelfVars PROVE boxed' = boxed
  BY DEF Gentle
<1> QED BY DEF ShelfNext, shelfVars, Read, Loaded, Persist, Settle, Touch, Archive, ClearHistory,
           Import, Confirm, CancelImport, PersistVault, SaveFinal, Discard

LEMMA ShelfInvKeeps == ShelfInv => ShelfKept
<1> SUFFICES ASSUME ShelfInv, asked = <<>>, ~dirty,
                    NEW k \in Keys, k \notin told, loads[k].at = "done"
             PROVE  shown[k] = kept[k] /\ Reopened(k) = kept[k]
  BY DEF ShelfKept
<1>1. shown[k] = kept[k] /\ Ahead(k)
  BY DEF ShelfInv, OneList
<1>2. DOMAIN asked = {}
  OBVIOUS
<1> QED BY <1>1, <1>2 DEF Ahead

\* ShelfKept: once nothing is in flight, the page shows what the user made of what was stored,
\* and shows the same when it is opened again, or the user was told that it will not. Whatever the
\* browser held, localStorage working or not, if the user waits for a list to have loaded and a
\* sandbox, where there is one, refuses nothing and settles writes in the order asked. The code
\* sees to none of that, and without it the property fails (MCShelfRead).
THEOREM NothingKeptIsLost ==
  ASSUME LoadsFirst
  PROVE  ShelfSpec /\ (boxed => ~BoxFails /\ InOrder) => []ShelfKept
<1>1. (boxed => ~BoxFails /\ InOrder) => Gentle
  BY DEF Gentle
<1>2. Gentle /\ ShelfInv /\ [ShelfNext]_shelfVars => Gentle' /\ ShelfInv'
  BY ShelfStep, GentleStays
<1> QED BY <1>1, <1>2, ShelfInvInit, ShelfInvKeeps, PTL DEF ShelfSpec
=============================================================================
