------------------------------- MODULE Release -------------------------------
(***************************************************************************)
(* The evidence plane (evidence-local) and the release operations on it:   *)
(* freezeBaseline, promote, rollback and current, called by concurrent     *)
(* clients of one directory, in one process or in several.                 *)
(*                                                                         *)
(* A record is one file, <kind>/<id>.json. put opens it with wx, which     *)
(* fails when the file exists, and fills it later; a process that stops in *)
(* between, or a full disk, leaves it torn. Every await is a step.         *)
(*                                                                         *)
(* The id of a record is its key in `store`; ids of different kinds are    *)
(* different keys, as their directories differ. A run and a comparison are *)
(* measured elsewhere and only recorded here.                              *)
(***************************************************************************)
EXTENDS Integers, FiniteSets

CONSTANTS
  RunIds, BaselineIds, ComparisonIds,
  PromotionIds,   \* ordered: ids break ties of created_at
  Clients,
  Configurations,
  Measured,       \* per run id or comparison id, the records a caller may store under it
  Times,          \* the timestamps callers supply
  Modes,          \* the failure modes of a suite
  Granularity,    \* the score granularity of the suite, a share of its cases: <<1, n>>
  Absent, Torn    \* a file that does not exist, and one cut short

\* Of a mode, how many cases passed and how many were scored, none of either for a mode a run
\* does not have.
Scores == {q \in Nat \X Nat : q[1] =< q[2]}

Run == [configuration : Configurations, scored : [Modes -> Scores],
        exceeded : BOOLEAN, judged : BOOLEAN]

Baseline == [run : RunIds, lineage : {"benchmark", "development"}]

Comparison ==
  [candidate : RunIds, baseline : BaselineIds, attainable : BOOLEAN,
   verdict : {"improved", "inconclusive"}, equalized : BOOLEAN]

Nothing == 0      \* `supersedes: null`

Promotion ==
  [kind : {"promote", "rollback"}, configuration : Configurations, run : RunIds,
   baseline : BaselineIds, comparison : ComparisonIds,
   judge : {"none", "refused", "admitted"}, supersedes : PromotionIds \cup {Nothing},
   at : Times]

Keys == RunIds \cup BaselineIds \cup ComparisonIds \cup PromotionIds

BodiesOf(k) ==
  IF k \in RunIds THEN Run
  ELSE IF k \in BaselineIds THEN Baseline
  ELSE IF k \in ComparisonIds THEN Comparison ELSE Promotion

ASSUME ReleaseAssumption ==
  /\ PromotionIds \subseteq Nat \ {Nothing}
  /\ Times \subseteq Nat
  /\ Granularity \in Nat \X (Nat \ {0})
  /\ \A k \in RunIds : Measured[k] \subseteq Run
  /\ \A k \in ComparisonIds : Measured[k] \subseteq Comparison

ASSUME KindsAreApart ==
  /\ RunIds \cap (BaselineIds \cup ComparisonIds \cup PromotionIds) = {}
  /\ BaselineIds \cap (ComparisonIds \cup PromotionIds) = {}
  /\ ComparisonIds \cap PromotionIds = {}

ASSUME MarkersAreNoBodies ==
  /\ Absent # Torn
  /\ \A k \in Keys : Absent \notin BodiesOf(k) /\ Torn \notin BodiesOf(k)

VARIABLES
  store,      \* per key, the content of its file
  pc,         \* per client, the next step of its call
  job,        \* per client, the arguments of its call
  need,       \* per client, the files it still has to read
  got,        \* per client, the bodies it has read
  draft       \* per client, the record its put is to write

vars == <<store, pc, job, need, got, draft>>

Whole(k) == store[k] \notin {Absent, Torn}

NoJob == [op |-> "none"]
NoDraft == [key |-> Nothing, body |-> Absent]
GotNothing == [k \in Keys |-> Absent]

Init ==
  /\ store = [k \in Keys |-> Absent]
  /\ pc = [c \in Clients |-> "idle"]
  /\ job = [c \in Clients |-> NoJob]
  /\ need = [c \in Clients |-> {}]
  /\ got = [c \in Clients |-> GotNothing]
  /\ draft = [c \in Clients |-> NoDraft]

\* The call returns or throws.
Leave(c) ==
  /\ pc' = [pc EXCEPT ![c] = "idle"]
  /\ job' = [job EXCEPT ![c] = NoJob]
  /\ need' = [need EXCEPT ![c] = {}]
  /\ got' = [got EXCEPT ![c] = GotNothing]
  /\ draft' = [draft EXCEPT ![c] = NoDraft]

Begin(c, j, keys, step) ==
  /\ pc[c] = "idle"
  /\ job' = [job EXCEPT ![c] = j]
  /\ need' = [need EXCEPT ![c] = keys]
  /\ pc' = [pc EXCEPT ![c] = step]
  /\ UNCHANGED <<store, got, draft>>

-----------------------------------------------------------------------------
(* put.                                                                    *)

\* A put that replaces the record when there is one.
OpenAnyway(k) == TRUE

\* wx: the open creates the file or fails.
Creates(k) == store[k] = Absent

\* put, up to the open; what comes before it in the call reads nothing more.
Put(c, k, body) ==
  \/ /\ ~Creates(k)
     /\ Leave(c)
     /\ UNCHANGED store
  \/ /\ Creates(k)
     /\ store' = [store EXCEPT ![k] = Torn]
     /\ draft' = [draft EXCEPT ![c] = [key |-> k, body |-> body]]
     /\ pc' = [pc EXCEPT ![c] = "fill"]
     /\ job' = [job EXCEPT ![c] = NoJob]
     /\ need' = [need EXCEPT ![c] = {}]
     /\ got' = [got EXCEPT ![c] = GotNothing]

\* A run or a comparison is stored by the caller that measured it.
Record(c) ==
  /\ pc[c] = "idle"
  /\ \E k \in RunIds \cup ComparisonIds : \E body \in Measured[k] : Put(c, k, body)

PutFill(c) ==
  /\ pc[c] = "fill"
  /\ store' = [store EXCEPT ![draft[c].key] = draft[c].body]
  /\ Leave(c)

\* A process stops, or a read, an open or a write fails, between any two steps.
Fails(c) ==
  /\ pc[c] # "idle"
  /\ Leave(c)
  /\ UNCHANGED store

-----------------------------------------------------------------------------
(* freezeBaseline, promote and rollback: load, decide, put.                *)

\* An argument is chosen where the code first uses it.
CallFreeze(c) ==
  \E r \in RunIds : Begin(c, [op |-> "freeze", run |-> r], {r}, "load")

CallPromote(c) ==
  \E r \in RunIds, b \in BaselineIds, m \in ComparisonIds :
    Begin(c, [op |-> "promote", run |-> r, baseline |-> b, comparison |-> m], {r, b, m}, "load")

CallRollback(c) ==
  \E q \in PromotionIds : Begin(c, [op |-> "rollback", reverses |-> q], {q}, "load")

\* load: a missing record throws EvidenceMissing, a torn one does not parse.
Load(c) ==
  /\ pc[c] = "load"
  /\ \E k \in need[c] :
       \/ /\ ~Whole(k)
          /\ Leave(c)
       \/ /\ Whole(k)
          /\ got' = [got EXCEPT ![c][k] = store[k]]
          /\ need' = [need EXCEPT ![c] = @ \ {k}]
          /\ UNCHANGED <<pc, job, draft>>
  /\ UNCHANGED store

Loaded(c, op) == pc[c] = "load" /\ need[c] = {} /\ job[c].op = op

Freeze(c) ==
  /\ Loaded(c, "freeze")
  /\ \E b \in BaselineIds, lineage \in {"benchmark", "development"} :
       Put(c, b, [run |-> job[c].run, lineage |-> lineage])

\* A gate that compares the candidate with itself.
CandidateRunOf(c) == job[c].run

BaselineRunOf(c) == got[c][job[c].baseline].run

\* The run of the baseline is loaded once the baseline says which it is.
LoadBaselineRun(c) ==
  /\ Loaded(c, "promote")
  /\ LET r == BaselineRunOf(c)
     IN \/ /\ ~Whole(r)
           /\ Leave(c)
        \/ /\ Whole(r)
           /\ got' = [got EXCEPT ![c][r] = store[r]]
           /\ pc' = [pc EXCEPT ![c] = "decide"]
           /\ UNCHANGED <<job, need, draft>>
  /\ UNCHANGED store

\* modeRegressions: modes the baseline scored, with the candidate's rate down by more than the
\* granularity; a mode the candidate did not score counts as none passed.
Regressed(candidate, base) ==
  {m \in Modes :
     LET now == IF candidate.scored[m][2] = 0 THEN <<0, 1>> ELSE candidate.scored[m]
         then == base.scored[m]
     IN /\ then[2] > 0
        /\ (then[1] * now[2] - now[1] * then[2]) * Granularity[2]
             > Granularity[1] * (then[2] * now[2])}

Significant(m) == m.attainable /\ m.verdict = "improved"

\* Pointer identity. The run of the baseline is loaded by the baseline's own pointer.
PointersAgree(j, m) == m.candidate = j.run /\ m.baseline = j.baseline

\* decidePromotion: the preconditions and the five conditions, all of which must hold.
Promotable(j, run, base, baseRun, m, judge) ==
  /\ base.lineage = "benchmark"
  /\ PointersAgree(j, m)
  /\ Significant(m)
  /\ Regressed(run, baseRun) = {}
  /\ ~run.exceeded
  /\ run.judged => judge = "admitted"
  /\ m.equalized

\* `refused`: the claim is cost, or a content ref does not resolve.
Decide(c) ==
  /\ pc[c] = "decide"
  /\ LET j == job[c]
         run == got[c][j.run]
         base == got[c][j.baseline]
     IN \E p \in PromotionIds, t \in Times, judge \in {"none", "refused", "admitted"},
           refused \in BOOLEAN :
          IF ~refused /\ Promotable(j, run, base, got[c][BaselineRunOf(c)], got[c][j.comparison], judge)
          THEN Put(c, p,
                 [kind |-> "promote", configuration |-> run.configuration, run |-> j.run,
                  baseline |-> j.baseline, comparison |-> j.comparison,
                  judge |-> judge, supersedes |-> Nothing, at |-> t])
          ELSE Leave(c) /\ UNCHANGED store

\* rollbackOf: the record reversed, with its pointers and its configuration.
Reversed(promotion, q, t) ==
  [promotion EXCEPT !.kind = "rollback", !.supersedes = q, !.at = t]

Rollback(c) ==
  /\ Loaded(c, "rollback")
  /\ LET q == job[c].reverses
     IN \E p \in PromotionIds, t \in Times : Put(c, p, Reversed(got[c][q], q, t))

-----------------------------------------------------------------------------
(* current: the newest of the list, then that record.                      *)

\* p precedes q in the list: newer, or as new with a greater id.
Outranks(f, p, q) == f[p].at > f[q].at \/ (f[p].at = f[q].at /\ p > q)

Promotions(f) == {p \in PromotionIds : f[p] \notin {Absent, Torn}}

\* readdir: the names there are; the files are read one by one afterwards.
CallCurrent(c) ==
  Begin(c, [op |-> "current", floor |-> Promotions(store)],
        {p \in PromotionIds : store[p] # Absent}, "read")

\* A torn file is skipped.
ListRead(c) ==
  /\ pc[c] = "read"
  /\ \E k \in need[c] :
       /\ need' = [need EXCEPT ![c] = @ \ {k}]
       /\ got' = IF Whole(k) THEN [got EXCEPT ![c][k] = store[k]] ELSE got
  /\ UNCHANGED <<store, pc, job, draft>>

\* A list sorted oldest first.
OldestOf(f) == {p \in Promotions(f) : \A q \in Promotions(f) \ {p} : Outranks(f, q, p)}

NewestOf(f) == {p \in Promotions(f) : \A q \in Promotions(f) \ {p} : Outranks(f, p, q)}

\* The answer is loaded again by its id; there is none when the list is empty.
Answer(c) ==
  /\ pc[c] = "read"
  /\ need[c] = {}
  /\ Leave(c)
  /\ UNCHANGED store

Next ==
  \E c \in Clients :
    \/ Record(c) \/ PutFill(c) \/ Fails(c)
    \/ CallFreeze(c) \/ CallPromote(c) \/ CallRollback(c) \/ Load(c)
    \/ Freeze(c) \/ LoadBaselineRun(c) \/ Decide(c) \/ Rollback(c)
    \/ CallCurrent(c) \/ ListRead(c) \/ Answer(c)

Spec == Init /\ [][Next]_vars

-----------------------------------------------------------------------------
(* Properties.                                                             *)

\* The states the fields of a call may be in (evidence-local and release.ts): files hold
\* records of their kind, a draft is a record of the kind of its key.
TypeOK ==
  /\ store = [k \in Keys |-> store[k]]
  /\ \A k \in Keys : Whole(k) => store[k] \in BodiesOf(k)
  /\ pc \in [Clients -> {"idle", "load", "decide", "fill", "read"}]
  /\ need \in [Clients -> SUBSET Keys]
  /\ \A c \in Clients :
       pc[c] = "fill" =>
         draft[c].key \in Keys /\ draft[c].body \in BodiesOf(draft[c].key)

\* A record, once whole, is never changed, whichever clients put, stop and retry: wx leaves
\* no cycle to interleave (evidence-local, put). A torn one is completed by its writer only.
EvidenceImmutable ==
  [][\A k \in Keys :
       /\ Whole(k) => store'[k] = store[k]
       /\ store[k] = Torn =>
            store'[k] \in {Torn} \cup {draft[c].body : c \in {d \in Clients :
                                         pc[d] = "fill" /\ draft[d].key = k}}]_vars

\* What a promotion record claims holds of the records it names, as they are now.
Certified(p) ==
  /\ p.run \in RunIds /\ Whole(p.run)
  /\ p.baseline \in BaselineIds /\ Whole(p.baseline)
  /\ p.comparison \in ComparisonIds /\ Whole(p.comparison)
  /\ LET run == store[p.run]
         base == store[p.baseline]
         m == store[p.comparison]
     IN /\ Whole(base.run)
        /\ base.lineage = "benchmark"
        /\ m.candidate = p.run /\ m.baseline = p.baseline
        /\ Significant(m) /\ m.equalized
        /\ Regressed(run, store[base.run]) = {}
        /\ ~run.exceeded
        /\ run.judged => p.judge = "admitted"
        /\ p.configuration = run.configuration

\* Every record of the promotion list, the rollbacks included, names evidence that is there,
\* refers to itself consistently and satisfies the five conditions, although each was read
\* at another time than the record was written ("the pointers in a Promotion are only worth
\* something if the promotion was decided from what those pointers actually resolve to").
PromotionsAreCertified == \A p \in Promotions(store) : Certified(store[p])

\* What current answers is no older than any promotion that was recorded when it began,
\* although the list is read file by file while others are written.
CurrentIsFresh ==
  \A c \in Clients :
    pc[c] = "read" /\ need[c] = {} /\ job[c].floor # {} =>
      \E p \in NewestOf(got[c]) :
        /\ store[p] = got[c][p]
        /\ \A q \in job[c].floor \ {p} : Outranks(store, p, q)

\* "undoing a promotion makes the configuration it reverted current again" (release.ts,
\* current): a rollback of a promotion names the configuration the promotion replaced.
RollbackRestores ==
  \A p \in Promotions(store) :
    LET q == store[p].supersedes
        Older == {x \in Promotions(store) : Outranks(store, q, x)}
    IN store[p].kind = "rollback" /\ store[q].kind = "promote" =>
         \A x \in Older :
           (\A y \in Older \ {x} : Outranks(store, x, y)) =>
              store[p].configuration = store[x].configuration
=============================================================================
