------------------------------ MODULE Comparator ------------------------------
(***************************************************************************)
(* The comparator (core/src/eval/compare.ts): a candidate and a baseline   *)
(* are scored on the same cases, and judged once.                          *)
(*                                                                         *)
(* A cluster is one case; its rows are the looks taken at it, one when     *)
(* nothing is perturbed. The rows enter the running totals compare() works *)
(* on, cluster by cluster. A rational is <<numerator, denominator>>.       *)
(***************************************************************************)
EXTENDS Integers, FiniteSets

CONSTANTS
  Detectors,     \* the detectors the suite names
  Suites,        \* what an outcome may be judged under: a suite, the comparisons of its family
                 \* and the correction for them
  RecallPairs,   \* what the probes measured of the detectors on the two arms
  Alpha,         \* the nominal level
  RowsPerCase,   \* the numbers of rows a case may have
  MaxClusters    \* bound on the cases scored

Arms == {"candidate", "baseline"}
Protocols == {"exact-mcnemar", "clustered-paired", "bootstrap-ci"}

NotMeasured == <<0, 0>>   \* `recall: null`: the detector left no substrate
NoBlock == "none"         \* the corpus of a run that carries no recall

Fractions == {q \in Nat \X (Nat \ {0}) : q[1] =< q[2]}

ASSUME ComparatorAssumption ==
  /\ \A s \in Suites : /\ s.protocol \in Protocols
                       /\ s.detectable \in Fractions
                       /\ s.family \in Nat \ {0}
                       /\ s.correction \in {"none", "bonferroni"}
  /\ \A r \in RecallPairs :
        \A a \in Arms, d \in Detectors : r.of[a][d] \in Fractions \cup {NotMeasured}
  /\ Alpha \in Fractions
  /\ RowsPerCase \subseteq Nat \ {0}
  /\ MaxClusters \in Nat

VARIABLES
  tally,      \* the totals over the cases scored so far
  judgement   \* what compare() returned, once it was called

comparatorVars == <<tally, judgement>>

NoJudgement == [verdict |-> "none"]

NothingScored ==
  {[rows |-> n, clusters |-> 0, shared |-> TRUE, passed |-> [a \in Arms |-> 0],
    better |-> 0, worse |-> 0] : n \in RowsPerCase}

ComparatorInit ==
  /\ tally \in NothingScored
  /\ judgement = NoJudgement

Sides(x, y) == [a \in Arms |-> IF a = "candidate" THEN x ELSE y]

\* One more case: the candidate passes x of its rows and the baseline y.
ScoreCase(x, y) ==
  /\ judgement = NoJudgement
  /\ tally.clusters < MaxClusters
  /\ tally' = [tally EXCEPT !.clusters = @ + 1,
                            !.passed = [a \in Arms |-> @[a] + Sides(x, y)[a]],
                            !.better = @ + (IF x > y THEN 1 ELSE 0),
                            !.worse = @ + (IF x < y THEN 1 ELSE 0)]
  /\ UNCHANGED judgement

\* A case only one arm has.
ScoreUnshared ==
  /\ judgement = NoJudgement
  /\ tally.shared
  /\ tally' = [tally EXCEPT !.shared = FALSE]
  /\ UNCHANGED judgement

-----------------------------------------------------------------------------
(* The exact test.                                                         *)

Power[n \in Nat] == IF n = 0 THEN 1 ELSE 2 * Power[n - 1]

\* The number of ways to choose p[2] of p[1].
Ways[p \in Nat \X Nat] ==
  IF p[2] = 0 THEN 1
  ELSE IF p[1] = 0 THEN 0
  ELSE Ways[<<p[1] - 1, p[2] - 1>>] + Ways[<<p[1] - 1, p[2]>>]

\* To choose no more than p[2] of them.
LowTail[p \in Nat \X Nat] ==
  Ways[p] + (IF p[2] = 0 THEN 0 ELSE LowTail[<<p[1], p[2] - 1>>])

Smaller(b, c) == IF b < c THEN b ELSE c

\* The two-sided p of b signs against c, times Power[b + c]; above that, p is 1.
TwoSided(b, c) == 2 * LowTail[<<b + c, Smaller(b, c)>>]

\* The level is divided by comparisons_in_family when the correction is bonferroni.
Divisor(s) == IF s.correction = "bonferroni" THEN s.family ELSE 1

Corrected(s) == <<Alpha[1], Alpha[2] * Divisor(s)>>

Nominal(s) == Alpha

\* exactTwoSided(b, c) < alpha. No sign at all gives p = 1.
Clears(b, c, s) ==
  /\ b + c > 0
  /\ TwoSided(b, c) * Corrected(s)[2] < Corrected(s)[1] * Power[b + c]

\* minAttainableP(d) <= alpha.
Attainable(d, alpha) ==
  IF d = 0 THEN alpha[2] =< alpha[1] ELSE 2 * alpha[2] =< alpha[1] * Power[d]

\* floorDiscordant at the level nobody corrected.
HopelessAtNominal(s) == ~\E d \in 0..tally.clusters : Attainable(d, Nominal(s))

\* floorDiscordant on rows, the looks of one case counted as cases.
HopelessByRow(s) == ~\E d \in 0..(tally.clusters * tally.rows) : Attainable(d, Corrected(s))

\* clusters < floorDiscordant(alpha).
Hopeless(s) == ~\E d \in 0..tally.clusters : Attainable(d, Corrected(s))

-----------------------------------------------------------------------------
(* deriveEqualization.                                                     *)

Both(r, d) == r.of["candidate"][d] # NotMeasured /\ r.of["baseline"][d] # NotMeasured

Magnitude(n) == IF n < 0 THEN -n ELSE n

\* The recalls differ by no more than the suite can detect.
GapWithin(r, d, s) ==
  LET c == r.of["candidate"][d]
      b == r.of["baseline"][d]
  IN Magnitude(c[1] * b[2] - b[1] * c[2]) * s.detectable[2] =< s.detectable[1] * (c[2] * b[2])

Equalized(r, s) == \A d \in Detectors : GapWithin(r, d, s)

RecallKnown(r) ==
  /\ \A a \in Arms : r.corpus[a] # NoBlock
  /\ r.corpus["candidate"] = r.corpus["baseline"]
  /\ Detectors # {}
  /\ \A d \in Detectors : Both(r, d)

-----------------------------------------------------------------------------
(* compare.                                                                *)

Rows == tally.rows * tally.clusters

\* delta, in rows.
Delta == tally.passed["candidate"] - tally.passed["baseline"]

\* The resolution the suite declares.
BelowDeclared(r, s) ==
  /\ Delta # 0
  /\ Magnitude(Delta) * s.detectable[2] < s.detectable[1] * Rows

\* Probes ran on an arm and caught nothing: effective_recall is 0, and there is nothing to
\* divide by.
Dead(r) == \E a \in Arms, d \in Detectors : r.of[a][d] # NotMeasured /\ r.of[a][d][1] = 0

\* A delta below detectable_delta / effective_recall, the lowest recall of any detector.
BelowAdjusted(r, s) ==
  /\ Delta # 0
  /\ \E a \in Arms, d \in Detectors :
       (Magnitude(Delta) * s.detectable[2]) * r.of[a][d][1]
         < (s.detectable[1] * Rows) * r.of[a][d][2]

BelowResolution(r, s) == IF Dead(r) THEN BelowDeclared(r, s) ELSE BelowAdjusted(r, s)

\* Why compare() refuses, or "none", in the order of its early returns: the instrument is
\* judged before the measurement.
RefusalOf(r, s) ==
  IF ~RecallKnown(r) THEN "unmeasured"
  ELSE IF ~Equalized(r, s) THEN "gap"
  ELSE IF tally.clusters = 0 THEN "empty"
  ELSE IF ~tally.shared THEN "case sets differ"
  ELSE IF tally.rows > 1 /\ s.protocol = "exact-mcnemar" THEN "clustered data"
  ELSE IF s.protocol = "bootstrap-ci" THEN "not implemented"
  ELSE IF Hopeless(s) THEN "size"
  ELSE "none"

VerdictOf(r, s) ==
  IF RefusalOf(r, s) # "none" THEN "refused"
  ELSE IF BelowResolution(r, s) \/ ~Clears(tally.better, tally.worse, s) THEN "inconclusive"
  ELSE IF Delta > 0 THEN "improved"
  ELSE "regressed"

\* One call of compare(): the runs, what the probes measured of them, and a suite.
Compare(r, s) ==
  /\ judgement = NoJudgement
  /\ judgement' = [verdict |-> VerdictOf(r, s), refusal |-> RefusalOf(r, s), recall |-> r, suite |-> s]
  /\ UNCHANGED tally

ComparatorNext ==
  \/ \E x, y \in 0..tally.rows : ScoreCase(x, y)
  \/ ScoreUnshared
  \/ \E r \in RecallPairs, s \in Suites : Compare(r, s)

ComparatorSpec == ComparatorInit /\ [][ComparatorNext]_comparatorVars

-----------------------------------------------------------------------------
(* Properties.                                                             *)

Failures(a) == Rows - tally.passed[a]

\* The two arms failed equally often, and a detector found on each of them the share of those
\* failures that is its recall there: all the difference there is, is the instrument's.
OnlyTheInstrument(d, r) ==
  \E f \in 0..Rows :
    \A a \in Arms : Failures(a) * r.of[a][d][2] = f * r.of[a][d][1]

\* compare.ts, deriveEqualization: "a pure recall artifact can never on its own clear the
\* reporting threshold". An improvement or a regression is never what arms that failed equally
\* often look like through a detector of unequal recall.
NoArtifact ==
  judgement.verdict \in {"improved", "regressed"} =>
    \A d \in Detectors : OnlyTheInstrument(d, judgement.recall) => Delta = 0

\* The same where no detector is dead: run-eval fails a run with a dead one, but looks at the
\* first of the two arms only.
NoArtifactVerdict == judgement # NoJudgement /\ ~Dead(judgement.recall) => NoArtifact

\* compare.ts, the floor: a refusal for size says no evidence could have been enough, any other
\* answer that some could. Counted in cases, at the level corrected for the family.
RefusedIsHopeless ==
  LET Decidable == \E b, c \in 0..tally.clusters :
                     b + c =< tally.clusters /\ Clears(b, c, judgement.suite)
  IN judgement # NoJudgement =>
       /\ judgement.refusal = "size" => ~Decidable
       /\ judgement.refusal = "none" => Decidable

\* Not claimed of clustered data: a verdict has the sign of most of the cases it rests on.
NoWrongSign ==
  /\ judgement.verdict = "improved" => tally.better > tally.worse
  /\ judgement.verdict = "regressed" => tally.worse > tally.better
=============================================================================
