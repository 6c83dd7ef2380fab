------------------------------ MODULE MCRelease ------------------------------
(* Small instances of the comparator and of the evidence plane its          *)
(* comparisons go to: one or the other runs, a comparison enters the plane  *)
(* as the record a caller stores.                                           *)
EXTENDS Release, Comparator, TLC

CONSTANTS r1, r2, r3, b1, m1, m2, c1, c2, mode

Scored(configuration, score, exceeded, judged) ==
  [configuration |-> configuration, scored |-> (mode :> score), exceeded |-> exceeded,
   judged |-> judged]

Compared(equalized) ==
  [candidate |-> r2, baseline |-> b1, attainable |-> TRUE, verdict |-> "improved",
   equalized |-> equalized]

\* The run of the baseline, the candidate, which may be judged and down by exactly the
\* granularity, or without a case of the mode, and the comparison of the two.
MCMeasured ==
  (r1 :> {Scored("x", <<3, 4>>, FALSE, FALSE)}) @@
  (r2 :> {Scored("y", <<2, 4>>, FALSE, TRUE), Scored("y", <<0, 0>>, FALSE, FALSE)}) @@
  (m1 :> {Compared(TRUE)})

\* Two candidates, each better than the baseline.
MCMeasuredTwo ==
  (r1 :> {Scored("x", <<1, 4>>, FALSE, FALSE)}) @@
  (r2 :> {Scored("y", <<2, 4>>, FALSE, FALSE)}) @@
  (r3 :> {Scored("z", <<2, 4>>, FALSE, FALSE)}) @@
  (m1 :> {Compared(TRUE)}) @@
  (m2 :> {[Compared(TRUE) EXCEPT !.candidate = r3]})

MCGranularity == <<1, 4>>

MCAlpha == <<1, 20>>
FloorAlpha == <<1, 32>>   \* the smallest p of six signs

\* The correction compare() chooses when its caller names none.
SuiteOf(protocol, detectable, family) ==
  [protocol |-> protocol, detectable |-> detectable, family |-> family,
   correction |-> IF family > 1 THEN "bonferroni" ELSE "none"]

\* Every protocol, a resolution as wide as a recall gap and a fine one, one comparison or two,
\* and two that the caller does not correct for.
MCSuites ==
  {SuiteOf("clustered-paired", q, n) : q \in {<<1, 2>>, <<1, 14>>}, n \in {1, 2}} \cup
  {SuiteOf("exact-mcnemar", <<1, 14>>, 1), SuiteOf("bootstrap-ci", <<1, 2>>, 1),
   [SuiteOf("clustered-paired", <<1, 14>>, 2) EXCEPT !.correction = "none"]}

RecallOf(x, y) ==
  [corpus |-> [a \in Arms |-> "v1"], of |-> [a \in Arms |-> [d \in Detectors |-> Sides(x, y)[a]]]]

\* Equal and unequal recall, either way, a dead detector, and three ways a recall is not known.
MCRecallPairs ==
  {RecallOf(<<1, 1>>, <<1, 1>>), RecallOf(<<1, 1>>, <<1, 2>>), RecallOf(<<1, 2>>, <<1, 1>>),
   RecallOf(<<0, 1>>, <<1, 2>>),
   RecallOf(NotMeasured, <<1, 1>>),
   [RecallOf(<<1, 1>>, <<1, 1>>) EXCEPT !.corpus["candidate"] = NoBlock],
   [RecallOf(<<1, 1>>, <<1, 1>>) EXCEPT !.corpus["baseline"] = "v2"]}

\* One suite and equal recall, to look at many cases.
MCSuite == {SuiteOf("clustered-paired", <<1, 14>>, 1)}
MCRecallPair == {RecallOf(<<1, 1>>, <<1, 1>>)}

NothingCalled == store = [k \in Keys |-> Absent] /\ pc = [c \in Clients |-> "idle"]

MCInit == Init /\ ComparatorInit

\* The next pair of runs is scored.
NextPair == judgement # NoJudgement /\ tally' \in NothingScored /\ judgement' = NoJudgement

MCNext ==
  \/ NothingCalled /\ (ComparatorNext \/ NextPair) /\ UNCHANGED vars
  \/ tally.rows = 1 /\ tally.clusters = 0 /\ judgement = NoJudgement /\ Next /\ UNCHANGED comparatorVars

MCSpec == MCInit /\ [][MCNext]_<<vars, comparatorVars>>
=============================================================================
