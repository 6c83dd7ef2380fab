-------------------------- MODULE ContentPlaneProofs --------------------------
(***************************************************************************)
(* Theorems about ContentPlane, for any runs, bodies, bounds and faults.   *)
(*                                                                         *)
(* What holds while runs do not overlap is an invariant of the one run in  *)
(* progress: what it retained and what its next revision will name is      *)
(* whole (Intact), its partial file is its own, and its sweep spares every *)
(* body that a bundle names, because the listing it reads holds every      *)
(* bundle and no bundle changes while it sweeps (Sweeping).                *)
(***************************************************************************)
EXTENDS ContentPlane, TLAPS, SequenceTheorems, WellFoundedInduction

Retaining == {"put", "fill", "verify"}

InProgress(r) == run[r].pc \notin Over

\* What the steps of a run rely on and its type does not say.
WellFormed(s) ==
  /\ s.pc = "idle" => s.retained = {}
  /\ s.pc \in Retaining \cup {"append"} => s.done < Stages
  /\ s.pc \in Retaining => s.body \in Bodies /\ s.out = Null
  /\ s.pc \in Retaining /\ s.slot = "out" => s.in \in Bodies
  /\ s.pc = "sweepRead" => s.todo \subseteq Runs
  /\ s.pc = "sweep" => s.todo \subseteq Bodies

Shape ==
  /\ Len(recent) <= MaxBundles
  /\ \A r \in Runs : WellFormed(run[r])

\* The sweep of run r: what it found live is cited and, when the listing was complete, what is
\* cited is live or still to be read; a file it is done with is live or gone.
Sweeping(r) ==
  /\ run[r].pc \in {"sweepRead", "sweep"} => run[r].live \subseteq Cited
  /\ run[r].pc = "sweepRead" /\ seen = {} =>
       Cited \subseteq run[r].live \cup UNION {RefsOf(bundle[q]) : q \in run[r].todo}
  /\ run[r].pc = "sweep" =>
       /\ run[r].retained \subseteq run[r].live
       /\ seen = {} => Cited \subseteq run[r].live
       /\ \A b \in Bodies \ run[r].todo : content[b] # "absent" => b \in run[r].live

\* Run r, when no other is in progress: its bodies are whole, its partial file is its own.
Intact(r) ==
  /\ run[r].pc \in Retaining \cup {"append"} =>
       \A b \in {run[r].in, run[r].out} \ {Null} : content[b] = "whole"
  /\ run[r].pc = "fill" => writer[run[r].body] = r
  /\ \A b \in run[r].retained : content[b] = "whole"
  /\ Sweeping(r)

Solo(r) == Intact(r) /\ \A q \in Runs : InProgress(q) => q = r

NoOverlapSolo == "overlap" \notin seen => \A r \in Runs : InProgress(r) => Solo(r)

Inv == TypeOK /\ Shape /\ NoTruncatedBundle /\ NoDanglingRef /\ NoOverlapSolo

-----------------------------------------------------------------------------
(* Sequences: the order of eviction.                                       *)

\* A set of naturals that is not empty has a least one.
LEMMA LeastNatural ==
  ASSUME NEW S \in SUBSET Nat, S # {}
  PROVE  \E m \in S : \A k \in S : m <= k
<1>1. PICK m \in S : \A k \in S : ~(<<k, m>> \in OpToRel(<, Nat))
  BY WFMin, NatLessThanWellFounded
<1>2. \A k \in S : ~(k < m)
  BY <1>1 DEF OpToRel
<1> QED BY <1>2

\* Taking out the element at a place adds none.
LEMMA RemoveAtKeeps ==
  ASSUME NEW S, NEW s \in Seq(S), NEW i \in 1 .. Len(s)
  PROVE  /\ RemoveAt(s, i) \in Seq(S)
         /\ ToSet(RemoveAt(s, i)) \subseteq ToSet(s)
<1>1. PICK n \in Nat : n = Len(s)
  BY LenProperties
<1>2. i \in 1 .. n /\ DOMAIN s = 1 .. n /\ \A j \in 1 .. n : s[j] \in S
  BY <1>1, ElementOfSeq, LenProperties
<1> DEFINE T == ToSet(s) \cap S
<1>3. \A j \in 1 .. n : s[j] \in T
  BY <1>2 DEF ToSet
<1> HIDE DEF T
<1>4. SubSeq(s, 1, i - 1) \in Seq(T)
  <2>1. i - 1 \in Int /\ \A j \in 1 .. i - 1 : s[j] \in T
    BY <1>2, <1>3
  <2> QED BY <2>1, SubSeqProperties
<1>5. SubSeq(s, i + 1, n) \in Seq(T)
  <2>1. i + 1 \in Int /\ n \in Int /\ \A j \in i + 1 .. n : s[j] \in T
    BY <1>2, <1>3
  <2> QED BY <2>1, SubSeqProperties
<1>6. RemoveAt(s, i) \in Seq(T)
  BY <1>1, <1>4, <1>5, ConcatProperties DEF RemoveAt
<1>7. \A j \in DOMAIN RemoveAt(s, i) : RemoveAt(s, i)[j] \in T
  BY <1>6, LenProperties, ElementOfSeq
<1>8. T \subseteq ToSet(s) /\ T \subseteq S
  BY DEF T
<1> QED BY <1>6, <1>7, <1>8, SeqMonotonic DEF ToSet

\* Taking the first of some element out of a sequence adds none.
LEMMA RemoveFirstKeeps ==
  ASSUME NEW S, NEW s \in Seq(S), NEW e
  PROVE  /\ RemoveFirst(s, e) \in Seq(S)
         /\ ToSet(RemoveFirst(s, e)) \subseteq ToSet(s)
<1> DEFINE places == {i \in 1 .. Len(s) : s[i] = e}
<1>1. CASE places = {}
  BY <1>1 DEF RemoveFirst
<1>2. CASE places # {}
  <2>1. Min(places) \in places
    <3>1. places \in SUBSET Nat
      BY LenProperties
    <3>2. \E m \in places : \A k \in places : m <= k
      BY <1>2, <3>1, LeastNatural
    <3> QED BY <3>2 DEF Min
  <2>2. RemoveFirst(s, e) = RemoveAt(s, Min(places))
    BY <1>2 DEF RemoveFirst, SelectInSeq
  <2> QED BY <2>1, <2>2, RemoveAtKeeps
<1> QED BY <1>1, <1>2

\* The newest of a sequence are a prefix of it, no longer than asked.
LEMMA NewestKeeps ==
  ASSUME NEW S, NEW s \in Seq(S), NEW n \in Nat
  PROVE  /\ Newest(s, n) \in Seq(S)
         /\ Len(Newest(s, n)) <= n
         /\ ToSet(Newest(s, n)) \subseteq ToSet(s)
         /\ Len(s) <= n => Newest(s, n) = s
         /\ Len(s) > 0 /\ n > 0 => s[1] \in ToSet(Newest(s, n))
<1> DEFINE m == IF Len(s) <= n THEN Len(s) ELSE n
<1>1. Len(s) \in Nat /\ DOMAIN s = 1 .. Len(s) /\ s \in [1 .. Len(s) -> S]
  BY LenProperties
<1>2. DOMAIN s \cap 1 .. n = 1 .. m /\ m \in Nat /\ m <= n /\ m <= Len(s)
  BY <1>1
<1> HIDE DEF m
<1>3. Newest(s, n) = [i \in 1 .. m |-> s[i]]
  BY <1>2 DEF Newest
<1>4. Newest(s, n) \in [1 .. m -> S]
  BY <1>1, <1>2, <1>3
<1>5. Newest(s, n) \in Seq(S) /\ Len(Newest(s, n)) = m /\ DOMAIN Newest(s, n) = 1 .. m
  BY <1>2, <1>4
<1>6. ToSet(Newest(s, n)) \subseteq ToSet(s)
  BY <1>1, <1>2, <1>3, <1>5 DEF ToSet
<1>7. Len(s) <= n => Newest(s, n) = s
  BY <1>1, <1>3 DEF m
<1>8. Len(s) > 0 /\ n > 0 => s[1] \in ToSet(Newest(s, n))
  BY <1>1, <1>3, <1>5 DEF ToSet, m
<1> QED BY <1>2, <1>5, <1>6, <1>7, <1>8

-----------------------------------------------------------------------------
(* The type of the state, and its shape.                                   *)

Entries == [in : Refs, out : Refs, failed : BOOLEAN]

\* What a bundle refers to are bodies.
LEMMA RefsAreBodies == ASSUME NEW b \in Seq(Entries) PROVE RefsOf(b) \subseteq Bodies
<1>1. \A i \in DOMAIN b : b[i] \in Entries
  BY ElementOfSeq, LenProperties
<1>2. \A e \in ToSet(b) : e \in Entries
  BY <1>1 DEF ToSet
<1>3. \A e \in Entries : {e.in, e.out} \subseteq Bodies \cup {Null}
  BY DEF Entries, Refs
<1> QED BY <1>2, <1>3 DEF RefsOf

\* A step replaces the state of one run.
LEMMA RunReplaced ==
  ASSUME run \in [Runs -> RunStates], \A q \in Runs : WellFormed(run[q]),
         NEW r \in Runs, NEW s \in RunStates, WellFormed(s),
         run' = [run EXCEPT ![r] = s]
  PROVE  run' \in [Runs -> RunStates] /\ \A q \in Runs : WellFormed(run'[q])
OBVIOUS

\* A retained body: the refs of the stage become those of its files, and the next step is known.
LEMMA RetainTypes ==
  ASSUME TypeOK, Shape, NEW r \in Runs, run[r].pc \in Retaining, Retain(r)
  PROVE  run' \in [Runs -> RunStates] /\ \A q \in Runs : WellFormed(run'[q])
<1>1. run[r] \in RunStates /\ WellFormed(run[r]) /\ run \in [Runs -> RunStates]
  BY DEF TypeOK, Shape
<1>2. ASSUME NEW b \in Bodies, run[r].slot = "in",
             run' = [run EXCEPT ![r].in = run[r].body, ![r].slot = "out", ![r].body = b, ![r].pc = "put"]
      PROVE  run' \in [Runs -> RunStates] /\ \A q \in Runs : WellFormed(run'[q])
  <2> DEFINE s == [run[r] EXCEPT !.in = run[r].body, !.slot = "out", !.body = b, !.pc = "put"]
  <2>1. s \in RunStates /\ WellFormed(s)
    BY <1>1 DEF RunStates, WellFormed, Retaining, Refs
  <2>2. run' = [run EXCEPT ![r] = s]
    BY <1>1, <1>2
  <2> QED BY <2>1, <2>2, RunReplaced DEF TypeOK, Shape
<1>3. ASSUME run[r].slot = "out",
             run' = [run EXCEPT ![r].out = run[r].body, ![r].retained = @ \cup Remembered(r),
                                ![r].pc = "append"]
      PROVE  run' \in [Runs -> RunStates] /\ \A q \in Runs : WellFormed(run'[q])
  <2> DEFINE s == [run[r] EXCEPT !.out = run[r].body, !.retained = @ \cup Remembered(r),
                                 !.pc = "append"]
  <2>1. s \in RunStates /\ WellFormed(s)
    BY <1>1, <1>3 DEF RunStates, WellFormed, Retaining, Refs, Remembered
  <2>2. run' = [run EXCEPT ![r] = s]
    BY <1>1, <1>3
  <2> QED BY <2>1, <2>2, RunReplaced DEF TypeOK, Shape
<1> QED BY <1>2, <1>3 DEF Retain

\* A failed put leaves the run at its append.
LEMMA RetentionFailsTypes ==
  ASSUME TypeOK, Shape, NEW r \in Runs, run[r].pc \in Retaining,
         NEW corrupt \in BOOLEAN, RetentionFails(r, corrupt)
  PROVE  run' \in [Runs -> RunStates] /\ \A q \in Runs : WellFormed(run'[q])
<1> DEFINE s == [run[r] EXCEPT !.failed = TRUE, !.pc = "append", !.refused = @ \/ corrupt]
<1>1. run[r] \in RunStates /\ WellFormed(run[r]) /\ run \in [Runs -> RunStates]
  BY DEF TypeOK, Shape
<1>2. s \in RunStates /\ WellFormed(s)
  BY <1>1 DEF RunStates, WellFormed, Retaining
<1>3. run' = [run EXCEPT ![r] = s]
  BY <1>1 DEF RetentionFails
<1> QED BY <1>2, <1>3, RunReplaced DEF TypeOK, Shape

\* A step that only moves a run on, to a place that asks nothing of it.
LEMMA GotoTypes ==
  ASSUME TypeOK, Shape, NEW r \in Runs, NEW to \in {"stage", "finished", "aborted"}, Goto(r, to)
  PROVE  run' \in [Runs -> RunStates] /\ \A q \in Runs : WellFormed(run'[q])
<1> DEFINE s == [run[r] EXCEPT !.pc = to]
<1>1. run[r] \in RunStates /\ WellFormed(run[r]) /\ run \in [Runs -> RunStates]
  BY DEF TypeOK, Shape
<1>2. s \in RunStates /\ WellFormed(s)
  BY <1>1 DEF RunStates, WellFormed, Retaining, Over
<1>3. run' = [run EXCEPT ![r] = s]
  BY <1>1 DEF Goto
<1> QED BY <1>2, <1>3, RunReplaced DEF TypeOK, Shape

\* What else a step may change: the files, the failures and what was seen.
StoreSame == bundle' = bundle /\ recent' = recent

LEMMA FilesTyped ==
  ASSUME TypeOK, Shape, StoreSame,
         content' \in [Bodies -> {"absent", "partial", "whole"}],
         writer' \in [Bodies -> Runs \cup {Null}],
         faults' = faults \/ Fault,
         seen' \subseteq seen \cup {"overlap", "short"},
         run' \in [Runs -> RunStates], \A q \in Runs : WellFormed(run'[q])
  PROVE  TypeOK' /\ Shape'
<1>1. faults' \in 0 .. MaxFaults
  BY ContentAssumption DEF TypeOK, Fault
<1> QED BY <1>1 DEF TypeOK, Shape, StoreSame

LEMMA ClosedTyped == ASSUME TypeOK, NEW r \in Runs PROVE Closed(r) \in [Bodies -> Runs \cup {Null}]
BY DEF TypeOK, Closed

\* Appending an entry: the bundles held are those in the order of eviction.
LEMMA AppendTypes ==
  ASSUME TypeOK, Shape, NEW r \in Runs, AppendEntry(r)
  PROVE  TypeOK' /\ Shape'
<1>1. run[r] \in RunStates /\ WellFormed(run[r]) /\ run \in [Runs -> RunStates]
  BY DEF TypeOK, Shape
<1>2. CASE Vanished(r) /\ Goto(r, "aborted") /\ UNCHANGED <<bundle, recent>>
  <2> QED BY <1>2, GotoTypes, FilesTyped DEF AppendEntry, StoreSame, TypeOK
<1>3. CASE ~Vanished(r)
  <2> DEFINE order == <<r>> \o RemoveFirst(recent, r)
             kept == Newest(order, MaxBundles)
             s == [run[r] EXCEPT !.done = @ + 1, !.pc = "stage"]
  <2>1. /\ recent' = kept
        /\ bundle' = [q \in Runs |-> IF q \notin ToSet(kept) THEN <<>>
                                     ELSE IF q = r THEN Append(bundle[r], Entry(r))
                                     ELSE bundle[q]]
        /\ run' = [run EXCEPT ![r].done = @ + 1, ![r].pc = "stage"]
        /\ UNCHANGED <<content, writer, faults, seen>>
        /\ run[r].pc = "append"
    BY <1>3 DEF AppendEntry
  <2>2. /\ RemoveFirst(recent, r) \in Seq(Runs)
        /\ ToSet(RemoveFirst(recent, r)) \subseteq ToSet(recent)
    BY RemoveFirstKeeps DEF TypeOK
  <2>3. /\ order \in Seq(Runs) /\ Len(order) > 0 /\ order[1] = r
        /\ ToSet(order) \subseteq ToSet(recent) \cup {r}
    <3> DEFINE old == RemoveFirst(recent, r)
    <3> HIDE DEF old
    <3>1. old \in Seq(Runs) /\ ToSet(old) \subseteq ToSet(recent)
      BY <2>2 DEF old
    <3>2. PICK n \in Nat : n = Len(old)
      BY <3>1, LenProperties
    <3>3. /\ <<r>> \o old \in Seq(Runs) /\ Len(<<r>> \o old) = n + 1
          /\ DOMAIN (<<r>> \o old) = 1 .. n + 1 /\ DOMAIN old = 1 .. n
      BY <3>1, <3>2, ConcatProperties, LenProperties
    <3>4. \A i \in 1 .. n + 1 : (<<r>> \o old)[i] = IF i <= 1 THEN r ELSE old[i - 1]
      BY <3>1, <3>2, ConcatProperties
    <3>5. ASSUME NEW i \in 1 .. n + 1 PROVE (<<r>> \o old)[i] \in ToSet(recent) \cup {r}
      <4>1. CASE i <= 1
        BY <3>4, <4>1
      <4>2. CASE i > 1
        <5>1. i - 1 \in 1 .. n /\ (<<r>> \o old)[i] = old[i - 1]
          BY <3>2, <3>4, <4>2
        <5> QED BY <3>1, <3>3, <5>1 DEF ToSet
      <4> QED BY <3>2, <4>1, <4>2
    <3>6. ToSet(<<r>> \o old) \subseteq ToSet(recent) \cup {r}
      BY <3>3, <3>5 DEF ToSet
    <3> QED BY <3>2, <3>3, <3>4, <3>6 DEF old
  <2>4. /\ kept \in Seq(Runs) /\ Len(kept) <= MaxBundles
        /\ ToSet(kept) \subseteq ToSet(recent) \cup {r} /\ r \in ToSet(kept)
    <3> HIDE DEF order
    <3> QED BY <2>3, NewestKeeps, ContentAssumption
  <2> HIDE DEF kept
  <2>5. Append(bundle[r], Entry(r)) \in Seq(Entries) /\ Append(bundle[r], Entry(r)) # <<>>
    <3>1. Entry(r) \in Entries /\ bundle[r] \in Seq(Entries)
      BY <1>1 DEF TypeOK, Entry, RunStates, Entries
    <3> QED BY <3>1, AppendProperties
  <2>6. bundle' \in [Runs -> Seq(Entries)]
    BY <2>1, <2>5, EmptySeq DEF TypeOK, Entries
  <2>7. ToSet(kept) = {q \in Runs : bundle'[q] # <<>>}
    <3>1. ToSet(kept) \subseteq Runs
      BY <2>4 DEF TypeOK
    <3>2. ToSet(recent) = {q \in Runs : bundle[q] # <<>>}
      BY DEF TypeOK
    <3> QED BY <2>1, <2>4, <2>5, <3>1, <3>2
  <2>8. run' \in [Runs -> RunStates] /\ \A q \in Runs : WellFormed(run'[q])
    <3>1. s \in RunStates /\ WellFormed(s)
      BY <1>1, <2>1, ContentAssumption DEF RunStates, WellFormed, Retaining
    <3>2. run' = [run EXCEPT ![r] = s]
      BY <1>1, <2>1
    <3> QED BY <3>1, <3>2, RunReplaced DEF TypeOK, Shape
  <2> QED BY <2>1, <2>4, <2>6, <2>7, <2>8 DEF TypeOK, Shape, Entries
<1> QED BY <1>2, <1>3 DEF AppendEntry

LEMMA StepTypes ==
  ASSUME TypeOK, Shape, NEW r \in Runs, RunStep(r)
  PROVE  TypeOK' /\ Shape'
<1>1. run[r] \in RunStates /\ WellFormed(run[r]) /\ run \in [Runs -> RunStates]
  BY DEF TypeOK, Shape
<1>2. /\ content \in [Bodies -> {"absent", "partial", "whole"}]
      /\ writer \in [Bodies -> Runs \cup {Null}]
  BY DEF TypeOK
<1> DEFINE RunOK == run' \in [Runs -> RunStates] /\ \A q \in Runs : WellFormed(run'[q])
<1>3. CASE Start(r)
  <2>1. RunOK
    BY <1>3, GotoTypes DEF Start
  <2> QED BY <1>2, <1>3, <2>1, FilesTyped DEF Start, StoreSame
<1>4. CASE NextStage(r)
  <2> DEFINE fresh == [run[r] EXCEPT !.in = Null, !.out = Null, !.failed = FALSE, !.slot = "in"]
  <2>1. RunOK
    <3>1. CASE run' = [run EXCEPT ![r] = [fresh EXCEPT !.pc = "append"]]
      <4> DEFINE s == [fresh EXCEPT !.pc = "append"]
      <4>1. s \in RunStates /\ WellFormed(s)
        BY <1>1, <1>4, ContentAssumption DEF NextStage, RunStates, WellFormed, Retaining, Refs
      <4> HIDE DEF s
      <4> QED BY <3>1, <4>1, RunReplaced DEF TypeOK, Shape, s
    <3>2. ASSUME NEW b \in Bodies,
                 run' = [run EXCEPT ![r] = [fresh EXCEPT !.pc = "put", !.body = b]]
          PROVE  RunOK
      <4> DEFINE s == [fresh EXCEPT !.pc = "put", !.body = b]
      <4>1. s \in RunStates /\ WellFormed(s)
        BY <1>1, <1>4, ContentAssumption DEF NextStage, RunStates, WellFormed, Retaining, Refs
      <4> QED BY <3>2, <4>1, RunReplaced DEF TypeOK, Shape
    <3> QED BY <1>4, <3>1, <3>2 DEF NextStage
  <2> QED BY <1>2, <1>4, <2>1, FilesTyped DEF NextStage, StoreSame
<1>5. CASE PutOpen(r)
  <2>1. run[r].pc \in Retaining /\ run[r].body \in Bodies
    BY <1>1, <1>5 DEF PutOpen, WellFormed, Retaining
  <2>2. ASSUME NEW to \in {"fill", "verify"}, Goto(r, to)
        PROVE  RunOK
    <3> DEFINE s == [run[r] EXCEPT !.pc = to]
    <3>1. s \in RunStates /\ WellFormed(s)
      BY <1>1, <2>1 DEF RunStates, WellFormed, Retaining
    <3>2. run' = [run EXCEPT ![r] = s]
      BY <1>1, <2>2 DEF Goto
    <3> QED BY <3>1, <3>2, RunReplaced DEF TypeOK, Shape
  <2>3. RunOK /\ StoreSame /\ faults' = faults /\ seen' = seen
    BY <1>5, <2>2 DEF PutOpen, StoreSame
  <2>4. /\ content' \in [Bodies -> {"absent", "partial", "whole"}]
        /\ writer' \in [Bodies -> Runs \cup {Null}]
    BY <1>2, <1>5 DEF PutOpen
  <2> QED BY <2>3, <2>4, FilesTyped
<1>6. CASE PutFill(r)
  <2>1. RunOK
    BY <1>6, RetainTypes DEF PutFill, Retaining
  <2>2. /\ content' \in [Bodies -> {"absent", "partial", "whole"}]
        /\ writer' \in [Bodies -> Runs \cup {Null}]
    BY <1>2, <1>6 DEF PutFill
  <2> QED BY <1>6, <2>1, <2>2, FilesTyped DEF PutFill, StoreSame
<1>7. CASE PutVerify(r)
  <2>1. RunOK
    BY <1>7, RetainTypes, RetentionFailsTypes DEF PutVerify, Retaining
  <2> QED BY <1>2, <1>7, <2>1, FilesTyped DEF PutVerify, StoreSame
<1>8. CASE PutFails(r)
  <2>1. RunOK
    BY <1>8, RetentionFailsTypes DEF PutFails, Retaining
  <2>2. writer' \in [Bodies -> Runs \cup {Null}]
    BY <1>8, ClosedTyped DEF PutFails
  <2> QED BY <1>2, <1>8, <2>1, <2>2, FilesTyped DEF PutFails, StoreSame
<1>9. CASE AppendEntry(r)
  BY <1>9, AppendTypes
<1>10. CASE SweepList(r)
  <2> DEFINE listing == ToSet(Newest(recent, SweepLimit))
  <2>1. PICK listed \in SUBSET listing :
          /\ run' = [run EXCEPT ![r].todo = listed, ![r].live = {}, ![r].pc = "sweepRead"]
          /\ IF listed = listing THEN UNCHANGED <<faults, seen>>
             ELSE Fault /\ seen' = seen \cup {"short"}
    BY <1>10 DEF SweepList
  <2>2. listed \in SUBSET Runs
    <3>1. recent \in Seq(Runs) /\ SweepLimit \in Nat /\ ToSet(recent) \subseteq Runs
      BY ContentAssumption DEF TypeOK
    <3> QED BY <3>1, NewestKeeps
  <2>3. RunOK
    <3> DEFINE s == [run[r] EXCEPT !.todo = listed, !.live = {}, !.pc = "sweepRead"]
    <3>1. s \in RunStates /\ WellFormed(s)
      BY <1>1, <2>2 DEF RunStates, WellFormed, Retaining
    <3>2. run' = [run EXCEPT ![r] = s]
      BY <1>1, <2>1
    <3> QED BY <3>1, <3>2, RunReplaced DEF TypeOK, Shape
  <2> QED BY <1>2, <1>10, <2>1, <2>3, FilesTyped DEF SweepList, StoreSame
<1>11. CASE SweepRead(r)
  <2>1. PICK q \in run[r].todo :
          run' = [run EXCEPT ![r].todo = @ \ {q}, ![r].live = @ \cup LiveRefs(q)]
    BY <1>11 DEF SweepRead
  <2>2. RunOK
    <3> DEFINE s == [run[r] EXCEPT !.todo = @ \ {q}, !.live = @ \cup LiveRefs(q)]
    <3>1. q \in Runs
      BY <1>1, <1>11 DEF SweepRead, WellFormed
    <3>2. LiveRefs(q) \subseteq Bodies
      BY <3>1, RefsAreBodies DEF TypeOK, LiveRefs, Entries
    <3>3. s \in RunStates /\ WellFormed(s)
      BY <1>1, <1>11, <3>1, <3>2 DEF SweepRead, RunStates, WellFormed, Retaining
    <3>4. run' = [run EXCEPT ![r] = s]
      BY <1>1, <2>1
    <3> QED BY <3>3, <3>4, RunReplaced DEF TypeOK, Shape
  <2> QED BY <1>2, <1>11, <2>2, FilesTyped DEF SweepRead, StoreSame
<1>12. CASE SweepDecide(r)
  <2>1. RunOK
    <3>1. CASE Trusted(r)
      <4> DEFINE s == [run[r] EXCEPT !.todo = Bodies, !.pc = "sweep"]
      <4>1. s \in RunStates /\ WellFormed(s)
        BY <1>1, <1>12 DEF SweepDecide, RunStates, WellFormed, Retaining
      <4>2. run' = [run EXCEPT ![r] = s]
        BY <1>1, <1>12, <3>1 DEF SweepDecide
      <4> QED BY <4>1, <4>2, RunReplaced DEF TypeOK, Shape
    <3>2. CASE ~Trusted(r)
      BY <1>12, <3>2, GotoTypes DEF SweepDecide, Goto
    <3> QED BY <3>1, <3>2
  <2> QED BY <1>2, <1>12, <2>1, FilesTyped DEF SweepDecide, StoreSame
<1>13. CASE SweepFile(r)
  <2>1. PICK b \in run[r].todo :
          /\ IF Reclaimable(r, b)
             THEN /\ content' = [content EXCEPT ![b] = "absent"]
                  /\ writer' = [writer EXCEPT ![b] = Null]
             ELSE UNCHANGED <<content, writer>>
          /\ run' = [run EXCEPT ![r].todo = @ \ {b},
                                ![r].pc = IF run[r].todo = {b} THEN "finished" ELSE @]
    BY <1>13 DEF SweepFile
  <2>2. RunOK
    <3> DEFINE s == [run[r] EXCEPT !.todo = @ \ {b},
                                   !.pc = IF run[r].todo = {b} THEN "finished" ELSE @]
    <3>1. s \in RunStates /\ WellFormed(s)
      BY <1>1, <1>13 DEF SweepFile, RunStates, WellFormed, Retaining, Over
    <3>2. run' = [run EXCEPT ![r] = s]
      BY <1>1, <2>1
    <3> QED BY <3>1, <3>2, RunReplaced DEF TypeOK, Shape
  <2>3. /\ content' \in [Bodies -> {"absent", "partial", "whole"}]
        /\ writer' \in [Bodies -> Runs \cup {Null}]
    BY <1>2, <2>1
  <2> QED BY <1>13, <2>2, <2>3, FilesTyped DEF SweepFile, StoreSame
<1>14. CASE SweepFails(r)
  <2>1. RunOK
    BY <1>14, GotoTypes DEF SweepFails
  <2> QED BY <1>2, <1>14, <2>1, FilesTyped DEF SweepFails, StoreSame
<1>15. CASE Crash(r)
  <2>1. RunOK
    BY <1>15, GotoTypes DEF Crash
  <2>2. writer' \in [Bodies -> Runs \cup {Null}]
    BY <1>15, ClosedTyped DEF Crash
  <2> QED BY <1>2, <1>15, <2>1, <2>2, FilesTyped DEF Crash, StoreSame
<1> QED BY <1>3, <1>4, <1>5, <1>6, <1>7, <1>8, <1>9, <1>10, <1>11, <1>12, <1>13, <1>14, <1>15
        DEF RunStep

LEMMA InitTypes == Init => TypeOK /\ Shape
BY ContentAssumption, EmptySeq
   DEF Init, TypeOK, Shape, WellFormed, RunStates, IdleRun, Over, Retaining, Refs, ToSet

LEMMA StutterTypes == TypeOK /\ Shape /\ UNCHANGED vars => TypeOK' /\ Shape'
BY DEF TypeOK, Shape, vars

\* The state has its shape, and the order of eviction holds exactly the runs the store holds.
THEOREM TypeCorrect == Spec => []TypeOK
<1>1. TypeOK /\ Shape /\ [Next]_vars => (TypeOK /\ Shape)'
  BY StepTypes, StutterTypes DEF Next
<1> QED BY InitTypes, <1>1, PTL DEF Spec

-----------------------------------------------------------------------------
(* Whole bundles.                                                          *)

\* What a failed put leaves of the run.
LEMMA RetentionFailsEffect ==
  ASSUME TypeOK, NEW r \in Runs, NEW corrupt \in BOOLEAN, RetentionFails(r, corrupt)
  PROVE  /\ \A q \in Runs : q # r => run'[q] = run[q]
         /\ run'[r].pc = "append" /\ run'[r].done = run[r].done
         /\ run'[r].in = run[r].in /\ run'[r].out = run[r].out
         /\ run'[r].retained = run[r].retained
<1> DEFINE s == [run[r] EXCEPT !.failed = TRUE, !.pc = "append", !.refused = @ \/ corrupt]
<1>1. run[r] \in RunStates /\ run \in [Runs -> RunStates]
  BY DEF TypeOK
<1>2. run' = [run EXCEPT ![r] = s]
  BY <1>1 DEF RetentionFails
<1>3. /\ s.pc = "append" /\ s.done = run[r].done /\ s.in = run[r].in /\ s.out = run[r].out
      /\ s.retained = run[r].retained
  BY <1>1 DEF RunStates
<1> HIDE DEF s
<1> QED BY <1>1, <1>2, <1>3

\* What a put that returns makes of the run.
LEMMA RetainEffect ==
  ASSUME TypeOK, NEW r \in Runs, Retain(r)
  PROVE  /\ \A q \in Runs : q # r => run'[q] = run[q]
         /\ run'[r].done = run[r].done
         /\ \/ /\ run'[r].pc = "put" /\ run'[r].in = run[r].body /\ run'[r].out = run[r].out
               /\ run'[r].retained = run[r].retained
            \/ /\ run'[r].pc = "append" /\ run'[r].in = run[r].in /\ run'[r].out = run[r].body
               /\ run'[r].retained = run[r].retained \cup {run[r].in, run[r].body}
               /\ run[r].slot = "out"
<1>1. run[r] \in RunStates /\ run \in [Runs -> RunStates]
  BY DEF TypeOK
<1>2. ASSUME NEW b \in Bodies,
             run' = [run EXCEPT ![r].in = run[r].body, ![r].slot = "out", ![r].body = b,
                                ![r].pc = "put"]
      PROVE  /\ \A q \in Runs : q # r => run'[q] = run[q]
             /\ run'[r].done = run[r].done
             /\ run'[r].pc = "put" /\ run'[r].in = run[r].body /\ run'[r].out = run[r].out
             /\ run'[r].retained = run[r].retained
  BY <1>1, <1>2 DEF RunStates
<1>3. ASSUME run[r].slot = "out",
             run' = [run EXCEPT ![r].out = run[r].body, ![r].retained = @ \cup Remembered(r),
                                ![r].pc = "append"]
      PROVE  /\ \A q \in Runs : q # r => run'[q] = run[q]
             /\ run'[r].done = run[r].done
             /\ run'[r].pc = "append" /\ run'[r].in = run[r].in /\ run'[r].out = run[r].body
             /\ run'[r].retained = run[r].retained \cup {run[r].in, run[r].body}
  BY <1>1, <1>3 DEF RunStates, Remembered
<1> QED BY <1>2, <1>3 DEF Retain

\* What the next stage makes of the run.
LEMMA NextStageEffect ==
  ASSUME TypeOK, NEW r \in Runs, NextStage(r)
  PROVE  /\ \A q \in Runs : q # r => run'[q] = run[q]
         /\ run'[r].pc \in {"put", "append"} /\ run'[r].done = run[r].done
         /\ run'[r].in = Null /\ run'[r].out = Null
         /\ run'[r].retained = run[r].retained
<1> DEFINE fresh == [run[r] EXCEPT !.in = Null, !.out = Null, !.failed = FALSE, !.slot = "in"]
<1>1. run[r] \in RunStates /\ run \in [Runs -> RunStates]
  BY DEF TypeOK
<1>2. PICK s : /\ run' = [run EXCEPT ![r] = s]
               /\ \/ s = [fresh EXCEPT !.pc = "append"]
                  \/ \E b \in Bodies : s = [fresh EXCEPT !.pc = "put", !.body = b]
  BY DEF NextStage
<1>3. /\ s.pc \in {"put", "append"} /\ s.done = run[r].done /\ s.in = Null /\ s.out = Null
      /\ s.retained = run[r].retained
  BY <1>1, <1>2 DEF RunStates
<1> QED BY <1>1, <1>2, <1>3

\* Only an append changes how many revisions a run has made, or a bundle.
LEMMA OnlyAppendsCount ==
  ASSUME TypeOK, NEW r \in Runs, RunStep(r), ~AppendEntry(r)
  PROVE  bundle' = bundle /\ recent' = recent /\ \A q \in Runs : run'[q].done = run[q].done
<1>1. run \in [Runs -> RunStates]
  BY DEF TypeOK
<1>2. CASE Start(r)
  BY <1>1, <1>2 DEF Start, Goto, RunStates
<1>3. CASE NextStage(r)
  BY <1>3, NextStageEffect DEF NextStage
<1>4. CASE PutOpen(r)
  BY <1>1, <1>4 DEF PutOpen, Goto, RunStates
<1>5. CASE PutFill(r)
  BY <1>5, RetainEffect DEF PutFill
<1>6. CASE PutVerify(r)
  <2>1. CASE Retain(r)
    BY <1>6, <2>1, RetainEffect DEF PutVerify
  <2>2. CASE RetentionFails(r, TRUE)
    <3>1. run'[r].done = run[r].done /\ \A q \in Runs : q # r => run'[q] = run[q]
      BY <2>2, RetentionFailsEffect, Zenon
    <3> QED BY <1>6, <3>1 DEF PutVerify
  <2> QED BY <1>6, <2>1, <2>2 DEF PutVerify
<1>7. CASE PutFails(r)
  <2>1. run'[r].done = run[r].done /\ \A q \in Runs : q # r => run'[q] = run[q]
    BY <1>7, RetentionFailsEffect, Zenon DEF PutFails
  <2> QED BY <1>7, <2>1 DEF PutFails
<1>8. CASE SweepList(r)
  BY <1>1, <1>8 DEF SweepList, RunStates
<1>9. CASE SweepRead(r)
  BY <1>1, <1>9 DEF SweepRead, RunStates
<1>10. CASE SweepDecide(r)
  BY <1>1, <1>10 DEF SweepDecide, RunStates
<1>11. CASE SweepFile(r)
  BY <1>1, <1>11 DEF SweepFile, RunStates
<1>12. CASE SweepFails(r) \/ Crash(r)
  BY <1>1, <1>12 DEF SweepFails, Crash, Goto, RunStates
<1> QED BY <1>2, <1>3, <1>4, <1>5, <1>6, <1>7, <1>8, <1>9, <1>10, <1>11, <1>12 DEF RunStep

LEMMA AppendKeepsWhole ==
  ASSUME TypeOK, NoTruncatedBundle, NEW r \in Runs, AppendEntry(r)
  PROVE  NoTruncatedBundle'
<1>1. run \in [Runs -> RunStates] /\ run[r].done \in Nat
  BY ContentAssumption DEF TypeOK, RunStates
<1>2. CASE Vanished(r)
  BY <1>1, <1>2 DEF AppendEntry, NoTruncatedBundle, Goto, RunStates, Vanished
<1>3. CASE ~Vanished(r)
  <2>1. Len(bundle[r]) = run[r].done
    BY <1>1, <1>3 DEF Vanished, NoTruncatedBundle
  <2>2. Len(Append(bundle[r], Entry(r))) = run[r].done + 1
    <3>1. bundle[r] \in Seq(Entries) /\ Entry(r) \in Entries
      BY DEF TypeOK, Entry, RunStates, Entries
    <3> QED BY <2>1, <3>1, AppendProperties
  <2>3. /\ run'[r].done = run[r].done + 1
        /\ \A q \in Runs : q # r => run'[q] = run[q]
    BY <1>1, <1>3 DEF AppendEntry, RunStates
  <2>4. ASSUME NEW q \in Runs
        PROVE  bundle'[q] \in {<<>>, bundle[q]} \/ q = r
    BY <1>3 DEF AppendEntry
  <2>5. bundle'[r] \in {<<>>, Append(bundle[r], Entry(r))}
    BY <1>3 DEF AppendEntry
  <2> QED BY <2>1, <2>2, <2>3, <2>4, <2>5 DEF NoTruncatedBundle
<1> QED BY <1>2, <1>3

LEMMA StepKeepsWhole ==
  ASSUME TypeOK, NoTruncatedBundle, NEW r \in Runs, RunStep(r)
  PROVE  NoTruncatedBundle'
BY AppendKeepsWhole, OnlyAppendsCount DEF NoTruncatedBundle

\* A run evicted while it goes on never leaves the tail of itself behind, overlaps, crashes
\* and failures included: a run whose bundle vanished appends no more.
THEOREM BundlesAreWhole == Spec => []NoTruncatedBundle
<1>1. Init => NoTruncatedBundle
  BY DEF Init, NoTruncatedBundle
<1>2. TypeOK /\ NoTruncatedBundle /\ [Next]_vars => NoTruncatedBundle'
  BY StepKeepsWhole DEF Next, NoTruncatedBundle, vars
<1> QED BY <1>1, <1>2, TypeCorrect, PTL DEF Spec

-----------------------------------------------------------------------------
(* One run at a time.                                                      *)

\* What a run may step from.
LEMMA StepsFrom ==
  ASSUME NEW r \in Runs, RunStep(r)
  PROVE  InProgress(r) \/ Start(r)
BY DEF RunStep, NextStage, PutOpen, PutFill, PutVerify, PutFails, AppendEntry, SweepList,
       SweepRead, SweepDecide, SweepFile, SweepFails, Crash, InProgress, Over

\* A step of run r changes the state of no other run, and forgets nothing it saw.
LEMMA OthersSame ==
  ASSUME TypeOK, NEW r \in Runs, RunStep(r)
  PROVE  (\A q \in Runs : q # r => run'[q] = run[q]) /\ seen \subseteq seen'
<1>1. run \in [Runs -> RunStates]
  BY DEF TypeOK
<1>2. CASE Start(r)
  BY <1>1, <1>2 DEF Start, Goto
<1>3. CASE NextStage(r)
  BY <1>3, NextStageEffect DEF NextStage
<1>4. CASE PutOpen(r)
  BY <1>1, <1>4 DEF PutOpen, Goto
<1>5. CASE PutFill(r)
  BY <1>5, RetainEffect DEF PutFill
<1>6. CASE PutVerify(r)
  <2>1. \A q \in Runs : q # r => run'[q] = run[q]
    BY <1>6, RetainEffect, RetentionFailsEffect, Zenon DEF PutVerify
  <2> QED BY <1>6, <2>1 DEF PutVerify
<1>7. CASE PutFails(r)
  <2>1. \A q \in Runs : q # r => run'[q] = run[q]
    BY <1>7, RetentionFailsEffect, Zenon DEF PutFails
  <2> QED BY <1>7, <2>1 DEF PutFails
<1>8. CASE AppendEntry(r)
  BY <1>1, <1>8 DEF AppendEntry, Goto
<1>9. CASE SweepList(r)
  BY <1>1, <1>9 DEF SweepList
<1>10. CASE SweepRead(r)
  BY <1>1, <1>10 DEF SweepRead
<1>11. CASE SweepDecide(r)
  BY <1>1, <1>11 DEF SweepDecide
<1>12. CASE SweepFile(r)
  BY <1>1, <1>12 DEF SweepFile
<1>13. CASE SweepFails(r) \/ Crash(r)
  BY <1>1, <1>13 DEF SweepFails, Crash, Goto
<1> QED BY <1>2, <1>3, <1>4, <1>5, <1>6, <1>7, <1>8, <1>9, <1>10, <1>11, <1>12, <1>13 DEF RunStep

\* While no overlap was seen, the run that steps is the only one in progress.
LEMMA StepsAlone ==
  ASSUME TypeOK, NoOverlapSolo, NEW r \in Runs, RunStep(r), "overlap" \notin seen'
  PROVE  /\ "overlap" \notin seen
         /\ \A q \in Runs : q # r => ~InProgress(q) /\ ~InProgress(q)'
         /\ Start(r) \/ Solo(r)
<1>1. "overlap" \notin seen
  BY OthersSame
<1>2. CASE Start(r)
  <2>1. \A q \in Runs : ~InProgress(q)
    BY <1>2 DEF Start, InProgress
  <2> QED BY <1>1, <1>2, <2>1, OthersSame DEF InProgress
<1>3. CASE InProgress(r)
  <2>1. Solo(r)
    BY <1>1, <1>3 DEF NoOverlapSolo
  <2>2. \A q \in Runs : q # r => ~InProgress(q)
    BY <2>1 DEF Solo
  <2> QED BY <1>1, <2>1, <2>2, OthersSame DEF InProgress
<1> QED BY <1>2, <1>3, StepsFrom

\* So only the run that steps matters.
LEMMA SoloNext ==
  ASSUME TypeOK, NoOverlapSolo, NEW r \in Runs, RunStep(r),
         "overlap" \notin seen' => (InProgress(r)' => Intact(r)')
  PROVE  NoOverlapSolo'
<1> SUFFICES ASSUME "overlap" \notin seen', NEW q \in Runs, InProgress(q)' PROVE Solo(q)'
  BY DEF NoOverlapSolo
<1>1. q = r /\ \A p \in Runs : InProgress(p)' => p = r
  BY StepsAlone
<1> QED BY <1>1 DEF Solo

LEMMA StartIntact ==
  ASSUME TypeOK, Shape, NEW r \in Runs, Start(r)
  PROVE  Intact(r)'
<1>1. run \in [Runs -> RunStates] /\ run[r].retained = {}
  BY DEF TypeOK, Shape, WellFormed, Start
<1>2. run'[r].pc = "stage" /\ run'[r].retained = {}
  BY <1>1 DEF Start, Goto, RunStates
<1> QED BY <1>2 DEF Intact, Sweeping, Retaining

LEMMA NextStageIntact ==
  ASSUME TypeOK, NEW r \in Runs, NextStage(r), Intact(r)
  PROVE  Intact(r)'
<1>1. /\ run'[r].pc \in {"put", "append"} /\ run'[r].in = Null /\ run'[r].out = Null
      /\ run'[r].retained = run[r].retained /\ content' = content
  BY NextStageEffect DEF NextStage
<1> QED BY <1>1 DEF Intact, Sweeping

LEMMA PutOpenIntact ==
  ASSUME TypeOK, Shape, NEW r \in Runs, PutOpen(r), Intact(r)
  PROVE  Intact(r)'
<1>1. run \in [Runs -> RunStates] /\ content \in [Bodies -> {"absent", "partial", "whole"}]
        /\ writer \in [Bodies -> Runs \cup {Null}]
  BY DEF TypeOK
<1>2. run[r].body \in Bodies /\ run[r].pc \in Retaining
  BY DEF Shape, WellFormed, PutOpen, Retaining
<1>3. /\ run'[r].pc \in {"fill", "verify"} /\ run'[r].in = run[r].in /\ run'[r].out = run[r].out
      /\ run'[r].retained = run[r].retained /\ run'[r].body = run[r].body
  BY <1>1 DEF PutOpen, Goto, RunStates
<1>4. run'[r].pc = "fill" => writer'[run'[r].body] = r
  BY <1>1, <1>2, <1>3 DEF PutOpen, Goto, RunStates
<1>5. \A b \in Bodies : content[b] = "whole" => content'[b] = "whole"
  BY <1>1, <1>2 DEF PutOpen
<1>6. /\ run[r].retained \subseteq Bodies
      /\ {run[r].in, run[r].out} \ {Null} \subseteq Bodies
  BY <1>1 DEF RunStates, Refs
<1> QED BY <1>2, <1>3, <1>4, <1>5, <1>6 DEF Intact, Sweeping

\* A put that returns leaves a whole file, and the rest as whole as it was.
LEMMA RetainIntact ==
  ASSUME TypeOK, Shape, NEW r \in Runs, run[r].pc \in Retaining, Intact(r), Retain(r),
         \A b \in Bodies : content[b] = "whole" => content'[b] = "whole",
         content'[run[r].body] = "whole"
  PROVE  Intact(r)'
<1>1. run \in [Runs -> RunStates]
  BY DEF TypeOK
<1>2. /\ run[r].retained \subseteq Bodies /\ run[r].body \in Bodies /\ run[r].out = Null
      /\ {run[r].in, run[r].out} \ {Null} \subseteq Bodies
      /\ run[r].slot = "out" => run[r].in \in Bodies
  BY <1>1 DEF RunStates, Refs, Shape, WellFormed
<1>3. CASE /\ run'[r].pc = "put" /\ run'[r].in = run[r].body /\ run'[r].out = run[r].out
           /\ run'[r].retained = run[r].retained
  BY <1>2, <1>3 DEF Intact, Sweeping
<1>4. CASE /\ run'[r].pc = "append" /\ run'[r].in = run[r].in /\ run'[r].out = run[r].body
           /\ run'[r].retained = run[r].retained \cup {run[r].in, run[r].body}
           /\ run[r].slot = "out"
  BY <1>2, <1>4, ContentAssumption DEF Intact, Sweeping
<1> QED BY <1>3, <1>4, RetainEffect

LEMMA PutFillIntact ==
  ASSUME TypeOK, Shape, NEW r \in Runs, PutFill(r), Intact(r)
  PROVE  Intact(r)'
<1>1. writer[run[r].body] = r /\ run[r].body \in Bodies /\ run[r].pc \in Retaining
  BY DEF PutFill, Intact, Shape, WellFormed, Retaining
<1>2. content' = [content EXCEPT ![run[r].body] = "whole"]
  BY <1>1 DEF PutFill
<1>3. /\ \A b \in Bodies : content[b] = "whole" => content'[b] = "whole"
      /\ content'[run[r].body] = "whole"
  BY <1>1, <1>2 DEF TypeOK
<1> QED BY <1>1, <1>3, RetainIntact DEF PutFill

\* A put that fails leaves the refs there are.
LEMMA RetentionFailsIntact ==
  ASSUME TypeOK, NEW r \in Runs, run[r].pc \in Retaining, Intact(r), content' = content,
         NEW corrupt \in BOOLEAN, RetentionFails(r, corrupt)
  PROVE  Intact(r)'
<1>1. /\ run'[r].pc = "append" /\ run'[r].in = run[r].in /\ run'[r].out = run[r].out
      /\ run'[r].retained = run[r].retained
  BY RetentionFailsEffect
<1> QED BY <1>1 DEF Intact, Sweeping

LEMMA PutVerifyIntact ==
  ASSUME TypeOK, Shape, NEW r \in Runs, PutVerify(r), Intact(r)
  PROVE  Intact(r)'
<1>1. run[r].pc \in Retaining /\ content' = content
  BY DEF PutVerify, Retaining
<1>2. CASE ResidentMatches(run[r].body)
  BY <1>1, <1>2, RetainIntact DEF PutVerify, ResidentMatches
<1>3. CASE ~ResidentMatches(run[r].body)
  BY <1>1, <1>3, RetentionFailsIntact, Zenon DEF PutVerify
<1> QED BY <1>2, <1>3

LEMMA PutFailsIntact ==
  ASSUME TypeOK, NEW r \in Runs, PutFails(r), Intact(r)
  PROVE  Intact(r)'
<1>1. run[r].pc \in Retaining /\ content' = content
  BY DEF PutFails, Retaining
<1> QED BY <1>1, RetentionFailsIntact, Zenon DEF PutFails

LEMMA AppendIntact ==
  ASSUME TypeOK, NEW r \in Runs, AppendEntry(r), Intact(r)
  PROVE  Intact(r)'
<1>1. run \in [Runs -> RunStates]
  BY DEF TypeOK
<1>2. run'[r].pc \in {"stage", "aborted"} /\ run'[r].retained = run[r].retained /\ content' = content
  BY <1>1 DEF AppendEntry, Goto, RunStates
<1> QED BY <1>2 DEF Intact, Sweeping, Retaining

LEMMA SweepListIntact ==
  ASSUME TypeOK, Shape, NEW r \in Runs, SweepList(r), Intact(r)
  PROVE  Intact(r)'
<1> DEFINE listing == ToSet(Newest(recent, SweepLimit))
<1>1. run \in [Runs -> RunStates]
  BY DEF TypeOK
<1>2. PICK listed \in SUBSET listing :
        /\ run' = [run EXCEPT ![r].todo = listed, ![r].live = {}, ![r].pc = "sweepRead"]
        /\ IF listed = listing THEN UNCHANGED <<faults, seen>>
           ELSE Fault /\ seen' = seen \cup {"short"}
  BY DEF SweepList
<1>3. /\ run'[r].pc = "sweepRead" /\ run'[r].todo = listed /\ run'[r].live = {}
      /\ run'[r].retained = run[r].retained /\ content' = content /\ bundle' = bundle
  BY <1>1, <1>2 DEF RunStates, SweepList
<1>4. listing = {q \in Runs : bundle[q] # <<>>}
  <2>1. recent \in Seq(Runs) /\ Len(recent) \in Nat /\ Len(recent) <= MaxBundles
    BY LenProperties DEF TypeOK, Shape
  <2>2. Newest(recent, SweepLimit) = recent
    BY <2>1, NewestKeeps, ContentAssumption
  <2> QED BY <2>2 DEF TypeOK
<1>5. seen' = {} => Cited \subseteq UNION {RefsOf(bundle[q]) : q \in listed}
  <2>1. SUFFICES ASSUME seen' = {}, NEW b \in Cited
                 PROVE  b \in UNION {RefsOf(bundle[q]) : q \in listed}
    OBVIOUS
  <2>2. listed = listing
    BY <1>2, <2>1
  <2>3. PICK q \in Runs : b \in RefsOf(bundle[q])
    BY DEF Cited
  <2>4. bundle[q] # <<>>
    BY <2>3 DEF RefsOf, ToSet
  <2> QED BY <1>4, <2>2, <2>3, <2>4
<1>6. Cited' = Cited
  BY <1>3 DEF Cited
<1> QED BY <1>3, <1>5, <1>6 DEF Intact, Sweeping, Retaining

LEMMA SweepReadIntact ==
  ASSUME TypeOK, Shape, NEW r \in Runs, SweepRead(r), Intact(r)
  PROVE  Intact(r)'
<1>1. run \in [Runs -> RunStates]
  BY DEF TypeOK
<1>2. PICK q \in run[r].todo :
        run' = [run EXCEPT ![r].todo = @ \ {q}, ![r].live = @ \cup LiveRefs(q)]
  BY DEF SweepRead
<1>3. /\ run'[r].pc = "sweepRead" /\ run'[r].todo = run[r].todo \ {q}
      /\ run'[r].live = run[r].live \cup RefsOf(bundle[q])
      /\ run'[r].retained = run[r].retained
      /\ content' = content /\ bundle' = bundle /\ seen' = seen
  BY <1>1, <1>2 DEF RunStates, SweepRead, LiveRefs
<1>4. q \in Runs /\ RefsOf(bundle[q]) \subseteq Cited
  BY DEF Shape, WellFormed, SweepRead, Cited
<1>5. Cited' = Cited
  BY <1>3 DEF Cited
<1>6. run[r].live \subseteq Cited
        /\ (seen = {} => Cited \subseteq run[r].live \cup UNION {RefsOf(bundle[k]) : k \in run[r].todo})
  BY DEF SweepRead, Intact, Sweeping
<1>7. seen = {} =>
        Cited \subseteq run'[r].live \cup UNION {RefsOf(bundle[k]) : k \in run'[r].todo}
  BY <1>3, <1>6
<1> QED BY <1>3, <1>4, <1>5, <1>6, <1>7 DEF Intact, Sweeping, Retaining

LEMMA SweepDecideIntact ==
  ASSUME TypeOK, NEW r \in Runs, SweepDecide(r), Intact(r)
  PROVE  Intact(r)'
<1>1. run \in [Runs -> RunStates]
  BY DEF TypeOK
<1>2. /\ run'[r].live = run[r].live /\ run'[r].retained = run[r].retained
      /\ content' = content /\ bundle' = bundle /\ seen' = seen
  BY <1>1 DEF RunStates, SweepDecide
<1>3. Cited' = Cited
  BY <1>2 DEF Cited
<1>4. CASE Trusted(r)
  <2>1. run'[r].pc = "sweep" /\ run'[r].todo = Bodies
    BY <1>1, <1>4 DEF RunStates, SweepDecide
  <2>2. seen = {} => Cited \subseteq run[r].live
    BY DEF SweepDecide, Intact, Sweeping
  <2> QED BY <1>2, <1>3, <1>4, <2>1, <2>2 DEF Intact, Sweeping, Retaining, Trusted, SweepDecide
<1>5. CASE ~Trusted(r)
  <2>1. run'[r].pc = "finished"
    BY <1>1, <1>5 DEF RunStates, SweepDecide
  <2> QED BY <1>2, <2>1 DEF Intact, Sweeping, Retaining
<1> QED BY <1>4, <1>5

\* A file is removed, or is live, or was gone already.
LEMMA SweepFileEffect ==
  ASSUME TypeOK, Shape, NEW r \in Runs, SweepFile(r)
  PROVE  \E b \in run[r].todo :
           /\ content' = IF b \in run[r].live THEN content ELSE [content EXCEPT ![b] = "absent"]
           /\ run'[r].todo = run[r].todo \ {b}
           /\ run'[r].pc = IF run[r].todo = {b} THEN "finished" ELSE "sweep"
           /\ run'[r].live = run[r].live /\ run'[r].retained = run[r].retained
           /\ bundle' = bundle /\ seen' = seen
<1>1. run \in [Runs -> RunStates]
  BY DEF TypeOK
<1>2. PICK b \in run[r].todo :
        /\ IF Reclaimable(r, b)
           THEN /\ content' = [content EXCEPT ![b] = "absent"]
                /\ writer' = [writer EXCEPT ![b] = Null]
           ELSE UNCHANGED <<content, writer>>
        /\ run' = [run EXCEPT ![r].todo = @ \ {b},
                              ![r].pc = IF run[r].todo = {b} THEN "finished" ELSE @]
  BY DEF SweepFile
<1> DEFINE to == IF run[r].todo = {b} THEN "finished" ELSE "sweep"
<1>3. run' = [run EXCEPT ![r].todo = @ \ {b}, ![r].pc = to]
  BY <1>1, <1>2 DEF SweepFile
<1> HIDE DEF to
<1>4. /\ run'[r].todo = run[r].todo \ {b} /\ run'[r].pc = to
      /\ run'[r].live = run[r].live /\ run'[r].retained = run[r].retained
  BY <1>1, <1>3 DEF RunStates
<1>5. content' = IF b \in run[r].live THEN content ELSE [content EXCEPT ![b] = "absent"]
  BY <1>2 DEF Reclaimable
<1>6. bundle' = bundle /\ seen' = seen
  BY DEF SweepFile
<1> QED BY <1>4, <1>5, <1>6 DEF to

LEMMA SweepFileIntact ==
  ASSUME TypeOK, Shape, NEW r \in Runs, SweepFile(r), Intact(r)
  PROVE  Intact(r)'
<1>1. PICK b \in run[r].todo :
        /\ content' = IF b \in run[r].live THEN content ELSE [content EXCEPT ![b] = "absent"]
        /\ run'[r].todo = run[r].todo \ {b}
        /\ run'[r].pc = IF run[r].todo = {b} THEN "finished" ELSE "sweep"
        /\ run'[r].live = run[r].live /\ run'[r].retained = run[r].retained
        /\ bundle' = bundle /\ seen' = seen
  BY SweepFileEffect
<1>2. b \in Bodies /\ run[r].pc = "sweep" /\ run[r].retained \subseteq run[r].live
        /\ content \in [Bodies -> {"absent", "partial", "whole"}]
        /\ run[r].retained \subseteq Bodies /\ run[r].live \subseteq Cited
        /\ (seen = {} => Cited \subseteq run[r].live)
        /\ \A c \in Bodies \ run[r].todo : content[c] # "absent" => c \in run[r].live
  BY DEF Shape, WellFormed, SweepFile, Intact, Sweeping, TypeOK, RunStates
<1>3. \A c \in run[r].retained : content'[c] = "whole"
  BY <1>1, <1>2 DEF Intact
<1>4. Cited' = Cited
  BY <1>1 DEF Cited
<1>5. \A c \in Bodies \ run'[r].todo : content'[c] # "absent" => c \in run[r].live
  BY <1>1, <1>2
<1> QED BY <1>1, <1>2, <1>3, <1>4, <1>5 DEF Intact, Sweeping, Retaining

\* A step of a run that was alone, and still is, leaves its bodies as whole as they were.
LEMMA StepIntact ==
  ASSUME TypeOK, Shape, NEW r \in Runs, RunStep(r), Start(r) \/ Intact(r), InProgress(r)'
  PROVE  Intact(r)'
<1>1. ~SweepFails(r) /\ ~Crash(r)
  BY DEF SweepFails, Crash, Goto, InProgress, Over, TypeOK, RunStates
<1> QED BY <1>1, StartIntact, NextStageIntact, PutOpenIntact, PutFillIntact, PutVerifyIntact,
           PutFailsIntact, AppendIntact, SweepListIntact, SweepReadIntact, SweepDecideIntact,
           SweepFileIntact DEF RunStep

\* Appending a revision cites what it names and nothing else that was not cited.
LEMMA AppendCites ==
  ASSUME TypeOK, NEW r \in Runs, AppendEntry(r)
  PROVE  Cited' \subseteq Cited \cup ({run[r].in, run[r].out} \ {Null})
<1>1. bundle[r] \in Seq(Entries) /\ Entry(r) \in Entries
  BY DEF TypeOK, Entry, RunStates, Entries
<1> DEFINE grown == Append(bundle[r], Entry(r))
<1>2. ToSet(grown) \subseteq ToSet(bundle[r]) \cup {Entry(r)}
  <2>1. PICK n \in Nat : n = Len(bundle[r]) /\ DOMAIN bundle[r] = 1 .. n
    BY <1>1, LenProperties
  <2>2. DOMAIN grown = 1 .. n + 1 /\ grown[n + 1] = Entry(r) /\ \A i \in 1 .. n : grown[i] = bundle[r][i]
    BY <1>1, <2>1
  <2>3. \A i \in 1 .. n + 1 : i = n + 1 \/ i \in 1 .. n
    OBVIOUS
  <2> QED BY <2>1, <2>2, <2>3 DEF ToSet
<1>3. RefsOf(grown) \subseteq RefsOf(bundle[r]) \cup ({run[r].in, run[r].out} \ {Null})
  <2> HIDE DEF grown
  <2>1. Entry(r).in = run[r].in /\ Entry(r).out = run[r].out
    BY DEF Entry
  <2> QED BY <1>2, <2>1 DEF RefsOf
<1>4. RefsOf(<<>>) = {}
  BY DEF RefsOf, ToSet
<1>5. \A q \in Runs : bundle'[q] \in {<<>>, bundle[q], grown}
  BY DEF AppendEntry, TypeOK
<1>6. ASSUME NEW q \in Runs
      PROVE  RefsOf(bundle'[q]) \subseteq Cited \cup ({run[r].in, run[r].out} \ {Null})
  <2> HIDE DEF grown
  <2>1. RefsOf(bundle[q]) \subseteq Cited /\ RefsOf(bundle[r]) \subseteq Cited
    BY DEF Cited
  <2> QED BY <1>3, <1>4, <1>5, <2>1
<1> QED BY <1>6 DEF Cited

\* No step but the removal of a file makes a whole file anything else.
LEMMA WholeStays ==
  ASSUME TypeOK, NEW r \in Runs, RunStep(r), ~SweepFile(r)
  PROVE  \A b \in Bodies : content[b] = "whole" => content'[b] = "whole"
<1>1. content \in [Bodies -> {"absent", "partial", "whole"}]
  BY DEF TypeOK
<1> QED BY <1>1 DEF RunStep, Start, NextStage, PutOpen, PutFill, PutVerify, PutFails, AppendEntry,
                    SweepList, SweepRead, SweepDecide, SweepFails, Crash

LEMMA StepDangles ==
  ASSUME TypeOK, Shape, NoDanglingRef, NoOverlapSolo, NEW r \in Runs, RunStep(r)
  PROVE  NoDanglingRef'
<1> SUFFICES ASSUME seen' = {}, NEW b \in Cited' PROVE content'[b] = "whole"
  BY DEF NoDanglingRef
<1>1. seen = {} /\ \A c \in Cited : content[c] = "whole"
  BY OthersSame DEF NoDanglingRef
<1>2. Start(r) \/ Intact(r)
  BY StepsAlone DEF Solo
<1>3. Cited \subseteq Bodies
  <2>1. \A q \in Runs : bundle[q] \in Seq(Entries)
    BY DEF TypeOK, Entries
  <2>2. \A q \in Runs : RefsOf(bundle[q]) \subseteq Bodies
    BY <2>1, RefsAreBodies
  <2> QED BY <2>2 DEF Cited
<1>4. CASE AppendEntry(r)
  <2>1. Intact(r) /\ content' = content
    BY <1>2, <1>4 DEF Start, AppendEntry
  <2>2. b \in Cited \/ b \in {run[r].in, run[r].out} \ {Null}
    BY <1>4, AppendCites
  <2> QED BY <1>1, <1>4, <2>1, <2>2 DEF Intact, AppendEntry
<1>5. CASE SweepFile(r)
  <2>1. PICK f \in run[r].todo :
          /\ content' = IF f \in run[r].live THEN content ELSE [content EXCEPT ![f] = "absent"]
          /\ bundle' = bundle
    BY <1>5, SweepFileEffect
  <2>2. Cited \subseteq run[r].live
    BY <1>1, <1>2, <1>5 DEF Start, SweepFile, Intact, Sweeping
  <2>3. Cited' = Cited
    BY <2>1 DEF Cited
  <2> QED BY <1>1, <1>3, <2>1, <2>2, <2>3 DEF TypeOK
<1>6. CASE ~AppendEntry(r) /\ ~SweepFile(r)
  <2>1. Cited' = Cited
    BY <1>6, OnlyAppendsCount DEF Cited
  <2> QED BY <1>1, <1>3, <1>6, <2>1, WholeStays
<1> QED BY <1>4, <1>5, <1>6

-----------------------------------------------------------------------------
(* The inductive invariant, and what follows from it.                      *)

LEMMA InvInit == Init => Inv
<1> SUFFICES ASSUME Init PROVE Inv
  OBVIOUS
<1>1. NoTruncatedBundle /\ NoOverlapSolo
  BY DEF Init, NoTruncatedBundle, NoOverlapSolo, InProgress, IdleRun, Over
<1>2. Cited = {}
  BY DEF Init, Cited, RefsOf, ToSet
<1> QED BY <1>1, <1>2, InitTypes DEF Inv, NoDanglingRef

LEMMA InvStep ==
  ASSUME Inv, NEW r \in Runs, RunStep(r)
  PROVE  Inv'
<1> USE DEF Inv
<1>1. "overlap" \notin seen' => (InProgress(r)' => Intact(r)')
  BY StepsAlone, StepIntact DEF Solo
<1>2. NoOverlapSolo'
  BY <1>1, SoloNext
<1> QED BY <1>2, StepTypes, StepKeepsWhole, StepDangles

LEMMA InvStutter == Inv /\ UNCHANGED vars => Inv'
<1> SUFFICES ASSUME Inv, UNCHANGED vars PROVE Inv'
  OBVIOUS
<1>1. Cited' = Cited
  BY DEF vars, Cited
<1>2. NoDanglingRef' /\ NoTruncatedBundle'
  BY <1>1 DEF vars, Inv, NoDanglingRef, NoTruncatedBundle
<1>3. \A r \in Runs : (InProgress(r)' <=> InProgress(r)) /\ (Solo(r)' <=> Solo(r))
  BY <1>1 DEF vars, InProgress, Solo, Intact, Sweeping
<1>4. NoOverlapSolo'
  BY <1>3 DEF vars, Inv, NoOverlapSolo
<1> QED BY <1>2, <1>4, StutterTypes DEF Inv

LEMMA SpecInv == Spec => []Inv
<1>1. Inv /\ [Next]_vars => Inv'
  BY InvStep, InvStutter DEF Next
<1> QED BY InvInit, <1>1, PTL DEF Spec

\* A revision the store holds never refers to a body that is missing or damaged, while runs do
\* not overlap and listings are complete: through failed writes, crashes, eviction and sweeps.
THEOREM RefsAlwaysResolve == Spec => []NoDanglingRef
<1>1. Inv => NoDanglingRef
  BY DEF Inv
<1> QED BY <1>1, SpecInv, PTL

\* Who ends a run, and by which step.
LEMMA OnlySweepsFinish ==
  ASSUME TypeOK, NEW q \in Runs, RunStep(q), NEW r \in Runs,
         run[r].pc # "finished", run'[r].pc = "finished"
  PROVE  q = r /\ (SweepDecide(r) \/ SweepFile(r) \/ SweepFails(r))
<1>1. q = r
  BY OthersSame
<1>2. run \in [Runs -> RunStates]
  BY DEF TypeOK
<1>3. ~Start(r) /\ ~NextStage(r) /\ ~PutOpen(r) /\ ~AppendEntry(r) /\ ~Crash(r)
  BY <1>2, NextStageEffect DEF Start, PutOpen, AppendEntry, Crash, Goto, RunStates
<1>4. ~PutFill(r) /\ ~Retain(r)
  BY RetainEffect DEF PutFill
<1>5. ~PutFails(r) /\ ~PutVerify(r)
  BY <1>4, RetentionFailsEffect, Zenon DEF PutFails, PutVerify
<1>6. ~SweepRead(r)
  BY <1>2 DEF SweepRead, RunStates
<1>7. ASSUME SweepList(r) PROVE FALSE
  <2>1. PICK listed : run' = [run EXCEPT ![r].todo = listed, ![r].live = {}, ![r].pc = "sweepRead"]
    BY <1>7 DEF SweepList
  <2>2. run'[r].pc = "sweepRead"
    BY <1>2, <2>1 DEF RunStates
  <2> QED BY <2>2
<1> QED BY <1>1, <1>3, <1>4, <1>5, <1>6, <1>7 DEF RunStep

\* A run that returns still has every body it retained, whatever the listing left out.
THEOREM RetainedBodiesSurvive == Spec => OwnBodiesSurvive
<1> DEFINE Kept(r) == "overlap" \notin seen /\ run[r].pc # "finished" /\ run'[r].pc = "finished" =>
                        \A b \in run[r].retained : content'[b] = "whole"
<1>1. Inv /\ [Next]_vars => [\A r \in Runs : Kept(r)]_vars
  <2> SUFFICES ASSUME Inv, NEW q \in Runs, RunStep(q), NEW r \in Runs, "overlap" \notin seen,
                      run[r].pc # "finished", run'[r].pc = "finished",
                      NEW b \in run[r].retained
               PROVE  content'[b] = "whole"
    BY DEF Next
  <2>1. q = r /\ (SweepDecide(r) \/ SweepFile(r) \/ SweepFails(r))
    BY OnlySweepsFinish DEF Inv
  <2>2. InProgress(r)
    BY <2>1 DEF SweepDecide, SweepFile, SweepFails, InProgress, Over
  <2>3. Intact(r)
    BY <2>2 DEF Inv, NoOverlapSolo, Solo
  <2>4. CASE SweepFile(r)
    <3>1. PICK f \in run[r].todo :
            content' = IF f \in run[r].live THEN content ELSE [content EXCEPT ![f] = "absent"]
      BY <2>4, SweepFileEffect DEF Inv
    <3>2. b \in run[r].live /\ b \in Bodies /\ content[b] = "whole"
      BY <2>3, <2>4 DEF Intact, Sweeping, SweepFile, Inv, TypeOK, RunStates
    <3> QED BY <3>1, <3>2 DEF Inv, TypeOK
  <2> QED BY <2>1, <2>3, <2>4 DEF SweepDecide, SweepFails, Intact
<1> QED BY <1>1, SpecInv, PTL DEF Spec, OwnBodiesSurvive

\* A sweep that runs to its end leaves no file behind that no bundle names.
THEOREM SweepsReclaim == Spec => NothingOrphaned
<1> DEFINE Done(r) == "overlap" \notin seen /\ run[r].pc = "sweep" /\ run'[r].pc = "finished"
                        /\ faults' = faults
           Clean == \A b \in Bodies : content'[b] # "absent" => b \in Cited'
<1>1. Inv /\ [Next]_vars => [\A r \in Runs : Done(r) => Clean]_vars
  <2> SUFFICES ASSUME Inv, NEW q \in Runs, RunStep(q), NEW r \in Runs, Done(r),
                      NEW b \in Bodies, content'[b] # "absent"
               PROVE  b \in Cited'
    BY DEF Next
  <2>1. q = r /\ SweepFile(r)
    <3>1. q = r /\ (SweepDecide(r) \/ SweepFile(r) \/ SweepFails(r))
      BY OnlySweepsFinish DEF Inv
    <3>2. ~SweepFails(r)
      BY ContentAssumption DEF SweepFails, Fault, Inv, TypeOK
    <3> QED BY <3>1, <3>2 DEF SweepDecide
  <2>2. Intact(r)
    BY <2>1 DEF SweepFile, InProgress, Over, Inv, NoOverlapSolo, Solo
  <2>3. PICK f \in run[r].todo :
          /\ content' = IF f \in run[r].live THEN content ELSE [content EXCEPT ![f] = "absent"]
          /\ run'[r].pc = IF run[r].todo = {f} THEN "finished" ELSE "sweep"
          /\ bundle' = bundle
    BY <2>1, SweepFileEffect DEF Inv
  <2>4. run[r].todo = {f} /\ f \in Bodies
    BY <2>3 DEF Inv, Shape, WellFormed
  <2>5. b \in run[r].live
    BY <2>2, <2>3, <2>4 DEF Intact, Sweeping, Inv, TypeOK
  <2>6. Cited' = Cited
    BY <2>3 DEF Cited
  <2> QED BY <2>2, <2>5, <2>6 DEF Intact, Sweeping
<1> QED BY <1>1, SpecInv, PTL DEF Spec, NothingOrphaned
=============================================================================
