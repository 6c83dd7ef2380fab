---------------------------- MODULE ReleaseProofs ----------------------------
(***************************************************************************)
(* Theorems about Release, for any clients, ids, measurements, times and   *)
(* modes, and about Comparator, for any detectors, suites and recalls.     *)
(*                                                                         *)
(* What makes a decision outlast the reads it was made from is that a      *)
(* whole record never changes. Three facts carry that: the file a client   *)
(* is filling is torn and no other client fills it (Filling), what a       *)
(* client has read is what the file still holds (ReadsHold), and a record  *)
(* on its way into the promotion list is certified before its file is      *)
(* opened (DraftsCertified).                                               *)
(***************************************************************************)
EXTENDS Release, Comparator, TLAPS, WellFoundedInduction

FreezeJobs == [op : {"freeze"}, run : RunIds]
PromoteJobs ==
  [op : {"promote"}, run : RunIds, baseline : BaselineIds, comparison : ComparisonIds]
RollbackJobs == [op : {"rollback"}, reverses : PromotionIds]

\* The files a call loads before it goes on.
KeysOf(j) ==
  IF j.op = "freeze" THEN {j.run}
  ELSE IF j.op = "promote" THEN {j.run, j.baseline, j.comparison} ELSE {j.reverses}

Shape ==
  /\ job = [c \in Clients |-> job[c]]
  /\ got = [c \in Clients |-> [k \in Keys |-> got[c][k]]]
  /\ draft = [c \in Clients |-> draft[c]]

\* What a client has read is whole, and still in the file.
ReadsHold ==
  \A c \in Clients : \A k \in Keys : got[c][k] # Absent => Whole(k) /\ got[c][k] = store[k]

\* A call that no longer needs a file has read it.
LoadsDone ==
  \A c \in Clients :
    /\ pc[c] = "load" => /\ job[c] \in FreezeJobs \cup PromoteJobs \cup RollbackJobs
                         /\ \A k \in KeysOf(job[c]) \ need[c] : got[c][k] # Absent
    /\ pc[c] = "decide" => /\ job[c] \in PromoteJobs
                           /\ \A k \in KeysOf(job[c]) : got[c][k] # Absent
                           /\ got[c][BaselineRunOf(c)] # Absent

\* The file a client fills is torn, and its own.
Filling ==
  \A c \in Clients : pc[c] = "fill" =>
    /\ store[draft[c].key] = Torn
    /\ \A d \in Clients : pc[d] = "fill" /\ draft[d].key = draft[c].key => d = c

DraftsCertified ==
  \A c \in Clients : pc[c] = "fill" /\ draft[c].key \in PromotionIds => Certified(draft[c].body)

Inv ==
  /\ TypeOK /\ Shape /\ ReadsHold /\ LoadsDone /\ Filling
  /\ DraftsCertified /\ PromotionsAreCertified

-----------------------------------------------------------------------------
(* Lemmas.                                                                 *)

\* The record sets of the four kinds of keys.
LEMMA KindOfKey ==
  /\ \A k \in RunIds : k \in Keys /\ BodiesOf(k) = Run
  /\ \A k \in BaselineIds : k \in Keys /\ BodiesOf(k) = Baseline
  /\ \A k \in ComparisonIds : k \in Keys /\ BodiesOf(k) = Comparison
  /\ \A k \in PromotionIds : k \in Keys /\ BodiesOf(k) = Promotion
BY KindsAreApart DEF Keys, BodiesOf

\* Certification outlasts any step that leaves the whole records alone.
LEMMA CertifiedStays ==
  ASSUME NEW p, Certified(p), \A k \in Keys : Whole(k) => store[k] \in BodiesOf(k),
         \A k \in Keys : Whole(k) => store'[k] = store[k]
  PROVE  Certified(p)'
<1>1. /\ p.run \in Keys /\ p.baseline \in Keys /\ p.comparison \in Keys
      /\ Whole(p.run) /\ Whole(p.baseline) /\ Whole(p.comparison)
  BY KindOfKey DEF Certified
<1>2. /\ store'[p.run] = store[p.run] /\ store'[p.baseline] = store[p.baseline]
      /\ store'[p.comparison] = store[p.comparison]
  BY <1>1
<1>3. store[p.baseline].run \in Keys /\ Whole(store[p.baseline].run)
  <2>1. store[p.baseline] \in Baseline
    BY <1>1, KindOfKey DEF Certified
  <2> QED BY <2>1, KindOfKey DEF Certified, Baseline
<1>4. store'[store[p.baseline].run] = store[store[p.baseline].run]
  BY <1>3
<1>5. Whole(p.run)' /\ Whole(p.baseline)' /\ Whole(p.comparison)'
  BY <1>1, <1>2 DEF Whole
<1>6. Whole(store[p.baseline].run)'
  BY <1>2, <1>3, <1>4 DEF Whole
<1> QED BY <1>2, <1>4, <1>5, <1>6 DEF Certified, Significant

\* A call that ends leaves the rest of the state as it is.
LEMMA LeaveKeeps ==
  ASSUME Inv, NEW c \in Clients, Leave(c), UNCHANGED store
  PROVE  Inv'
<1> USE DEF Inv, Leave
<1>1. TypeOK' /\ Shape'
  BY DEF TypeOK, Shape, Whole, GotNothing
<1>2. \A k \in Keys : GotNothing[k] = Absent
  BY DEF GotNothing
<1>3. ReadsHold'
  BY <1>2 DEF ReadsHold, Shape, Whole
<1>4a. \A d \in Clients : d # c => job'[d] = job[d] /\ need'[d] = need[d] /\ got'[d] = got[d]
  BY DEF TypeOK, Shape
<1>4b. pc'[c] = "idle" /\ \A d \in Clients : d # c => pc'[d] = pc[d]
  BY DEF TypeOK, Shape
<1>4c. LoadsDone'
  BY <1>4a, <1>4b DEF LoadsDone, BaselineRunOf
<1>4. Filling'
  BY <1>4b DEF Filling
<1>5. \A p : Certified(p) => Certified(p)'
  BY DEF Certified, Whole
<1>6. DraftsCertified' /\ PromotionsAreCertified'
  <2>1. \A d \in Clients : pc'[d] = "fill" => pc[d] = "fill" /\ draft'[d] = draft[d]
    BY DEF TypeOK, Shape
  <2>2. Promotions(store') = Promotions(store)
    BY DEF Promotions
  <2> QED BY <1>5, <2>1, <2>2 DEF DraftsCertified, PromotionsAreCertified
<1> QED BY <1>1, <1>3, <1>4, <1>4c, <1>6

\* A put of a body of the kind of its key, certified when it is a promotion.
LEMMA PutKeeps ==
  ASSUME Inv, NEW c \in Clients, NEW k \in Keys, NEW body \in BodiesOf(k), pc[c] # "fill",
         k \in PromotionIds => Certified(body), Put(c, k, body)
  PROVE  Inv'
<1>1. CASE ~Creates(k)
  BY <1>1, LeaveKeeps DEF Put
<1>2. CASE Creates(k)
  <2> USE <1>2 DEF Inv
  <2>1. /\ store' = [store EXCEPT ![k] = Torn]
        /\ draft' = [draft EXCEPT ![c] = [key |-> k, body |-> body]]
        /\ pc' = [pc EXCEPT ![c] = "fill"]
        /\ job' = [job EXCEPT ![c] = NoJob]
        /\ need' = [need EXCEPT ![c] = {}]
        /\ got' = [got EXCEPT ![c] = GotNothing]
    BY DEF Put
  <2>2. ~Whole(k)
    BY DEF Creates, Whole
  <2>3. \A x \in Keys : Whole(x) => store'[x] = store[x] /\ Whole(x)'
    BY <2>1, <2>2 DEF TypeOK, Whole
  <2>4. \A x \in Keys : Whole(x)' => Whole(x) /\ store'[x] = store[x]
    BY <2>1, <2>2 DEF TypeOK, Whole
  <2>5. TypeOK'
    <3>1. store' = [x \in Keys |-> store'[x]]
      BY <2>1 DEF TypeOK
    <3>2. \A x \in Keys : Whole(x)' => store'[x] \in BodiesOf(x)
      BY <2>4 DEF TypeOK
    <3>3. \A d \in Clients : pc'[d] = "fill" =>
            draft'[d].key \in Keys /\ draft'[d].body \in BodiesOf(draft'[d].key)
      BY <2>1 DEF TypeOK, Shape
    <3> QED BY <2>1, <3>1, <3>2, <3>3 DEF TypeOK
  <2>6. Shape'
    BY <2>1 DEF Shape, GotNothing
  <2>7. \A x \in Keys : GotNothing[x] = Absent
    BY DEF GotNothing
  <2>8. ReadsHold'
    BY <2>1, <2>3, <2>7 DEF ReadsHold, Shape
  <2>9. LoadsDone'
    BY <2>1 DEF LoadsDone, Shape, TypeOK, BaselineRunOf
  <2>10. Filling'
    <3>1. \A d \in Clients : d # c =>
            pc'[d] = pc[d] /\ draft'[d] = draft[d] /\ (pc[d] = "fill" => draft[d].key # k)
      BY <2>1, MarkersAreNoBodies DEF Filling, Shape, TypeOK, Creates
    <3>2. draft'[c].key = k /\ store'[k] = Torn
      BY <2>1 DEF Shape, TypeOK
    <3>3. \A x : x \in Keys /\ store[x] = Torn => store'[x] = Torn
      BY <2>1 DEF TypeOK
    <3>4. \A d \in Clients : pc[d] = "fill" => draft[d].key \in Keys
      BY DEF TypeOK
    <3> QED BY <3>1, <3>2, <3>3, <3>4 DEF Filling
  <2>11. \A p : Certified(p) => Certified(p)'
    BY <2>3, CertifiedStays DEF TypeOK
  <2>12. DraftsCertified'
    BY <2>1, <2>11 DEF DraftsCertified, Shape, TypeOK
  <2>13. PromotionsAreCertified'
    <3>1. \A p \in PromotionIds : p \in Promotions(store') =>
            p \in Promotions(store) /\ store'[p] = store[p]
      BY <2>4, KindOfKey DEF Promotions, Whole
    <3> QED BY <3>1, <2>11 DEF PromotionsAreCertified, Promotions
  <2> QED BY <2>5, <2>6, <2>8, <2>9, <2>10, <2>12, <2>13
<1> QED BY <1>1, <1>2

-----------------------------------------------------------------------------
(* The steps.                                                              *)

LEMMA InvInit == Init => Inv
<1> SUFFICES ASSUME Init PROVE Inv
  OBVIOUS
<1>1. Promotions(store) = {}
  BY KindOfKey DEF Init, Promotions
<1> QED BY <1>1 DEF Init, Inv, TypeOK, Shape, ReadsHold, LoadsDone, Filling,
                    DraftsCertified, PromotionsAreCertified, GotNothing, Whole

LEMMA RecordKeeps == ASSUME Inv, NEW c \in Clients, Record(c) PROVE Inv'
<1>1. PICK k \in RunIds \cup ComparisonIds : \E body \in Measured[k] : Put(c, k, body)
  BY DEF Record
<1>0. PICK body \in Measured[k] : Put(c, k, body)
  BY <1>1
<1>2. k \in Keys /\ body \in BodiesOf(k) /\ k \notin PromotionIds
  BY ReleaseAssumption, KindOfKey, KindsAreApart
<1> QED BY <1>0, <1>2, PutKeeps DEF Record

LEMMA FreezeKeeps == ASSUME Inv, NEW c \in Clients, Freeze(c) PROVE Inv'
<1>1. PICK b \in BaselineIds, l \in {"benchmark", "development"} :
        Put(c, b, [run |-> job[c].run, lineage |-> l])
  BY DEF Freeze
<1>2. job[c].run \in RunIds
  BY DEF Freeze, Loaded, Inv, LoadsDone, FreezeJobs, PromoteJobs, RollbackJobs
<1>3. [run |-> job[c].run, lineage |-> l] \in BodiesOf(b) /\ b \in Keys /\ b \notin PromotionIds
  BY <1>2, KindOfKey, KindsAreApart DEF Baseline
<1> QED BY <1>1, <1>3, PutKeeps DEF Freeze, Loaded

\* The gate decides from copies, and the copies are what the files hold.
LEMMA DecideKeeps == ASSUME Inv, NEW c \in Clients, Decide(c) PROVE Inv'
<1> DEFINE j == job[c]
           run == got[c][j.run]
           base == got[c][j.baseline]
           m == got[c][j.comparison]
           baseRun == got[c][BaselineRunOf(c)]
           Record0(t, judge) ==
             [kind |-> "promote", configuration |-> run.configuration, run |-> j.run,
              baseline |-> j.baseline, comparison |-> j.comparison,
              judge |-> judge, supersedes |-> Nothing, at |-> t]
<1>1. j \in PromoteJobs /\ pc[c] # "fill"
  BY DEF Decide, Inv, LoadsDone
<1>2. j.run \in RunIds /\ j.baseline \in BaselineIds /\ j.comparison \in ComparisonIds
  BY <1>1 DEF PromoteJobs
<1>3. /\ Whole(j.run) /\ run = store[j.run]
      /\ Whole(j.baseline) /\ base = store[j.baseline]
      /\ Whole(j.comparison) /\ m = store[j.comparison]
  <2>1. \A k \in {j.run, j.baseline, j.comparison} : got[c][k] # Absent
    BY <1>1 DEF Decide, Inv, LoadsDone, KeysOf, PromoteJobs
  <2> QED BY <1>2, <2>1, KindOfKey DEF Inv, ReadsHold
<1>4. BaselineRunOf(c) = store[j.baseline].run /\ base.run \in RunIds
  <2>1. store[j.baseline] \in Baseline
    BY <1>2, <1>3, KindOfKey DEF Inv, TypeOK
  <2> QED BY <1>3, <2>1 DEF BaselineRunOf, Baseline
<1>5. Whole(base.run) /\ baseRun = store[base.run]
  <2>1. got[c][BaselineRunOf(c)] # Absent
    BY DEF Decide, Inv, LoadsDone
  <2> QED BY <1>3, <1>4, <2>1, KindOfKey DEF Inv, ReadsHold
<1>6. run \in Run
  BY <1>2, <1>3, KindOfKey DEF Inv, TypeOK
<1>7. ASSUME NEW p \in PromotionIds, NEW t \in Times, NEW judge \in {"none", "refused", "admitted"},
             Promotable(j, run, base, baseRun, m, judge), Put(c, p, Record0(t, judge))
      PROVE  Inv'
  <2>1. Record0(t, judge) \in Promotion
    BY <1>2, <1>6 DEF Promotion, Run
  <2>2. Certified(Record0(t, judge))
    BY <1>2, <1>3, <1>4, <1>5, <1>7 DEF Certified, Promotable, PointersAgree
  <2> QED BY <1>1, <1>7, <2>1, <2>2, KindOfKey, PutKeeps
<1>8. CASE Leave(c) /\ UNCHANGED store
  BY <1>8, LeaveKeeps
<1>9. CASE ~(Leave(c) /\ UNCHANGED store)
  BY <1>7, <1>9 DEF Decide
<1> QED BY <1>8, <1>9

\* A reverse record carries the pointers of a certified one.
LEMMA RollbackKeeps == ASSUME Inv, NEW c \in Clients, Rollback(c) PROVE Inv'
<1> DEFINE q == job[c].reverses
           original == got[c][q]
<1>1. PICK p \in PromotionIds, t \in Times : Put(c, p, Reversed(original, q, t))
  BY DEF Rollback
<1>2. job[c] \in RollbackJobs /\ need[c] = {} /\ pc[c] = "load"
  BY DEF Rollback, Loaded, Inv, LoadsDone, FreezeJobs, PromoteJobs, RollbackJobs
<1>3. q \in PromotionIds
  BY <1>2 DEF RollbackJobs
<1>4. Whole(q) /\ original = store[q]
  <2>1. got[c][q] # Absent
    BY <1>2 DEF Inv, LoadsDone, KeysOf, RollbackJobs
  <2> QED BY <1>3, <2>1, KindOfKey DEF Inv, ReadsHold
<1>5. original \in Promotion /\ Certified(original)
  BY <1>3, <1>4, KindOfKey DEF Inv, TypeOK, PromotionsAreCertified, Promotions, Whole
<1>6. Reversed(original, q, t) \in Promotion
  BY <1>3, <1>5 DEF Reversed, Promotion
<1>7. LET r == Reversed(original, q, t)
      IN /\ r.run = original.run /\ r.baseline = original.baseline
         /\ r.comparison = original.comparison /\ r.judge = original.judge
         /\ r.configuration = original.configuration
  BY <1>5 DEF Reversed, Promotion
<1>8. Certified(Reversed(original, q, t))
  BY <1>5, <1>7 DEF Certified
<1> QED BY <1>1, <1>2, <1>6, <1>8, KindOfKey, PutKeeps

\* Reading files changes none of them.
LEMMA OneRead ==
  ASSUME Inv, NEW c \in Clients, NEW k \in Keys, Whole(k), UNCHANGED <<store, draft>>,
         got' = [got EXCEPT ![c][k] = store[k]]
  PROVE  /\ ReadsHold'
         /\ got' = [d \in Clients |-> [x \in Keys |-> got'[d][x]]]
         /\ got'[c][k] # Absent
         /\ \A x \in Keys : x # k => got'[c][x] = got[c][x]
         /\ \A d \in Clients : d # c => got'[d] = got[d]
<1> USE DEF Inv, Shape
<1>1. \A x \in Keys : got'[c][x] = IF x = k THEN store[k] ELSE got[c][x]
  OBVIOUS
<1>2. \A d \in Clients : d # c => got'[d] = got[d]
  OBVIOUS
<1>3. got' = [d \in Clients |-> [x \in Keys |-> got'[d][x]]]
  <2>1. got[c] = [x \in Keys |-> got[c][x]]
    OBVIOUS
  <2>2. got'[c] = [x \in Keys |-> got'[c][x]]
    BY <2>1
  <2>4. \A d \in Clients : got[d] = [x \in Keys |-> got[d][x]]
    OBVIOUS
  <2>5. ASSUME NEW d \in Clients, d # c PROVE got'[d] = [x \in Keys |-> got'[d][x]]
    <3>1. got'[d] = got[d]
      BY <1>2, <2>5
    <3> QED BY <2>4, <3>1
  <2>3. \A d \in Clients : got'[d] = [x \in Keys |-> got'[d][x]]
    BY <2>2, <2>5
  <2>6. got' = [d \in Clients |-> got'[d]]
    OBVIOUS
  <2> QED BY <2>3, <2>6
<1>4. ReadsHold'
  BY <1>1, <1>2 DEF ReadsHold, Whole
<1> QED BY <1>1, <1>2, <1>3, <1>4 DEF Whole

\* What the rest of the invariant says of a step that writes no file and no draft.
LEMMA NoWrite ==
  ASSUME Inv, UNCHANGED <<store, draft>>,
         \A d \in Clients : pc'[d] = "fill" => pc[d] = "fill"
  PROVE  Filling' /\ DraftsCertified' /\ PromotionsAreCertified'
<1>1. \A p : Certified(p) => Certified(p)'
  BY DEF Certified, Whole
<1> QED BY <1>1 DEF Inv, Filling, DraftsCertified, PromotionsAreCertified, Promotions

LEMMA LoadKeeps == ASSUME Inv, NEW c \in Clients, Load(c) PROVE Inv'
<1>1. CASE Leave(c) /\ UNCHANGED store
  BY <1>1, LeaveKeeps
<1>2. CASE ~(Leave(c) /\ UNCHANGED store)
  <2>1. PICK k \in need[c] :
          /\ Whole(k) /\ got' = [got EXCEPT ![c][k] = store[k]]
          /\ need' = [need EXCEPT ![c] = @ \ {k}]
          /\ UNCHANGED <<pc, job, draft>> /\ UNCHANGED store
    BY <1>2 DEF Load
  <2>2. k \in Keys /\ pc[c] = "load"
    BY DEF Inv, TypeOK, Load
  <2>3. /\ ReadsHold'
        /\ got' = [d \in Clients |-> [x \in Keys |-> got'[d][x]]]
        /\ got'[c][k] # Absent
        /\ \A x \in Keys : x # k => got'[c][x] = got[c][x]
        /\ \A d \in Clients : d # c => got'[d] = got[d]
    BY <2>1, <2>2, OneRead
  <2>4. TypeOK'
    BY <2>1 DEF Inv, TypeOK, Whole
  <2>5. Shape'
    BY <2>1, <2>3 DEF Inv, Shape
  <2>6. LoadsDone'
    <3>1. ASSUME NEW d \in Clients, d # c
          PROVE  /\ pc'[d] = pc[d] /\ job'[d] = job[d] /\ need'[d] = need[d]
                 /\ got'[d] = got[d] /\ BaselineRunOf(d)' = BaselineRunOf(d)
      BY <2>1, <2>3, <3>1 DEF Inv, TypeOK, BaselineRunOf
    <3>2. job'[c] = job[c] /\ pc'[c] = "load" /\ need'[c] = need[c] \ {k}
      BY <2>1, <2>2 DEF Inv, TypeOK
    <3>3. job[c] \in FreezeJobs \cup PromoteJobs \cup RollbackJobs
      BY <2>2 DEF Inv, LoadsDone
    <3>4. KeysOf(job[c]) \subseteq Keys
      BY <3>3 DEF KeysOf, FreezeJobs, PromoteJobs, RollbackJobs, Keys
    <3>5. \A x \in KeysOf(job[c]) \ need'[c] : got'[c][x] # Absent
      BY <2>2, <2>3, <3>2, <3>4 DEF Inv, LoadsDone
    <3> QED BY <3>1, <3>2, <3>3, <3>5 DEF Inv, LoadsDone
  <2>7. Filling' /\ DraftsCertified' /\ PromotionsAreCertified'
    BY <2>1, NoWrite
  <2> QED BY <2>3, <2>4, <2>5, <2>6, <2>7 DEF Inv
<1> QED BY <1>1, <1>2

LEMMA LoadBaselineRunKeeps == ASSUME Inv, NEW c \in Clients, LoadBaselineRun(c) PROVE Inv'
<1>1. CASE Leave(c) /\ UNCHANGED store
  BY <1>1, LeaveKeeps
<1>2. CASE ~(Leave(c) /\ UNCHANGED store)
  <2> DEFINE b == job[c].baseline
             r == got[c][b].run
  <2>1. /\ Whole(r) /\ got' = [got EXCEPT ![c][r] = store[r]]
        /\ pc' = [pc EXCEPT ![c] = "decide"]
        /\ UNCHANGED <<job, need, draft>> /\ UNCHANGED store
    BY <1>2 DEF LoadBaselineRun, BaselineRunOf
  <2>2. job[c] \in PromoteJobs /\ need[c] = {}
    BY DEF LoadBaselineRun, Loaded, Inv, LoadsDone, FreezeJobs, PromoteJobs, RollbackJobs
  <2>3. KeysOf(job[c]) = {job[c].run, b, job[c].comparison}
    BY <2>2 DEF KeysOf, PromoteJobs
  <2>4. /\ \A k \in KeysOf(job[c]) : k \in Keys /\ got[c][k] # Absent
        /\ b \in BaselineIds
    BY <2>2, <2>3 DEF LoadBaselineRun, Loaded, Inv, LoadsDone, PromoteJobs, Keys
  <2>5. got[c][b] \in Baseline
    BY <2>3, <2>4, KindOfKey DEF Inv, ReadsHold, TypeOK
  <2>6. r \in RunIds /\ r \in Keys /\ r # b
    BY <2>4, <2>5, KindsAreApart DEF Baseline, Keys
  <2>7. /\ ReadsHold'
        /\ got' = [d \in Clients |-> [x \in Keys |-> got'[d][x]]]
        /\ got'[c][r] # Absent
        /\ \A x \in Keys : x # r => got'[c][x] = got[c][x]
        /\ \A d \in Clients : d # c => got'[d] = got[d]
    BY <2>1, <2>6, OneRead
  <2>8. TypeOK'
    BY <2>1 DEF Inv, TypeOK, Whole
  <2>9. Shape'
    BY <2>1, <2>7 DEF Inv, Shape
  <2>10. LoadsDone'
    <3>1. ASSUME NEW d \in Clients, d # c
          PROVE  /\ pc'[d] = pc[d] /\ job'[d] = job[d] /\ need'[d] = need[d]
                 /\ got'[d] = got[d] /\ BaselineRunOf(d)' = BaselineRunOf(d)
      BY <2>1, <2>7, <3>1 DEF Inv, TypeOK, BaselineRunOf
    <3>2. job'[c] = job[c] /\ pc'[c] = "decide"
      BY <2>1 DEF Inv, TypeOK
    <3>3. \A x \in KeysOf(job[c]) : got'[c][x] # Absent
      BY <2>4, <2>7
    <3>4. got'[c][BaselineRunOf(c)'] # Absent
      BY <2>3, <2>4, <2>6, <2>7, <3>2 DEF BaselineRunOf
    <3> QED BY <2>2, <3>1, <3>2, <3>3, <3>4 DEF Inv, LoadsDone
  <2>11. Filling' /\ DraftsCertified' /\ PromotionsAreCertified'
    BY <2>1, NoWrite DEF Inv, TypeOK
  <2> QED BY <2>7, <2>8, <2>9, <2>10, <2>11 DEF Inv
<1> QED BY <1>1, <1>2

LEMMA ListReadKeeps == ASSUME Inv, NEW c \in Clients, ListRead(c) PROVE Inv'
<1>1. PICK k \in need[c] :
        /\ need' = [need EXCEPT ![c] = @ \ {k}]
        /\ got' = IF Whole(k) THEN [got EXCEPT ![c][k] = store[k]] ELSE got
  BY DEF ListRead
<1>2. k \in Keys /\ pc[c] = "read" /\ UNCHANGED <<store, pc, job, draft>>
  BY DEF Inv, TypeOK, ListRead
<1>3. /\ ReadsHold'
      /\ got' = [d \in Clients |-> [x \in Keys |-> got'[d][x]]]
      /\ \A d \in Clients : d # c => got'[d] = got[d]
  <2>1. CASE Whole(k)
    BY <1>1, <1>2, <2>1, OneRead
  <2>2. CASE ~Whole(k)
    BY <1>1, <1>2, <2>2 DEF Inv, Shape, ReadsHold, Whole
  <2> QED BY <2>1, <2>2
<1>4. TypeOK' /\ Shape'
  BY <1>1, <1>2, <1>3 DEF Inv, TypeOK, Shape, Whole
<1>5. LoadsDone'
  BY <1>1, <1>2, <1>3 DEF Inv, TypeOK, LoadsDone, BaselineRunOf
<1>6. Filling' /\ DraftsCertified' /\ PromotionsAreCertified'
  BY <1>2, NoWrite
<1> QED BY <1>3, <1>4, <1>5, <1>6 DEF Inv

\* A call that begins has read nothing.
LEMMA BeginKeeps ==
  ASSUME Inv, NEW c \in Clients, CallFreeze(c) \/ CallPromote(c) \/ CallRollback(c) \/ CallCurrent(c)
  PROVE  Inv'
<1>1. PICK j, keys, step :
        /\ Begin(c, j, keys, step)
        /\ keys \in SUBSET Keys /\ step \in {"load", "read"}
        /\ step = "load" => j \in FreezeJobs \cup PromoteJobs \cup RollbackJobs /\ KeysOf(j) = keys
  <2>1. CASE CallFreeze(c)
    <3>1. PICK r \in RunIds : Begin(c, [op |-> "freeze", run |-> r], {r}, "load")
      BY <2>1 DEF CallFreeze
    <3>2. [op |-> "freeze", run |-> r] \in FreezeJobs /\ {r} \in SUBSET Keys
          /\ KeysOf([op |-> "freeze", run |-> r]) = {r}
      BY DEF FreezeJobs, KeysOf, Keys
    <3> QED BY <3>1, <3>2
  <2>2. CASE CallPromote(c)
    <3>1. PICK r \in RunIds, b \in BaselineIds, m \in ComparisonIds :
            Begin(c, [op |-> "promote", run |-> r, baseline |-> b, comparison |-> m],
                  {r, b, m}, "load")
      BY <2>2 DEF CallPromote
    <3>2. [op |-> "promote", run |-> r, baseline |-> b, comparison |-> m] \in PromoteJobs
          /\ {r, b, m} \in SUBSET Keys
          /\ KeysOf([op |-> "promote", run |-> r, baseline |-> b, comparison |-> m]) = {r, b, m}
      BY DEF PromoteJobs, KeysOf, Keys
    <3> QED BY <3>1, <3>2
  <2>3. CASE CallRollback(c)
    <3>1. PICK q \in PromotionIds : Begin(c, [op |-> "rollback", reverses |-> q], {q}, "load")
      BY <2>3 DEF CallRollback
    <3>2. [op |-> "rollback", reverses |-> q] \in RollbackJobs /\ {q} \in SUBSET Keys
          /\ KeysOf([op |-> "rollback", reverses |-> q]) = {q}
      BY DEF RollbackJobs, KeysOf, Keys
    <3> QED BY <3>1, <3>2
  <2>4. CASE CallCurrent(c)
    BY <2>4 DEF CallCurrent, Keys
  <2> QED BY <2>1, <2>2, <2>3, <2>4
<1>2. /\ pc[c] = "idle" /\ job' = [job EXCEPT ![c] = j] /\ need' = [need EXCEPT ![c] = keys]
      /\ pc' = [pc EXCEPT ![c] = step] /\ UNCHANGED <<store, got, draft>>
  BY <1>1 DEF Begin
<1>6. step # "fill" /\ step \in {"load", "read"} /\ keys \in SUBSET Keys
  BY <1>1
<1>3. TypeOK' /\ Shape' /\ ReadsHold'
  <2>1. Shape' /\ ReadsHold'
    BY <1>2 DEF Inv, Shape, ReadsHold, Whole
  <2>2. \A d \in Clients : pc'[d] = "fill" => pc[d] = "fill"
    BY <1>2, <1>6 DEF Inv, TypeOK
  <2>3. pc' \in [Clients -> {"idle", "load", "decide", "fill", "read"}] /\ need' \in [Clients -> SUBSET Keys]
    BY <1>2, <1>6 DEF Inv, TypeOK
  <2> QED BY <1>2, <2>1, <2>2, <2>3 DEF Inv, TypeOK, Whole
<1>4. LoadsDone'
  <2>1. \A d \in Clients : d # c => /\ pc'[d] = pc[d] /\ job'[d] = job[d] /\ need'[d] = need[d]
                                   /\ BaselineRunOf(d)' = BaselineRunOf(d)
    BY <1>2 DEF Inv, TypeOK, Shape, BaselineRunOf
  <2>2. pc'[c] = step /\ job'[c] = j /\ need'[c] = keys
    BY <1>2 DEF Inv, TypeOK, Shape
  <2> QED BY <1>1, <1>2, <2>1, <2>2 DEF Inv, LoadsDone
<1>5. Filling' /\ DraftsCertified' /\ PromotionsAreCertified'
  <2>1. \A d \in Clients : pc'[d] = "fill" => pc[d] = "fill"
    BY <1>2, <1>6 DEF Inv, TypeOK
  <2> QED BY <1>2, <2>1, NoWrite
<1> QED BY <1>3, <1>4, <1>5 DEF Inv

\* The writer completes its own torn file.
LEMMA FillKeeps == ASSUME Inv, NEW c \in Clients, PutFill(c) PROVE Inv'
<1> DEFINE k == draft[c].key
           body == draft[c].body
<1>1. /\ pc[c] = "fill" /\ store' = [store EXCEPT ![k] = body] /\ Leave(c)
      /\ k \in Keys /\ body \in BodiesOf(k) /\ store[k] = Torn
  BY DEF PutFill, Inv, TypeOK, Filling
<1>2. \A x \in Keys : store'[x] = IF x = k THEN body ELSE store[x]
  BY <1>1 DEF Inv, TypeOK
<1>3. \A x \in Keys : Whole(x) => store'[x] = store[x] /\ Whole(x)'
  BY <1>1, <1>2 DEF Whole
<1>4. /\ pc' = [pc EXCEPT ![c] = "idle"] /\ job' = [job EXCEPT ![c] = NoJob]
      /\ need' = [need EXCEPT ![c] = {}] /\ got' = [got EXCEPT ![c] = GotNothing]
      /\ draft' = [draft EXCEPT ![c] = NoDraft]
  BY <1>1 DEF Leave
<1>5. TypeOK'
  <2>1. store' = [x \in Keys |-> store'[x]]
    BY <1>1 DEF Inv, TypeOK
  <2>2. \A x \in Keys : Whole(x)' => store'[x] \in BodiesOf(x)
    BY <1>1, <1>2 DEF Inv, TypeOK, Whole
  <2> QED BY <1>4, <2>1, <2>2 DEF Inv, TypeOK, Shape
<1>6. Shape'
  BY <1>4 DEF Inv, Shape, GotNothing
<1>7. \A x \in Keys : GotNothing[x] = Absent
  BY DEF GotNothing
<1>8. ReadsHold'
  BY <1>3, <1>4, <1>7 DEF Inv, ReadsHold, Shape
<1>9. LoadsDone'
  BY <1>4 DEF Inv, LoadsDone, Shape, TypeOK, BaselineRunOf
<1>10. \A d \in Clients : pc'[d] = "fill" =>
         /\ d # c /\ pc[d] = "fill" /\ draft'[d] = draft[d]
         /\ draft[d].key # k /\ draft[d].key \in Keys
  BY <1>1, <1>4 DEF Inv, Filling, Shape, TypeOK
<1>11. Filling'
  BY <1>2, <1>10 DEF Inv, Filling
<1>12. \A p : Certified(p) => Certified(p)'
  BY <1>3, CertifiedStays DEF Inv, TypeOK
<1>13. DraftsCertified'
  BY <1>10, <1>12 DEF Inv, DraftsCertified
<1>14. PromotionsAreCertified'
  <2>1. ASSUME NEW p \in Promotions(store') PROVE Certified(store'[p])
    <3>1. p \in Keys /\ p \in PromotionIds
      BY KindOfKey DEF Promotions
    <3>2. CASE p = k
      BY <1>1, <1>2, <3>1, <3>2 DEF Inv, DraftsCertified
    <3>3. CASE p # k
      BY <1>2, <3>1, <3>3 DEF Inv, PromotionsAreCertified, Promotions
    <3> QED BY <3>2, <3>3
  <2>2. ASSUME NEW p \in Promotions(store') PROVE Certified(store[p])'
    BY <1>12, <2>1
  <2> QED BY <2>2 DEF PromotionsAreCertified
<1> QED BY <1>5, <1>6, <1>8, <1>9, <1>11, <1>13, <1>14 DEF Inv

LEMMA InvNext == Inv /\ [Next]_vars => Inv'
<1> SUFFICES ASSUME Inv, [Next]_vars PROVE Inv'
  OBVIOUS
<1>1. ASSUME NEW c \in Clients, Record(c) PROVE Inv'
  BY <1>1, RecordKeeps
<1>2. ASSUME NEW c \in Clients, PutFill(c) PROVE Inv'
  BY <1>2, FillKeeps
<1>3. ASSUME NEW c \in Clients, Fails(c) \/ Answer(c) PROVE Inv'
  BY <1>3, LeaveKeeps DEF Fails, Answer
<1>4. ASSUME NEW c \in Clients,
             CallFreeze(c) \/ CallPromote(c) \/ CallRollback(c) \/ CallCurrent(c)
      PROVE  Inv'
  BY <1>4, BeginKeeps
<1>5. ASSUME NEW c \in Clients, Load(c) \/ LoadBaselineRun(c) \/ ListRead(c) PROVE Inv'
  BY <1>5, LoadKeeps, LoadBaselineRunKeeps, ListReadKeeps
<1>6. ASSUME NEW c \in Clients, Freeze(c) \/ Decide(c) \/ Rollback(c) PROVE Inv'
  BY <1>6, FreezeKeeps, DecideKeeps, RollbackKeeps
<1>7. CASE UNCHANGED vars
  <2>1. UNCHANGED <<store, pc, job, need, got, draft>>
    BY <1>7 DEF vars
  <2>2. Filling' /\ DraftsCertified' /\ PromotionsAreCertified'
    BY <2>1, NoWrite
  <2>3. TypeOK' /\ Shape' /\ ReadsHold' /\ LoadsDone'
    BY <2>1 DEF Inv, TypeOK, Shape, ReadsHold, LoadsDone, Whole, BaselineRunOf
  <2> QED BY <2>2, <2>3 DEF Inv
<1> QED BY <1>1, <1>2, <1>3, <1>4, <1>5, <1>6, <1>7 DEF Next

\* What a step does to the files: a whole record stays, a torn one is its writer's.
KeysStand ==
  \A k \in Keys :
    /\ Whole(k) => store'[k] = store[k]
    /\ store[k] = Torn =>
         store'[k] \in {Torn} \cup {draft[c].body : c \in {d \in Clients :
                                     pc[d] = "fill" /\ draft[d].key = k}}

LEMMA KeysStandStep ==
  ASSUME Inv, [Next]_vars
  PROVE  KeysStand
<1>1. CASE UNCHANGED store
  BY <1>1 DEF KeysStand
<1>2. ASSUME NEW c \in Clients, PutFill(c) PROVE KeysStand
  <2>1. /\ store' = [store EXCEPT ![draft[c].key] = draft[c].body]
        /\ pc[c] = "fill" /\ store[draft[c].key] = Torn /\ draft[c].key \in Keys
    BY <1>2 DEF PutFill, Inv, Filling, TypeOK
  <2>2. \A x \in Keys : store'[x] = IF x = draft[c].key THEN draft[c].body ELSE store[x]
    BY <2>1 DEF Inv, TypeOK
  <2> QED BY <2>1, <2>2 DEF Whole, KeysStand
<1>3. ASSUME NEW c \in Clients, NEW k, NEW body, Put(c, k, body) PROVE KeysStand
  <2>1. CASE UNCHANGED store
    BY <2>1 DEF KeysStand
  <2>2. CASE store[k] = Absent /\ store' = [store EXCEPT ![k] = Torn]
    <3>1. \A x \in Keys : store'[x] = IF x = k THEN Torn ELSE store[x]
      BY <2>2 DEF Inv, TypeOK
    <3> QED BY <2>2, <3>1, MarkersAreNoBodies DEF Whole, KeysStand
  <2> QED BY <1>3, <2>1, <2>2 DEF Put, Creates
<1>4. ASSUME NEW c \in Clients, Record(c) \/ Freeze(c) \/ Decide(c) \/ Rollback(c) PROVE KeysStand
  <2>1. UNCHANGED store \/ \E k, body : Put(c, k, body)
    BY <1>4 DEF Record, Freeze, Decide, Rollback
  <2> QED BY <1>1, <1>3, <2>1
<1>5. ASSUME NEW c \in Clients,
             \/ Fails(c) \/ CallFreeze(c) \/ CallPromote(c) \/ CallRollback(c)
             \/ Load(c) \/ LoadBaselineRun(c) \/ CallCurrent(c) \/ ListRead(c) \/ Answer(c)
      PROVE  UNCHANGED store
  BY <1>5 DEF Fails, CallFreeze, CallPromote, CallRollback, Begin, Load, LoadBaselineRun,
           CallCurrent, ListRead, Answer
<1>6. CASE UNCHANGED vars
  BY <1>1, <1>6 DEF vars
<1> QED BY <1>1, <1>2, <1>4, <1>5, <1>6 DEF Next

-----------------------------------------------------------------------------
(* current.                                                                *)

\* A set of naturals that is not empty has a least one.
LEMMA LeastNatural ==
  ASSUME NEW S \in SUBSET Nat, S # {}
  PROVE  \E m \in S : \A k \in S : m <= k
<1>1. PICK m \in S : \A k \in S : ~(<<k, m>> \in OpToRel(<, Nat))
  BY WFMin, NatLessThanWellFounded
<1>2. \A k \in S : ~(k < m)
  BY <1>1 DEF OpToRel
<1> QED BY <1>2

\* A set of naturals that has a bound has a greatest one.
LEMMA GreatestNatural ==
  ASSUME NEW S \in SUBSET Nat, S # {}, NEW n \in Nat, \A k \in S : k <= n
  PROVE  \E m \in S : \A k \in S : k <= m
<1> DEFINE gaps == {n - k : k \in S}
<1>1. gaps \in SUBSET Nat /\ gaps # {}
  <2>1. \A k \in S : n - k \in Nat
    OBVIOUS
  <2> QED BY <2>1
<1>2. PICK g \in gaps : \A h \in gaps : g <= h
  <2> HIDE DEF gaps
  <2> QED BY <1>1, LeastNatural
<1>3. PICK m \in S : g = n - m
  OBVIOUS
<1>4. \A k \in S : n - m <= n - k
  BY <1>2, <1>3
<1> QED BY <1>4

\* A call of current has read, or has still to read, every promotion there was when it began.
FloorRead ==
  \A c \in Clients : pc[c] = "read" =>
    \A q \in job[c].floor : /\ q \in PromotionIds /\ Whole(q)
                            /\ q \in need[c] \/ got[c][q] # Absent

\* The promotions there are have a greatest id and a latest time.
ListBounded ==
  \E n \in Nat : \A p \in Promotions(store) : p <= n /\ store[p].at <= n

CurrentInv == FloorRead /\ ListBounded

\* A step of one client leaves the calls of the others alone, and only current reads the list.
LEMMA CallsApart ==
  ASSUME Inv, NEW c \in Clients,
         \/ Record(c) \/ PutFill(c) \/ Fails(c)
         \/ CallFreeze(c) \/ CallPromote(c) \/ CallRollback(c) \/ Load(c)
         \/ Freeze(c) \/ LoadBaselineRun(c) \/ Decide(c) \/ Rollback(c)
         \/ CallCurrent(c) \/ ListRead(c) \/ Answer(c)
  PROVE  /\ \A d \in Clients : d # c => /\ pc'[d] = pc[d] /\ job'[d] = job[d]
                                        /\ need'[d] = need[d] /\ got'[d] = got[d]
         /\ pc'[c] = "read" => CallCurrent(c) \/ ListRead(c)
<1> USE DEF Inv, TypeOK, Shape
<1> DEFINE Apart ==
      /\ \A d \in Clients : d # c => /\ pc'[d] = pc[d] /\ job'[d] = job[d]
                                     /\ need'[d] = need[d] /\ got'[d] = got[d]
      /\ pc'[c] = "read" => CallCurrent(c) \/ ListRead(c)
<1>1. ASSUME Leave(c) PROVE Apart
  BY <1>1 DEF Leave
<1>2. ASSUME NEW k, NEW body, Put(c, k, body) PROVE Apart
  <2>1. CASE ~Creates(k)
    BY <1>1, <1>2, <2>1 DEF Put
  <2>2. CASE Creates(k)
    BY <1>2, <2>2 DEF Put
  <2> QED BY <2>1, <2>2
<1>3. ASSUME NEW j, NEW keys, NEW step, Begin(c, j, keys, step), step = "load" \/ CallCurrent(c)
      PROVE  Apart
  BY <1>3 DEF Begin
<1>4. CASE CallFreeze(c) \/ CallPromote(c) \/ CallRollback(c) \/ CallCurrent(c)
  BY <1>3, <1>4 DEF CallFreeze, CallPromote, CallRollback, CallCurrent
<1>5. CASE Record(c) \/ Freeze(c) \/ Decide(c) \/ Rollback(c)
  <2>1. Leave(c) \/ \E k, body : Put(c, k, body)
    BY <1>5 DEF Record, Freeze, Decide, Rollback
  <2> QED BY <2>1, <1>1, <1>2
<1>6. CASE PutFill(c) \/ Fails(c) \/ Answer(c)
  BY <1>1, <1>6 DEF PutFill, Fails, Answer
<1>7. CASE Load(c) /\ ~Leave(c)
  <2>1. PICK k : /\ got' = [got EXCEPT ![c][k] = store[k]]
                 /\ need' = [need EXCEPT ![c] = @ \ {k}]
                 /\ UNCHANGED <<pc, job, draft>>
    BY <1>7 DEF Load
  <2> QED BY <1>7, <2>1 DEF Load
<1>8. CASE LoadBaselineRun(c) /\ ~Leave(c)
  BY <1>8 DEF LoadBaselineRun
<1>9. CASE ListRead(c)
  BY <1>9 DEF ListRead
<1> QED BY <1>1, <1>4, <1>5, <1>6, <1>7, <1>8, <1>9

LEMMA WholeStays ==
  ASSUME KeysStand, NEW k \in Keys, Whole(k)
  PROVE  store'[k] = store[k] /\ Whole(k)'
BY DEF KeysStand, Whole

\* Reading goes on while files are written: what was there stays.
LEMMA FloorReadKeeps ==
  ASSUME Inv, CurrentInv, KeysStand, NEW c \in Clients,
         \/ Record(c) \/ PutFill(c) \/ Fails(c)
         \/ CallFreeze(c) \/ CallPromote(c) \/ CallRollback(c) \/ Load(c)
         \/ Freeze(c) \/ LoadBaselineRun(c) \/ Decide(c) \/ Rollback(c)
         \/ CallCurrent(c) \/ ListRead(c) \/ Answer(c)
  PROVE  FloorRead'
<1>1. /\ \A d \in Clients : d # c => /\ pc'[d] = pc[d] /\ job'[d] = job[d]
                                     /\ need'[d] = need[d] /\ got'[d] = got[d]
      /\ pc'[c] = "read" => CallCurrent(c) \/ ListRead(c)
  BY CallsApart
<1> SUFFICES ASSUME NEW d \in Clients, pc'[d] = "read", NEW q \in job'[d].floor
             PROVE  /\ q \in PromotionIds /\ Whole(q)'
                    /\ q \in need'[d] \/ got'[d][q] # Absent
  BY DEF FloorRead
<1>2. CASE d # c
  <2>1. q \in PromotionIds /\ Whole(q) /\ (q \in need[d] \/ got[d][q] # Absent)
    BY <1>1, <1>2 DEF CurrentInv, FloorRead
  <2> QED BY <1>1, <1>2, <2>1, WholeStays, KindOfKey
<1>3. CASE d = c /\ CallCurrent(c)
  <2>1. /\ job' = [job EXCEPT ![c] = [op |-> "current", floor |-> Promotions(store)]]
        /\ need' = [need EXCEPT ![c] = {p \in PromotionIds : store[p] # Absent}]
    BY <1>3 DEF CallCurrent, Begin
  <2>2. job'[c].floor = Promotions(store) /\ need'[c] = {p \in PromotionIds : store[p] # Absent}
    BY <2>1 DEF Inv, TypeOK, Shape
  <2>3. q \in PromotionIds /\ Whole(q) /\ q \in need'[d]
    BY <1>3, <2>2 DEF Promotions, Whole
  <2> QED BY <2>3, WholeStays, KindOfKey
<1>4. CASE d = c /\ ListRead(c)
  <2>1. PICK k \in need[c] :
          /\ need' = [need EXCEPT ![c] = @ \ {k}]
          /\ got' = IF Whole(k) THEN [got EXCEPT ![c][k] = store[k]] ELSE got
    BY <1>4 DEF ListRead
  <2>2. pc[c] = "read" /\ job' = job /\ k \in Keys
    BY <1>4, <2>1 DEF ListRead, Inv, TypeOK
  <2>3. q \in PromotionIds /\ q \in Keys /\ Whole(q) /\ (q \in need[c] \/ got[c][q] # Absent)
    BY <1>4, <2>2, KindOfKey DEF CurrentInv, FloorRead
  <2>4. need'[c] = need[c] \ {k}
    BY <2>1 DEF Inv, TypeOK
  <2>5. got'[c][q] = IF q = k THEN store[q] ELSE got[c][q]
    BY <2>1, <2>2, <2>3 DEF Inv, Shape
  <2>6. q \in need'[c] \/ got'[c][q] # Absent
    BY <2>3, <2>4, <2>5 DEF Whole
  <2> QED BY <1>4, <2>3, <2>6, WholeStays
<1> QED BY <1>1, <1>2, <1>3, <1>4

LEMMA ListBoundedKeeps ==
  ASSUME Inv, ListBounded, [Next]_vars
  PROVE  ListBounded'
<1>1. CASE \A p \in PromotionIds : Whole(p)' => Whole(p) /\ store'[p] = store[p]
  <2>1. Promotions(store') \subseteq Promotions(store)
        /\ \A p \in Promotions(store') : store'[p] = store[p]
    BY <1>1 DEF Promotions, Whole
  <2> QED BY <2>1 DEF ListBounded
<1>2. ASSUME NEW c \in Clients, PutFill(c) PROVE ListBounded'
  <2> DEFINE k == draft[c].key
             body == draft[c].body
  <2>1. store' = [store EXCEPT ![k] = body] /\ k \in Keys /\ body \in BodiesOf(k)
    BY <1>2 DEF PutFill, Inv, TypeOK
  <2>2. \A x \in Keys : store'[x] = IF x = k THEN body ELSE store[x]
    BY <2>1 DEF Inv, TypeOK
  <2>3. CASE k \notin PromotionIds
    <3>1. \A p \in PromotionIds : store'[p] = store[p]
      BY <2>2, <2>3, KindOfKey
    <3> QED BY <3>1, <1>1 DEF Whole
  <2>4. CASE k \in PromotionIds
    <3>1. k \in Nat /\ body.at \in Nat
      <4>1. body \in Promotion
        BY <2>1, <2>4, KindOfKey
      <4>2. body.at \in Times
        BY <4>1 DEF Promotion
      <4> HIDE DEF k, body
      <4> QED BY <2>4, <4>2, ReleaseAssumption
    <3>2. PICK n \in Nat : \A p \in Promotions(store) : p <= n /\ store[p].at <= n
      BY DEF ListBounded
    <3>3. PICK m \in Nat : n <= m /\ k <= m /\ body.at <= m
      <4>1. n + k + body.at \in Nat /\ n <= n + k + body.at /\ k <= n + k + body.at
            /\ body.at <= n + k + body.at
        BY <3>1
      <4> QED BY <4>1
    <3>4. ASSUME NEW p \in Promotions(store') PROVE p <= m /\ store'[p].at <= m
      <4>1. p \in PromotionIds /\ p \in Keys /\ store'[p] \notin {Absent, Torn}
        BY KindOfKey DEF Promotions
      <4>2. CASE p = k
        BY <2>2, <3>3, <4>1, <4>2
      <4>3. CASE p # k
        <5>1. p \in Promotions(store) /\ store'[p] = store[p]
          BY <2>2, <4>1, <4>3 DEF Promotions
        <5>2. store[p] \in Promotion
          BY <5>1, <4>1, KindOfKey DEF Inv, TypeOK, Whole, Promotions
        <5>3. p \in Nat /\ store[p].at \in Nat
          BY <4>1, <5>2, ReleaseAssumption DEF Promotion
        <5> QED BY <3>2, <3>3, <5>1, <5>3
      <4> QED BY <4>2, <4>3
    <3> QED BY <3>4 DEF ListBounded
  <2> QED BY <2>3, <2>4
<1>3. CASE UNCHANGED store
  BY <1>1, <1>3 DEF Whole
<1>4. ASSUME NEW c \in Clients, NEW k, NEW body, Put(c, k, body) PROVE ListBounded'
  <2>1. CASE store[k] = Absent /\ store' = [store EXCEPT ![k] = Torn]
    <3>1. \A x \in Keys : store'[x] = IF x = k THEN Torn ELSE store[x]
      BY <2>1 DEF Inv, TypeOK
    <3>2. \A p \in PromotionIds : Whole(p)' => Whole(p) /\ store'[p] = store[p]
      BY <3>1, KindOfKey DEF Whole
    <3> QED BY <3>2, <1>1
  <2> QED BY <1>3, <1>4, <2>1 DEF Put, Creates
<1>5. ASSUME NEW c \in Clients, Record(c) \/ Freeze(c) \/ Decide(c) \/ Rollback(c)
      PROVE  ListBounded'
  <2>1. UNCHANGED store \/ \E k, body : Put(c, k, body)
    BY <1>5 DEF Record, Freeze, Decide, Rollback
  <2> QED BY <1>3, <1>4, <2>1
<1>6. ASSUME NEW c \in Clients,
             \/ Fails(c) \/ CallFreeze(c) \/ CallPromote(c) \/ CallRollback(c)
             \/ Load(c) \/ LoadBaselineRun(c) \/ CallCurrent(c) \/ ListRead(c) \/ Answer(c)
      PROVE  UNCHANGED store
  BY <1>6 DEF Fails, CallFreeze, CallPromote, CallRollback, Begin, Load, LoadBaselineRun,
           CallCurrent, ListRead, Answer
<1>7. CASE UNCHANGED vars
  BY <1>3, <1>7 DEF vars
<1> QED BY <1>2, <1>3, <1>5, <1>6, <1>7 DEF Next

LEMMA CurrentInvStep == Inv /\ CurrentInv /\ [Next]_vars => CurrentInv'
<1> SUFFICES ASSUME Inv, CurrentInv, [Next]_vars PROVE CurrentInv'
  OBVIOUS
<1>1. KeysStand /\ ListBounded'
  BY KeysStandStep, ListBoundedKeeps DEF CurrentInv
<1>2. CASE UNCHANGED vars
  BY <1>1, <1>2 DEF vars, CurrentInv, FloorRead, Whole
<1>3. CASE Next
  BY <1>1, <1>3, FloorReadKeeps DEF Next, CurrentInv
<1> QED BY <1>2, <1>3

\* The promotions a call has read have a newest one.
LEMMA NewestRead ==
  ASSUME Inv, CurrentInv, NEW c \in Clients, Promotions(got[c]) # {}
  PROVE  NewestOf(got[c]) # {}
<1> DEFINE f == got[c]
           S == Promotions(f)
<1>1. \A p \in S : /\ p \in PromotionIds /\ p \in Promotions(store) /\ f[p] = store[p]
                   /\ p \in Nat /\ f[p].at \in Nat
  <2> SUFFICES ASSUME NEW p \in S
               PROVE  /\ p \in PromotionIds /\ p \in Promotions(store) /\ f[p] = store[p]
                      /\ p \in Nat /\ f[p].at \in Nat
    OBVIOUS
  <2>1. p \in PromotionIds /\ f[p] # Absent
    BY DEF Promotions
  <2>2. Whole(p) /\ f[p] = store[p]
    BY <2>1, KindOfKey DEF Inv, ReadsHold
  <2>3. store[p] \in Promotion
    BY <2>1, <2>2, KindOfKey DEF Inv, TypeOK
  <2> QED BY <2>1, <2>2, <2>3, ReleaseAssumption DEF Promotions, Whole, Promotion
<1>2. PICK n \in Nat : \A p \in Promotions(store) : p <= n /\ store[p].at <= n
  BY DEF CurrentInv, ListBounded
<1>3. \A p \in S : p <= n /\ f[p].at <= n
  BY <1>1, <1>2
<1> HIDE DEF S, f
<1> DEFINE times == {f[p].at : p \in S}
<1>4. times \in SUBSET Nat /\ times # {} /\ \A t \in times : t <= n
  BY <1>1, <1>3 DEF S, f
<1>5. PICK latest \in times : \A t \in times : t <= latest
  <2> HIDE DEF times
  <2> QED BY <1>4, GreatestNatural
<1> DEFINE last == {p \in S : f[p].at = latest}
<1>6. last \in SUBSET Nat /\ last # {} /\ \A p \in last : p <= n
  BY <1>1, <1>3
<1>7. PICK p \in last : \A q \in last : q <= p
  <2> HIDE DEF last
  <2> QED BY <1>6, GreatestNatural
<1>8. \A q \in S \ {p} : Outranks(f, p, q)
  <2> SUFFICES ASSUME NEW q \in S, q # p PROVE Outranks(f, p, q)
    OBVIOUS
  <2>1. f[q].at <= f[p].at /\ f[q].at \in Nat /\ f[p].at \in Nat /\ p \in Nat /\ q \in Nat
    BY <1>1, <1>5
  <2>2. f[q].at = f[p].at => q <= p
    BY <1>7
  <2> QED BY <2>1, <2>2 DEF Outranks
<1>9. p \in NewestOf(f)
  BY <1>8 DEF NewestOf, S
<1> QED BY <1>9 DEF f

-----------------------------------------------------------------------------
(* Theorems.                                                               *)

LEMMA Invariance == Spec => []Inv
BY InvInit, InvNext, PTL DEF Spec

\* Every reachable state of the evidence plane is well formed: files hold records of their
\* kind, whatever the clients interleave and wherever they stop.
THEOREM TypeCorrect == Spec => []TypeOK
<1>1. Inv => TypeOK
  BY DEF Inv
<1> QED BY <1>1, Invariance, PTL

\* Every promotion record, rollbacks included, names evidence that is there and satisfies
\* the five conditions (promote and decidePromotion, over evidence read at other times).
THEOREM EveryPromotionIsCertified == Spec => []PromotionsAreCertified
<1>1. Inv => PromotionsAreCertified
  BY DEF Inv
<1> QED BY <1>1, Invariance, PTL

\* A whole record never changes, and a torn one is completed by its writer only (wx).
THEOREM RecordsNeverChange == Spec => EvidenceImmutable
<1>1. Inv /\ [Next]_vars => [KeysStand]_vars
  BY KeysStandStep
<1> QED BY <1>1, Invariance, PTL DEF Spec, EvidenceImmutable, KeysStand

\* current answers a promotion no older than any that was recorded when it began, although the
\* list is read file by file while others are written (evidence-local, list).
THEOREM CurrentIsNoOlder == Spec => []CurrentIsFresh
<1>1. Init => CurrentInv
  <2> SUFFICES ASSUME Init PROVE CurrentInv
    OBVIOUS
  <2>1. Promotions(store) = {}
    BY KindOfKey DEF Init, Promotions
  <2> QED BY <2>1 DEF Init, CurrentInv, FloorRead, ListBounded
<1>2. Inv /\ CurrentInv => CurrentIsFresh
  <2> SUFFICES ASSUME Inv, CurrentInv, NEW c \in Clients,
                      pc[c] = "read", need[c] = {}, job[c].floor # {}
               PROVE  \E p \in NewestOf(got[c]) :
                        /\ store[p] = got[c][p]
                        /\ \A q \in job[c].floor \ {p} : Outranks(store, p, q)
    BY DEF CurrentIsFresh
  <2>1. \A q \in PromotionIds : got[c][q] # Absent => store[q] = got[c][q] /\ Whole(q)
    BY KindOfKey DEF Inv, ReadsHold
  <2>2. \A q \in job[c].floor : q \in Promotions(got[c]) /\ store[q] = got[c][q]
    BY <2>1 DEF CurrentInv, FloorRead, Promotions, Whole
  <2>3. PICK p : p \in NewestOf(got[c])
    BY <2>2, NewestRead
  <2>4. store[p] = got[c][p]
    BY <2>1, <2>3 DEF NewestOf, Promotions
  <2>5. \A q \in job[c].floor \ {p} : Outranks(store, p, q)
    BY <2>2, <2>3, <2>4 DEF NewestOf, Outranks
  <2> QED BY <2>3, <2>4, <2>5
<1> QED BY <1>1, <1>2, CurrentInvStep, Invariance, PTL DEF Spec

-----------------------------------------------------------------------------
(* Products of naturals, for the solver.                                   *)

\* A product grows with its factor.
LEMMA ProductGrows ==
  ASSUME NEW a \in Int, NEW b \in Int, NEW k \in Nat, a =< b
  PROVE  a * k =< b * k
<1>1. (b - a) * k >= 0
  OBVIOUS
<1> QED BY <1>1

\* Strictly, when the other factor is not zero.
LEMMA ProductGrowsStrictly ==
  ASSUME NEW a \in Int, NEW b \in Int, NEW k \in Nat \ {0}, a < b
  PROVE  a * k < b * k
<1>1. (b - a) * k > 0
  OBVIOUS
<1> QED BY <1>1

\* A common factor cancels.
LEMMA FactorCancels ==
  ASSUME NEW a \in Int, NEW b \in Int, NEW k \in Nat \ {0}, a * k =< b * k
  PROVE  a =< b
<1> SUFFICES ASSUME b < a PROVE FALSE
  OBVIOUS
<1>1. b * k < a * k
  BY ProductGrowsStrictly
<1> QED BY <1>1

\* A product of a positive number by an integer has its sign.
LEMMA PositiveFactor ==
  ASSUME NEW f \in Nat, NEW g \in Int, f * g > 0
  PROVE  g > 0
<1> SUFFICES ASSUME g =< 0 PROVE FALSE
  OBVIOUS
<1>1. g * f =< 0 * f
  BY ProductGrows
<1>2. g * f = f * g /\ 0 * f = 0
  OBVIOUS
<1> QED BY <1>1, <1>2

-----------------------------------------------------------------------------
(* deriveEqualization, on the numbers: arm x fails D times less often than *)
(* arm y, all of it the instrument's, and the recall gap is below the      *)
(* declared resolution. Then D is below the resolution of arm x.           *)

LEMMA GapBoundsTheDelta ==
  ASSUME NEW f \in Nat, NEW n \in Nat, f =< n,
         NEW D \in Nat \ {0},
         NEW px \in Nat, NEW qx \in Nat \ {0}, px =< qx,
         NEW py \in Nat, NEW qy \in Nat \ {0}, py =< qy,
         NEW e1 \in Nat, NEW e2 \in Nat \ {0},
         D * (qx * qy) = f * (py * qx - px * qy),
         (py * qx - px * qy) * e2 =< e1 * (qx * qy)
  PROVE  (D * e2) * px < (e1 * n) * qx
<1> DEFINE g == py * qx - px * qy
           k == qx * qy
<1>1. g \in Int /\ k \in Nat \ {0}
  <2>1. 0 * qy < qx * qy
    BY ProductGrowsStrictly
  <2>2. 0 * qy = 0 /\ qx * qy \in Int
    OBVIOUS
  <2> QED BY <2>1, <2>2
<1>2. D * k = f * g /\ g * e2 =< e1 * k
  OBVIOUS
<1>3. px < qx
  <2>1. D * k > 0
    <3>1. 0 * k < D * k
      BY <1>1, ProductGrowsStrictly
    <3> QED BY <3>1, <1>1
  <2>2. g > 0
    BY <2>1, <1>1, <1>2, PositiveFactor
  <2> SUFFICES ASSUME px = qx PROVE FALSE
    OBVIOUS
  <2>3. py * qx =< qy * qx
    BY ProductGrows
  <2>4. g = py * qx - qy * qx
    OBVIOUS
  <2> HIDE DEF g
  <2>5. py * qx \in Int /\ qy * qx \in Int
    OBVIOUS
  <2> QED BY <2>2, <2>3, <2>4, <2>5
<1> HIDE DEF g, k
<1>4. D * e2 =< e1 * n
  <2>1. (g * e2) * f =< (e1 * k) * f
    BY <1>1, <1>2, ProductGrows
  <2>2. (g * e2) * f = (f * g) * e2
    BY <1>1
  <2>3. (f * g) * e2 = (D * e2) * k
    BY <1>1, <1>2
  <2>4. (e1 * k) * f = (e1 * f) * k
    BY <1>1
  <2>5. (D * e2) * k =< (e1 * f) * k
    BY <2>1, <2>2, <2>3, <2>4
  <2>6. D * e2 =< e1 * f
    <3>1. D * e2 \in Int /\ e1 * f \in Int
      OBVIOUS
    <3> QED BY <2>5, <3>1, <1>1, FactorCancels
  <2>7. f * e1 =< n * e1
    BY ProductGrows
  <2>8. f * e1 = e1 * f /\ n * e1 = e1 * n
    OBVIOUS
  <2> QED BY <2>6, <2>7, <2>8
<1>5. D * e2 > 0
  <2>1. 0 * e2 < D * e2
    BY ProductGrowsStrictly
  <2> QED BY <2>1
<1>6. D * e2 \in Nat /\ e1 * n \in Nat \ {0}
  BY <1>4, <1>5
<1>7. (D * e2) * px =< (e1 * n) * px
  BY <1>4, <1>6, ProductGrows
<1>8. px * (e1 * n) < qx * (e1 * n)
  BY <1>3, <1>6, ProductGrowsStrictly
<1>9. px * (e1 * n) = (e1 * n) * px /\ qx * (e1 * n) = (e1 * n) * qx
  OBVIOUS
<1> QED BY <1>6, <1>7, <1>8, <1>9

-----------------------------------------------------------------------------
(* The invariant: the totals are totals of that many rows, and a judgement *)
(* is what compare() says of them, because nothing is scored after it.     *)

TallyOK ==
  /\ tally.rows \in Nat \ {0}
  /\ tally.clusters \in Nat
  /\ tally.passed \in [Arms -> Nat]
  /\ \A a \in Arms : tally.passed[a] =< tally.rows * tally.clusters

TallyShape ==
  tally \in [rows : Nat, clusters : Nat, shared : BOOLEAN, passed : [Arms -> Nat], better : Int, worse : Int]

Judged ==
  judgement # NoJudgement =>
    \E r \in RecallPairs, s \in Suites :
      judgement = [verdict |-> VerdictOf(r, s), refusal |-> RefusalOf(r, s), recall |-> r, suite |-> s]

IInv == TallyShape /\ TallyOK /\ Judged

\* Scoring a case keeps the totals totals.
LEMMA ScoringKeepsTotals ==
  ASSUME TallyShape, TallyOK, NEW x \in 0..tally.rows, NEW y \in 0..tally.rows, ScoreCase(x, y)
  PROVE  TallyShape' /\ TallyOK'
<1> DEFINE new == [a \in Arms |-> tally.passed[a] + Sides(x, y)[a]]
<1>1. \A a \in Arms : Sides(x, y)[a] \in Nat /\ Sides(x, y)[a] =< tally.rows
  BY DEF Sides, TallyShape
<1>2. new \in [Arms -> Nat]
  BY <1>1 DEF TallyShape
<1>3. tally'.rows = tally.rows /\ tally'.clusters = tally.clusters + 1 /\ tally'.passed = new
  BY DEF ScoreCase, TallyShape
<1>4. TallyShape'
  <2> DEFINE better == tally.better + (IF x > y THEN 1 ELSE 0)
             worse == tally.worse + (IF x < y THEN 1 ELSE 0)
  <2>1. tally' = [tally EXCEPT !.clusters = tally.clusters + 1, !.passed = new,
                               !.better = better, !.worse = worse]
    BY DEF ScoreCase
  <2>2. tally.clusters + 1 \in Nat /\ better \in Int /\ worse \in Int
    BY DEF TallyShape
  <2> HIDE DEF new, better, worse
  <2> QED BY <2>1, <2>2, <1>2 DEF TallyShape
<1>5. \A a \in Arms : new[a] =< tally.rows * (tally.clusters + 1)
  <2> SUFFICES ASSUME NEW a \in Arms PROVE new[a] =< tally.rows * (tally.clusters + 1)
    OBVIOUS
  <2>1. new[a] = tally.passed[a] + Sides(x, y)[a]
    OBVIOUS
  <2>2. tally.rows \in Nat /\ tally.clusters \in Nat /\ tally.passed[a] \in Nat
    BY DEF TallyShape
  <2>3. tally.rows * (tally.clusters + 1) = tally.rows * tally.clusters + tally.rows
    BY <2>2
  <2>4. tally.passed[a] =< tally.rows * tally.clusters /\ tally.rows * tally.clusters \in Int
    BY <2>2 DEF TallyOK
  <2> QED BY <1>1, <2>1, <2>2, <2>3, <2>4
<1>6. TallyOK'
  <2>1. tally.rows \in Nat \ {0} /\ tally.clusters + 1 \in Nat
    BY DEF TallyOK
  <2> HIDE DEF new
  <2> QED BY <1>2, <1>3, <1>5, <2>1 DEF TallyOK
<1> QED BY <1>4, <1>6

LEMMA InvariantHolds == ComparatorSpec => []IInv
<1>1. ComparatorInit => IInv
  <2> SUFFICES ASSUME ComparatorInit PROVE IInv
    OBVIOUS
  <2> PICK n \in RowsPerCase :
        tally = [rows |-> n, clusters |-> 0, shared |-> TRUE,
                 passed |-> [a \in Arms |-> 0], better |-> 0, worse |-> 0]
    BY DEF ComparatorInit, NothingScored
  <2>1. n \in Nat \ {0} /\ n * 0 = 0
    BY ComparatorAssumption
  <2> QED BY <2>1 DEF IInv, TallyShape, TallyOK, Judged, ComparatorInit
<1>2. IInv /\ [ComparatorNext]_comparatorVars => IInv'
  <2> SUFFICES ASSUME IInv, [ComparatorNext]_comparatorVars PROVE IInv'
    OBVIOUS
  <2> USE DEF IInv
  <2>1. ASSUME NEW x \in 0..tally.rows, NEW y \in 0..tally.rows, ScoreCase(x, y) PROVE IInv'
    <3>1. TallyShape' /\ TallyOK'
      BY <2>1, ScoringKeepsTotals
    <3>2. Judged'
      BY <2>1 DEF ScoreCase, Judged
    <3> QED BY <3>1, <3>2
  <2>2. CASE ScoreUnshared
    <3>1. TallyShape' /\ TallyOK'
      BY <2>2 DEF ScoreUnshared, TallyShape, TallyOK
    <3>2. Judged'
      BY <2>2 DEF ScoreUnshared, Judged
    <3> QED BY <3>1, <3>2
  <2>3. ASSUME NEW r \in RecallPairs, NEW s \in Suites, Compare(r, s) PROVE IInv'
    <3>1. TallyShape' /\ TallyOK'
      BY <2>3 DEF Compare, TallyShape, TallyOK
    <3>2. VerdictOf(r, s)' = VerdictOf(r, s) /\ RefusalOf(r, s)' = RefusalOf(r, s)
      BY <2>3 DEF Compare, VerdictOf, RefusalOf, RecallKnown, Equalized, GapWithin, Both, Hopeless,
                  BelowResolution, BelowDeclared, BelowAdjusted, Dead, Clears, TwoSided, Delta, Rows
    <3>3. Judged'
      BY <2>3, <3>2 DEF Compare, Judged
    <3> QED BY <3>1, <3>3
  <2>4. CASE UNCHANGED comparatorVars
    <3>1. TallyShape' /\ TallyOK'
      BY <2>4 DEF comparatorVars, TallyShape, TallyOK
    <3>2. tally' = tally /\ judgement' = judgement
      BY <2>4 DEF comparatorVars
    <3>3. \A r, s : VerdictOf(r, s)' = VerdictOf(r, s) /\ RefusalOf(r, s)' = RefusalOf(r, s)
      BY <3>2 DEF VerdictOf, RefusalOf, RecallKnown, Equalized, GapWithin, Both, Hopeless,
                  BelowResolution, BelowDeclared, BelowAdjusted, Dead, Clears, TwoSided, Delta, Rows
    <3>4. Judged'
      BY <3>2, <3>3 DEF Judged
    <3> QED BY <3>1, <3>4
  <2> QED BY <2>1, <2>2, <2>3, <2>4 DEF ComparatorNext
<1> QED BY <1>1, <1>2, PTL DEF ComparatorSpec

-----------------------------------------------------------------------------
(* What compare() says.                                                    *)

\* A verdict was not refused: the recalls are known, equalized, and the delta is not below the
\* resolution of any detector.
LEMMA VerdictsAreEarned ==
  ASSUME NEW r \in RecallPairs, NEW s \in Suites, VerdictOf(r, s) \in {"improved", "regressed"}
  PROVE  RecallKnown(r) /\ Equalized(r, s) /\ ~BelowResolution(r, s)
<1>1. RefusalOf(r, s) = "none" /\ ~BelowResolution(r, s)
  BY DEF VerdictOf
<1> QED BY <1>1 DEF RefusalOf

\* Of such a delta nothing can be the instrument's alone.
LEMMA NotTheInstrument ==
  ASSUME TallyShape, TallyOK, NEW r \in RecallPairs, NEW s \in Suites, NEW d \in Detectors,
         RecallKnown(r), Equalized(r, s), ~BelowAdjusted(r, s), OnlyTheInstrument(d, r)
  PROVE  Delta = 0
<1> DEFINE ac == r.of["candidate"][d][1]
           qc == r.of["candidate"][d][2]
           ab == r.of["baseline"][d][1]
           qb == r.of["baseline"][d][2]
           e1 == s.detectable[1]
           e2 == s.detectable[2]
           g  == ab * qc - ac * qb
           k  == qc * qb
<1>1. /\ ac \in Nat /\ qc \in Nat \ {0} /\ ac =< qc
      /\ ab \in Nat /\ qb \in Nat \ {0} /\ ab =< qb
  <2>1. r.of["candidate"][d] \in Fractions /\ r.of["baseline"][d] \in Fractions
    BY ComparatorAssumption DEF RecallKnown, Both, Arms
  <2> QED BY <2>1 DEF Fractions
<1>2. e1 \in Nat /\ e2 \in Nat \ {0}
  BY ComparatorAssumption DEF Fractions
<1>3. Rows \in Nat /\ Delta \in Int
  <2>1. tally.rows \in Nat /\ tally.clusters \in Nat /\ tally.passed["candidate"] \in Nat /\ tally.passed["baseline"] \in Nat
    BY DEF TallyShape, Arms
  <2>2. tally.rows * tally.clusters \in Nat
    BY <2>1
  <2> QED BY <2>1, <2>2 DEF Rows, Delta
<1>4. PICK f \in 0..Rows : \A a \in Arms : Failures(a) * r.of[a][d][2] = f * r.of[a][d][1]
  BY DEF OnlyTheInstrument
<1>5. f \in Nat /\ f =< Rows
  BY <1>3, <1>4
<1>6. Failures("candidate") * qc = f * ac /\ Failures("baseline") * qb = f * ab
  BY <1>4 DEF Arms
<1>7. /\ Failures("candidate") \in Int /\ Failures("baseline") \in Int
      /\ Delta = Failures("baseline") - Failures("candidate")
  <2>1. tally.passed["candidate"] \in Nat /\ tally.passed["baseline"] \in Nat
    BY DEF TallyShape, Arms
  <2> QED BY <1>3, <2>1 DEF Failures, Delta
<1>8. Magnitude(ac * qb - ab * qc) * e2 =< e1 * (qc * qb)
  BY DEF Equalized, GapWithin
<1>9. Delta # 0 =>
        /\ (Magnitude(Delta) * e2) * ac >= (e1 * Rows) * qc
        /\ (Magnitude(Delta) * e2) * ab >= (e1 * Rows) * qb
  <2> SUFFICES ASSUME Delta # 0
               PROVE  /\ (Magnitude(Delta) * e2) * ac >= (e1 * Rows) * qc
                      /\ (Magnitude(Delta) * e2) * ab >= (e1 * Rows) * qb
    OBVIOUS
  <2>1. /\ ~((Magnitude(Delta) * e2) * ac < (e1 * Rows) * qc)
        /\ ~((Magnitude(Delta) * e2) * ab < (e1 * Rows) * qb)
    BY DEF BelowAdjusted, Arms
  <2>2. Magnitude(Delta) \in Int
    BY <1>3 DEF Magnitude
  <2> HIDE DEF ac, qc, ab, qb, e1, e2
  <2>3. Magnitude(Delta) * e2 \in Int /\ e1 * Rows \in Int
    BY <1>2, <1>3, <2>2
  <2>4. \A u, v \in Int : u * v \in Int
    OBVIOUS
  <2>5. /\ (Magnitude(Delta) * e2) * ac \in Int /\ (e1 * Rows) * qc \in Int
        /\ (Magnitude(Delta) * e2) * ab \in Int /\ (e1 * Rows) * qb \in Int
    BY <1>1, <2>3, <2>4
  <2> QED BY <2>1, <2>5
<1> HIDE DEF ac, qc, ab, qb, e1, e2
<1>10. Delta * (qc * qb) = f * (ab * qc - ac * qb)
  <2> DEFINE u == Failures("baseline")
             v == Failures("candidate")
  <2>1. (u - v) * (qc * qb) = (u * qb) * qc - (v * qc) * qb
    <3> HIDE DEF u, v
    <3>1. u \in Int /\ v \in Int
      BY <1>7 DEF u, v
    <3> QED BY <3>1, <1>1
  <2>2. (f * ab) * qc - (f * ac) * qb = f * (ab * qc - ac * qb)
    BY <1>1, <1>5
  <2> QED BY <1>6, <1>7, <2>1, <2>2
<1>11. ~(Delta > 0)
  <2> SUFFICES ASSUME Delta > 0 PROVE FALSE
    OBVIOUS
  <2>1. Delta \in Nat \ {0} /\ Magnitude(Delta) = Delta
    BY <1>3 DEF Magnitude
  <2>2. (ab * qc - ac * qb) * e2 =< e1 * (qc * qb)
    <3>1. ab * qc - ac * qb \in Int /\ ac * qb - ab * qc = -(ab * qc - ac * qb)
      BY <1>1
    <3>2. ab * qc - ac * qb =< Magnitude(ac * qb - ab * qc) /\ Magnitude(ac * qb - ab * qc) \in Int
      BY <3>1 DEF Magnitude
    <3>3. (ab * qc - ac * qb) * e2 =< Magnitude(ac * qb - ab * qc) * e2
      BY <1>2, <3>1, <3>2, ProductGrows
    <3>4. \A u, v \in Int : u * v \in Int
      OBVIOUS
    <3>5. /\ (ab * qc - ac * qb) * e2 \in Int
          /\ Magnitude(ac * qb - ab * qc) * e2 \in Int
          /\ e1 * (qc * qb) \in Int
      BY <1>1, <1>2, <3>1, <3>2, <3>4
    <3> QED BY <1>8, <3>3, <3>5
  <2>3. (Delta * e2) * ac < (e1 * Rows) * qc
    BY <1>1, <1>2, <1>3, <1>5, <1>10, <2>1, <2>2, GapBoundsTheDelta
  <2>4. (Delta * e2) * ac >= (e1 * Rows) * qc
    BY <1>9, <2>1
  <2>5. (Delta * e2) * ac \in Int /\ (e1 * Rows) * qc \in Int
    BY <1>1, <1>2, <1>3
  <2> QED BY <2>3, <2>4, <2>5
<1>12. ~(Delta < 0)
  <2> SUFFICES ASSUME Delta < 0 PROVE FALSE
    OBVIOUS
  <2>1. -Delta \in Nat \ {0} /\ Magnitude(Delta) = -Delta
    BY <1>3 DEF Magnitude
  <2>2. (ac * qb - ab * qc) * e2 =< e1 * (qb * qc)
    <3>1. ac * qb - ab * qc \in Int /\ qc * qb = qb * qc
      BY <1>1
    <3>2. ac * qb - ab * qc =< Magnitude(ac * qb - ab * qc) /\ Magnitude(ac * qb - ab * qc) \in Int
      BY <3>1 DEF Magnitude
    <3>3. (ac * qb - ab * qc) * e2 =< Magnitude(ac * qb - ab * qc) * e2
      BY <1>2, <3>1, <3>2, ProductGrows
    <3>4. \A u, v \in Int : u * v \in Int
      OBVIOUS
    <3>5. /\ (ac * qb - ab * qc) * e2 \in Int
          /\ Magnitude(ac * qb - ab * qc) * e2 \in Int
          /\ e1 * (qc * qb) \in Int
      BY <1>1, <1>2, <3>1, <3>2, <3>4
    <3> QED BY <1>8, <3>1, <3>3, <3>5
  <2>3. (-Delta) * (qb * qc) = f * (ac * qb - ab * qc)
    <3>1. (-Delta) * (qb * qc) = -(Delta * (qc * qb))
      BY <1>1, <1>3
    <3>2. f * (ac * qb - ab * qc) = -(f * (ab * qc - ac * qb))
      BY <1>1, <1>5
    <3> QED BY <1>10, <3>1, <3>2
  <2>4. ((-Delta) * e2) * ab < (e1 * Rows) * qb
    BY <1>1, <1>2, <1>3, <1>5, <2>1, <2>2, <2>3, GapBoundsTheDelta
  <2>5. ((-Delta) * e2) * ab >= (e1 * Rows) * qb
    BY <1>9, <2>1
  <2>6. ((-Delta) * e2) * ab \in Int /\ (e1 * Rows) * qb \in Int
    BY <1>1, <1>2, <1>3
  <2> QED BY <2>4, <2>5, <2>6
<1> QED BY <1>3, <1>11, <1>12

\* For any detectors alive, recalls, resolutions, protocols and results: a run that differs
\* from another only in what its detectors found of equally many failures is neither better
\* nor worse (deriveEqualization and the threshold check of compare()).
THEOREM NoVerdictIsAnArtifact == ComparatorSpec => []NoArtifactVerdict
<1>1. IInv => NoArtifactVerdict
  <2> SUFFICES ASSUME IInv, judgement # NoJudgement, ~Dead(judgement.recall),
                      judgement.verdict \in {"improved", "regressed"},
                      NEW d \in Detectors, OnlyTheInstrument(d, judgement.recall)
               PROVE  Delta = 0
    BY DEF NoArtifactVerdict, NoArtifact
  <2>2. PICK r \in RecallPairs, s \in Suites :
          judgement = [verdict |-> VerdictOf(r, s), refusal |-> RefusalOf(r, s), recall |-> r, suite |-> s]
    BY DEF IInv, Judged
  <2>3. VerdictOf(r, s) \in {"improved", "regressed"} /\ OnlyTheInstrument(d, r) /\ ~Dead(r)
    BY <2>2
  <2>4. RecallKnown(r) /\ Equalized(r, s) /\ ~BelowAdjusted(r, s)
    BY <2>3, VerdictsAreEarned DEF BelowResolution
  <2> QED BY <2>3, <2>4, NotTheInstrument DEF IInv
<1> QED BY <1>1, InvariantHolds, PTL

-----------------------------------------------------------------------------
(* Functions defined by recursion on the naturals.                         *)

\* Induction, on a set.
LEMMA InductiveSet ==
  ASSUME NEW S \in SUBSET Nat, 0 \in S, \A n \in S : n + 1 \in S
  PROVE  S = Nat
<1> SUFFICES ASSUME Nat \ S # {} PROVE FALSE
  OBVIOUS
<1>1. PICK m \in Nat \ S : \A k \in Nat \ S : m <= k
  BY LeastNatural
<1>2. m # 0 /\ m - 1 \in Nat
  BY <1>1
<1>3. m - 1 \in S
  BY <1>1, <1>2
<1>4. (m - 1) + 1 = m
  OBVIOUS
<1> QED BY <1>1, <1>3, <1>4

\* What takes a number and a value to the next value.
Steps(V) == [Nat \X V -> V]

\* The first values of a sequence that `step` continues.
Unrolls(g, n, V, v0, step) ==
  /\ g \in [0 .. n -> V] /\ g[0] = v0
  /\ \A i \in Nat : i < n => g[i + 1] = step[<<i, g[i]>>]

Unrolled(n, V, v0, step) == CHOOSE g : Unrolls(g, n, V, v0, step)

\* Every such sequence can be continued to any length.
LEMMA UnrolledIs ==
  ASSUME NEW V, NEW v0 \in V, NEW step \in Steps(V), NEW n \in Nat
  PROVE  Unrolls(Unrolled(n, V, v0, step), n, V, v0, step)
<1> DEFINE S == {m \in Nat : \E g : Unrolls(g, m, V, v0, step)}
<1>1. 0 \in S
  <2>1. Unrolls([i \in 0 .. 0 |-> v0], 0, V, v0, step)
    BY DEF Unrolls
  <2> QED BY <2>1
<1>2. ASSUME NEW m \in S PROVE m + 1 \in S
  <2>1. PICK g : Unrolls(g, m, V, v0, step)
    OBVIOUS
  <2> DEFINE h == [i \in 0 .. m + 1 |-> IF i <= m THEN g[i] ELSE step[<<m, g[m]>>]]
  <2>2. g[m] \in V /\ step[<<m, g[m]>>] \in V
    BY <2>1 DEF Unrolls, Steps
  <2>3. h \in [0 .. m + 1 -> V] /\ h[0] = v0
    BY <2>1, <2>2 DEF Unrolls
  <2>4. ASSUME NEW i \in Nat, i < m + 1 PROVE h[i + 1] = step[<<i, h[i]>>]
    <3>1. CASE i < m
      <4>1. h[i] = g[i] /\ h[i + 1] = g[i + 1]
        BY <3>1
      <4> QED BY <4>1, <3>1, <2>1 DEF Unrolls
    <3>2. CASE i = m
      <4>1. h[m] = g[m] /\ h[m + 1] = step[<<m, g[m]>>]
        OBVIOUS
      <4> HIDE DEF h
      <4> QED BY <4>1, <3>2
    <3> QED BY <3>1, <3>2, <2>4
  <2>5. Unrolls(h, m + 1, V, v0, step)
    <3> HIDE DEF h
    <3> QED BY <2>3, <2>4 DEF Unrolls
  <2> QED BY <2>5
<1>3. S = Nat
  <2> HIDE DEF S
  <2>1. S \in SUBSET Nat
    BY DEF S
  <2> QED BY <1>1, <1>2, <2>1, InductiveSet
<1>4. \E g : Unrolls(g, n, V, v0, step)
  BY <1>3
<1> QED BY <1>4 DEF Unrolled

\* Unrolled further, a sequence goes on as it began.
LEMMA UnrolledAgree ==
  ASSUME NEW V, NEW v0 \in V, NEW step \in Steps(V), NEW m \in Nat, NEW n \in Nat,
         NEW g, NEW h, Unrolls(g, m, V, v0, step), Unrolls(h, n, V, v0, step)
  PROVE  \A i \in Nat : i <= m /\ i <= n => g[i] = h[i]
<1> DEFINE S == {i \in Nat : i <= m /\ i <= n => g[i] = h[i]}
<1>1. 0 \in S
  BY DEF Unrolls
<1>2. ASSUME NEW i \in S PROVE i + 1 \in S
  <2> SUFFICES ASSUME i + 1 <= m, i + 1 <= n PROVE g[i + 1] = h[i + 1]
    OBVIOUS
  <2>1. g[i] = h[i] /\ i < m /\ i < n
    OBVIOUS
  <2> QED BY <2>1 DEF Unrolls
<1>3. S = Nat
  <2> HIDE DEF S
  <2>1. S \in SUBSET Nat
    BY DEF S
  <2> QED BY <1>1, <1>2, <2>1, InductiveSet
<1> QED BY <1>3

\* Primitive recursion.
Recurs(f, V, v0, step) ==
  f \in [Nat -> V] /\ f[0] = v0 /\ \A n \in Nat : f[n + 1] = step[<<n, f[n]>>]

\* A function defined by primitive recursion exists.
LEMMA Recursion ==
  ASSUME NEW V, NEW v0 \in V, NEW step \in Steps(V)
  PROVE  \E f : Recurs(f, V, v0, step)
<1> DEFINE f == [n \in Nat |-> Unrolled(n, V, v0, step)[n]]
<1>1. \A n \in Nat : Unrolls(Unrolled(n, V, v0, step), n, V, v0, step)
  BY UnrolledIs
<1>2. f \in [Nat -> V] /\ f[0] = v0
  BY <1>1 DEF Unrolls
<1>3. ASSUME NEW n \in Nat PROVE f[n + 1] = step[<<n, f[n]>>]
  <2> DEFINE h == Unrolled(n + 1, V, v0, step)
  <2>1. Unrolls(h, n + 1, V, v0, step)
    BY <1>1
  <2>2. h[n] = f[n]
    <3> DEFINE g == Unrolled(n, V, v0, step)
    <3>1. Unrolls(g, n, V, v0, step) /\ n + 1 \in Nat /\ n \in Nat
      BY <1>1
    <3> HIDE DEF h, g
    <3>2. \A i \in Nat : i <= n /\ i <= n + 1 => g[i] = h[i]
      BY <2>1, <3>1, UnrolledAgree
    <3>3. g[n] = h[n]
      BY <3>2
    <3> QED BY <3>3 DEF g
  <2>3. h[n + 1] = step[<<n, h[n]>>]
    <3> HIDE DEF h
    <3> QED BY <2>1 DEF Unrolls
  <2> QED BY <2>2, <2>3
<1> HIDE DEF f
<1>4. Recurs(f, V, v0, step)
  BY <1>2, <1>3 DEF Recurs
<1> QED BY <1>4

-----------------------------------------------------------------------------
(* The exact test.                                                         *)

\* The recursive functions of the test are what their definitions say.
LEMMA PowerIs == Power = [n \in Nat |-> IF n = 0 THEN 1 ELSE 2 * Power[n - 1]]
<1> DEFINE step == [p \in Nat \X Nat |-> 2 * p[2]]
<1>1. step \in Steps(Nat) /\ 1 \in Nat
  BY DEF Steps
<1>2. PICK f : Recurs(f, Nat, 1, step)
  <2> HIDE DEF step
  <2> QED BY <1>1, Recursion
<1>3. f \in [Nat -> Nat] /\ f[0] = 1 /\ \A n \in Nat : f[n + 1] = step[<<n, f[n]>>]
  BY <1>2 DEF Recurs
<1>4. f = [n \in Nat |-> IF n = 0 THEN 1 ELSE 2 * f[n - 1]]
  <2>1. ASSUME NEW n \in Nat PROVE f[n] = IF n = 0 THEN 1 ELSE 2 * f[n - 1]
    <3>1. CASE n # 0
      <4>1. n - 1 \in Nat /\ (n - 1) + 1 = n
        BY <3>1
      <4>2. f[n] = step[<<n - 1, f[n - 1]>>]
        BY <4>1, <1>3
      <4> QED BY <4>1, <4>2, <3>1, <1>3
    <3> QED BY <1>3, <3>1
  <2> QED BY <2>1, <1>3
<1> QED BY <1>4 DEF Power

\* A number of ways is a number, and there is one to choose none.
LEMMA WaysIs ==
  /\ \A n, k \in Nat : Ways[<<n, k>>] \in Nat
  /\ \A n \in Nat : Ways[<<n, 0>>] = 1
<1> DEFINE V == [Nat -> Nat]
           v0 == [k \in Nat |-> IF k = 0 THEN 1 ELSE 0]
           step == [p \in Nat \X V |->
                      [k \in Nat |-> IF k = 0 THEN 1 ELSE p[2][k - 1] + p[2][k]]]
<1>1. v0 \in V
  OBVIOUS
<1>2. step \in Steps(V)
  <2> SUFFICES ASSUME NEW p \in Nat \X V
               PROVE  [k \in Nat |-> IF k = 0 THEN 1 ELSE p[2][k - 1] + p[2][k]] \in V
    BY DEF Steps
  <2>1. p[2] \in [Nat -> Nat]
    OBVIOUS
  <2>2. ASSUME NEW k \in Nat PROVE (IF k = 0 THEN 1 ELSE p[2][k - 1] + p[2][k]) \in Nat
    <3>1. k # 0 => k - 1 \in Nat
      OBVIOUS
    <3> QED BY <2>1, <3>1
  <2> QED BY <2>2
<1>3. PICK g : Recurs(g, V, v0, step)
  <2> HIDE DEF step, v0, V
  <2> QED BY <1>1, <1>2, Recursion
<1>4. g \in [Nat -> V] /\ g[0] = v0 /\ \A n \in Nat : g[n + 1] = step[<<n, g[n]>>]
  <2> HIDE DEF step, v0, V
  <2> QED BY <1>3 DEF Recurs
<1>5. ASSUME NEW n \in Nat, NEW k \in Nat
      PROVE  g[n][k] = IF k = 0 THEN 1 ELSE IF n = 0 THEN 0 ELSE g[n - 1][k - 1] + g[n - 1][k]
  <2>1. CASE n = 0
    BY <1>4, <2>1
  <2>2. CASE n # 0
    <3>1. n - 1 \in Nat /\ (n - 1) + 1 = n
      BY <2>2
    <3>2. g[n] = step[<<n - 1, g[n - 1]>>] /\ g[n - 1] \in V
      BY <3>1, <1>4
    <3>3. g[n] = [j \in Nat |-> IF j = 0 THEN 1 ELSE g[n - 1][j - 1] + g[n - 1][j]]
      BY <3>1, <3>2
    <3> QED BY <2>2, <3>3
  <2> QED BY <2>1, <2>2
<1> DEFINE f == [p \in Nat \X Nat |-> g[p[1]][p[2]]]
<1>6. ASSUME NEW p \in Nat \X Nat
      PROVE  f[p] = IF p[2] = 0 THEN 1 ELSE IF p[1] = 0 THEN 0
                    ELSE f[<<p[1] - 1, p[2] - 1>>] + f[<<p[1] - 1, p[2]>>]
  <2>1. f[p] = g[p[1]][p[2]] /\ p[1] \in Nat /\ p[2] \in Nat
    OBVIOUS
  <2>2. CASE p[2] # 0 /\ p[1] # 0
    <3>1. p[1] - 1 \in Nat /\ p[2] - 1 \in Nat
      BY <2>1, <2>2
    <3>2. /\ f[<<p[1] - 1, p[2] - 1>>] = g[p[1] - 1][p[2] - 1]
          /\ f[<<p[1] - 1, p[2]>>] = g[p[1] - 1][p[2]]
      BY <3>1
    <3> HIDE DEF f
    <3> QED BY <3>2, <1>5, <2>1, <2>2
  <2>3. CASE p[2] = 0 \/ p[1] = 0
    <3> HIDE DEF f
    <3> QED BY <1>5, <2>1, <2>3
  <2> HIDE DEF f
  <2> QED BY <2>2, <2>3
<1>7. f = [p \in Nat \X Nat |->
            IF p[2] = 0 THEN 1 ELSE IF p[1] = 0 THEN 0
            ELSE f[<<p[1] - 1, p[2] - 1>>] + f[<<p[1] - 1, p[2]>>]]
  <2>1. f = [p \in Nat \X Nat |-> f[p]]
    OBVIOUS
  <2> HIDE DEF f
  <2> QED BY <1>6, <2>1
<1>8. Ways = [p \in Nat \X Nat |->
            IF p[2] = 0 THEN 1 ELSE IF p[1] = 0 THEN 0
            ELSE Ways[<<p[1] - 1, p[2] - 1>>] + Ways[<<p[1] - 1, p[2]>>]]
  <2> HIDE DEF f
  <2> QED BY <1>7 DEF Ways
<1>9. \A n \in Nat : Ways[<<n, 0>>] = 1
  BY <1>8
<1> DEFINE S == {n \in Nat : \A k \in Nat : Ways[<<n, k>>] \in Nat}
<1>10. ASSUME NEW n \in Nat, NEW k \in Nat
       PROVE  Ways[<<n, k>>] = IF k = 0 THEN 1 ELSE IF n = 0 THEN 0
                               ELSE Ways[<<n - 1, k - 1>>] + Ways[<<n - 1, k>>]
  BY <1>8
<1>11. 0 \in S
  <2>1. ASSUME NEW k \in Nat PROVE Ways[<<0, k>>] \in Nat
    <3>1. Ways[<<0, k>>] = IF k = 0 THEN 1 ELSE 0
      BY <1>10
    <3> QED BY <3>1
  <2> QED BY <2>1
<1>12. ASSUME NEW n \in S PROVE n + 1 \in S
  <2> SUFFICES ASSUME NEW k \in Nat, k # 0 PROVE Ways[<<n + 1, k>>] \in Nat
    BY <1>9
  <2>1. Ways[<<n + 1, k>>] = Ways[<<(n + 1) - 1, k - 1>>] + Ways[<<(n + 1) - 1, k>>]
    BY <1>10, n + 1 # 0
  <2>2. (n + 1) - 1 = n /\ k - 1 \in Nat
    OBVIOUS
  <2>3. Ways[<<n, k - 1>>] \in Nat /\ Ways[<<n, k>>] \in Nat
    BY <2>2
  <2> QED BY <2>1, <2>2, <2>3
<1>13. S = Nat
  <2> HIDE DEF S
  <2>1. S \in SUBSET Nat
    BY DEF S
  <2> QED BY <1>11, <1>12, <2>1, InductiveSet
<1> QED BY <1>9, <1>13

\* A tail is not empty, and the least tail is one way.
LEMMA LowTailIs ==
  /\ \A n, k \in Nat : LowTail[<<n, k>>] \in Nat \ {0}
  /\ \A n \in Nat : LowTail[<<n, 0>>] = 1
<1> DEFINE V == [Nat -> Nat]
           v0 == [n \in Nat |-> Ways[<<n, 0>>]]
           step == [p \in Nat \X V |-> [n \in Nat |-> Ways[<<n, p[1] + 1>>] + p[2][n]]]
<1>1. v0 \in V
  BY WaysIs
<1>2. step \in Steps(V)
  <2> SUFFICES ASSUME NEW p \in Nat \X V
               PROVE  [n \in Nat |-> Ways[<<n, p[1] + 1>>] + p[2][n]] \in V
    BY DEF Steps
  <2>1. p[2] \in [Nat -> Nat] /\ p[1] + 1 \in Nat
    OBVIOUS
  <2>2. ASSUME NEW n \in Nat PROVE Ways[<<n, p[1] + 1>>] + p[2][n] \in Nat
    BY <2>1, WaysIs
  <2> QED BY <2>2
<1>3. PICK g : Recurs(g, V, v0, step)
  <2> HIDE DEF step, v0, V
  <2> QED BY <1>1, <1>2, Recursion
<1>4. g \in [Nat -> V] /\ g[0] = v0 /\ \A k \in Nat : g[k + 1] = step[<<k, g[k]>>]
  <2> HIDE DEF step, v0, V
  <2> QED BY <1>3 DEF Recurs
<1>5. ASSUME NEW n \in Nat, NEW k \in Nat
      PROVE  g[k][n] = Ways[<<n, k>>] + (IF k = 0 THEN 0 ELSE g[k - 1][n])
  <2>1. CASE k = 0
    <3>1. g[0][n] = Ways[<<n, 0>>] /\ Ways[<<n, 0>>] \in Nat
      BY <1>4, WaysIs
    <3> QED BY <3>1, <2>1
  <2>2. CASE k # 0
    <3>1. k - 1 \in Nat /\ (k - 1) + 1 = k
      BY <2>2
    <3>2. g[k] = step[<<k - 1, g[k - 1]>>] /\ g[k - 1] \in V
      BY <3>1, <1>4
    <3>3. g[k] = [m \in Nat |-> Ways[<<m, k>>] + g[k - 1][m]]
      BY <3>1, <3>2
    <3> QED BY <2>2, <3>3
  <2> QED BY <2>1, <2>2
<1> DEFINE f == [p \in Nat \X Nat |-> g[p[2]][p[1]]]
<1>6. ASSUME NEW p \in Nat \X Nat
      PROVE  f[p] = Ways[p] + (IF p[2] = 0 THEN 0 ELSE f[<<p[1], p[2] - 1>>])
  <2>1. f[p] = g[p[2]][p[1]] /\ p[1] \in Nat /\ p[2] \in Nat /\ p = <<p[1], p[2]>>
    OBVIOUS
  <2>2. p[2] # 0 => f[<<p[1], p[2] - 1>>] = g[p[2] - 1][p[1]]
    <3>1. p[2] # 0 => p[2] - 1 \in Nat
      BY <2>1
    <3> QED BY <2>1, <3>1
  <2> HIDE DEF f
  <2> QED BY <2>1, <2>2, <1>5
<1>7. f = [p \in Nat \X Nat |-> Ways[p] + (IF p[2] = 0 THEN 0 ELSE f[<<p[1], p[2] - 1>>])]
  <2>1. f = [p \in Nat \X Nat |-> f[p]]
    OBVIOUS
  <2> HIDE DEF f
  <2> QED BY <1>6, <2>1
<1>8. LowTail = [p \in Nat \X Nat |-> Ways[p] + (IF p[2] = 0 THEN 0 ELSE LowTail[<<p[1], p[2] - 1>>])]
  <2> HIDE DEF f
  <2> QED BY <1>7 DEF LowTail
<1>9. ASSUME NEW n \in Nat, NEW k \in Nat
      PROVE  LowTail[<<n, k>>] = Ways[<<n, k>>] + (IF k = 0 THEN 0 ELSE LowTail[<<n, k - 1>>])
  BY <1>8
<1>10. ASSUME NEW n \in Nat PROVE LowTail[<<n, 0>>] = 1
  <2>1. LowTail[<<n, 0>>] = Ways[<<n, 0>>] + 0
    BY <1>9
  <2> QED BY <2>1, WaysIs
<1> DEFINE S == {k \in Nat : \A n \in Nat : LowTail[<<n, k>>] \in Nat \ {0}}
<1>11. 0 \in S
  BY <1>10
<1>12. ASSUME NEW k \in S PROVE k + 1 \in S
  <2> SUFFICES ASSUME NEW n \in Nat PROVE LowTail[<<n, k + 1>>] \in Nat \ {0}
    OBVIOUS
  <2>1. LowTail[<<n, k + 1>>] = Ways[<<n, k + 1>>] + LowTail[<<n, (k + 1) - 1>>]
    BY <1>9, k + 1 # 0
  <2>2. (k + 1) - 1 = k /\ Ways[<<n, k + 1>>] \in Nat /\ LowTail[<<n, k>>] \in Nat \ {0}
    BY WaysIs
  <2> QED BY <2>1, <2>2
<1>13. S = Nat
  <2> HIDE DEF S
  <2>1. S \in SUBSET Nat
    BY DEF S
  <2> QED BY <1>11, <1>12, <2>1, InductiveSet
<1> QED BY <1>10, <1>13

LEMMA PowerPositive ==
  /\ Power[0] = 1
  /\ \A n \in Nat : Power[n] \in Nat \ {0} /\ Power[n + 1] = 2 * Power[n]
<1>1. ASSUME NEW n \in Nat PROVE Power[n] = IF n = 0 THEN 1 ELSE 2 * Power[n - 1]
  BY PowerIs
<1>2. \A n \in Nat : Power[n + 1] = 2 * Power[n]
  BY <1>1
<1> DEFINE S == {n \in Nat : Power[n] \in Nat \ {0}}
<1>3. 0 \in S /\ \A n \in S : n + 1 \in S
  BY <1>1, <1>2
<1>4. S = Nat
  <2> HIDE DEF S
  <2>1. S \in SUBSET Nat
    BY DEF S
  <2> QED BY <1>3, <2>1, InductiveSet
<1> QED BY <1>1, <1>2, <1>4

\* No power of two is a multiple of five.
LEMMA PowersMissFives ==
  ASSUME NEW n \in Nat, NEW q \in Nat
  PROVE  Power[n] # 5 * q
<1> DEFINE S == {m \in Nat : \E a \in Nat, r \in 1 .. 4 : Power[m] = 5 * a + r}
<1>1. 0 \in S
  <2>1. Power[0] = 5 * 0 + 1 /\ 1 \in 1 .. 4
    BY PowerPositive
  <2> QED BY <2>1
<1>2. ASSUME NEW m \in S PROVE m + 1 \in S
  <2>1. PICK a \in Nat, r \in 1 .. 4 : Power[m] = 5 * a + r
    OBVIOUS
  <2>2. Power[m + 1] = 2 * (5 * a + r)
    BY <2>1, PowerPositive
  <2> SUFFICES \E x \in Nat, y \in 1 .. 4 : Power[m + 1] = 5 * x + y
    OBVIOUS
  <2>3. CASE r \in 1 .. 2
    <3>1. 2 * (5 * a + r) = 5 * (2 * a) + 2 * r /\ 2 * a \in Nat /\ 2 * r \in 1 .. 4
      BY <2>3
    <3>2. 2 * a \in Nat /\ 2 * r \in 1 .. 4
      BY <3>1
    <3> USE <3>2
    <3> WITNESS 2 * a \in Nat, 2 * r \in 1 .. 4
    <3> QED BY <2>2, <3>1
  <2>4. CASE r \in 3 .. 4
    <3>1. 2 * (5 * a + r) = 5 * (2 * a + 1) + (2 * r - 5) /\ 2 * a + 1 \in Nat /\ 2 * r - 5 \in 1 .. 4
      BY <2>4
    <3>2. 2 * a + 1 \in Nat /\ 2 * r - 5 \in 1 .. 4
      BY <3>1
    <3> USE <3>2
    <3> WITNESS 2 * a + 1 \in Nat, 2 * r - 5 \in 1 .. 4
    <3> QED BY <2>2, <3>1
  <2> QED BY <2>3, <2>4
<1>3. S = Nat
  <2> HIDE DEF S
  <2>1. S \in SUBSET Nat
    BY DEF S
  <2> QED BY <1>1, <1>2, <2>1, InductiveSet
<1>4. PICK a \in Nat, r \in 1 .. 4 : Power[n] = 5 * a + r
  BY <1>3
<1> QED BY <1>4

\* No number of signs has a smallest p that is the corrected level, and no level is met by none.
OffTheGrid ==
  /\ Alpha[1] < Alpha[2]
  /\ \A s \in Suites, d \in Nat : 2 * Corrected(s)[2] # Corrected(s)[1] * Power[d]

\* A corrected level is a fraction, no greater than the nominal one.
LEMMA LevelsAreNumbers ==
  ASSUME NEW s \in Suites
  PROVE  /\ Corrected(s)[1] = Alpha[1] /\ Corrected(s)[2] = Alpha[2] * Divisor(s)
         /\ Alpha[1] \in Nat /\ Alpha[2] \in Nat \ {0} /\ Divisor(s) \in Nat \ {0}
         /\ Corrected(s)[2] \in Nat \ {0} /\ Alpha[2] =< Corrected(s)[2]
<1>1. Alpha[1] \in Nat /\ Alpha[2] \in Nat \ {0} /\ Divisor(s) \in Nat \ {0}
  BY ComparatorAssumption DEF Fractions, Divisor
<1>2. Corrected(s)[1] = Alpha[1] /\ Corrected(s)[2] = Alpha[2] * Divisor(s)
  BY DEF Corrected
<1>3. 1 * Alpha[2] =< Divisor(s) * Alpha[2] /\ Divisor(s) * Alpha[2] = Alpha[2] * Divisor(s)
  BY <1>1, ProductGrows
<1>4. Alpha[2] * Divisor(s) \in Int
  BY <1>1
<1> QED BY <1>1, <1>2, <1>3, <1>4

\* What clears the level shows that so many signs can.
LEMMA ClearingIsAttaining ==
  ASSUME NEW s \in Suites, NEW b \in Nat, NEW c \in Nat, Clears(b, c, s)
  PROVE  Attainable(b + c, Corrected(s))
<1> DEFINE x == TwoSided(b, c)
           y == Corrected(s)[2]
           z == Corrected(s)[1] * Power[b + c]
<1>1. b + c > 0 /\ x * y < z
  BY DEF Clears
<1>2. x \in Nat /\ 2 =< x
  <2>1. b + c \in Nat /\ Smaller(b, c) \in Nat
    BY DEF Smaller
  <2>2. LowTail[<<b + c, Smaller(b, c)>>] \in Nat \ {0}
    BY <2>1, LowTailIs
  <2> QED BY <2>2 DEF TwoSided
<1>3. y \in Nat
  BY LevelsAreNumbers
<1>4. z \in Int
  <2>1. Corrected(s)[1] \in Nat /\ Power[b + c] \in Nat
    BY LevelsAreNumbers, PowerPositive, b + c \in Nat
  <2> QED BY <2>1
<1> HIDE DEF x, y, z
<1>5. 2 * y =< x * y /\ x * y \in Int
  BY <1>2, <1>3, ProductGrows
<1>6. 2 * y =< z
  BY <1>1, <1>3, <1>4, <1>5
<1> QED BY <1>1, <1>6 DEF Attainable, y, z

\* Off the grid, a level that so many signs can reach is cleared by that many signs that agree.
LEMMA AttainingIsClearing ==
  ASSUME OffTheGrid, NEW s \in Suites, NEW d \in Nat, Attainable(d, Corrected(s))
  PROVE  Clears(0, d, s)
<1>1. d # 0
  <2> SUFFICES ASSUME d = 0 PROVE FALSE
    OBVIOUS
  <2>1. Corrected(s)[2] =< Corrected(s)[1]
    BY DEF Attainable
  <2> QED BY <2>1, LevelsAreNumbers DEF OffTheGrid
<1> DEFINE y == Corrected(s)[2]
           z == Corrected(s)[1] * Power[d]
<1>2. 2 * y =< z
  BY <1>1 DEF Attainable
<1>3. 2 * y # z
  BY DEF OffTheGrid
<1>4. y \in Int /\ z \in Int
  <2>1. Corrected(s)[1] \in Nat /\ Power[d] \in Nat
    BY LevelsAreNumbers, PowerPositive
  <2> QED BY <2>1, LevelsAreNumbers
<1>5. 2 * y < z
  <2> HIDE DEF y, z
  <2> QED BY <1>2, <1>3, <1>4
<1>6. TwoSided(0, d) = 2
  <2>1. Smaller(0, d) = 0 /\ 0 + d = d
    BY <1>1 DEF Smaller
  <2> QED BY <2>1, LowTailIs DEF TwoSided
<1> QED BY <1>1, <1>5, <1>6, 0 + d = d DEF Clears

\* What a judgement keeps of compare() gives both halves.
LEMMA RefusedIsHopelessOff ==
  ASSUME OffTheGrid, IInv
  PROVE  RefusedIsHopeless
<1> SUFFICES ASSUME judgement # NoJudgement
             PROVE  /\ judgement.refusal = "size" =>
                         ~\E b, c \in 0..tally.clusters : b + c =< tally.clusters /\ Clears(b, c, judgement.suite)
                    /\ judgement.refusal = "none" =>
                         \E b, c \in 0..tally.clusters : b + c =< tally.clusters /\ Clears(b, c, judgement.suite)
  BY DEF RefusedIsHopeless
<1>1. PICK r \in RecallPairs, s \in Suites :
        judgement = [verdict |-> VerdictOf(r, s), refusal |-> RefusalOf(r, s), recall |-> r, suite |-> s]
  BY DEF IInv, Judged
<1>2. judgement.suite = s /\ judgement.refusal = RefusalOf(r, s)
  BY <1>1
<1>3. tally.clusters \in Nat
  BY DEF IInv, TallyShape
<1>4. RefusalOf(r, s) = "size" => Hopeless(s)
  BY DEF RefusalOf
<1>5. RefusalOf(r, s) = "none" => ~Hopeless(s)
  BY DEF RefusalOf
<1>6. ASSUME Hopeless(s), NEW b \in 0..tally.clusters, NEW c \in 0..tally.clusters,
             b + c =< tally.clusters, Clears(b, c, s)
      PROVE  FALSE
  <2>1. b \in Nat /\ c \in Nat /\ b + c \in 0..tally.clusters
    BY <1>3, <1>6
  <2>2. Attainable(b + c, Corrected(s))
    BY <2>1, <1>6, ClearingIsAttaining
  <2> QED BY <2>1, <2>2, <1>6 DEF Hopeless
<1>7. ASSUME ~Hopeless(s)
      PROVE  \E b, c \in 0..tally.clusters : b + c =< tally.clusters /\ Clears(b, c, s)
  <2>1. PICK d \in 0..tally.clusters : Attainable(d, Corrected(s))
    BY <1>7 DEF Hopeless
  <2>2. d \in Nat /\ 0 \in 0..tally.clusters /\ 0 + d =< tally.clusters
    BY <1>3
  <2>3. Clears(0, d, s)
    BY <2>1, <2>2, AttainingIsClearing
  <2> QED BY <2>2, <2>3
<1> QED BY <1>2, <1>4, <1>5, <1>6, <1>7

\* compare.ts, the floor: off the grid of attainable ps, compare() refuses for size exactly the
\* runs no evidence could decide, for any suites and any numbers of rows and cases.
THEOREM RefusalsAreHopeless == OffTheGrid => (ComparatorSpec => []RefusedIsHopeless)
<1>1. OffTheGrid /\ IInv => RefusedIsHopeless
  BY RefusedIsHopelessOff
<1>2. CASE OffTheGrid
  <2>1. IInv => RefusedIsHopeless
    BY <1>1, <1>2
  <2> QED BY <2>1, InvariantHolds, PTL
<1> QED BY <1>2

\* No corrected level of a twentieth is twice a power of one half.
LEMMA OneInTwentyIsOff ==
  ASSUME Alpha = <<1, 20>>
  PROVE  OffTheGrid
<1>1. Alpha[1] = 1 /\ Alpha[2] = 20
  OBVIOUS
<1>2. ASSUME NEW s \in Suites, NEW d \in Nat PROVE 2 * Corrected(s)[2] # Corrected(s)[1] * Power[d]
  <2>1. Divisor(s) \in Nat /\ Corrected(s)[1] = 1 /\ Corrected(s)[2] = 20 * Divisor(s)
    BY <1>1, LevelsAreNumbers
  <2>2. Power[d] \in Nat
    BY PowerPositive
  <2>3. 2 * (20 * Divisor(s)) = 5 * (8 * Divisor(s)) /\ 8 * Divisor(s) \in Nat
    BY <2>1
  <2>4. Power[d] # 5 * (8 * Divisor(s))
    BY <2>3, PowersMissFives
  <2> QED BY <2>1, <2>2, <2>3, <2>4
<1> QED BY <1>1, <1>2 DEF OffTheGrid

\* The only level run-eval and judge-pilot pass to compare(), alpha 0.05, is off the grid.
THEOREM RefusalsAtOneInTwenty ==
  ASSUME Alpha = <<1, 20>>
  PROVE  ComparatorSpec => []RefusedIsHopeless
BY OneInTwentyIsOff, RefusalsAreHopeless
=============================================================================
