-------------------------- MODULE RevisionStoreProofs --------------------------
(***************************************************************************)
(* Theorems about RevisionStore (storage-db), for every set of runs, every *)
(* bound and every set of ids and timestamps.                              *)
(*                                                                         *)
(* The inductive invariant is TypeOK /\ CommittedHasRevisions. It holds    *)
(* whatever set of ids the cascade stales: a bundle keeps its length and   *)
(* its type (StaleInKeeps). What the cascade does compute is the subject   *)
(* of StalenessReachesDescendants.                                         *)
(***************************************************************************)
EXTENDS RevisionStore, RevisionsProofs

Inv == TypeOK /\ CommittedHasRevisions

-----------------------------------------------------------------------------
(* Lemmas on the operators.                                                *)

\* An entry a caller may append is one the store may hold.
LEMMA NewEntriesAreEntries ==
  ASSUME NEW e \in NewEntries(RevIds, Stamps)
  PROVE  e \in Entries(Ids0, Stamps)
BY DEF NewEntries, Entries, Ids0

-----------------------------------------------------------------------------
(* The inductive invariant.                                                *)

LEMMA InitInv == Init => Inv
<1> SUFFICES ASSUME Init PROVE Inv
  OBVIOUS
<1>1. OldBundle \in Seq(Entries(Ids0, Stamps))
  <2>1. OldBundle[1] \in Entries(Ids0, Stamps)
    BY StoreAssumption DEF OldBundle, Entries, Ids0
  <2> QED BY <2>1 DEF OldBundle
<1> QED BY <1>1 DEF Init, Inv, TypeOK, CommittedHasRevisions, Held

LEMMA AppendEntryInv ==
  ASSUME Inv, NEW r \in Runs, NEW e \in NewEntries(RevIds, Stamps), AppendEntry(r, e)
  PROVE  Inv'
<1> USE DEF Inv
<1> DEFINE grown == [bundle EXCEPT ![r] = Append(@, e)]
<1>1. PICK D \in DoomedSets(Held(grown), LastStamp(grown), MaxBundles) :
        /\ bundle' = EvictFrom(grown, D)
        /\ committed' = EvictManifests(committed, D)
  BY DEF AppendEntry
<1>2. e \in Entries(Ids0, Stamps)
  BY NewEntriesAreEntries
<1>3. Append(bundle[r], e) \in Seq(Entries(Ids0, Stamps))
  BY <1>2, AppendHolds DEF TypeOK
<1>4. grown \in [Runs -> Seq(Entries(Ids0, Stamps))]
  BY <1>3 DEF TypeOK
<1>5. bundle' \in [Runs -> Seq(Entries(Ids0, Stamps))]
  BY <1>1, <1>4 DEF EvictFrom
<1>6. committed' \subseteq committed
  BY <1>1 DEF EvictManifests
<1>7. ASSUME NEW m \in committed'
      PROVE  m \in Held(bundle')
  <2>1. m \in Runs /\ m # r /\ m \notin D /\ bundle[m] # <<>>
    BY <1>1, <1>7 DEF TypeOK, CommittedHasRevisions, Held, AppendEntry, EvictManifests
  <2>2. bundle'[m] = bundle[m]
    BY <1>1, <2>1 DEF EvictFrom, TypeOK
  <2> QED BY <2>1, <2>2 DEF Held
<1> QED BY <1>5, <1>6, <1>7 DEF TypeOK, CommittedHasRevisions

LEMMA CommitManifestInv ==
  ASSUME Inv, NEW r \in Runs, NEW e \in NewEntries(RevIds, Stamps), CommitManifest(r, <<e>>)
  PROVE  Inv'
<1> USE DEF Inv
<1>1. <<e>> \in Seq(Entries(Ids0, Stamps)) /\ <<e>> # <<>>
  BY NewEntriesAreEntries
<1>2. TypeOK'
  BY <1>1 DEF CommitManifest, TypeOK
<1>3. CommittedHasRevisions'
  BY <1>1 DEF CommitManifest, TypeOK, CommittedHasRevisions, Held
<1> QED BY <1>2, <1>3

LEMMA MarkStaleInv ==
  ASSUME Inv, NEW r \in Runs, NEW from \in Ids0, MarkStale(r, from)
  PROVE  Inv'
<1> USE DEF Inv
<1> DEFINE staled == StaleIn(bundle[r], Cascade(bundle[r], from))
<1>1. bundle' = [bundle EXCEPT ![r] = staled] /\ committed' = committed /\ r \notin committed
  BY DEF MarkStale
<1>2. staled \in Seq(Entries(Ids0, Stamps))
  BY StaleInKeeps DEF TypeOK
<1>3. TypeOK'
  BY <1>1, <1>2 DEF TypeOK
<1>4. CommittedHasRevisions'
  BY <1>1 DEF TypeOK, CommittedHasRevisions, Held
<1> QED BY <1>3, <1>4

LEMMA StutterInv == Inv /\ UNCHANGED vars => Inv'
BY DEF Inv, TypeOK, CommittedHasRevisions, Held, vars

\* Every step of the store keeps the inductive invariant.
LEMMA NextInv == Inv /\ [Next]_vars => Inv'
<1> SUFFICES ASSUME Inv, [Next]_vars PROVE Inv'
  OBVIOUS
<1>1. CASE UNCHANGED vars
  BY <1>1, StutterInv
<1>2. CASE Next
  <2>1. PICK r \in Runs :
          \/ \E e \in NewEntries(RevIds, Stamps) : AppendEntry(r, e)
          \/ \E e \in NewEntries(RevIds, Stamps) : CommitManifest(r, <<e>>)
          \/ \E from \in Ids0 : MarkStale(r, from)
    BY <1>2 DEF Next
  <2>2. CASE \E e \in NewEntries(RevIds, Stamps) : AppendEntry(r, e)
    BY <2>2, AppendEntryInv
  <2>3. CASE \E e \in NewEntries(RevIds, Stamps) : CommitManifest(r, <<e>>)
    BY <2>3, CommitManifestInv
  <2>4. CASE \E from \in Ids0 : MarkStale(r, from)
    BY <2>4, MarkStaleInv
  <2> QED BY <2>1, <2>2, <2>3, <2>4
<1> QED BY <1>1, <1>2

LEMMA SpecInv == Spec => []Inv
BY InitInv, NextInv, PTL DEF Spec

-----------------------------------------------------------------------------
(* The theorems.                                                           *)

\* Bundles stay sequences of entries, and committed runs stay runs of the store.
THEOREM TypeCorrect == Spec => []TypeOK
<1>1. Inv => TypeOK
  BY DEF Inv
<1> QED BY <1>1, SpecInv, PTL

\* Append's eviction pass deletes from both tables: no published run is ever left
\* without revisions, immutable and empty.
THEOREM CommittedRunsHaveRevisions == Spec => []CommittedHasRevisions
<1>1. Inv => CommittedHasRevisions
  BY DEF Inv
<1> QED BY <1>1, SpecInv, PTL

\* No append, markStale or commitManifest changes a published manifest: all a step can do
\* to it is to evict it whole.
THEOREM CommittedNeverEdited == Spec => CommittedImmutable
<1> DEFINE Kept(r) == \/ r \in committed' /\ bundle'[r] = bundle[r]
                      \/ r \notin committed' /\ bundle'[r] = <<>>
<1>1. Inv /\ [Next]_vars => [\A r \in committed : Kept(r)]_vars
  <2> SUFFICES ASSUME Inv, Next, NEW m \in committed PROVE Kept(m)
    OBVIOUS
  <2> USE DEF Inv
  <2>1. m \in Runs
    BY DEF TypeOK
  <2>2. PICK r \in Runs :
          \/ \E e \in NewEntries(RevIds, Stamps) : AppendEntry(r, e)
          \/ \E e \in NewEntries(RevIds, Stamps) : CommitManifest(r, <<e>>)
          \/ \E from \in Ids0 : MarkStale(r, from)
    BY DEF Next
  <2>3. ASSUME NEW e \in NewEntries(RevIds, Stamps), AppendEntry(r, e)
        PROVE  Kept(m)
    <3> DEFINE grown == [bundle EXCEPT ![r] = Append(@, e)]
    <3>1. PICK D \in DoomedSets(Held(grown), LastStamp(grown), MaxBundles) :
            /\ bundle' = EvictFrom(grown, D)
            /\ committed' = EvictManifests(committed, D)
      BY <2>3 DEF AppendEntry
    <3>2. grown[m] = bundle[m]
      BY <2>1, <2>3 DEF AppendEntry, TypeOK
    <3>3. CASE m \in D
      BY <2>1, <3>1, <3>3 DEF EvictFrom, EvictManifests
    <3>4. CASE m \notin D
      BY <2>1, <3>1, <3>2, <3>4 DEF EvictFrom, EvictManifests
    <3> QED BY <3>3, <3>4
  <2>4. ASSUME NEW e \in NewEntries(RevIds, Stamps), CommitManifest(r, <<e>>)
        PROVE  Kept(m)
    BY <2>1, <2>4 DEF CommitManifest, TypeOK
  <2>5. ASSUME NEW from \in Ids0, MarkStale(r, from)
        PROVE  Kept(m)
    BY <2>1, <2>5 DEF MarkStale, TypeOK
  <2> QED BY <2>2, <2>3, <2>4, <2>5
<1> QED BY <1>1, SpecInv, PTL DEF Spec, CommittedImmutable

\* The store is never over its bound after an append, whatever manifests had been
\* published without eviction before it: a step that leaves the store over the bound
\* publishes a manifest, or leaves every bundle as long as it was.
THEOREM AppendRestoresBound == Spec => BoundRestored
<1> DEFINE Over == Cardinality(Held(bundle')) > MaxBundles
           Excused == \/ committed' \ committed # {}
                      \/ /\ Held(bundle') = Held(bundle)
                         /\ \A r \in Runs : Len(bundle'[r]) = Len(bundle[r])
<1>1. Inv /\ [Next]_vars => [Over => Excused]_vars
  <2> SUFFICES ASSUME Inv, Next, Over PROVE Excused
    OBVIOUS
  <2> USE DEF Inv
  <2>1. PICK r \in Runs :
          \/ \E e \in NewEntries(RevIds, Stamps) : AppendEntry(r, e)
          \/ \E e \in NewEntries(RevIds, Stamps) : CommitManifest(r, <<e>>)
          \/ \E from \in Ids0 : MarkStale(r, from)
    BY DEF Next
  <2>2. ASSUME NEW e \in NewEntries(RevIds, Stamps), AppendEntry(r, e)
        PROVE  FALSE
    <3> DEFINE grown == [bundle EXCEPT ![r] = Append(@, e)]
    <3>1. PICK D \in DoomedSets(Held(grown), LastStamp(grown), MaxBundles) :
            bundle' = EvictFrom(grown, D)
      BY <2>2 DEF AppendEntry
    <3>2. IsFiniteSet(Held(grown))
      <4>1. Held(grown) \in SUBSET Runs
        BY DEF Held
      <4> QED BY <4>1, StoreAssumption, FS_Subset
    <3>3. Held(bundle') = Held(grown) \ D
      BY <3>1 DEF Held, EvictFrom
    <3>4. Cardinality(Held(grown) \ D) <= MaxBundles
      BY <3>1, <3>2, StoreAssumption, DoomedLeavesBound
    <3>5. Cardinality(Held(grown) \ D) \in Nat
      BY <3>2, FS_Difference, FS_CardinalityType
    <3> QED BY <3>3, <3>4, <3>5, StoreAssumption
  <2>3. ASSUME NEW e \in NewEntries(RevIds, Stamps), CommitManifest(r, <<e>>)
        PROVE  committed' \ committed # {}
    BY <2>3 DEF CommitManifest
  <2>4. ASSUME NEW from \in Ids0, MarkStale(r, from)
        PROVE  /\ Held(bundle') = Held(bundle)
               /\ \A k \in Runs : Len(bundle'[k]) = Len(bundle[k])
    <3> DEFINE staled == StaleIn(bundle[r], Cascade(bundle[r], from))
    <3>1. bundle' = [bundle EXCEPT ![r] = staled]
      BY <2>4 DEF MarkStale
    <3>2. Len(staled) = Len(bundle[r]) /\ staled \in Seq(Entries(Ids0, Stamps))
      BY StaleInKeeps DEF TypeOK
    <3>3. \A k \in Runs : Len(bundle'[k]) = Len(bundle[k])
      BY <3>1, <3>2 DEF TypeOK
    <3>4. bundle[r] = <<>> <=> staled = <<>>
      BY <3>2, EmptySeq DEF TypeOK
    <3>5. Held(bundle') = Held(bundle)
      BY <3>1, <3>4 DEF Held, TypeOK
    <3> QED BY <3>3, <3>5
  <2> QED BY <2>1, <2>2, <2>3, <2>4
<1> QED BY <1>1, SpecInv, PTL DEF Spec, BoundRestored

\* The passes of markStale stale a revision and all its descendants, and nothing else, whatever
\* the bundle holds.
LEMMA DescendantsOf ==
  ASSUME NEW E, NEW b \in Seq(E), NEW from \in Ids(b)
  PROVE  Cascade(b, from) =
           {x \in Ids(b) : \A S \in SUBSET Ids(b) : from \in S /\ ClosedIn(b, S) => x \in S}
<1>1. Known(b, from) = Ids(b)
  BY DEF Known
<1>2. ASSUME NEW S PROVE ClosedIn(b, S) <=> GrowStale(b, S) \subseteq S
  BY DEF ClosedIn, GrowStale, ToSet
<1>3. Cascade(b, from) = Spread(b, from, {from})
  BY CascadeIsSpread
<1> QED BY <1>1, <1>2, <1>3 DEF Spread

\* markStale reaches every descendant and nothing else, whatever the order of the bundle.
THEOREM StalenessReachesDescendants == Spec => []CascadeIsDescendants
<1>1. Inv => CascadeIsDescendants
  <2> SUFFICES ASSUME Inv, NEW r \in Runs, NEW from \in Ids(bundle[r])
               PROVE  Cascade(bundle[r], from) =
                        {x \in Ids(bundle[r]) : \A S \in SUBSET Ids(bundle[r]) :
                           from \in S /\ ClosedIn(bundle[r], S) => x \in S}
    BY DEF CascadeIsDescendants
  <2>1. bundle[r] \in Seq(Entries(Ids0, Stamps))
    BY DEF Inv, TypeOK
  <2> QED BY <2>1, DescendantsOf
<1> QED BY <1>1, SpecInv, PTL

-----------------------------------------------------------------------------
(* The last timestamp of a run.                                            *)

\* A bundle has an entry no other is later than.
LEMMA SomeLatest ==
  ASSUME NEW b \in Seq(Entries(Ids0, Stamps)), b # <<>>
  PROVE  \E m \in DOMAIN b : \A k \in DOMAIN b : b[k].stamp <= b[m].stamp
<1> DEFINE st == [k \in 1 .. Len(b) |-> b[k].stamp]
           Latest(n) == \E m \in 1 .. n : \A k \in 1 .. n : st[k] <= st[m]
           none == {n \in 1 .. Len(b) : ~Latest(n)}
<1>1. Len(b) \in Nat \ {0} /\ DOMAIN b = 1 .. Len(b)
  OBVIOUS
<1>2. st \in [1 .. Len(b) -> Nat]
  <2>1. \A k \in 1 .. Len(b) : b[k] \in Entries(Ids0, Stamps)
    BY <1>1
  <2> QED BY <2>1, StoreAssumption DEF Entries
<1>3. Latest(Len(b))
  <2> SUFFICES ASSUME ~Latest(Len(b)) PROVE FALSE
    OBVIOUS
  <2>1. none # {} /\ none \in SUBSET Nat
    <3> HIDE DEF Latest
    <3> QED BY <1>1
  <2>2. PICK n \in none : \A m \in none : n <= m
    <3> HIDE DEF none
    <3> QED BY <2>1, LeastNatural
  <2>3. n \in 1 .. Len(b) /\ ~Latest(n)
    <3> HIDE DEF Latest
    <3> QED OBVIOUS
  <2>4. n # 1
    <3> SUFFICES ASSUME n = 1 PROVE FALSE
      OBVIOUS
    <3>1. \A k \in 1 .. 1 : st[k] <= st[1]
      <4> HIDE DEF st
      <4>1. st[1] \in Nat
        BY <1>1, <1>2
      <4> QED BY <4>1
    <3>2. Latest(1)
      <4> HIDE DEF st
      <4> QED BY <3>1
    <3> HIDE DEF Latest
    <3> QED BY <2>3, <3>2
  <2>5. n - 1 \in 1 .. Len(b) /\ n - 1 \in Int /\ ~(n <= n - 1)
    BY <1>1, <2>3, <2>4
  <2>6. Latest(n - 1)
    <3> HIDE DEF Latest
    <3> QED BY <2>2, <2>5
  <2> HIDE DEF st, none
  <2>7. PICK m \in 1 .. n - 1 : \A k \in 1 .. n - 1 : st[k] <= st[m]
    BY <2>6
  <2>8. /\ m \in 1 .. n /\ n \in 1 .. n /\ st[m] \in Nat /\ st[n] \in Nat
        /\ \A k \in 1 .. n : k = n \/ k \in 1 .. n - 1
        /\ \A k \in 1 .. n : st[k] \in Nat
    <3>1. n \in 1 .. Len(b) /\ Len(b) \in Nat /\ m \in 1 .. n - 1
      BY <1>1, <2>3, <2>7
    <3>2. \A k \in 1 .. n : k \in 1 .. Len(b)
      BY <3>1
    <3>3. m \in 1 .. n /\ n \in 1 .. n
      BY <3>1
    <3>4. \A k \in 1 .. n : k = n \/ k \in 1 .. n - 1
      BY <3>1
    <3>5. \A k \in 1 .. n : st[k] \in Nat
      BY <1>2, <3>2
    <3> QED BY <3>3, <3>4, <3>5
  <2>9. CASE st[n] <= st[m]
    <3>1. \A k \in 1 .. n : st[k] <= st[m]
      BY <2>7, <2>8, <2>9
    <3> QED BY <2>3, <2>8, <3>1
  <2>10. CASE st[m] <= st[n]
    <3>1. \A k \in 1 .. n : st[k] <= st[n]
      BY <2>7, <2>8, <2>10
    <3> QED BY <2>3, <2>8, <3>1
  <2> QED BY <2>8, <2>9, <2>10
<1> QED BY <1>1, <1>3

\* The last timestamp of a run is that of one of its entries, and no entry is later.
LEMMA LastStampIs ==
  ASSUME NEW b \in [Runs -> Seq(Entries(Ids0, Stamps))], NEW r \in Runs, b[r] # <<>>
  PROVE  /\ \E m \in DOMAIN b[r] : LastStamp(b)[r] = b[r][m].stamp
         /\ \A k \in DOMAIN b[r] : b[r][k].stamp <= LastStamp(b)[r]
         /\ LastStamp(b)[r] \in Nat
<1> DEFINE times == {e.stamp : e \in ToSet(b[r])}
           last == CHOOSE t \in times : \A e \in ToSet(b[r]) : e.stamp <= t
<1>1. LastStamp(b)[r] = last
  BY DEF LastStamp
<1>2. PICK m \in DOMAIN b[r] : \A k \in DOMAIN b[r] : b[r][k].stamp <= b[r][m].stamp
  BY SomeLatest
<1>3. b[r][m].stamp \in times /\ \A e \in ToSet(b[r]) : e.stamp <= b[r][m].stamp
  BY <1>2 DEF ToSet
<1>4. last \in times /\ \A e \in ToSet(b[r]) : e.stamp <= last
  BY <1>3
<1>5. \A k \in DOMAIN b[r] : b[r][k].stamp \in Nat
  <2>1. \A k \in DOMAIN b[r] : b[r][k] \in Entries(Ids0, Stamps)
    OBVIOUS
  <2> QED BY <2>1, StoreAssumption DEF Entries
<1> HIDE DEF last
<1>6. \E k \in DOMAIN b[r] : last = b[r][k].stamp
  BY <1>4 DEF ToSet
<1>7. \A k \in DOMAIN b[r] : b[r][k].stamp <= last
  BY <1>4 DEF ToSet
<1> QED BY <1>1, <1>5, <1>6, <1>7

\* An entry appended to a run makes it no older, and leaves the others as they are.
LEMMA LastStampGrows ==
  ASSUME NEW a \in [Runs -> Seq(Entries(Ids0, Stamps))],
         NEW b \in [Runs -> Seq(Entries(Ids0, Stamps))], NEW r \in Runs, a[r] # <<>>, b[r] # <<>>,
         \A k \in DOMAIN a[r] : k \in DOMAIN b[r] /\ b[r][k].stamp = a[r][k].stamp
  PROVE  LastStamp(a)[r] <= LastStamp(b)[r]
<1>1. PICK m \in DOMAIN a[r] : LastStamp(a)[r] = a[r][m].stamp
  BY LastStampIs
<1>2. m \in DOMAIN b[r] /\ b[r][m].stamp = a[r][m].stamp /\ b[r][m].stamp <= LastStamp(b)[r]
  BY <1>1, LastStampIs
<1> QED BY <1>1, <1>2

\* The timestamp of a run is that of its bundle.
LEMMA SameLastStamp ==
  ASSUME NEW a, NEW b, NEW r \in Runs, a[r] = b[r]
  PROVE  LastStamp(a)[r] = LastStamp(b)[r]
<1> DEFINE At(c) == IF c = <<>> THEN 0
                    ELSE CHOOSE t \in {e.stamp : e \in ToSet(c)} : \A e \in ToSet(c) : e.stamp <= t
<1>1. LastStamp(a)[r] = At(a[r]) /\ LastStamp(b)[r] = At(b[r])
  BY DEF LastStamp
<1> HIDE DEF At
<1> QED BY <1>1

\* What WholeRunsOldestFirst says of run r.
KeptOrOldest(r) ==
  IF bundle'[r] = <<>>
  THEN \A k \in Held(bundle') : LastStamp(bundle)[r] <= LastStamp(bundle')[k]
  ELSE \A i \in DOMAIN bundle[r] :
         /\ i \in DOMAIN bundle'[r]
         /\ bundle'[r][i].id = bundle[r][i].id
         /\ bundle[r][i].stale => bundle'[r][i].stale

LEMMA AppendKeepsOrEvictsOldest ==
  ASSUME Inv, NEW q \in Runs, NEW e \in NewEntries(RevIds, Stamps), AppendEntry(q, e),
         NEW r \in Held(bundle)
  PROVE  KeptOrOldest(r)
<1> DEFINE grown == [bundle EXCEPT ![q] = Append(@, e)]
<1>1. PICK D \in DoomedSets(Held(grown), LastStamp(grown), MaxBundles) :
        bundle' = EvictFrom(grown, D)
  BY DEF AppendEntry
<1>2. bundle \in [Runs -> Seq(Entries(Ids0, Stamps))] /\ r \in Runs /\ bundle[r] # <<>>
  BY DEF Inv, TypeOK, Held
<1>3. /\ Append(bundle[q], e) \in Seq(Entries(Ids0, Stamps)) /\ Append(bundle[q], e) # <<>>
      /\ \A i \in DOMAIN bundle[q] : /\ i \in DOMAIN Append(bundle[q], e)
                                     /\ Append(bundle[q], e)[i] = bundle[q][i]
  <2>1. e \in Entries(Ids0, Stamps) /\ bundle[q] \in Seq(Entries(Ids0, Stamps))
    BY <1>2, NewEntriesAreEntries
  <2> QED BY <2>1, AppendHolds
<1>4. /\ grown \in [Runs -> Seq(Entries(Ids0, Stamps))] /\ grown[r] # <<>>
      /\ \A i \in DOMAIN bundle[r] : i \in DOMAIN grown[r] /\ grown[r][i] = bundle[r][i]
  BY <1>2, <1>3
<1> HIDE DEF grown
<1>5. bundle'[r] = (IF r \in D THEN <<>> ELSE grown[r])
  BY <1>1, <1>2 DEF EvictFrom
<1>6. CASE r \in D
  <2> SUFFICES ASSUME NEW k \in Held(bundle') PROVE LastStamp(bundle)[r] <= LastStamp(bundle')[k]
    BY <1>5, <1>6 DEF KeptOrOldest
  <2>1. k \in Runs /\ k \notin D /\ bundle'[k] = grown[k] /\ k \in Held(grown)
    BY <1>1 DEF EvictFrom, Held
  <2>2. LastStamp(grown)[r] <= LastStamp(grown)[k]
    BY <1>1, <1>6, <2>1 DEF DoomedSets
  <2>3. LastStamp(bundle)[r] <= LastStamp(grown)[r]
    BY <1>2, <1>4, LastStampGrows
  <2>4. LastStamp(bundle')[k] = LastStamp(grown)[k]
    BY <2>1, SameLastStamp
  <2>5. LastStamp(bundle)[r] \in Nat /\ LastStamp(grown)[r] \in Nat /\ LastStamp(grown)[k] \in Nat
    BY <1>2, <1>4, <2>1, LastStampIs DEF Held
  <2> QED BY <2>2, <2>3, <2>4, <2>5
<1>7. CASE r \notin D
  BY <1>4, <1>5, <1>7 DEF KeptOrOldest
<1> QED BY <1>6, <1>7

\* A run is kept whole or evicted whole, and none is evicted before an older one
\* (storage-db append and evict).
THEOREM EvictionIsWhole == Spec => WholeRunsOldestFirst
<1>1. ASSUME Inv, [Next]_vars
      PROVE  [\A r \in Held(bundle) : KeptOrOldest(r)]_vars
  <2> SUFFICES ASSUME Next, NEW r \in Held(bundle) PROVE KeptOrOldest(r)
    BY <1>1
  <2>1. bundle \in [Runs -> Seq(Entries(Ids0, Stamps))] /\ r \in Runs /\ bundle[r] # <<>>
    BY <1>1 DEF Inv, TypeOK, Held
  <2>2. ASSUME bundle'[r] = bundle[r] PROVE KeptOrOldest(r)
    BY <2>1, <2>2 DEF KeptOrOldest
  <2>3. PICK q \in Runs :
          \/ \E e \in NewEntries(RevIds, Stamps) : AppendEntry(q, e)
          \/ \E e \in NewEntries(RevIds, Stamps) : CommitManifest(q, <<e>>)
          \/ \E from \in Ids0 : MarkStale(q, from)
    BY DEF Next
  <2>4. ASSUME NEW e \in NewEntries(RevIds, Stamps), AppendEntry(q, e) PROVE KeptOrOldest(r)
    BY <1>1, <2>4, AppendKeepsOrEvictsOldest
  <2>5. ASSUME NEW e \in NewEntries(RevIds, Stamps), CommitManifest(q, <<e>>) PROVE KeptOrOldest(r)
    <3>1. bundle'[r] = bundle[r]
      BY <2>1, <2>5 DEF CommitManifest
    <3> QED BY <2>2, <3>1
  <2>6. ASSUME NEW from \in Ids0, MarkStale(q, from) PROVE KeptOrOldest(r)
    <3> DEFINE staled == StaleIn(bundle[q], Cascade(bundle[q], from))
    <3>1. bundle' = [bundle EXCEPT ![q] = staled]
      BY <2>6 DEF MarkStale
    <3>2. CASE r # q
      <4>1. bundle'[r] = bundle[r]
        BY <2>1, <3>1, <3>2
      <4> QED BY <2>2, <4>1
    <3>3. CASE r = q
      <4>1. /\ Len(staled) = Len(bundle[q]) /\ DOMAIN staled = DOMAIN bundle[q]
            /\ staled \in Seq(Entries(Ids0, Stamps))
            /\ \A i \in DOMAIN bundle[q] : /\ staled[i].id = bundle[q][i].id
                                           /\ bundle[q][i].stale => staled[i].stale
        BY <2>1, StaleInKeeps
      <4>2. bundle'[r] = staled
        BY <2>1, <3>1, <3>3
      <4>3. staled # <<>>
        BY <2>1, <3>3, <4>1, EmptySeq
      <4> HIDE DEF staled
      <4> QED BY <3>3, <4>1, <4>2, <4>3, Zenon DEF KeptOrOldest
    <3> QED BY <3>2, <3>3
  <2> QED BY <2>3, <2>4, <2>5, <2>6
<1>2. Inv /\ [Next]_vars => [\A r \in Held(bundle) : KeptOrOldest(r)]_vars
  BY <1>1
<1>3. Spec => [][\A r \in Held(bundle) : KeptOrOldest(r)]_vars
  BY <1>2, SpecInv, PTL DEF Spec
<1> QED BY <1>3 DEF WholeRunsOldestFirst, KeptOrOldest
=============================================================================
