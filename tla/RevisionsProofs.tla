---------------------------- MODULE RevisionsProofs ----------------------------
(***************************************************************************)
(* Lemmas on the operators of module Revisions, for the proofs about both  *)
(* stores.                                                                 *)
(***************************************************************************)
EXTENDS Revisions, TLAPS, FiniteSetTheorems, SequenceTheorems, WellFoundedInduction

\* Marking revisions stale changes freshness only: the bundle keeps its length, its type
\* and, entry by entry, its ids.
LEMMA StaleInKeeps ==
  ASSUME NEW I, NEW T, NEW b \in Seq(Entries(I, T)), NEW S
  PROVE  /\ StaleIn(b, S) \in Seq(Entries(I, T))
         /\ Len(StaleIn(b, S)) = Len(b)
         /\ DOMAIN StaleIn(b, S) = DOMAIN b
         /\ \A i \in DOMAIN b : /\ StaleIn(b, S)[i].id = b[i].id
                                /\ StaleIn(b, S)[i].stamp = b[i].stamp
                                /\ b[i].stale => StaleIn(b, S)[i].stale
<1> DEFINE s == StaleIn(b, S)
<1>1. /\ Len(b) \in Nat
      /\ DOMAIN b = 1 .. Len(b)
      /\ \A i \in DOMAIN b : b[i] \in Entries(I, T)
  BY LenProperties, ElementOfSeq
<1>2. \A i \in DOMAIN b : [b[i] EXCEPT !.stale = TRUE] \in Entries(I, T)
  BY <1>1 DEF Entries
<1>3. s \in [1 .. Len(b) -> Entries(I, T)]
  BY <1>1, <1>2 DEF StaleIn
<1>4. s \in Seq(Entries(I, T)) /\ Len(s) = Len(b) /\ DOMAIN s = DOMAIN b
  BY <1>1, <1>3
<1>5. ASSUME NEW i \in DOMAIN b
      PROVE  /\ s[i].id = b[i].id
             /\ s[i].stamp = b[i].stamp
             /\ b[i].stale => s[i].stale
  <2>1. b[i] \in Entries(I, T)
    BY <1>1
  <2>2. s[i] = IF b[i].id \in S THEN [b[i] EXCEPT !.stale = TRUE] ELSE b[i]
    BY DEF StaleIn
  <2>3. CASE b[i].id \in S
    BY <2>1, <2>2, <2>3 DEF Entries
  <2>4. CASE b[i].id \notin S
    BY <2>2, <2>4
  <2> QED BY <2>3, <2>4
<1> QED BY <1>4, <1>5

\* The ids of a bundle are ids its entries may have.
LEMMA IdsInType ==
  ASSUME NEW I, NEW T, NEW b \in Seq(Entries(I, T))
  PROVE  Ids(b) \subseteq I
<1>1. \A i \in DOMAIN b : b[i] \in Entries(I, T)
  BY LenProperties, ElementOfSeq
<1> QED BY <1>1 DEF Ids, Entries

\* Marking revisions stale adds and removes none.
LEMMA StaleInKeepsIds ==
  ASSUME NEW I, NEW T, NEW b \in Seq(Entries(I, T)), NEW S
  PROVE  Ids(StaleIn(b, S)) = Ids(b)
<1>1. DOMAIN StaleIn(b, S) = DOMAIN b /\ \A i \in DOMAIN b : StaleIn(b, S)[i].id = b[i].id
  BY StaleInKeeps
<1> QED BY <1>1, Zenon DEF Ids

\* Appending an entry adds its id and removes none.
LEMMA AppendIds ==
  ASSUME NEW E, NEW b \in Seq(E), NEW e \in E
  PROVE  Ids(Append(b, e)) = Ids(b) \cup {e.id}
<1> DEFINE n == Len(b)  a == Append(b, e)
<1>1. n \in Nat /\ DOMAIN b = 1 .. n
  BY LenProperties
<1>2. /\ DOMAIN a = 1 .. (n + 1)
      /\ a[n + 1] = e
      /\ \A i \in 1 .. n : a[i] = b[i]
  BY <1>1
<1>3. ASSUME NEW x \in Ids(a) PROVE x \in Ids(b) \cup {e.id}
  <2>1. PICK i \in 1 .. (n + 1) : x = a[i].id
    BY <1>2 DEF Ids
  <2>2. CASE i = n + 1
    BY <1>2, <2>1, <2>2
  <2>3. CASE i # n + 1
    <3>1. i \in 1 .. n
      BY <1>1, <2>3
    <3> QED BY <1>1, <1>2, <2>1, <3>1 DEF Ids
  <2> QED BY <2>2, <2>3
<1>4. ASSUME NEW x \in Ids(b) PROVE x \in Ids(a)
  <2>1. PICK i \in 1 .. n : x = b[i].id
    BY <1>1, <1>4 DEF Ids
  <2>2. i \in 1 .. (n + 1) /\ a[i] = b[i]
    BY <1>1, <1>2
  <2> QED BY <1>2, <2>1, <2>2 DEF Ids
<1>5. e.id \in Ids(a)
  <2>1. n + 1 \in 1 .. (n + 1)
    BY <1>1
  <2> QED BY <1>2, <2>1 DEF Ids
<1> QED BY <1>3, <1>4, <1>5

\* Appending makes a bundle that is never the empty one.
LEMMA AppendHolds ==
  ASSUME NEW E, NEW b \in Seq(E), NEW e \in E
  PROVE  /\ Append(b, e) \in Seq(E)
         /\ Append(b, e) # <<>>
         /\ Len(Append(b, e)) = Len(b) + 1
<1>1. Len(b) \in Nat /\ Len(Append(b, e)) = Len(b) + 1 /\ Append(b, e) \in Seq(E)
  OBVIOUS
<1>2. Len(Append(b, e)) # 0
  BY <1>1
<1> QED BY <1>1, <1>2

\* The runs an eviction pass picks are runs the store holds.
LEMMA DoomedAreHeld ==
  ASSUME NEW H, NEW last, NEW max, NEW D \in DoomedSets(H, last, max)
  PROVE  D \subseteq H
BY DEF DoomedSets

\* An eviction pass over a finite set of runs leaves at most max of them.
LEMMA DoomedLeavesBound ==
  ASSUME NEW H, IsFiniteSet(H), NEW last, NEW max \in Nat, NEW D \in DoomedSets(H, last, max)
  PROVE  Cardinality(H \ D) <= max
<1>1. Cardinality(H) \in Nat
  BY FS_CardinalityType
<1>2. CASE Cardinality(H) <= max
  <2>1. D = {}
    BY <1>2 DEF DoomedSets
  <2>2. H \ D = H
    BY <2>1
  <2> QED BY <1>2, <2>2
<1>3. CASE ~(Cardinality(H) <= max)
  <2>1. D \in SUBSET H /\ Cardinality(D) = Cardinality(H) - max
    BY <1>3 DEF DoomedSets
  <2>2. H \cap D = D
    BY <2>1
  <2>3. Cardinality(H \ D) = Cardinality(H) - Cardinality(H \cap D)
    BY FS_Difference
  <2> QED BY <1>1, <2>1, <2>2, <2>3
<1> QED BY <1>2, <1>3
-----------------------------------------------------------------------------
(* The cascade. The loop of markStale is a recursion over sets of ids,     *)
(* which ends because each pass but the last adds an id.                   *)

\* The naturals are well-founded.
LEMMA LeastNatural ==
  ASSUME NEW S \in SUBSET Nat, S # {}
  PROVE  \E m \in S : \A k \in S : m <= k
<1>1. PICK m \in S : \A k \in S : ~(<<k, m>> \in OpToRel(<, Nat))
  BY WFMin, NatLessThanWellFounded
<1>2. \A k \in S : ~(k < m)
  BY <1>1 DEF OpToRel
<1> QED BY <1>2

\* A bundle has finitely many ids.
LEMMA IdsFinite ==
  ASSUME NEW E, NEW b \in Seq(E)
  PROVE  IsFiniteSet(Ids(b))
<1> DEFINE f == [i \in 1 .. Len(b) |-> b[i].id]
<1>1. DOMAIN b = 1 .. Len(b) /\ Len(b) \in Nat
  BY LenProperties
<1>2. IsFiniteSet(1 .. Len(b))
  BY <1>1, FS_Interval
<1>3. f \in Surjection(1 .. Len(b), Ids(b))
  BY <1>1 DEF Surjection, Ids
<1> QED BY <1>2, <1>3, FS_Surjection

\* The ids a cascade works on.
Known(b, from) == Ids(b) \cup {from}

\* The revisions of S and their descendants: the least closed set S is part of.
Spread(b, from, S) ==
  {x \in Known(b, from) :
     \A T \in SUBSET Known(b, from) : S \subseteq T /\ GrowStale(b, T) \subseteq T => x \in T}

\* What the loop of markStale computes, from any set.
Loops(f, b, from) ==
  f = [S \in SUBSET (Ids(b) \cup {from}) |->
         IF GrowStale(b, S) = S THEN S ELSE f[GrowStale(b, S)]]

\* A pass keeps what it has, stays among the ids of the bundle, and reaches more from more.
LEMMA GrowStaleIs ==
  ASSUME NEW b, NEW from
  PROVE  /\ \A S : S \subseteq GrowStale(b, S)
         /\ \A S \in SUBSET Known(b, from) : GrowStale(b, S) \in SUBSET Known(b, from)
         /\ \A S, T : S \subseteq T => GrowStale(b, S) \subseteq GrowStale(b, T)
<1>1. \A S : GrowStale(b, S) = S \cup {b[i].id : i \in {j \in DOMAIN b : b[j].parents \cap S # {}}}
  BY DEF GrowStale, ToSet
<1> QED BY <1>1 DEF Known, Ids

\* The least closed set satisfies the recursion.
LEMMA SpreadUnrolls ==
  ASSUME NEW b, NEW from, NEW S \in SUBSET Known(b, from)
  PROVE  Spread(b, from, S) = IF GrowStale(b, S) = S THEN S ELSE Spread(b, from, GrowStale(b, S))
<1>1. CASE GrowStale(b, S) = S
  BY <1>1 DEF Spread
<1>2. ASSUME NEW T \in SUBSET Known(b, from), GrowStale(b, T) \subseteq T
      PROVE  S \subseteq T <=> GrowStale(b, S) \subseteq T
  <2>1. S \subseteq GrowStale(b, S) /\ (S \subseteq T => GrowStale(b, S) \subseteq GrowStale(b, T))
    BY GrowStaleIs
  <2> QED BY <1>2, <2>1
<1>3. Spread(b, from, S) = Spread(b, from, GrowStale(b, S))
  BY <1>2 DEF Spread
<1> QED BY <1>1, <1>3

\* The loop has a value: it computes the least closed set.
LEMMA LoopEnds == ASSUME NEW b, NEW from PROVE \E f : Loops(f, b, from)
<1> DEFINE f == [S \in SUBSET (Ids(b) \cup {from}) |-> Spread(b, from, S)]
<1>1. \A S \in SUBSET (Ids(b) \cup {from}) :
        Spread(b, from, S) = IF GrowStale(b, S) = S THEN S ELSE f[GrowStale(b, S)]
  BY SpreadUnrolls, GrowStaleIs DEF Known
<1>2. Loops(f, b, from)
  BY <1>1 DEF Loops
<1> QED BY <1>2

\* ... and no other.
LEMMA LoopIsSpread ==
  ASSUME NEW E, NEW b \in Seq(E), NEW from, NEW f, Loops(f, b, from),
         NEW S \in SUBSET Known(b, from)
  PROVE  f[S] = Spread(b, from, S)
<1> DEFINE U == Known(b, from)
           Size(T) == Cardinality(U \ T)
           wrong == {n \in Nat : \E T \in SUBSET U : n = Size(T) /\ f[T] # Spread(b, from, T)}
<1>1. IsFiniteSet(U)
  BY IdsFinite, FS_AddElement DEF Known
<1>2. \A T \in SUBSET U : IsFiniteSet(U \ T) /\ Size(T) \in Nat
  BY <1>1, FS_Difference, FS_CardinalityType
<1> SUFFICES ASSUME f[S] # Spread(b, from, S) PROVE FALSE
  OBVIOUS
<1>3. wrong # {} /\ wrong \in SUBSET Nat
  BY <1>2
<1>4. PICK n \in wrong : \A m \in wrong : n <= m
  <2> HIDE DEF wrong
  <2> QED BY <1>3, LeastNatural
<1>5. PICK T \in SUBSET U : n = Size(T) /\ f[T] # Spread(b, from, T)
  OBVIOUS
<1> DEFINE G == GrowStale(b, T)
<1>6. f[T] = IF G = T THEN T ELSE f[G]
  BY DEF Loops, Known
<1>7. Spread(b, from, T) = IF G = T THEN T ELSE Spread(b, from, G)
  BY SpreadUnrolls
<1>8. G # T /\ f[G] # Spread(b, from, G)
  BY <1>5, <1>6, <1>7
<1>9. G \in SUBSET U /\ T \subseteq G
  BY GrowStaleIs
<1>10. Size(G) < Size(T)
  <2>1. U \ G \subseteq U \ T /\ U \ G # U \ T
    BY <1>8, <1>9
  <2>2. IsFiniteSet(U \ T) /\ Size(T) \in Nat /\ Size(G) \in Nat
    BY <1>2, <1>9
  <2> DEFINE A == U \ T
             B == U \ G
  <2>3. IsFiniteSet(A) /\ B \in SUBSET A /\ B # A /\ Cardinality(A) \in Nat /\ Cardinality(B) \in Nat
    BY <2>1, <2>2
  <2>4. Cardinality(B) < Cardinality(A)
    <3> HIDE DEF A, B
    <3> QED BY <2>3, FS_Subset
  <2> QED BY <2>4
<1>11. Size(G) \in wrong
  BY <1>2, <1>8, <1>9
<1>12. n <= Size(G) /\ n = Size(T) /\ Size(T) \in Nat /\ Size(G) \in Nat
  BY <1>2, <1>4, <1>5, <1>9, <1>11
<1> HIDE DEF U, Size, wrong, G
<1> QED BY <1>10, <1>12

\* Whatever the order of a bundle and whatever its lineage, the passes of markStale reach the
\* revision, its descendants and nothing else.
LEMMA CascadeIsSpread ==
  ASSUME NEW E, NEW b \in Seq(E), NEW from
  PROVE  Cascade(b, from) = Spread(b, from, {from})
<1> DEFINE f == CHOOSE g : Loops(g, b, from)
<1>1. Loops(f, b, from)
  BY LoopEnds
<1>2. Cascade(b, from) = f[{from}]
  BY DEF Cascade, Loops
<1>3. {from} \in SUBSET Known(b, from)
  BY DEF Known
<1> HIDE DEF f
<1> QED BY <1>1, <1>2, <1>3, LoopIsSpread
=============================================================================
