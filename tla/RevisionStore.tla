---------------------------- MODULE RevisionStore ----------------------------
(***************************************************************************)
(* The RevisionStore port as storage-db keeps it: SQLite, every operation  *)
(* one BEGIN IMMEDIATE transaction, so one atomic step of this module. It  *)
(* is both the model of storage-db and the specification storage-local is  *)
(* shown to implement (module LocalStore).                                 *)
(*                                                                         *)
(* A call that is refused (mixed lineage, immutable manifest, unknown id,  *)
(* unlineaged bundle, duplicate primary key) rolls back and changes        *)
(* nothing, so it is no step here.                                         *)
(***************************************************************************)
EXTENDS Revisions

CONSTANTS
  Runs,        \* run ids
  MaxBundles,  \* MAX_BUNDLES: the number of runs the store keeps (8 in the code)
  RevIds,      \* revision ids callers may use
  Stamps,      \* timestamps callers may use
  OldRuns      \* runs already stored when the process starts, written before 1.3.1

ASSUME StoreAssumption ==
  /\ IsFiniteSet(Runs)
  /\ MaxBundles \in Nat \ {0}
  /\ RevIds \subseteq Nat \ {0}
  /\ Stamps \subseteq Nat
  /\ OldRuns \subseteq Runs
  /\ 1 \in Stamps

VARIABLES
  bundle,      \* table revisions: the rows of each run, in the order inserted
  committed    \* table manifests: the runs published by commitManifest

vars == <<bundle, committed>>

Ids0 == RevIds \cup {0}

\* A bundle from before contract 1.3.1: one entry, no recorded lineage.
OldBundle == <<[id |-> 0, parents |-> {}, stamp |-> 1, stale |-> FALSE, lineaged |-> FALSE]>>

Held(b) == {r \in Runs : b[r] # <<>>}

StoredIds(b) == UNION {Ids(b[r]) : r \in Runs}

\* MAX(timestamp) of a run's rows (any value for a run with none).
LastStamp(b) ==
  [r \in Runs |-> IF b[r] = <<>> THEN 0
                  ELSE CHOOSE t \in {e.stamp : e \in ToSet(b[r])} :
                         \A e \in ToSet(b[r]) : e.stamp <= t]

Init ==
  /\ bundle = [r \in Runs |-> IF r \in OldRuns THEN OldBundle ELSE <<>>]
  /\ committed = {}

\* evict(), run inside the transaction of append: the rows and the manifest rows of D go.
EvictFrom(b, D) == [r \in Runs |-> IF r \in D THEN <<>> ELSE b[r]]

\* Eviction that forgets the manifests table.
EvictManifestsNone(m, D) == m

EvictManifests(m, D) == m \ D

\* append whose eviction pass picks any runs, not the oldest.
AppendEvictAny(r, e) ==
  /\ r \notin committed
  /\ e.id \notin StoredIds(bundle)
  /\ LET grown == [bundle EXCEPT ![r] = Append(@, e)]
     IN \E D \in DoomedSets(Held(grown), [x \in Runs |-> 0], MaxBundles) :
          /\ bundle' = EvictFrom(grown, D)
          /\ committed' = EvictManifests(committed, D)

\* append: refuse a committed run, insert the row, evict, commit.
AppendEntry(r, e) ==
  /\ r \notin committed
  /\ e.id \notin StoredIds(bundle)
  /\ LET grown == [bundle EXCEPT ![r] = Append(@, e)]
     IN \E D \in DoomedSets(Held(grown), LastStamp(grown), MaxBundles) :
          /\ bundle' = EvictFrom(grown, D)
          /\ committed' = EvictManifests(committed, D)

\* commitManifest: refuse a run already published or already holding rows, then insert
\* every revision and the manifest row. It runs no eviction.
CommitManifest(r, revs) ==
  /\ r \notin committed
  /\ bundle[r] = <<>>
  /\ Ids(revs) \cap StoredIds(bundle) = {}
  /\ bundle' = [bundle EXCEPT ![r] = revs]
  /\ committed' = committed \cup {r}

\* markStale: refuse a committed run; otherwise stale the revision and all its descendants.
MarkStale(r, from) ==
  /\ r \notin committed
  /\ CanCascade(bundle[r], from)
  /\ bundle' = [bundle EXCEPT ![r] = StaleIn(@, Cascade(@, from))]
  /\ UNCHANGED committed

Next ==
  \E r \in Runs :
    \/ \E e \in NewEntries(RevIds, Stamps) : AppendEntry(r, e)
    \/ \E e \in NewEntries(RevIds, Stamps) : CommitManifest(r, <<e>>)
    \/ \E from \in Ids0 : MarkStale(r, from)

Spec == Init /\ [][Next]_vars

-----------------------------------------------------------------------------
(* Properties.                                                             *)

TypeOK ==
  /\ bundle \in [Runs -> Seq(Entries(Ids0, Stamps))]
  /\ committed \subseteq Runs

\* A manifest row is never left without its revisions: eviction deletes from both tables
\* (storage-db evict), so no run is immutable and empty for ever.
CommittedHasRevisions == committed \subseteq Held(bundle)

\* A committed manifest never changes; it can only be evicted, whole, from both tables
\* (contracts/CHANGELOG: "Immutable after publication").
CommittedImmutable ==
  [][\A r \in committed :
       \/ r \in committed' /\ bundle'[r] = bundle[r]
       \/ r \notin committed' /\ bundle'[r] = <<>>]_vars

\* Only commitManifest, which runs no eviction, can take the store over its bound; every
\* append brings it back to the bound, however far manifests had taken it.
BoundRestored ==
  [][Cardinality(Held(bundle')) > MaxBundles =>
       \/ committed' \ committed # {}
       \/ /\ Held(bundle') = Held(bundle)
          /\ \A r \in Runs : Len(bundle'[r]) = Len(bundle[r])]_vars

\* A run is retained or evicted whole: a step extends a bundle, changes freshness inside
\* it, or removes all of it, and what is removed is no newer than anything that stays.
WholeRunsOldestFirst ==
  [][\A r \in Held(bundle) :
       IF bundle'[r] = <<>>
       THEN \A k \in Held(bundle') : LastStamp(bundle)[r] <= LastStamp(bundle')[k]
       ELSE \A i \in DOMAIN bundle[r] :
              /\ i \in DOMAIN bundle'[r]
              /\ bundle'[r][i].id = bundle[r][i].id
              /\ bundle[r][i].stale => bundle'[r][i].stale]_vars

ClosedIn(b, S) == \A i \in DOMAIN b : b[i].parents \cap S # {} => b[i].id \in S

\* The passes of the loop of markStale reach exactly the revision and its descendants, the least
\* set with it and every entry that has a parent in the set, in whatever order a bundle holds
\* them.
CascadeIsDescendants ==
  \A r \in Runs : \A from \in Ids(bundle[r]) :
    Cascade(bundle[r], from) =
      {x \in Ids(bundle[r]) : \A S \in SUBSET Ids(bundle[r]) :
         from \in S /\ ClosedIn(bundle[r], S) => x \in S}
=============================================================================
