------------------------------ MODULE Revisions ------------------------------
(***************************************************************************)
(* Revision entries, bundles and the computations both revision stores do  *)
(* on them (adapters/storage-local, adapters/storage-db).                  *)
(*                                                                         *)
(* A bundle is the sequence of a run's entries in append order; the empty  *)
(* sequence stands for a run the store does not hold (no bundle on disk is *)
(* empty: append pushes before it writes, a manifest with no revisions is  *)
(* refused). An entry keeps what the stores look at: its id, the ids of    *)
(* its parents, its timestamp, its freshness, and whether it records its   *)
(* lineage at all (bundles written before contract 1.3.1 do not).          *)
(***************************************************************************)
EXTENDS Integers, Sequences, FiniteSets, SequencesExt

Entries(IdSet, StampSet) ==
  [id : IdSet, parents : SUBSET IdSet, stamp : StampSet,
   stale : BOOLEAN, lineaged : BOOLEAN]

\* What a caller hands to append: a fresh entry with its lineage recorded.
\* Every writer in the repository names one parent, the previous revision, or none.
NewEntries(IdSet, StampSet) ==
  [id : IdSet, parents : {{}} \cup {{i} : i \in IdSet \cup {0}}, stamp : StampSet,
   stale : {FALSE}, lineaged : {TRUE}]

Ids(b) == {b[i].id : i \in DOMAIN b}

-----------------------------------------------------------------------------
(* Staleness: the cascade along parent_revision_ids.                       *)

\* One pass over the bundle: every entry with a stale parent joins the set.
GrowStale(b, S) == S \cup {e.id : e \in {x \in ToSet(b) : x.parents \cap S # {}}}

\* One pass only: misses a descendant that sits before its stale parent.
CascadeOnePass(b, from) == GrowStale(b, {from})

\* The loop repeats until a pass adds nothing.
Cascade(b, from) ==
  LET grown[S \in SUBSET (Ids(b) \cup {from})] ==
        IF GrowStale(b, S) = S THEN S ELSE grown[GrowStale(b, S)]
  IN  grown[{from}]

\* Refused or a no-op: the id is not in the bundle, or some entry has no lineage.
CanCascade(b, from) ==
  /\ from \in Ids(b)
  /\ \A i \in DOMAIN b : b[i].lineaged

StaleIn(b, S) ==
  [i \in DOMAIN b |-> IF b[i].id \in S THEN [b[i] EXCEPT !.stale = TRUE] ELSE b[i]]

-----------------------------------------------------------------------------
(* Eviction: whole runs, oldest last timestamp first.                      *)

\* The sets of runs an eviction pass may choose among the runs of the set H, when
\* `last` gives each its last timestamp and the store keeps at most max runs.
\* Runs with equal timestamps are in directory (or index) order: any of them.
\* A pass that never takes more than one run, however far over the bound the store is.
DoomedSetsOne(H, last, max) ==
  IF Cardinality(H) <= max
  THEN {{}}
  ELSE {{d} : d \in {x \in H : \A k \in H : last[x] <= last[k]}}

DoomedSets(H, last, max) ==
  IF Cardinality(H) <= max
  THEN {{}}
  ELSE {D \in SUBSET H :
          /\ Cardinality(D) = Cardinality(H) - max
          /\ \A d \in D, k \in H \ D : last[d] <= last[k]}
=============================================================================
