---------------------------- MODULE MCRevisionStore ----------------------------
(* A small storage-db: three runs, a bound of one or two, three revisions.  *)
(* The store may also start with a run as it is found on disk: three        *)
(* entries of any lineage, forward references, cycles and dangling parents  *)
(* included, since no store checks what it reads.                           *)
EXTENDS RevisionStore, TLC

CONSTANTS ra, rb, rc

MCRuns == {ra, rb, rc}
MCRevIds == 1 .. 3
MCStamps == 1 .. 2
MCOldRuns == {rc}
RunSymmetry == Permutations({ra, rb})

Found(parents) ==
  [i \in MCRevIds |-> [id |-> i, parents |-> parents[i], stamp |-> 1, stale |-> FALSE,
                       lineaged |-> TRUE]]

MCInit ==
  \/ Init
  \/ /\ \E parents \in [MCRevIds -> SUBSET Ids0], r \in {ra, rb} :
          bundle = [x \in Runs |-> IF x = r THEN Found(parents)
                                   ELSE IF x \in OldRuns THEN OldBundle ELSE <<>>]
     /\ committed = {}

MCSpec == MCInit /\ [][Next]_vars
=============================================================================
