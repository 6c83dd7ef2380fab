SPECIFICATION MCSpec
CONSTANTS
  ra = ra
  rb = rb
  rc = rc
  Runs <- MCRuns
  MaxBundles = 1
  RevIds <- MCRevIds
  Stamps <- MCStamps
  OldRuns <- MCOldRuns
SYMMETRY RunSymmetry
INVARIANTS CommittedHasRevisions CascadeIsDescendants
PROPERTIES WholeRunsOldestFirst
CHECK_DEADLOCK FALSE
