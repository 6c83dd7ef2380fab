SPECIFICATION FairSpec
CONSTANTS
  ra = ra
  rb = rb
  rc = rc
  c1 = c1
  c2 = c2
  p1 = p1
  p2 = p2
  Runs <- MCRuns
  MaxBundles = 1
  RevIds <- MCRevIds
  Stamps <- MCStamps
  OldRuns <- MCOldRuns
  Procs <- OneProc
  Clients <- MCClients
  ProcOf <- OneProcOf
  Kinds = {"append", "commit", "stale"}
  StaleAlone = TRUE
  MaxCrashes = 1
INVARIANTS OneModePerRun NoRevisionLost
PROPERTIES BoundAfterAppend CallsSettle
CHECK_DEADLOCK FALSE
