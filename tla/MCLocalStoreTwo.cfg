SPECIFICATION Spec
CONSTANTS
  ra = ra
  rb = rb
  rc = rc
  c1 = c1
  c2 = c2
  p1 = p1
  p2 = p2
  Runs <- MCRuns
  MaxBundles = 1
  RevIds <- MCRevIds
  Stamps <- MCStamps
  OldRuns = {}
  Procs <- TwoProcs
  Clients <- MCClients
  ProcOf <- TwoProcsOf
  Kinds = {"append", "commit"}
  StaleAlone = TRUE
  MaxCrashes = 1
PROPERTIES ManifestImmutable
CHECK_DEADLOCK FALSE
