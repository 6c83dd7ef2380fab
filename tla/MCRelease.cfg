SPECIFICATION MCSpec
CONSTANTS
  r1 = r1
  r2 = r2
  r3 = r3
  b1 = b1
  m1 = m1
  m2 = m2
  c1 = c1
  c2 = c2
  mode = mode
  RunIds = {r1, r2}
  BaselineIds = {b1}
  ComparisonIds = {m1}
  PromotionIds = {1, 2}
  Clients = {c1, c2}
  Configurations = {"x", "y"}
  Measured <- MCMeasured
  Times = {1, 2}
  Modes = {mode}
  Granularity <- MCGranularity
  Absent = Absent
  Torn = Torn
  Detectors = {"length"}
  Suites <- MCSuites
  RecallPairs <- MCRecallPairs
  Alpha <- MCAlpha
  RowsPerCase = {1, 2}
  MaxClusters = 7
INVARIANTS PromotionsAreCertified CurrentIsFresh NoArtifactVerdict RefusedIsHopeless
PROPERTIES EvidenceImmutable
