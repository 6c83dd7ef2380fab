SPECIFICATION Spec
CONSTANTS
  r1 = r1
  r2 = r2
  b1 = b1
  b2 = b2
  Null = Null
  Runs <- TwoRuns
  Bodies <- TwoBodies
  MaxBundles = 1
  SweepLimit = 2
  Stages = 2
  MaxFaults = 2
SYMMETRY RunBodySymmetry
INVARIANTS NoDanglingRef NoTruncatedBundle
PROPERTIES NothingOrphaned OwnBodiesSurvive
CHECK_DEADLOCK FALSE
