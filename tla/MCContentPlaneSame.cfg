SPECIFICATION Spec
CONSTANTS
  r1 = r1
  r2 = r2
  b1 = b1
  b2 = b2
  Null = Null
  Runs <- TwoRuns
  Bodies <- TwoBodies
  MaxBundles = 2
  SweepLimit = 2
  Stages = 1
  MaxFaults = 0
INVARIANTS NoFalseCorruption
CHECK_DEADLOCK FALSE
