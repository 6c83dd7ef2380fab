SPECIFICATION Spec
CONSTANTS
  Results = {"PASS"}
  Levels = {3}
  Switchable = {}
  Rewrites = {}
  MaxRuns = 3
  MaxChanges = 1
CHECK_DEADLOCK FALSE
INVARIANTS VerdictWaits
