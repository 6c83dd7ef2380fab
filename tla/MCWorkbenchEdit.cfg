SPECIFICATION Spec
CONSTANTS
  Results = {"PASS"}
  Levels = {1}
  Switchable = {}
  Rewrites = {}
  MaxRuns = 1
  MaxChanges = 1
CHECK_DEADLOCK FALSE
INVARIANTS VerdictFollowsTemplates
