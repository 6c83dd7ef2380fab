SPECIFICATION MCSpec
CONSTANTS
  Results = {"PASS"}
  Levels = {1}
  Switchable = {}
  Rewrites = {}
  MaxRuns = 1
  MaxChanges = 1
  Prompts = {"p", "q"}
  Times = {1, 2}
  Found <- MCFound
  MaxKept = 2
  BoxFails = FALSE
  InOrder = TRUE
  LoadsFirst = TRUE
  MaxAsked = 2
  MaxTouches = 2
CHECK_DEADLOCK FALSE
INVARIANTS PrimaryActionRuns
