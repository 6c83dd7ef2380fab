SPECIFICATION MCSpec
CONSTANTS
  Results = {"PASS"}
  Levels = {1}
  Switchable = {4}
  Rewrites = {}
  MaxRuns = 3
  MaxChanges = 2
  Prompts = {"p", "q"}
  Times = {1, 2}
  Found <- MCFound
  MaxKept = 2
  BoxFails = TRUE
  InOrder = TRUE
  LoadsFirst = TRUE
  MaxAsked = 2
  MaxTouches = 2
CHECK_DEADLOCK FALSE
INVARIANTS ShelfKept
