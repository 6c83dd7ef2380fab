SPECIFICATION MCSpec
CONSTANTS
  Results = {"PASS"}
  Levels = {1, 4}
  Switchable = {4}
  Rewrites <- MCRewrites
  MaxRuns = 2
  MaxChanges = 2
  Prompts = {"p", "q"}
  Times = {1, 2}
  Found <- MCFound
  MaxKept = 2
  BoxFails = FALSE
  InOrder = TRUE
  LoadsFirst = TRUE
  MaxAsked = 2
  MaxTouches = 2
CHECK_DEADLOCK FALSE
INVARIANTS ShippableIsVerified OrderlyTextsCurrent ShelfKept
