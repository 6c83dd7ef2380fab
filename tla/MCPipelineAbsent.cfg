SPECIFICATION Spec
CONSTANTS
  Depths <- StandardOnly
  Iterations = {0}
  NoCap = NoCap
  Caps = {NoCap}
  MaxFeedbackRounds = 2
  MaxAttempts = 2
  MaxFaults = 2
INVARIANTS NothingFromNothing
CHECK_DEADLOCK FALSE
