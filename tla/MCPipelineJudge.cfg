SPECIFICATION Spec
CONSTANTS
  Depths <- StandardOnly
  Iterations = {1}
  NoCap = NoCap
  Caps = {NoCap}
  MaxFeedbackRounds = 2
  MaxAttempts = 2
  MaxFaults = 2
INVARIANTS JudgedSurvives
CHECK_DEADLOCK FALSE
