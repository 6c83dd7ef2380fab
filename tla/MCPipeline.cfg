SPECIFICATION FairSpec
CONSTANTS
  Depths <- MCDepths
  Iterations = {0, 1, 4}
  NoCap = NoCap
  Caps = {NoCap, 20}
  MaxFeedbackRounds = 2
  MaxAttempts = 2
  MaxFaults = 2
INVARIANTS CallsWithinPlan VerdictsCurrent NoPromptLaundered FreshBundleIsThePlan FreshVerdictsCurrent GateFailsExhaustRounds JudgedIsModelOutput
PROPERTIES Terminates
CHECK_DEADLOCK FALSE
