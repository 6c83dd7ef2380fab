SPECIFICATION MCSpec
CONSTANTS
  Clients = {"a", "b"}
  Handlers = {1, 2}
  Window = 3
  Second = 2
  GeneralLimit = 1
  ProviderLimit = 1
  GlobalLimit = 2
  MaxAttempts = 2
  CallCap = 2
  Excess = 1
  MaxClock = 6
  Cases = {1, 2, 3}
  Missing = {2}
  Trials = 2
  Attempts = 2
  Caps = {3, 6}
  MaxRuns = 2
  PinnedOnly = {3}
  HostedProviders = {"openai", "gemini", "compatible"}
  Configured = {"openai", "gemini"}
  Target = "openai"
  HealthCache = 1
  HealthTimeout = 1
  Askers = {1, 2}
  MaxTime = 3
  MaxSwings = 1
CHECK_DEADLOCK FALSE
INVARIANTS CeilingsAgree
