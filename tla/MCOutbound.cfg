SPECIFICATION MCSpec
CONSTANTS
  Runs = {r1, r2}
  Keys = {k1, k2}
  NServes = 2
  Providers = {"slack", "webhook", "resend", "mcp"}
  MaxAttempts = 2
  MaxFaults = 2
  Interval = 1
  Timeout = 3
  Latency = 1
  LastTime = 5
  Adapters = {"webhook", "slack", "smtp", "resend", "postal", "mcp"}
  Attempts = 3
  MayAbort = TRUE
  None = None
  Stages = {s1, s2}
  MaxTries = 2
  MaxLines = 3
  Emits = {"e1", "e2"}
  Backoff = 3
  Tolerance = 2
  MaxSteps = 2
INVARIANTS
  DeliveredWithCause
  AnswersAreUnderstood
  ReviewIsHeeded
CHECK_DEADLOCK FALSE
