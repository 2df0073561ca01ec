SPECIFICATION Spec
CONSTANTS
  Modes = {"sequential", "stream", "all"}
  NSteps = 3
  MaxAttempts <- Attempts222
  Limited = {}
  Capacity = 1
  RetryBudget = 2
  MaxAtoms = 2
  Outcomes = {"ok", "transient"}
  Deltas = {0, 1}
  CostBudgets <- AbortAtTwo
  CostEvents <- DollarEvents
  Ceiling <- DollarCeiling
PROPERTIES
  StageBeginsWithinBudget
