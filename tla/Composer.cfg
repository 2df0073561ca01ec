SPECIFICATION FairSpec
CONSTANTS
  Modes = {"sequential", "stream", "all", "window"}
  NSteps = 2
  MaxAttempts <- Attempts22
  Limited = {2}
  Capacity = 1
  RetryBudget = 2
  MaxAtoms = 2
  Outcomes = {"ok", "transient", "fatal", "threw", "typeError"}
  Deltas = {0}
  CostBudgets <- NoBudgets
  CostEvents <- NoCostEvent
  Ceiling <- NoCeiling
INVARIANTS
  TypeOK
  RetriesAreCharged
  WorkIsInOrder
  ResultIsTruthful
  ReleasedOnce
  AbortStopsCalls
PROPERTIES
  ImplementsContract
  Terminates
