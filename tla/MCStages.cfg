SPECIFICATION Spec
CONSTANTS
  Ids = {a, b}
  Nil = Nil
  PipelineFiles = {1, 2}
  MaxChanges = 2
  GapShapes <- SomeShapes
  MaxRetries = 2
  Width = 2
  Depth = 2
  RuleSet <- SomeRules
  Categories = {"c1", "c2"}
  Sizes = {1, 2, 3}
  MaxItems = 4
  MaxErrors = 1
  Outputs <- SomeOutputs
  MaxCases = 2
  Concurrency = {1, 2}
  Models = {"anthropic:a", "openai:b", "x:c"}
  MaxCalls = 2
  MaxPipes = 4
  MaxSteps = 4
  MaxRuns = 2
  Limit = 1
  RunIds <- SomeRunIds
  ServeIds <- SomeServeIds
  AtomIds <- SomeAtomIds
  MaxContexts = 3
  MaxAttached = 2
INVARIANTS
  ExtractionFollows
  RightBranch
  SummaryIsTrue
  RunsWhatWasBuilt
  CommandsAreTrue
CHECK_DEADLOCK FALSE
