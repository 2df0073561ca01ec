SPECIFICATION MCSpec
CONSTANTS
  NSteps = 2
  NItems = 2
  Retries = 2
  Policy = "error"
  Injected = TRUE
  Makers = {"createKitFunction", "InngestTriggerAdapter"}
  Guards <- FiveShapes
  Registered <- OneTrigger
  Triggers <- SomeTriggers
  Keys = {k1, null}
  Pipelines = {p1, p2}
  Window = 2
  MaxEvents = 2
  MaxCalls = 2
  MaxTime = 3
  Null = null
INVARIANTS
  RunIsSound
  FunctionIsGuarded
PROPERTIES
  ReplayIsSafe
