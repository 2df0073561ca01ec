SPECIFICATION MCSpec
CONSTANTS
  HeaderMax = 10
  None = None
  NPieces = 2
  Iterators = {1, 2}
  Values <- MCValues
  Dates <- MCDates
  TraceIds = {"t1", "t2"}
INVARIANTS
  FramesArrive
  RuntimesAgree
  ValuesArrive
  TelemetryIsTrue
CHECK_DEADLOCK FALSE
