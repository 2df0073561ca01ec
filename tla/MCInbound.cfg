SPECIFICATION MCSpec
CONSTANTS
  Items = {m1, m2, m3}
  Iterators = {i1, i2}
  Closable = TRUE
  MaxDrains = 1
  Rows = {1, 2, 3, 4, 5}
  Bad = {4}
  PageSizes = {0, 2}
  MaxChanges = 2
  Poll = 2
  MaxWait = 3
  Latency = 1
  LastTime = 7
  Secrets = {1, 2}
  Second = 2
  Tolerance = 4
  Skew = 1
INVARIANTS
  QueueIsSound
  SourcesAreSound
PROPERTIES
  HandedOverAndRead
CHECK_DEADLOCK FALSE
