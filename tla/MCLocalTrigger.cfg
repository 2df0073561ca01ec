SPECIFICATION MCSpec
CONSTANTS
  Callers = {c1}
  MaxRegs = 2
  MaxServers = 3
  MaxTimers = 3
  MaxRequests = 2
  NRegs = 3
  Matches <- SecondSkipsOne
  LastMinute = 2
  Ticks = {t1, t2}
  MaxStops = 1
  Low = 1
  High = 3
  MaxStep = 3
  MaxParts = 2
  Targets <- HooksAndEvents
  RegsOfAll = 3
  MaxCalls = 1
INVARIANTS
  AdapterIsSound
  TriggersFireAsMeant
PROPERTIES
  StopsAndFires
CHECK_DEADLOCK FALSE
