SPECIFICATION MCSpec
CONSTANTS
  Callers = {c1, c2}
  Limits = {0, 2}
  Window = 3
  Latency = 1
  LastTime = 4
  MaxHits = 5
  MaxFaults = 1
  Keys = {k1, k2, k3}
  MaxKeys = 2
  Resolvers = {r1, r2}
  Backends = {"env", "oidc", "sops"}
  TTL = 2
  MaxRotations = 1
  MaxCalls = 3
  MaxBumps = 2
  LastSecond = 3
  Sources = {"env", "aws", "azure", "gcp", "sops"}
  MaxTurns = 1
  Writers = {w1, w2}
  Spaces = {s1, s2}
  Memories = {"map", "sqlite", "orchestr8"}
  MaxWrites = 4
  MemorySpaces = {s1, s2, None}
  MaxPuts = 3
  MaxLaunches = 4
  MaxEntries = 3
  MaxTicks = 2
  None = None
INVARIANTS
  RedisIsSound
  ResolvedIsFresh
  LastWriteIsRead
  DisposedInOrder
PROPERTIES
  LimitersKeepTheirWord
  DisposeReturns
CHECK_DEADLOCK FALSE
