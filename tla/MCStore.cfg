SPECIFICATION MCSpec
CONSTANTS
  Kinds = {"postgres", "sqlite", "pgvector"}
  Runs = {r1, r2}
  Keys = {k1, k2}
  NAtoms = 2
  NStages = 1
  MaxAttempts = 2
  MaxPurges = 1
  None = none
  Schemas = {"string", "date", "coerce", "transform"}
  Atoms = {1, 2}
  Clock = {1, 2}
  Zones = {0, 2}
  Distances = {1, 2}
  MaxPuts = 3
  PageSize = 1
INVARIANTS
  KeysNameRows
  PutsAreStored
  ReadsAreTrue
PROPERTIES
  KeysStand
CHECK_DEADLOCK FALSE
