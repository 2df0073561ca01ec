SPECIFICATION Spec
CONSTANTS
  Kinds = {"sqlite"}
  Runs = {r1}
  Keys = {k1}
  NAtoms = 2
  NStages = 1
  MaxAttempts = 1
  MaxPurges = 0
  None = none
INVARIANTS
  AckedIsReadable
CHECK_DEADLOCK FALSE
