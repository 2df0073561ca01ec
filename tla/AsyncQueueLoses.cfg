SPECIFICATION Spec
CONSTANTS
  Items = {m1, m2}
  Iterators = {i1, i2}
  Closable = FALSE
  MaxDrains = 0
INVARIANTS
  ItemsAreHeld
CHECK_DEADLOCK FALSE
