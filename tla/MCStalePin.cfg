CONSTANTS
  c1 = c1
  c2 = c2
  Clients = {c1, c2}
  MaxInstalls = 2
  Fails = TRUE
SPECIFICATION Spec
INVARIANTS RemovalWaits
SYMMETRY Symmetry
CHECK_DEADLOCK FALSE
