CONSTANTS
  c1 = c1
  c2 = c2
  Clients = {c1, c2}
  MaxInstalls = 1
  Fails = TRUE
SPECIFICATION Spec
INVARIANTS FailureIsRecorded
SYMMETRY Symmetry
CHECK_DEADLOCK FALSE
