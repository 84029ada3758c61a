CONSTANTS
  c1 = c1
  c2 = c2
  Clients = {c1, c2}
  MaxInstalls = 3
  Fails = TRUE
SPECIFICATION FairSpec
INVARIANTS TypeOK PinProtects RecordOutlivesAll
PROPERTIES InterruptsTheDeadOnly InstallsAfterRemoval RemovalEnds
CHECK_DEADLOCK FALSE
