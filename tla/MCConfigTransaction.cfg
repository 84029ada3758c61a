CONSTANTS
  MaxUpdates = 4
  Keep = 2
SPECIFICATION Spec
INVARIANTS TypeOK Recoverable RunsActive StopHolds
PROPERTIES UpdateAtomic RestoredIsTrue
