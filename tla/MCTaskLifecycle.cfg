SPECIFICATION Spec
CONSTANTS
  t1 = t1
  t2 = t2
  c1 = c1
  c2 = c2
  Tasks = {t1, t2}
  Clients = {c1, c2}
  Cancellable = {t1}
  Spawning = {t2}
  Supervisor = Supervisor
  NoTask = NoTask
  MaxFaults = 1
SYMMETRY ClientSymmetry
INVARIANTS TypeOK Exclusive WorkerOwnsRow CancelHonoured
PROPERTIES TerminalIsFinal ImplementsLedger NoLateCancel
