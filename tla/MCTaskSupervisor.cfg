SPECIFICATION FairSpec
CONSTANTS
  t1 = t1
  c1 = c1
  c2 = c2
  Tasks = {t1}
  Clients = {c1, c2}
  Cancellable = {t1}
  Spawning = {t1}
  Supervisor = Supervisor
  NoTask = NoTask
  MaxFaults = 1
PROPERTIES Finishes
