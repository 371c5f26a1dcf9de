SPECIFICATION FairSpec
CONSTANTS
  Tasks = {t1, t2, t3}
  NoTask = NoTask
  InitialWorkers = 1
  WorkerLimit = 2
  MaxCalls = 2
  Endless = {t1}
INVARIANTS
  WorkerForEveryJob NotifyFindsPool CancelledWorkKnows
PROPERTIES
  ImplementsService CallReturns
