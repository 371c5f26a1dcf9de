SPECIFICATION FairSpec
CONSTANTS
  Jobs = {j1, j2, j3}
  Endless = {j1, j2}
  Deaf = {j2}
  Workers = {w1, w2}
  MaxTurns = 1
  NoJob = NoJob
INVARIANTS
  JoinedIsEmpty
PROPERTIES
  ImplementsService ShutdownEnds
