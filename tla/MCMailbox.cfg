SPECIFICATION FairSpec
CONSTANTS
  Tasks = {t1, t2}
  Sources = {mailbox, completions}
  Wakers = {w1, w2}
  Escaping = {}
  MaxParks = 2
  NoTask = NoTask
INVARIANTS
  NoLostWakeup NotifyFindsHub
PROPERTIES
  PostedRuns
