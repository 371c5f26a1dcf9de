SPECIFICATION Spec
CONSTANTS
  Tasks = {t1, t2}
  Sources = {mailbox, completions}
  Wakers = {w1, w2}
  Escaping = {t1}
  MaxParks = 2
  NoTask = NoTask
INVARIANTS
  NotifyFindsHub
