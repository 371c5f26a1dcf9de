SPECIFICATION SupFairSpec
CONSTANTS
  Tasks = {t1, t2, t3}
  Main = Main
  Sup = Sup
  Nobody = Nobody
  Drivers = {t1, t2, t3}
  MaxTurns = 1
INVARIANTS
  CancellationReaches WaiterHolds NeverDetached NoReentrancy AdoptedAreAttended CancelReachesAdopted
PROPERTIES
  JoinsReturn
CHECK_DEADLOCK FALSE
