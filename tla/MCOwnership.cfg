SPECIFICATION Spec
CONSTANTS
    Bodies <- AllBodies
    MaxLocals = 3
    MaxRounds = 2
INVARIANTS MovesAreSound OwnedOnce LoansAreSound ResultsAreSound
CHECK_DEADLOCK FALSE
