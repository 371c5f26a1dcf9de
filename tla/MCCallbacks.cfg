SPECIFICATION FairSpec
CONSTANTS
    e1 = e1 e2 = e2 a = a b = b w = w x = x
    Threads = {e1, e2}
    Tasks = {a, b, w, x}
    Home <- HomeOf
    Cancellable = {b, w}
    Programs <- Together
    Callers = {a, b}
    Watchers = {w, x}
    MaxConcurrent = 1
    MaxQueue = 1
    MaxJobs = 1
INVARIANTS NoPanic PermitsAreCounted WritersFindOperation
PROPERTY WaitReturns
CHECK_DEADLOCK FALSE
