SPECIFICATION FairSpec
CONSTANTS
    s1 = s1 s2 = s2
    NoService = NoService
    Fds = {1, 2}
    Services = {s1, s2}
    MaxAddresses = 2
    Cancellable = {"read"}
    Timed = {}
    Workloads <- Shared
PROPERTY CancelEnds
CHECK_DEADLOCK FALSE
