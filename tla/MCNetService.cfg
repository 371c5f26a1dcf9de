SPECIFICATION FairSpec
CONSTANTS
    s1 = s1 s2 = s2
    NoService = NoService
    Fds = {1, 2}
    Services = {s1, s2}
    MaxAddresses = 2
    Cancellable = {"accept", "connect"}
    Timed = {"connect"}
    Workloads <- Each
INVARIANTS RequestsAreServed DescriptorsAreOwned ServiceKeepsToItsSockets
PROPERTY RequestEnds
CHECK_DEADLOCK FALSE
