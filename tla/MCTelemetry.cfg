CONSTANTS
    a = a
    b = b
    Hosts = {a, b}
    Via <- Jump
    Callers = {c1, c2}
    c1 = c1
    c2 = c2
    Generations <- TwoGenerations
    MaxMonitors = 2
    MaxAttempts = 1
    MaxSamples = 2
    MaxSamplesAll = 3
    BtopPermits = 1
    MaxTerms = 1
    AutoReconnect = TRUE
    Plans <- SmallPlans
SPECIFICATION Spec
SYMMETRY Symmetric
INVARIANTS CollectorsAreOwned StopReachesTheChild GoneHostIsQuiet ConnectionsAreSaved
CHECK_DEADLOCK FALSE
