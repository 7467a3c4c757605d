SPECIFICATION JobsSpec
CONSTANTS
    HostIds = {h1}
    MaxConcurrency = 1
    MaxPending = 1
    MaxRetained = 2
    MaxLarge = 1
    Deletable = {h1}
    Faults <- EveryFault
    MaxJobs = 2
    MaxStarts = 1
INVARIANT RetiredHostIsQuiet
PROPERTIES
    TerminalIsFinal
    CancelEnds
CHECK_DEADLOCK FALSE
