CONSTANTS
    s1 = s1
    s2 = s2
    c1 = c1
    Sessions <- TwoSessions
    MaxGeneration = 2
    MaxOutput = 1
    Closers <- OneCloser
    MaxActive = 2
    MaxRetained = 1
    Faults <- AllFaults
SYMMETRY Symmetry
SPECIFICATION Spec
INVARIANTS EveryChildOwned OutputBeforeExit RetiredHostHasNoChild ClosedIsGone
CHECK_DEADLOCK FALSE
