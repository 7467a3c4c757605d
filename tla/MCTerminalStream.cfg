CONSTANTS
    Tabs = {t1, t2}
    Sockets = {1, 2}
    ReplayLimit = 1
    Buffer = 1
    Sizes = {1}
    MaxSequence = 2
    MaxAttempts = 3
    MaxFaults = 1
    MaxGeneration = 2
    MaxWire = 1
SYMMETRY TabSymmetry
SPECIFICATION Spec
INVARIANT NoUnexplainedGap
PROPERTIES
    RecoveryOnlyRenews
    InputIsOwned
CHECK_DEADLOCK FALSE
