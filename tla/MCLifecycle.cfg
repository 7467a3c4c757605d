CONSTANTS
    p1 = p1
    p2 = p2
    p3 = p3
    i1 = i1
    i2 = i2
    i3 = i3
    Launches <- MCLaunches
    Pids = {i1, i2, i3}
    Kind <- MCKind
    Faults <- EveryFault
SPECIFICATION Spec
INVARIANTS
    DescriptorIsTrue
    SingleWriter
PROPERTY StopEnds
CHECK_DEADLOCK FALSE
