SPECIFICATION StreamSpec
CONSTANTS
    LogLimit = 2
    ByteLimit = 4
    Capacity = 1
    BusCapacity = 1
    Kinds <- AllKinds
    Sizes <- SmallEvents
    Resumable = TRUE
    MaxStates = 4
    MaxTaskStates = 3
    MaxRemovals = 1
    MaxConnects = 2
    MaxWire = 1
INVARIANT NoSilentGap
 
CHECK_DEADLOCK FALSE
