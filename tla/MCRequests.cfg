CONSTANTS
    r1 = r1
    r2 = r2
    k1 = k1
    save = save
    deploy = deploy
    Callers <- TwoCallers
    Keys <- OneKey
    Bodies <- MixedBodies
    Long <- LongBodies
    RequestLimit = 1
    AdmissionLimit = 1
    PendingLimit = 1
    RetainedLimit = 1
    LargeLimit = 0
    Permits = 1
    Faults <- EveryFault
SPECIFICATION Spec
INVARIANTS
    AnswersAreTrue
    CleanupIsQuiet
PROPERTIES
    Idempotent
    CallersAnswered
CHECK_DEADLOCK FALSE
