CONSTANTS
    Jobs <- ThreeJobs
    MaxRounds = 2
    Hosts = {"h"}
    Names = {"f", "g"}
    Existing = {"f"}
    Directions <- BothWays
    Plans <- SmallPlans
    MaxActive = 2
    MaxRetained = 3
    Faults <- AllFaults
SPECIFICATION Spec
INVARIANTS NeverNeither OutcomeIsTrue RetiredHostIsQuiet
PROPERTY OneAttempt
CHECK_DEADLOCK FALSE
