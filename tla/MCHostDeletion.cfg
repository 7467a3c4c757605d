CONSTANTS
    Hosts = {h1}
    HostIds <- Keys
    Operations = {o1, o2}
    Deletions <- RegistryNames
    Starters = {s1}
SPECIFICATION DeletionSpec
INVARIANTS
    QuietUntilRestored
    DeletedHostIsQuiet
    FailedDeletionRestores
PROPERTIES
    DeletionEnds
CHECK_DEADLOCK FALSE
