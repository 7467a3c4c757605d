CONSTANTS
    Hosts = {h1}
    HostIds <- Keys
    Operations = {o1}
    Deletions <- RegistryNames
    Starters = {s1}
SPECIFICATION DeletionSpec
INVARIANT NoInvisibleForward
CHECK_DEADLOCK FALSE
