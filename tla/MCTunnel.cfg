CONSTANTS
    t1 = t1
    h1 = h1
    h2 = h2
    Tunnels <- OneTunnel
    HostIds <- Hosts
    Target <- TargetH1
    Route <- ViaH2
    Configs <- BothConfigs
    MaxActive = 1
    MaxEntries = 1
    MaxHealthFailures = 2
    Faults <- EveryFault
    MaxGeneration = 3
    Settings = {s1, s2}
SYMMETRY SettingsSymmetry
SPECIFICATION Spec
INVARIANTS
    EveryProcessOwned
    StoppedForwardsNothing
    ActiveUsesSavedProfile
PROPERTIES
    NoRevival
    StopsLoseNothing
CHECK_DEADLOCK FALSE
