SPECIFICATION MigrationSpec
CONSTANTS
    NONE = NONE  Absent = Absent  Garbled = Garbled
    c1 = c1  c2 = c2
    Clients <- MCClients
    Aliases = {"bastion", "gate", "lab", "node", "old-gate", "old-lab"}
    Endpoints = {"e1", "e2", "e3", "e4"}
    Hashes = {"v1", "lp"}
    Drafts <- MCDrafts
    Names = {"n"}
    SettingValues = {1, 2}
    InitialDocs <- MCInitialDocs
    Bundles <- MCBundles
    Selections <- MCSelections
    SshConfigs <- MCSshConfigs
    MaxHosts = 4
    MaxIds = 4
    MaxRecords = 1
    MaxEvents = 7
    MaxFaults = 3
    MaxCorruptions = 1
INVARIANTS JumpsAreSound ImportedOnce
PROPERTIES RoutesAreStable SurvivesRestart
CONSTRAINT Scope
SYMMETRY ClientSymmetry
CHECK_DEADLOCK FALSE
