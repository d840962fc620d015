CONSTANTS
    Order <- MCOrder
    Replaced = {"app", "user"}
    Scratch = {"shm"}
    InData = {"user"}
    App = "app"
    MaxInstalls = 2
    MaxIdentities = 2
    MaxFaults = 2
    MaxUpdates = 1
SPECIFICATION FairSpec
INVARIANTS TypeOK AdmittedWhole RollbackPossible
PROPERTIES KeyUpdatesKept GivesUpOnlySuperseded KeepsPromise RecoveryEnds
CHECK_DEADLOCK FALSE
