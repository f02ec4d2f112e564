CONSTANTS
    MaxOpNr = 6
    HistorySize = 1
    MaxMisses = 2
    SyncWindow = 3
    CacheSize = 1
    BootAttempts = {1}
    ExtraAttempts = 0
    StatusFirst = TRUE
    FirstOpNr = 4
    MaxTx = 3
    MaxOther = 0
    MaxPending = 3
    MaxInbox = 1
    MaxPowerCuts = 1
    MaxWriteFails = 0
SPECIFICATION Spec
INVARIANTS
    OwnAnswer
CHECK_DEADLOCK FALSE
