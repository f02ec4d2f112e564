CONSTANTS
    MaxOpNr = 6
    HistorySize = 1
    MaxMisses = 2
    SyncWindow = 3
    CacheSize = 1
    BootAttempts = {1}
    ExtraAttempts = 6
    StatusFirst = TRUE
    FirstOpNr = 4
    MaxTx = 2
    MaxOther = 1
    MaxPending = 3
    MaxInbox = 1
    MaxPowerCuts = 1
    MaxWriteFails = 0
SPECIFICATION FairSpec
INVARIANTS
    NoTwin
    OwnAnswer
PROPERTIES
    OldestFirst
    ImplementsOutbox
CHECK_DEADLOCK FALSE
