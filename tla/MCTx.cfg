CONSTANTS
    TxCnt = 5
    RecordSize = 2
    SilentOffline = {TRUE, FALSE}
    PreBoot = TRUE
    StopOnInvalidId = {TRUE, FALSE}
    CutPoints = {"idle", "trim", "trimmed", "alloc", "evicted", "created", "begin", "collect", "silent", "start1", "stop1", "pop"}
    FirstTxNr = 3
    ObjId = {1, 2, 3}
    MaxSessions = 3
    MaxPowerCuts = 1
SPECIFICATION FairSpec
INVARIANTS
    TypeOK
    ReportedOnce
    NoLeak
    OpenStays
    NoDangling
PROPERTIES
    Settled
    Released
CHECK_DEADLOCK FALSE
