CONSTANTS
    TxCnt = 5
    RecordSize = 2
    SilentOffline = {FALSE}
    PreBoot = FALSE
    StopOnInvalidId = {TRUE, FALSE}
    CutPoints = {"idle", "trim", "trimmed", "alloc", "evicted", "created", "begin", "collect", "silent", "start1", "stop1", "pop"}
    FirstTxNr = 0
    ObjId = {1, 2, 3}
    MaxSessions = 3
    MaxPowerCuts = 0
SPECIFICATION Spec
INVARIANTS
    OpenIsKept
CHECK_DEADLOCK FALSE
