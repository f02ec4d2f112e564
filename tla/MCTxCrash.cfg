CONSTANTS
    TxCnt = 5
    RecordSize = 2
    SilentOffline = {FALSE}
    PreBoot = FALSE
    StopOnInvalidId = {TRUE, FALSE}
    CutPoints = {"start2", "stop2"}
    FirstTxNr = 0
    ObjId = {1, 2, 3}
    MaxSessions = 2
    MaxPowerCuts = 1
SPECIFICATION Spec
INVARIANTS
    ReportedOnce
CHECK_DEADLOCK FALSE
