CONSTANTS
    TxCnt = 5
    RecordSize = 2
    SilentOffline = {TRUE, FALSE}
    PreBoot = TRUE
    StopOnInvalidId = {TRUE, FALSE}
    CutPoints = {"idle"}
    FirstTxNr = 0
    ObjId = {1, 2, 3}
    MaxSessions = 1
    MaxPowerCuts = 1
SPECIFICATION FairSpec
PROPERTIES
    AlwaysReleased
CHECK_DEADLOCK FALSE
