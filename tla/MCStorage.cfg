CONSTANTS
    Missing = Missing
    Empty = Empty
    Torn = Torn
    NoEntry = NoEntry
    Removed = Removed
    Operations = {"cut", "fail", "declare", "change", "local", "list", "session", "sample"}
    Keys = {"interval", "tag", "available"}
    Declared <- MCDeclared
    Containers = {"ocpp-config", "client-state"}
    Public = {"ocpp-config"}
    Texts <- MCTexts
    MaxText = 5
    Revisions = 16
    StoredBefore <- MCStoredBefore
    Tags = {1, 2, 3, 4}
    Granted = {"Accepted", "Blocked"}
    Updates <- MCUpdates
    Versions = {1, 2, 3}
    MaxList = 3
    Sessions = {1, 2, 3}
    TxCnt = 4
    RecordSize = 2
    MaxData = 3
    MissesLimit = 3
    CacheSize = 2
    InTxOnly = {TRUE, FALSE}
    Scenarios <- MCScenarios
SPECIFICATION Spec
INVARIANTS TypeOK Kept InStep OwnValues WholeRecord Attributed
CHECK_DEADLOCK FALSE
