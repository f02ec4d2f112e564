CONSTANTS
    Day = 3
    Week = 6
    MaxTime = 99
    Unlimited = 9
    MaxLevel = 1
    N = 1
    MaxInstalled = 2
    MaxPeriods = 4
    Catalogue <- Profiles
    Filters <- AFewFilters
    TxIds = {7}
    FreeVending = TRUE
    Cuts = {"pass", "store", "clear"}
    LastTime = 4
    MaxFaults = 1
SPECIFICATION Spec
INVARIANTS
    TypeOK
    LimitInForce
    ChangesLater
    ScheduleExact
    AsAccepted
    FlashAgrees
PROPERTY EndsWithTx
CHECK_DEADLOCK FALSE
