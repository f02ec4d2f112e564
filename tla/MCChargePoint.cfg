CONSTANTS
    N = 2
    Tags = {"a", "b"}
    Parents = {"p"}
    Slots = 2
    ReservationIds = {1, 2}
    Operations <- Names
    Apps <- AppKinds
    ResetRetries = 1
    UIntMax = 2
    AutoRecover = TRUE
    MaxFailures = 1
    Scenarios <- AFew
SPECIFICATION Spec
INVARIANTS
    TypeOK
    NoChargingUnderReset
    Honoured
PROPERTIES
    FailureReported
    MaintenanceEnds
    GivenBack
    Informed
CHECK_DEADLOCK FALSE
