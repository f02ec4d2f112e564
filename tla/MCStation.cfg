CONSTANTS
    HeaderHigh = 171
    HeaderLow = 205
    Noise <- MCNoise
    Connectors = {1, 2}
    Cards = {A, B}
    ServerTag = ServerTag
    NoTag = NoTag
    NoTx = NoTx
    Operations = {"tap", "frame", "plug", "early", "remote", "noise", "reboot"}
    Scenarios <- MCScenarios
SYMMETRY Symmetric
SPECIFICATION Spec
INVARIANTS TypeOK Resync Agreed KeepsUser
PROPERTY Confirmed
CHECK_DEADLOCK FALSE
