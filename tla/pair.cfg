SPECIFICATION Spec
CONSTANTS
    OsTimeout = 1
    SmpTimeout = 2
    Minute = 2
    Window = 3
    None = None
    MaxAttempts = 2
    MaxLines = 1
    MaxFaults = 1
INVARIANTS RequestHasAHandler WaybarDecides OnAirAndCurrent
PROPERTIES PairingEnds
CHECK_DEADLOCK FALSE
