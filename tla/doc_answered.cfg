SPECIFICATION Spec
CONSTANTS
    OsTimeout = 1
    SmpTimeout = 2
    Minute = 2
    Window = 3
    None = None
    MaxAttempts = 2
    MaxLines = 1
    MaxFaults = 1
INVARIANTS AnsweredInTime
CHECK_DEADLOCK FALSE
