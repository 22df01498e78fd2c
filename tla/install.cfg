CONSTANTS
    Procs = {a, b}
    MaxCommands = 3
    MaxTrouble = 2
SPECIFICATION Spec
SYMMETRY Symmetry
INVARIANTS
    NamedOnce
    ServiceKept
    Undoable
PROPERTIES
    EnabledRunnable
CHECK_DEADLOCK FALSE
