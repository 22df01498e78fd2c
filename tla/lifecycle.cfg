CONSTANTS
    d1 = d1
    d2 = d2
    d3 = d3
    Nobody = Nobody
    Stale = Stale
    Procs = {d1, d2, d3}
    Faults = {"crash", "write", "chmod"}
    Cap = 2
    MaxStarts = 3
SPECIFICATION PoliteSpec
INVARIANTS
    LInv
    ListenerReachable
    NoDebris
PROPERTIES
    ShutdownEnds
CHECK_DEADLOCK FALSE
