CONSTANTS
    Peers = {p1, p2}
    Clis = {c1, c2}
    Daemon = daemon
    Faults = {"io", "crash", "power"}
    MaxOps = 2
SPECIFICATION Spec
SYMMETRY Symmetry
INVARIANTS OneRecordPerPeer SerialWritersKeepUpdates DonePairingUsable
PROPERTIES FileKept
CHECK_DEADLOCK FALSE
