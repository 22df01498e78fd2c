SPECIFICATION Spec
CONSTANTS
    PamCalls = {c1, c2}
    Probes = {}
    Peers = {p1, p2}
    None = None
    Writers = {c1, c2}
    LineResults = {"ok", "replay", "bad-signature", "response-timeout", "busy", "unknown-peer", "transport-error", "success", "failure"}
    AUDIT_FSYNC_EVERY = 2
    CONCURRENT_ACCEPT_CAP = 2
    AuthTimeout = 2
    BusyDeadline = 1
    ProbeTimeout = 1
    Verdicts = {"ok", "bad-signature"}
    Faults = {"io", "kill", "crash", "power"}
    MaxFaults = 1
    MaxOpens = 2
    MaxEdits = 1
INVARIANTS SlotAlwaysMoves VerdictAgrees PamPeerIsServed SuccessIsAudited
SYMMETRY Symmetry
CHECK_DEADLOCK FALSE
