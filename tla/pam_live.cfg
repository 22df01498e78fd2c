SPECIFICATION Spec
CONSTANTS
    PamCalls = {c1}
    Probes = {s1}
    Peers = {p1}
    None = None
    Writers = {c1, s1}
    LineResults = {"ok", "replay", "bad-signature", "response-timeout", "busy", "unknown-peer", "transport-error", "success", "failure"}
    AUDIT_FSYNC_EVERY = 2
    CONCURRENT_ACCEPT_CAP = 1
    AuthTimeout = 2
    BusyDeadline = 1
    ProbeTimeout = 1
    Verdicts = {"ok", "bad-signature", "replay", "transport-error", "unknown-peer"}
    Faults = {"io", "panic", "kill", "crash", "power"}
    MaxOpens = 2
    MaxEdits = 0
    MaxFaults = 1
PROPERTIES NobodyWaitsForever
CHECK_DEADLOCK FALSE
