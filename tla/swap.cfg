CONSTANTS
    p1 = p1
    p2 = p2
    r1 = r1
    r2 = r2
    r3 = r3
    n1 = n1
    n2 = n2
    k1 = k1
    k2 = k2
    None = None
    Deny = Deny
    Peers = {p1, p2}
    Requests = {r1, r2}
    Nonces = {n1}
    Keys = {k1}
    HostKey = k1
    Faults = {}
    MaxGen = 2
    RespDepth = 1
    CacheCap = 1
    ReloadCap = 1
    MaxEdits = 0
SPECIFICATION Spec
SYMMETRY MCSymmetry
INVARIANTS
    IInv
    OkIsApproved
PROPERTIES
    ImplementsUnlockService
