CONSTANTS
    NonceLen = 2
    TagLen = 2
    MaxPayload = 2
    MaxSegments = 3
    Phones = {p1, p2}
    SignatureLen = 2
    StripLen = 2
    MaxChallenges = 3
    CacheNonces = {n1, n2, n3, n4}
    Caps = {0, 1, 3}
    Ttls = {0, 1, 2}
    CacheHorizon = 3
    SecondsPerMinute = 4
    WallStart = {0, 1, 2, 3, 4}
    WallSteps = {1, 3, 4, 5, 9}
    WallHorizon = 30
    MaxUpsets = 2
    MaxPairs = 3
SPECIFICATION Spec
INVARIANTS
    PureCodeAgrees
    OkMeansThisChallenge
    InPhoneWindow
PROPERTIES
    AnswersLikeWindow
    WholeApprovalUnlocks
CHECK_DEADLOCK FALSE
