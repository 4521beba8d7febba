SPECIFICATION Spec
CONSTANTS
    Keys = {k1, k2}
    Clients = {c1, c2}
    MaxChanges = 1
    MaxCalls = 2
SYMMETRY SwapAll
INVARIANTS
    TypeOK
    AnswersFollowRequests
    GetStreamFindsIt
    NoGhostStreams
CHECK_DEADLOCK FALSE
