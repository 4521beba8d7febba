SPECIFICATION Spec
CONSTANTS
    SubStates = {s0, s1}
    Entities = {e1}
    Types = {t1, sys}
    SystemTypes = {sys}
    MaxTypes = 2
    MaxCalls = 2
    MaxFaults = 1
    MaxBlocks = 2
SYMMETRY SwapAll
INVARIANTS
    TypeOK
    NextReturnsOnlyAsked
    NothingAskedIsDropped
    NothingFromBeforeReset
    TablesAgree
    ThrowsOnlyAfterFault
PROPERTIES
    EndsOnlyWhenDone
CHECK_DEADLOCK FALSE
