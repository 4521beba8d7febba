SPECIFICATION Spec
CONSTANTS
    B = 16
    MaxNested = 2
    Capacity = 84
    HeaderBytes = 1
    Blocks = {6, 7, 56}
    FieldLists <- MCFieldLists
    Counts = {1}
    MaxMessages = 2
    MaxCalls = 7
    NestLarge = FALSE
INVARIANTS
    TypeOK
    CommittedReadsBack
PROPERTIES
    HeadersGrowInPlace
CHECK_DEADLOCK FALSE
