SPECIFICATION Spec
CONSTANTS
    B = 16
    MaxNested = 2
    Capacity = 84
    HeaderBytes = 1
    Blocks = {7}
    FieldLists = {}
    Counts = {1}
    MaxMessages = 1
    MaxCalls = 5
    NestLarge = TRUE
INVARIANT NoLogicError
CHECK_DEADLOCK FALSE
