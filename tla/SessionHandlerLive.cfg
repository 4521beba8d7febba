SPECIFICATION FairSpec
CONSTANTS
    Keys = {k1}
    Clients = {c1}
    MaxChanges = 2
    MaxCalls = 2
PROPERTIES
    StopReturns
    CallsReturnInSession
CHECK_DEADLOCK FALSE
