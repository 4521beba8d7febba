SPECIFICATION Spec
CONSTANTS
    Reader = Reader
    Owner = Owner
    Session = Session
    Writers = {Writer}
    Closers <- MCClosers
    Mishaps <- AllMishaps
INVARIANTS
    TypeOK
    StreamOutlivesUser
    PoolIsAlive
    FlushWaitsForCounted
    CloseClosesCursor
PROPERTIES
    DisconnectionIsToldFirst
CHECK_DEADLOCK FALSE
