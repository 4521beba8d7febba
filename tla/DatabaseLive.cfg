SPECIFICATION FairSpec
CONSTANTS
    Reader = Reader
    Owner = Owner
    Session = Session
    Writers = {}
    Closers <- MCClosers
    Mishaps = {}
PROPERTIES
    CursorCloseReturns
    CloseReturns
CHECK_DEADLOCK FALSE
