SPECIFICATION Spec
CONSTANTS
    BufferSize = 18
    Word = 5
    SkipAhead = 9
    Wires <- MCWires
    Fields = {1, 7}
    Lengths = {2, 20}
    MaxNested = 1
    Careless = FALSE
INVARIANTS
    TypeOK
    BytesInOrder
    ContentsEndWhereTheyShould
    MessageIsLeftAtItsEnd
    HeadersAreReadAsTheyCome
