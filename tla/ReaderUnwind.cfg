SPECIFICATION Spec
CONSTANTS
    BufferSize = 18
    Word = 5
    SkipAhead = 9
    Wires <- MCWires
    Fields = {1}
    Lengths = {2, 5}
    MaxNested = 2
    Careless = TRUE
INVARIANT
    MessageIsLeftAtItsEnd
