SPECIFICATION Spec
CONSTANTS
    Symbols = {A, B, C}
    MaxMessages = 3
    MinChunk = 4
    EntityLimit = 2
INVARIANTS
    TypeOK
    ServerReadsWhatWasWritten
PROPERTIES
    LossStopsTheWriter
    KeepsPromise
SYMMETRY SwapSymbols
