SPECIFICATION Spec
CONSTANTS
    MaxCodeSize = 4
    MaxSizeCode = 3
    DictSize = 32
    PosMod = 64
    Lookahead = 12
    MaxMatch = 9
    TooFar = 16
    CodeBufSize = 24
    StaticBytes = 16
    OutLimit = 31
    BufferSize = 7
    Chunks <- MCChunks
    MaxChunks = 3
INVARIANTS
    TypeOK
    RoundTrip
    WindowIntact
    NoOverrun
PROPERTIES
    Closes
