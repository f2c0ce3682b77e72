CONSTANTS
    g1 = g1
    g2 = g2
    MaxDepth = 3
    MaxOps = 5
    MaxEnvelope = 1
    Goroutines = {g1, g2}
    Buffers = {1, 2, 3, 4, 5, 6, 7}
    MaxAdds = 2
    ByteBase = 5
    Kilo = 6
    TimeBase = 5
    Mantissa = 14
    FloatFrac = 6
    IntWidth = 16
    MaxNesting = 2
    PayloadLens = {0, 1, 4, 5, 19, 20, 24, 25, 600, 620}
    Seconds = {0, 1, 36, 215, 216, 217, 300, 431, 500, 623}
    Offsets = {0, 1, 5, 6, 35, 36, 107, 180, 214, 215}
SPECIFICATION Spec
SYMMETRY Symmetry
INVARIANTS
    MsgpackReadsBack
    BufferOwnedOnce
    RecordsUnmixed
    StreamReadsBack
    TranscodeReadsBack
