CONSTANTS
    ServerCounts  <- OddCounts
    FileSizes     <- ExactSizes
    SYMBOL_SIZE   = 2
    Header        = 1
    FloatBits     = 4
    Codings       = {"full_vector", "reed_solomon"}
    ResizeRunning = FALSE
    MaxResizes    = 1
    MaxWrites     = 1
SPECIFICATION Spec
CHECK_DEADLOCK FALSE
INVARIANT TypeOK
INVARIANT DecodedCorrectly
INVARIANT ReadSucceeds
INVARIANT FramesFit
