CONSTANTS
    ServerCounts  = {2, 4}
    FileSizes     <- ExactSizes
    SYMBOL_SIZE   = 2
    Header        = 1
    FloatBits     = 4
    Codings       = {"reed_solomon"}
    ResizeRunning = FALSE
    MaxResizes    = 0
    MaxWrites     = 1
SPECIFICATION Spec
CHECK_DEADLOCK FALSE
INVARIANT DecodedCorrectly
