SPECIFICATION FairSpec
CONSTANTS
    Flow = {1, 2}
    Size <- MCSize
    Window = 2
    RtsFlow = {2}
    History = 12
    LowRoom = 1
    HighRoom = 1
    RatioHigh = 1
    RatioLow = 1
    MaxTrims = 1
    MaxBounces = 1
INVARIANTS
    EachPacketOnce
    WindowKept
PROPERTY
    FinishOrStrand
CHECK_DEADLOCK FALSE
