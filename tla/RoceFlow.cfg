SPECIFICATION FairSpec
CONSTANTS
    FlowSize = 3
    Pauses = 1
    Drops = 2
    InFlight = 3
    StopTime = TRUE
    Spraying = TRUE
INVARIANTS
    NoLostWakeup
    NoGap
    AckedIsReceived
    DoneOnce
PROPERTIES
    PacingEnds
    FlowFinishes
CHECK_DEADLOCK FALSE
