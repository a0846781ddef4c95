SPECIFICATION FairSpec
CONSTANTS
    FlowSize = 3
    Pauses = 0
    Drops = 0
    InFlight = 3
    StopTime = TRUE
    Spraying = FALSE
PROPERTIES
    StopFinishes
CHECK_DEADLOCK FALSE
