SPECIFICATION FairSpec
CONSTANTS
    Up = {h1}
    Egress = {e1, e2}
    High = 2
    Low = 1
    TxTime = 2
    LinkDelay = 1
    SwitchDelay = 0
    WireDelay = 1
    MaxBacklog = 2
    Prios = {0, 2}
    Kinds <- TwoFlows
CHECK_DEADLOCK FALSE
INVARIANTS
    SendingNotNull
    OneTransmission
    CardConserves
PROPERTIES
    HostPauseEnds
