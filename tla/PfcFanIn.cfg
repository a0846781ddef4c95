SPECIFICATION FairSpec
CONSTANTS
    Up = {u1, u2}
    Egress = {e1}
    High = 2
    Low = 1
    TxTime = 1
    LinkDelay = 0
    SwitchDelay = 0
    WireDelay = 1
    MaxBacklog = 1
INVARIANTS
    Accounting
PROPERTIES
    PauseEnds
