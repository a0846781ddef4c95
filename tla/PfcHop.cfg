SPECIFICATION Spec
CONSTANTS
    Up = {u1}
    Egress = {e1, e2}
    High = 2
    Low = 1
    TxTime = 2
    LinkDelay = 1
    SwitchDelay = 1
    WireDelay = 5
    MaxBacklog = 2
INVARIANTS
    TypeOK
    NoOverrun
    ResumeWillCome
    FramesAlternate
    PauseAgreement
