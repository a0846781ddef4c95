SPECIFICATION Spec
CONSTANTS
    Up = {h1}
    Egress = {e1, e2, e3}
    High = 3
    Low = 2
    TxTime = 2
    LinkDelay = 1
    SwitchDelay = 0
    WireDelay = 1
    MaxBacklog = 1
    Prios = {0}
    Kinds <- SprayedFlow
CHECK_DEADLOCK FALSE
INVARIANTS
    SendingNotNullInFlight
