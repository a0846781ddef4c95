SPECIFICATION FairSpec
CONSTANTS
    f1 = f1
    h1 = h1
    h2 = h2
    Flow = {f1}
    Host = {h1, h2}
    From <- MCFrom
    To <- MCTo
    Size <- MCSize
    Window = 1
    Hdr = 1
    Mss = 64
    Quantum = 8
    RtsTarget = 64
    DataTurns = 1
    ControlTurns = 20
    Wrap = 1000
    CreditPerPull = 8
    AckThreshold = 256
    MaxTrims = 1
    MaxDrops = 1
    MaxPulls = 1
INVARIANTS
    EveryPacketTimed
    CardServes
    PullListsAgree
    DoneMeansReceived
PROPERTY
    FlowFinishes
CHECK_DEADLOCK FALSE
