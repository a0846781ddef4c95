SPECIFICATION FairSpec
CONSTANTS
    Tags = {v1, v2}
    TxTime = 3
    MaxBacklog = 4
INVARIANTS
    TypeOK
    ServiceInv
PROPERTIES
    PauseStopsPort
    ReadyPortTransmits
