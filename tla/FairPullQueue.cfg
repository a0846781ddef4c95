SPECIFICATION Spec
CONSTANTS
    FlowIds = {1, 2, 3, 4}
    Depth = 2
INVARIANTS
    TypeOK
    CountMatches
PROPERTIES
    RoundRobin
