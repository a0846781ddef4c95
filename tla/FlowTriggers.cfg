SPECIFICATION FairSpec
CONSTANTS
    EndTime = 16
    Flows = {1, 2, 3, 4, 5, 6, 7, 8, 9, 10}
    Triggers = {1, 2, 3}
    Kind <- PipelineKind
    Count <- PipelineCount
    Targets <- PipelineTargets
    Starts <- PipelineStarts
    SendDone <- PipelineSendDone
    Durations = {1, 2}
INVARIANTS
    TypeOK
    NothingOverdue
    StartOnce
    InTurn
    NoAbort
PROPERTIES
    EveryFlowEnds
CHECK_DEADLOCK FALSE
