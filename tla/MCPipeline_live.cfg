CONSTANTS
    pr1 = pr1
    pr2 = pr2
    NoItem = NoItem
    Producers <- MCProducers
    NItems = 2
    MaxConsumers = 3
    InCap = 2
    WorkCap = 2
    OutCap = 2
    LowThreshold = 20
    HighThreshold = 80
    CreateMayFail = FALSE
SPECIFICATION FairSpec
PROPERTY AllWritten
PROPERTY PipelineRefinement
