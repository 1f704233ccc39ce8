CONSTANTS
    pr1 = pr1
    pr2 = pr2
    NoItem = NoItem
    Producers <- MCProducers
    NItems = 3
    MaxConsumers = 3
    InCap = 2
    WorkCap = 2
    OutCap = 2
    LowThreshold = 20
    HighThreshold = 80
    CreateMayFail = TRUE
SPECIFICATION Spec
INVARIANT TypeOK
INVARIANT ExactlyOnce
