SPECIFICATION LiveSpec
CONSTANTS
    Databases <- All
    LastHandle = 5
    PerAnswer = 2
    MaxBehind = 2
    MaxDrops = 2
    MaxTries = 4
    NONE = NONE
INVARIANT AllHandlesFound
INVARIANT RestRead
INVARIANT RaisesOnlyAtEnds
PROPERTY Completes
