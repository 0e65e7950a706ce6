CONSTANTS
    Capacity = 4
    PipeSize = 1
    MaxOutput = 6
    MaxKeys = 2
    MaxNoise = 1
SPECIFICATION FairSpec
INVARIANTS
    TypeOK
    KnownKeysAreComplete
    SetupIsTrue
PROPERTIES
    GuestNeverStalls
    SetupEnds
CHECK_DEADLOCK FALSE
