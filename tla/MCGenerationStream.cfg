SPECIFICATION FairSpec
CONSTANTS
    MaxFrames = 3
    MaxBatch = 2
CHECK_DEADLOCK FALSE
INVARIANTS
    OneTerminal
    FinishIsTrue
    LeaseOutlivesStream
PROPERTIES
    StreamEnds
