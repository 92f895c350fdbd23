SPECIFICATION FairSpec
CONSTANTS
    ChunkSize = 3
    MaxSize = 10
CHECK_DEADLOCK FALSE
INVARIANTS
    TypeOK
    FinalizedIsWhole
    SegmentInRange
    SuccessIsProcessed
PROPERTIES
    CallerIsTold
