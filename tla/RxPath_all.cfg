CONSTANTS
    QueueLen  = 2
    MaxBlocks = 6
    MayFail   = TRUE
    MayStop   = TRUE
    Stream <- MCStream
SPECIFICATION PathFairSpec
INVARIANT TypeOK CountRight NoBlockLeft WholeOrTail NothingLost
PROPERTY InOrder QueueDrains EntriesExpire
CHECK_DEADLOCK FALSE
