CONSTANTS
    NumPrio     = 2
    QMax        = 2
    AggrCounter = 3
    Thresh      = 1
    Buffers     = 4
    MaxFrames   = 3
    MaxCmds     = 1
    MayFail     = TRUE
    MayStop     = TRUE
SPECIFICATION FairSpec
INVARIANT TypeOK QueueIntact AggrFits
PROPERTY IsChannel LeavesRoom FramesLeave MessagesLeave
CHECK_DEADLOCK FALSE
