CONSTANTS
    MaxCmds     = 2
    MaxFrames   = 2
    MaxRx       = 0
    MaxSuspends = 1
    PowerSave   = FALSE
    MayFail     = FALSE
    MayStop     = FALSE
SPECIFICATION FairSpec
INVARIANT NoLostWork
PROPERTY WorkDone
CHECK_DEADLOCK FALSE
