CONSTANTS
    MaxCmds     = 1
    MaxFrames   = 1
    MaxRx       = 0
    MaxSuspends = 0
    PowerSave   = TRUE
    MayFail     = FALSE
    MayStop     = FALSE
SPECIFICATION Spec
INVARIANT NoLostWork
CHECK_DEADLOCK FALSE
