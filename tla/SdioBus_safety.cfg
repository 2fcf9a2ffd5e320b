CONSTANTS
    MaxCmds     = 1
    MaxFrames   = 1
    MaxRx       = 1
    MaxSuspends = 1
    PowerSave   = TRUE
    MayFail     = TRUE
    MayStop     = TRUE
SPECIFICATION Spec
INVARIANT TypeOK SleepsAgain
CHECK_DEADLOCK FALSE
