CONSTANTS
    MaxCmds     = 1
    MaxFrames   = 1
    MaxRx       = 1
    MaxSuspends = 1
    PowerSave   = TRUE
    MayFail     = FALSE
    MayStop     = FALSE
SPECIFICATION FairSpec
INVARIANT ActiveIsAwake TransferAwake
PROPERTY IdleSleeps
CHECK_DEADLOCK FALSE
