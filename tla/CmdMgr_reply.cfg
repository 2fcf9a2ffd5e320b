CONSTANTS
    Senders     = {t1, t2}
    PlainIds    = {"P"}
    DeferIds    = {}
    ForceIds    = {}
    IndIds      = {}
    ArraySize   = 3
    MaxQueued   = 2
    MaxCalls    = 3
    MaxTimeouts = 0
    MayRelease  = FALSE
SPECIFICATION Spec
INVARIANT ReplyNeverOrphaned
CHECK_DEADLOCK FALSE
