CONSTANTS
    Senders     = {t1, t2}
    PlainIds    = {"P"}
    DeferIds    = {}
    ForceIds    = {"F"}
    IndIds      = {"I"}
    ArraySize   = 5
    MaxQueued   = 2
    MaxCalls    = 3
    MaxTimeouts = 4
    MayRelease  = FALSE
SPECIFICATION FairSpec
PROPERTY CallsReturn
CHECK_DEADLOCK FALSE
