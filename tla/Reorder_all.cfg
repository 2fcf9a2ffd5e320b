CONSTANTS
    Ifaces      = {w}
    Others      = {o}
    w = w
    o = o
    SeqSpace    = 10
    WinSize     = 3
    PoolSize    = 3
    Reach       = 2
    First       = 5
    MaxArrivals = 4
SPECIFICATION FairSpec
INVARIANT TypeOK WindowAhead ReleasedInOrder GapTimed PoolConserved EnabledWhenHeld GoneForGood
PROPERTY QuietTeardown BufferDrains
CHECK_DEADLOCK FALSE
