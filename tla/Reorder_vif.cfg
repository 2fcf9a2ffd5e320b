CONSTANTS
    Ifaces      = {w}
    Others      = {o}
    w = w
    o = o
    SeqSpace    = 10
    WinSize     = 3
    PoolSize    = 3
    Reach       = 2
    First       = 5
    MaxArrivals = 4
SPECIFICATION Spec
INVARIANT RightDevice
CHECK_DEADLOCK FALSE
