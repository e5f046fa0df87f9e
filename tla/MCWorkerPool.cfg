CONSTANTS
    k1 = k1
    k2 = k2
    k3 = k3
    w1 = w1
    w2 = w2
    NULL = NULL
    INTERRUPTED = INTERRUPTED
    Work = {k1, k2, k3}
    Worker = {w1, w2}
    MaxInterrupts = 2
SPECIFICATION MCSpec
CHECK_DEADLOCK FALSE
INVARIANTS
    PoolSound
    StatsAddUp
    OneOwner
    NoSleepWhileWorkWaits
    CancelsOperationInHand
PROPERTIES
    PoolProgress
