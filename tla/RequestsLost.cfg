SPECIFICATION FairSpec
CONSTANTS
    Conn = {c1}
    Thread = {t1}
    REQUESTS <- OnePipelined
    PIPELINE = 8
    PENDING = 0
    TICKS = 2
    MAXTASKS = 0
    App = {"respond", "defer"}
    Resumed = {"respond"}
    NULL = NULL
PROPERTY
    PausedIsResumed
CHECK_DEADLOCK FALSE
