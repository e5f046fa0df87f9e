SPECIFICATION FairSpec
CONSTANTS
    Conn = {c1}
    Thread = {t1, t2}
    REQUESTS <- OnePipelined
    PIPELINE = 2
    PENDING = 0
    TICKS = 2
    MAXTASKS = 1
    App = {"respond", "defer", "websocket"}
    Resumed = {"respond", "websocket", "sse", "tcp"}
    NULL = NULL
INVARIANTS
    RequestsSound
    AnsweredInOrder
PROPERTIES
    StopWaitsForRequests
    RequestIsAnswered
