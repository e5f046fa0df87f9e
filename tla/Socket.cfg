SPECIFICATION FairSpec
CONSTANTS
    p1 = p1
    p2 = p2
    r = r
    i = i
    Reactor = {r}
    Caller = {}
    IO = {i}
    Packet = {p1, p2}
    Own = {p1, p2}
    Urgent = {}
    API = {"write", "close", "force_close", "read"}
    Closer = {r}
    Outcome = {"all", "part", "again", "fatal"}
    Hooked = FALSE
    SLOWLORIS = 2
    MaxConn = 2
    MaxUses = 3
    NULL = NULL
INVARIANTS
    BytesReachTheirPeer
PROPERTIES
    SendingEnds
