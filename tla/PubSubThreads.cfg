SPECIFICATION FairSpec
CONSTANTS
    c1 = c1
    c2 = c2
    f1 = f1
    m1 = m1
    n1 = n1
    s1 = s1
    s2 = s2
    w1 = w1
    Sub = {s1, s2}
    Msg = {m1}
    Chan = {1, 2, 3}
    Name = {n1}
    Pattern = {}
    Filter = {f1}
    Matches <- AllMatch
    Subscriber = {c1, c2}
    Publisher = {c1}
    Worker = {w1}
    RubyCaller = {}
    Block = {s1}
    Mock = {s2}
    MaxDefer = 1
    MaxAttach = 1
    NULL = NULL
    STACK = STACK
INVARIANTS
    OnUnsubscribeIsLast
    EngineAgrees
PROPERTIES
    SubscribersServed
