SPECIFICATION Spec
CONSTANTS
    c1 = c1
    c2 = c2
    m1 = m1
    m2 = m2
    n1 = n1
    p1 = p1
    s1 = s1
    s2 = s2
    w1 = w1
    w2 = w2
    Sub = {s1, s2}
    Msg = {m1, m2}
    Chan = {1, 2, 3}
    Name = {n1}
    Pattern = {p1}
    Filter = {}
    Matches <- AllMatch
    Subscriber = {c1}
    Publisher = {c2}
    Worker = {w1, w2}
    RubyCaller = {}
    Block = {}
    Mock = {}
    MaxDefer = 1
    MaxAttach = 1
    NULL = NULL
    STACK = STACK
SYMMETRY Symmetry
INVARIANTS
    ReferencesSound
    DeliveredOnceWhileSubscribed
