SPECIFICATION Spec
CONSTANTS
    Fd = {1}
    t1 = t1
    t2 = t2
    Reactor = {t1, t2}
    AppThread = {a1}
    Fiber = {f1}
    COUNTER = 16
    Scenarios <- Sound
INVARIANTS
    ConnectionsSound
    CallbacksInOrder
PROPERTIES
    ClosedIsReleased
    StopEnds
