CONSTANTS
    t1 = t1
    t2 = t2
    t3 = t3
    Timer = {t1, t2, t3}
    Interval = {0, 1, 2}
    Repetitions = {0, 2}
    PROBE_LIMIT = 1
    Time = {0, 1, 2}
SPECIFICATION FairSpec
CHECK_DEADLOCK FALSE
INVARIANTS
    TimersSound
PROPERTIES
    TimersProgress
