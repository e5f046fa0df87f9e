CONSTANTS
    t1 = t1
    t2 = t2
    b1 = b1
    b2 = b2
    b3 = b3
    static_queue = static_queue
    NULL = NULL
    Task = {t1, t2}
    HeapBlock = {b1, b2, b3}
    BLOCK_COUNT = 3
    MaxTasks = 8
SPECIFICATION BoundedSpec
SYMMETRY Symmetry
INVARIANTS
    BlocksSound
PROPERTIES
    ImplementsFIFO
