---------------------------- MODULE MCWorkerPool ----------------------------
EXTENDS WorkerPool, TLC

CONSTANT MaxInterrupts  \* unblock functions the VM runs in one behaviour

VARIABLE interrupts

MCInit == Init /\ interrupts = 0

MCNext ==
    \/ PoolStep /\ UNCHANGED interrupts
    \/ \E w \in Worker : /\ interrupts < MaxInterrupts
                         /\ worker_unblock_func(w)
                         /\ interrupts' = interrupts + 1

MCSpec == MCInit /\ [][MCNext]_<<vars, interrupts>> /\ Fairness
=============================================================================
