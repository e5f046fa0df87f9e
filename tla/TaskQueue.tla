------------------------------ MODULE TaskQueue ------------------------------
(***************************************************************************)
(* The facil.io task queue (fio.c, "Task Management"): a chain of ring     *)
(* buffers of BLOCK_COUNT tasks.  The first ring is the queue's built-in   *)
(* static block, which is parked (state 2) when the reader leaves it and   *)
(* taken back when the chain grows again; every other ring is allocated    *)
(* when the writer's ring is full and released when the reader leaves it.  *)
(*                                                                         *)
(* Every operation holds `queue->lock` from its first access to its last,  *)
(* so each one is a single step here whatever the number of threads.       *)
(***************************************************************************)
EXTENDS Naturals, Sequences, FiniteSets, TLC

CONSTANTS
    Task,         \* task records {func, arg1, arg2}, compared for identity only
    BLOCK_COUNT,  \* DEFER_QUEUE_BLOCK_COUNT: tasks in one ring
    HeapBlock,    \* addresses fio_malloc can hand out (a bound of the model)
    static_queue, \* the address of the built-in block
    MaxTasks,     \* bound of BoundedSpec: pushes stop when this many tasks wait
    NULL

ASSUME BlockCountAssumption == BLOCK_COUNT \in Nat \ {0}
ASSUME BlockAddresses ==
    /\ IsFiniteSet(HeapBlock)
    /\ static_queue \notin HeapBlock /\ NULL \notin HeapBlock \cup {static_queue} \cup Task

VARIABLES
    block,     \* address -> {tasks, next, write, read, state}
    reader,    \* ring tasks are popped from
    writer,    \* ring tasks are pushed to
    allocated, \* heap blocks currently owned by the queue
    ret        \* result of the last pop, and a bit that tells two pops apart

vars == <<block, reader, writer, allocated, ret>>

Address == HeapBlock \cup {static_queue}
Slot == 0 .. BLOCK_COUNT - 1
Block == [tasks : [Slot -> Task \cup {NULL}], next : Address \cup {NULL},
          write : Slot, read : Slot, state : 0 .. 2]

\* A zeroed block; also the value of a block the queue does not own, whose
\* contents are nobody's.
EmptyBlock ==
    [tasks |-> [i \in Slot |-> NULL], next |-> NULL, write |-> 0, read |-> 0, state |-> 0]

TypeOK ==
    /\ block \in [Address -> Block]
    /\ reader \in Address
    /\ writer \in Address
    /\ allocated \subseteq HeapBlock
    /\ ret \in [task : Task \cup {NULL}, pop : 0 .. 1]

Init ==
    /\ block = [a \in Address |-> EmptyBlock]
    /\ reader = static_queue
    /\ writer = static_queue
    /\ allocated = {}
    /\ ret = [task |-> NULL, pop |-> 0]

-----------------------------------------------------------------------------

Full_IgnoreState(b) == b.write = b.read
\* A ring written up to its reader with `state` set is full; with `state` clear
\* it is empty.
Full(b)  == b.state # 0 /\ b.write = b.read
Empty(b) == b.state = 0 /\ b.write = b.read

\* The index after i: the last slot is followed by the first.
Wrapped(i) == IF i = BLOCK_COUNT THEN 0 ELSE i

Place_NoWrap(b, t) == [b EXCEPT !.tasks[b.write] = t, !.write = @ + 1]
\* Placing a task in a ring; the write index wraps and leaves `state` at 1.
Place(b, t) ==
    LET w == b.write + 1 IN
    [b EXCEPT !.tasks[b.write] = t,
              !.write = Wrapped(w),
              !.state = IF w = BLOCK_COUNT THEN 1 ELSE @]

\* Taking a task out of a ring; the read index wraps and clears `state`.
Take(b) ==
    LET r == b.read + 1 IN
    [b EXCEPT !.read = Wrapped(r),
              !.state = IF r = BLOCK_COUNT THEN 0 ELSE @]

\* A ring to be filled from its first slot.
Reset(b) == [b EXCEPT !.write = 0, !.read = 0, !.state = 0]

\* The block a full writer continues in: the parked static block, else a new one.
NextWriter ==
    IF block[static_queue].state = 2 THEN {static_queue} ELSE HeapBlock \ allocated

fio_defer_push_task_fn(t) ==
    /\ \/ /\ ~Full(block[writer])
          /\ block' = [block EXCEPT ![writer] = Place(@, t)]
          /\ UNCHANGED <<writer, allocated>>
       \/ /\ Full(block[writer])
          /\ \E n \in NextWriter :
                /\ writer' = n
                /\ allocated' = allocated \cup ({n} \ {static_queue})
                /\ block' = [block EXCEPT
                                ![writer].next = n,
                                ![n] = Place([Reset(@) EXCEPT !.next = NULL], t)]
    /\ UNCHANGED <<reader, ret>>

\* The static block left behind by the reader waits to be reused.
ParkStatic(b) == [b EXCEPT !.state = 2, !.next = NULL]

Released_Never(b) == allocated
\* fio_free of a ring the reader left, unless it is the static one.
Released(b) == allocated \ {b}

Return(t) == ret' = [task |-> t, pop |-> 1 - ret.pop]

fio_defer_pop_task ==
    \/ /\ Empty(block[reader])
       /\ Return(NULL)
       /\ UNCHANGED <<block, reader, writer, allocated>>
    \/ /\ ~Empty(block[reader])
       /\ Return(block[reader].tasks[block[reader].read])
       /\ LET b == Take(block[reader])
              drained == b.write = b.read
          IN
          \/ /\ ~drained
             /\ block' = [block EXCEPT ![reader] = b]
             /\ UNCHANGED <<reader, writer, allocated>>
          \/ /\ drained /\ b.next # NULL               \* leave this ring for the next
             /\ reader' = b.next
             /\ block' = [block EXCEPT
                             ![reader] = IF reader = static_queue
                                         THEN ParkStatic(b)
                                         ELSE EmptyBlock]
             /\ allocated' = Released(reader)
             /\ UNCHANGED writer
          \/ /\ drained /\ b.next = NULL
             /\ reader # static_queue /\ block[static_queue].state = 2
             /\ reader' = static_queue                 \* fall back to the parked ring
             /\ writer' = static_queue
             /\ block' = [block EXCEPT
                             ![reader] = EmptyBlock,
                             ![static_queue] = Reset(@)]
             /\ allocated' = Released(reader)
          \/ /\ drained /\ b.next = NULL
             /\ reader = static_queue \/ block[static_queue].state # 2
             /\ block' = [block EXCEPT ![reader] = Reset(b)]
             /\ UNCHANGED <<reader, writer, allocated>>

\* Every ring from the reader on is released and the queue starts over in a
\* zeroed static block.
fio_defer_clear_tasks_for_queue ==
    /\ block' = [a \in Address |-> EmptyBlock]
    /\ reader' = static_queue
    /\ writer' = static_queue
    /\ allocated' = {}
    /\ UNCHANGED ret

Next ==
    \/ \E t \in Task : fio_defer_push_task_fn(t)
    \/ fio_defer_pop_task
    \/ fio_defer_clear_tasks_for_queue

Spec == Init /\ [][Next]_vars

-----------------------------------------------------------------------------

\* The unlocked test `fio_timer_calc_first_interval` uses to decide whether the
\* reactor may sleep in poll.
fio_defer_has_queue == reader # writer \/ block[reader].write # block[reader].read

\* Tasks in one ring, oldest first: from `read` up to `write`, past the last slot
\* when `write` is behind `read` or has caught up with it.
Count(b) ==
    IF b.read < b.write \/ Empty(b) THEN b.write - b.read ELSE b.write + BLOCK_COUNT - b.read
Nth(b, i) ==
    IF b.read + i - 1 < BLOCK_COUNT THEN b.read + i - 1 ELSE b.read + i - 1 - BLOCK_COUNT
RingContents(b) == [i \in 1 .. Count(b) |-> b.tasks[Nth(b, i)]]

\* Chain[n] is the n-th ring counted from the reader, NULL past the end.
Chain[n \in 0 .. Cardinality(Address)] ==
    IF n = 0 THEN reader
    ELSE IF Chain[n - 1] = NULL THEN NULL ELSE block[Chain[n - 1]].next

\* Upto[n] is what the chain holds up to its n-th ring.
Upto[n \in 0 .. Cardinality(Address)] ==
    (IF n = 0 THEN <<>> ELSE Upto[n - 1]) \o
    (IF Chain[n] = NULL THEN <<>> ELSE RingContents(block[Chain[n]]))

Contents == Upto[Cardinality(Address)]

Reachable == {Chain[n] : n \in 0 .. Cardinality(Address)} \ {NULL}

\* Every allocated ring is on the chain and every heap ring on the chain is
\* allocated: popping and pushing across ring boundaries neither leaks a block
\* nor keeps using one it released.
NoLeakNoDangling == Reachable \ {static_queue} = allocated

\* The chain of rings implements a FIFO queue.
FIFO == INSTANCE TaskFIFO WITH q <- Contents, ret <- ret
ImplementsFIFO == FIFO!Spec

\* fio.h, fio_defer_has_queue: "Returns true if there are deferred functions
\* waiting for execution."  fio_timer_calc_first_interval relies on it before the
\* reactor sleeps in poll.
HasQueueReportsWaitingTasks == (Contents # <<>>) => fio_defer_has_queue

\* What TLC explores: Spec with the number of waiting tasks bounded.
BoundedNext ==
    \/ /\ Len(Contents) < MaxTasks
       /\ \E t \in Task : fio_defer_push_task_fn(t)
    \/ fio_defer_pop_task
    \/ fio_defer_clear_tasks_for_queue
BoundedSpec == Init /\ [][BoundedNext]_vars

Symmetry == Permutations(HeapBlock) \cup Permutations(Task)

\* The ring's blocks (fio_defer_queue_block_s): indices stay within their block,
\* every allocated block is linked from the reader on, and no released one is.
BlocksSound == TypeOK /\ NoLeakNoDangling
=============================================================================
