----------------------------- MODULE WorkerPool -----------------------------
(***************************************************************************)
(* Iodine::WorkerPool (iodine_worker_pool.c): threads that run the fiber   *)
(* scheduler's blocking operations without the GVL.                        *)
(*                                                                         *)
(* Three kinds of actors meet here.  Ruby threads, one at a time because   *)
(* they hold the GVL, create the pool, enqueue work and close the pool.    *)
(* Workers take work under `pool->mutex`, run it with no lock held and     *)
(* regain the GVL to report it.  The Ruby VM may run a worker's unblock    *)
(* function at any moment the worker is inside its blocking region; the VM *)
(* keeps the worker from leaving the region until that function returns.   *)
(* The reactor thread runs the completion callbacks.                       *)
(*                                                                         *)
(* A critical section of `pool->mutex` is one step.                        *)
(***************************************************************************)
EXTENDS Naturals, Sequences, FiniteSets

CONSTANTS
    Work,        \* work items, one per enqueue; also names its operation and callback
    Worker,      \* worker structures; Cardinality(Worker) is max_workers
    NULL,
    INTERRUPTED  \* WORKER_INTERRUPTED

ASSUME WorkerPoolAssumption ==
    /\ IsFiniteSet(Worker) /\ Worker # {}
    /\ NULL \notin Work /\ INTERRUPTED \notin Work /\ NULL # INTERRUPTED
    /\ "idle" \notin Work \cup {NULL}

VARIABLES
    shutdown, initialized,   \* pool flags
    workers,                 \* the linked list pool->workers, as a set
    queue,                   \* work_head .. work_tail
    submitted_count, in_progress_count, completed_count,
    interrupted,             \* worker -> worker->interrupted
    current_op,              \* worker -> worker->current_op
    pc,                      \* worker -> where its thread is
    result,                  \* worker -> local `work` of worker_wait_and_execute
    unblocking,              \* worker -> `op` of a running unblock function
    deferred,                \* completions in the reactor's task queue
    store,                   \* callbacks referenced by IodineStore
    called,                  \* work whose callback ran
    discarded                \* work released by close without being run

flags == <<shutdown, initialized>>
counters == <<submitted_count, in_progress_count, completed_count>>
locals == <<interrupted, current_op, pc, result, unblocking>>
vars == <<flags, workers, queue, counters, locals, deferred, store, called, discarded>>

Idle == "idle"   \* no unblock function is running on this worker

\* The worker's thread is inside rb_thread_call_without_gvl.
InRegion(w) == pc[w] \in {"entry", "waiting", "executing", "executed", "returning"}

\* Work handed to a worker and not yet reported by worker_pool_complete.
InHand == {result[w] : w \in {v \in Worker : result[v] \in Work}}

Queued == {queue[i] : i \in DOMAIN queue}
Deferred == {deferred[i] : i \in DOMAIN deferred}

\* Work submitted whose callback has neither run nor been given up.
Live == Queued \cup InHand \cup Deferred

TypeOK ==
    /\ shutdown \in BOOLEAN /\ initialized \in BOOLEAN
    /\ workers \subseteq Worker
    /\ queue \in Seq(Work)
    /\ submitted_count \in Nat /\ in_progress_count \in Nat /\ completed_count \in Nat
    /\ interrupted \in [Worker -> BOOLEAN]
    /\ current_op \in [Worker -> Work \cup {NULL}]
    /\ pc \in [Worker -> {"none", "entry", "waiting", "executing", "executed",
                          "returning", "exited"}]
    /\ result \in [Worker -> Work \cup {NULL, INTERRUPTED}]
    /\ unblocking \in [Worker -> Work \cup {NULL, Idle}]
    /\ deferred \in Seq(Work)
    /\ store \subseteq Work
    /\ called \subseteq Work
    /\ discarded \subseteq Work

\* worker_pool_allocate: a zeroed pool that counts as shut down.
Init ==
    /\ shutdown = TRUE /\ initialized = FALSE
    /\ workers = {}
    /\ queue = <<>>
    /\ submitted_count = 0 /\ in_progress_count = 0 /\ completed_count = 0
    /\ interrupted = [w \in Worker |-> FALSE]
    /\ current_op = [w \in Worker |-> NULL]
    /\ pc = [w \in Worker |-> "none"]
    /\ result = [w \in Worker |-> NULL]
    /\ unblocking = [w \in Worker |-> Idle]
    /\ deferred = <<>>
    /\ store = {} /\ called = {} /\ discarded = {}

-----------------------------------------------------------------------------
\* Ruby threads, holding the GVL.

\* worker_pool_initialize creates every worker.  When a thread cannot be
\* created it closes the pool again: `created` are the workers it then leaves
\* to be joined, with `shutdown` already set.
worker_pool_initialize(created) ==
    /\ pc = [w \in Worker |-> "none"] /\ ~initialized
    /\ workers' = created
    /\ pc' = [w \in Worker |-> IF w \in created THEN "entry" ELSE "none"]
    /\ shutdown' = (created # Worker)
    /\ initialized' = TRUE
    /\ UNCHANGED <<queue, counters, interrupted, current_op, result, unblocking,
                   deferred, store, called, discarded>>

SignalOne_Lost == pc' = pc
\* pthread_cond_signal wakes one waiter, if there is any.
SignalOne ==
    LET sleepers == {w \in Worker : pc[w] = "waiting"} IN
    IF sleepers = {} THEN pc' = pc
    ELSE \E w \in sleepers : pc' = [pc EXCEPT ![w] = "entry"]

WakeAll_Lost == pc' = pc
\* pthread_cond_broadcast wakes them all.
WakeAll == pc' = [w \in Worker |-> IF pc[w] = "waiting" THEN "entry" ELSE pc[w]]

worker_pool_enqueue(k) ==
    /\ ~shutdown
    /\ k \notin Live \cup called
    /\ store' = store \cup {k}
    /\ queue' = Append(queue, k)
    /\ submitted_count' = submitted_count + 1
    /\ SignalOne
    /\ UNCHANGED <<flags, workers, in_progress_count, completed_count, interrupted,
                   current_op, result, unblocking, deferred, called, discarded>>

\* worker_pool_close up to the joins; the second half is worker_pool_closed.
worker_pool_close ==
    /\ ~shutdown /\ initialized
    /\ shutdown' = TRUE
    /\ WakeAll
    /\ UNCHANGED <<initialized, workers, queue, counters, interrupted, current_op, result,
                   unblocking, deferred, store, called, discarded>>

JoinAll_FirstOnly == workers = {} \/ \E w \in workers : pc[w] = "exited"
JoinAll == \A w \in workers : pc[w] = "exited"

\* All joins returned: the workers and the work nobody took are released.
worker_pool_closed ==
    /\ shutdown /\ initialized
    /\ JoinAll
    /\ workers' = {}
    /\ discarded' = discarded \cup Queued
    /\ store' = store \ Queued
    /\ queue' = <<>>
    /\ initialized' = FALSE
    /\ UNCHANGED <<shutdown, counters, locals, deferred, called>>

-----------------------------------------------------------------------------
\* Worker threads.

\* One pass of worker_wait_and_execute's first critical section: sleep, or
\* leave because of shutdown, or of an interrupt, or take the oldest work.
WaitForWork(w) ==
    /\ pc[w] = "entry"
    /\ queue = <<>> /\ ~shutdown /\ ~interrupted[w]
    /\ pc' = [pc EXCEPT ![w] = "waiting"]
    /\ UNCHANGED <<flags, workers, queue, counters, interrupted, current_op, result,
                   unblocking, deferred, store, called, discarded>>

\* A condition variable may wake a waiter for no reason.
SpuriousWakeup(w) ==
    /\ pc[w] = "waiting"
    /\ pc' = [pc EXCEPT ![w] = "entry"]
    /\ UNCHANGED <<flags, workers, queue, counters, interrupted, current_op, result,
                   unblocking, deferred, store, called, discarded>>

SeeShutdown(w) ==
    /\ pc[w] = "entry" /\ shutdown
    /\ result' = [result EXCEPT ![w] = NULL]
    /\ pc' = [pc EXCEPT ![w] = "returning"]
    /\ UNCHANGED <<flags, workers, queue, counters, interrupted, current_op, unblocking,
                   deferred, store, called, discarded>>

SeeInterrupt(w) ==
    /\ pc[w] = "entry" /\ ~shutdown /\ interrupted[w]
    /\ interrupted' = [interrupted EXCEPT ![w] = FALSE]
    /\ result' = [result EXCEPT ![w] = INTERRUPTED]
    /\ pc' = [pc EXCEPT ![w] = "returning"]
    /\ UNCHANGED <<flags, workers, queue, counters, current_op, unblocking,
                   deferred, store, called, discarded>>

dequeue_work_KeepLast == IF Len(queue) = 1 THEN queue ELSE Tail(queue)
dequeue_work == Tail(queue)

TakeWork(w) ==
    /\ pc[w] = "entry" /\ ~shutdown /\ ~interrupted[w] /\ queue # <<>>
    /\ queue' = dequeue_work
    /\ result' = [result EXCEPT ![w] = Head(queue)]
    /\ in_progress_count' = in_progress_count + 1
    /\ current_op' = [current_op EXCEPT ![w] = Head(queue)]
    /\ pc' = [pc EXCEPT ![w] = "executing"]
    /\ UNCHANGED <<flags, workers, submitted_count, completed_count, interrupted,
                   unblocking, deferred, store, called, discarded>>

\* rb_fiber_scheduler_blocking_operation_execute returns.
OperationReturns(w) ==
    /\ pc[w] = "executing"
    /\ pc' = [pc EXCEPT ![w] = "executed"]
    /\ UNCHANGED <<flags, workers, queue, counters, interrupted, current_op, result,
                   unblocking, deferred, store, called, discarded>>

ForgetOperation_Kept(w) ==
    /\ pc[w] = "executed"
    /\ pc' = [pc EXCEPT ![w] = "returning"]
    /\ UNCHANGED <<flags, workers, queue, counters, interrupted, current_op, result,
                   unblocking, deferred, store, called, discarded>>
\* The second critical section of worker_wait_and_execute.
ForgetOperation(w) ==
    /\ pc[w] = "executed"
    /\ current_op' = [current_op EXCEPT ![w] = NULL]
    /\ pc' = [pc EXCEPT ![w] = "returning"]
    /\ UNCHANGED <<flags, workers, queue, counters, interrupted, result, unblocking,
                   deferred, store, called, discarded>>

\* Back in worker_thread_func with the GVL.
ThreadExit(w) ==
    /\ pc[w] = "returning" /\ unblocking[w] = Idle /\ result[w] = NULL
    /\ pc' = [pc EXCEPT ![w] = "exited"]
    /\ UNCHANGED <<flags, workers, queue, counters, interrupted, current_op, result,
                   unblocking, deferred, store, called, discarded>>

LoopBack(w) ==
    /\ pc[w] = "returning" /\ unblocking[w] = Idle /\ result[w] = INTERRUPTED
    /\ result' = [result EXCEPT ![w] = NULL]
    /\ pc' = [pc EXCEPT ![w] = "entry"]
    /\ UNCHANGED <<flags, workers, queue, counters, interrupted, current_op, unblocking,
                   deferred, store, called, discarded>>

CountCompleted_Twice ==
    in_progress_count' = in_progress_count - 2 /\ completed_count' = completed_count + 1
CountCompleted_NotEnded ==
    in_progress_count' = in_progress_count /\ completed_count' = completed_count + 1
CountCompleted ==
    in_progress_count' = in_progress_count - 1 /\ completed_count' = completed_count + 1

DeferCallback(k) == deferred' = Append(deferred, k)

worker_pool_complete(w) ==
    /\ pc[w] = "returning" /\ unblocking[w] = Idle /\ result[w] \in Work
    /\ CountCompleted
    /\ DeferCallback(result[w])
    /\ result' = [result EXCEPT ![w] = NULL]
    /\ pc' = [pc EXCEPT ![w] = "entry"]
    /\ UNCHANGED <<flags, workers, queue, submitted_count, interrupted, current_op,
                   unblocking, store, called, discarded>>

-----------------------------------------------------------------------------
\* The Ruby VM interrupts a worker.  Its unblock function reads current_op
\* under the mutex and cancels the operation after unlocking.

worker_unblock_func(w) ==
    /\ InRegion(w) /\ unblocking[w] = Idle
    /\ interrupted' = [interrupted EXCEPT ![w] = TRUE]
    /\ unblocking' = [unblocking EXCEPT ![w] = current_op[w]]
    /\ WakeAll
    /\ UNCHANGED <<flags, workers, queue, counters, current_op, result,
                   deferred, store, called, discarded>>

\* blocking_operation_cancel(op) when op is set; then the function returns.
CancelAndReturn(w) ==
    /\ unblocking[w] # Idle
    /\ unblocking' = [unblocking EXCEPT ![w] = Idle]
    /\ UNCHANGED <<flags, workers, queue, counters, interrupted, current_op, pc, result,
                   deferred, store, called, discarded>>

ReleaseCallback_Leak(k) == UNCHANGED store
ReleaseCallback(k) == store' = store \ {k}

\* The reactor runs the completion: the callback resumes the fiber, then its
\* reference and the work item are released.
worker_pool_deferred_callback ==
    /\ deferred # <<>>
    /\ called' = called \cup {Head(deferred)}
    /\ ReleaseCallback(Head(deferred))
    /\ deferred' = Tail(deferred)
    /\ UNCHANGED <<flags, workers, queue, counters, locals, discarded>>

WorkerStep(w) ==
    \/ WaitForWork(w) \/ SeeShutdown(w) \/ SeeInterrupt(w) \/ TakeWork(w)
    \/ OperationReturns(w) \/ ForgetOperation(w)
    \/ ThreadExit(w) \/ LoopBack(w) \/ worker_pool_complete(w)

\* Everything but the VM's interrupts.
PoolStep ==
    \/ \E created \in SUBSET Worker : worker_pool_initialize(created)
    \/ \E k \in Work : worker_pool_enqueue(k)
    \/ worker_pool_close
    \/ worker_pool_closed
    \/ \E w \in Worker : WorkerStep(w)
    \/ \E w \in Worker : SpuriousWakeup(w)
    \/ \E w \in Worker : CancelAndReturn(w)
    \/ worker_pool_deferred_callback

Next == PoolStep \/ \E w \in Worker : worker_unblock_func(w)

Spec == Init /\ [][Next]_vars

\* Threads are scheduled, operations end, the VM's unblock function returns, the
\* closing thread continues after its joins and the reactor drains its tasks.
Fairness ==
    /\ \A w \in Worker : WF_vars(WorkerStep(w)) /\ WF_vars(CancelAndReturn(w))
    /\ WF_vars(worker_pool_closed)
    /\ WF_vars(worker_pool_deferred_callback)

FairSpec == Spec /\ Fairness

-----------------------------------------------------------------------------
\* pool.stats: submitted and completed are read before the mutex is taken, but
\* they change only under the GVL, which the reader holds.
worker_pool_statistics ==
    [workers |-> Cardinality(workers), queued |-> Len(queue), submitted |-> submitted_count,
     in_progress |-> in_progress_count, completed |-> completed_count, closed |-> shutdown]

\* Whatever the interleaving, pool.stats adds up: every submitted work item is
\* queued, in progress or completed, until close discards what was queued.
StatsAddUp ==
    LET s == worker_pool_statistics IN
    s.submitted = s.queued + s.in_progress + s.completed + Cardinality(discarded)

\* A work item is owned by exactly one of: the queue, one worker, the reactor's
\* task queue; and never again once its callback ran or close released it.  So no
\* callback runs twice and no item is freed twice or used after it was freed.
OneOwner ==
    /\ \A i, j \in DOMAIN queue : queue[i] = queue[j] => i = j
    /\ \A i, j \in DOMAIN deferred : deferred[i] = deferred[j] => i = j
    /\ \A v, w \in Worker : result[v] \in Work /\ result[v] = result[w] => v = w
    /\ Queued \cap InHand = {} /\ Queued \cap Deferred = {} /\ InHand \cap Deferred = {}
    /\ Live \cap (called \cup discarded) = {}
    /\ called \cap discarded = {}

\* IodineStore keeps a callback alive exactly as long as somebody may still call
\* it: neither a collected callback nor a leaked one.
StoreHoldsLiveCallbacks == store = Live

Asleep == {w \in Worker : pc[w] = "waiting"}
Awake == {w \in Worker : pc[w] = "entry" \/ result[w] = INTERRUPTED}

\* No lost wakeup: while a worker sleeps on `work_available`, every queued item has
\* a worker awake and about to look at the queue, interrupts included.
NoSleepWhileWorkWaits ==
    Asleep # {} => ~shutdown /\ Len(queue) <= Cardinality(Awake)

\* An unblock function that is about to cancel an operation, after it dropped the
\* mutex, holds the operation its worker still has in hand: never one that was
\* already reported and whose fiber may be gone.
CancelsOperationInHand ==
    \A w \in Worker : unblocking[w] \in Work => unblocking[w] = result[w]

\* Once close destroyed the mutex and freed the workers, no worker thread and no
\* unblock function is left that could touch them.
ClosedPoolIsQuiet ==
    ~initialized => \A w \in Worker : pc[w] \in {"none", "exited"} /\ unblocking[w] = Idle

\* The block given to enqueue is called after the operation completes, unless
\* close discards the work before a worker takes it; work a worker has started is
\* reported even when the pool closes meanwhile.
SubmittedWorkEnds ==
    \A k \in Work :
        /\ (k \in Live) ~> (k \in called \cup discarded)
        /\ (k \in InHand) ~> (k \in called)

\* close returns: every worker notices the shutdown and can be joined.
CloseReturns == (shutdown /\ initialized) ~> ~initialized

\* The pool makes progress: work that was accepted is executed and answered
\* (worker_pool_enqueue), and worker_pool_close comes back.
PoolProgress == SubmittedWorkEnds /\ CloseReturns

\* The pool's memory: counters and queue keep their types, IodineStore holds the
\* callbacks of live work items only, and after worker_pool_close nothing is left
\* that could touch a freed worker or the destroyed mutex.
PoolSound == TypeOK /\ StoreHoldsLiveCallbacks /\ ClosedPoolIsQuiet
=============================================================================
