-------------------------- MODULE WorkerPoolProofs --------------------------
(***************************************************************************)
(* Theorems about the worker pool, for any finite set of workers and any   *)
(* set of work items.                                                      *)
(***************************************************************************)
EXTENDS WorkerPool, FiniteSetTheorems, TLAPS

\* What a worker's thread position says of its locals, of the pool that created it
\* and of the unblock functions that may run on it.
ThreadsAgree ==
    /\ \A w \in Worker :
          /\ pc[w] \in {"none", "entry", "waiting", "exited"} =>
                result[w] = NULL /\ current_op[w] = NULL
          /\ pc[w] \in {"executing", "executed"} =>
                result[w] \in Work /\ current_op[w] = result[w]
          /\ pc[w] = "returning" => current_op[w] = NULL
          /\ unblocking[w] # Idle => InRegion(w)
          /\ w \notin workers => pc[w] \in {"none", "exited"}
    /\ ~initialized => workers = {}

\* Workers between taking a work item and reporting it.
Busy == {w \in Worker : result[w] \in Work}

\* The atomic counter counts them, so it never wraps below zero.
InProgressIsBusy == in_progress_count = Cardinality(Busy)

Inv == TypeOK /\ ThreadsAgree /\ InProgressIsBusy /\ CancelsOperationInHand

\* Subsets of Worker are finite and their sizes move by one.
LEMMA Counting ==
    ASSUME NEW S \in SUBSET Worker, NEW w \in Worker
    PROVE  /\ IsFiniteSet(S) /\ Cardinality(S) \in Nat
           /\ w \notin S => Cardinality(S \cup {w}) = Cardinality(S) + 1
           /\ w \in S => Cardinality(S) > 0 /\ Cardinality(S \ {w}) = Cardinality(S) - 1
<1>1. IsFiniteSet(S)
    BY FS_Subset, WorkerPoolAssumption
<1>2. Cardinality(S) \in Nat
    BY <1>1, FS_CardinalityType
<1>3. w \notin S => Cardinality(S \cup {w}) = Cardinality(S) + 1
    BY <1>1, FS_AddElement
<1>4. w \in S => Cardinality(S \ {w}) = Cardinality(S) - 1
    BY <1>1, FS_RemoveElement
<1>5. w \in S => Cardinality(S) # 0
    BY <1>1, FS_EmptySet
<1> QED
    BY <1>1, <1>2, <1>3, <1>4, <1>5

LEMMA EmptySeq == <<>> \in Seq(Work)
OBVIOUS

LEMMA InvInit == Init => Inv
<1> SUFFICES ASSUME Init PROVE Inv
    OBVIOUS
<1> USE DEF Init
<1>1. TypeOK
    BY EmptySeq DEF TypeOK, Idle
<1>2. ThreadsAgree
    BY DEF ThreadsAgree, Idle
<1>3. Busy = {}
    BY WorkerPoolAssumption DEF Busy
<1>4. InProgressIsBusy
    BY <1>3, FS_EmptySet DEF InProgressIsBusy
<1>5. CancelsOperationInHand
    BY WorkerPoolAssumption DEF CancelsOperationInHand, Idle
<1> QED
    BY <1>1, <1>2, <1>4, <1>5 DEF Inv

\* Steps that take no work and report none leave the set of busy workers alone.
LEMMA BusyUnchanged ==
    ASSUME InProgressIsBusy, UNCHANGED in_progress_count,
           \A w \in Worker : result'[w] \in Work <=> result[w] \in Work
    PROVE  InProgressIsBusy'
BY DEF InProgressIsBusy, Busy

\* The invariant is preserved by every step of the Ruby threads, the workers, the
\* VM and the reactor.
LEMMA InvStep == Inv /\ [Next]_vars => Inv'
<1> SUFFICES ASSUME Inv, [Next]_vars PROVE Inv'
    OBVIOUS
<1> USE WorkerPoolAssumption DEF Inv
<1>0. Queued \subseteq Work
    BY DEF TypeOK, Queued
<1>1. ASSUME NEW created \in SUBSET Worker, worker_pool_initialize(created) PROVE Inv'
  <2> USE <1>1 DEF worker_pool_initialize, counters
  <2>1. TypeOK'
    BY DEF TypeOK
  <2>2. ThreadsAgree'
    BY DEF TypeOK, ThreadsAgree, InRegion, Idle
  <2>3. InProgressIsBusy'
    BY BusyUnchanged
  <2>4. CancelsOperationInHand'
    BY DEF CancelsOperationInHand
  <2> QED
    BY <2>1, <2>2, <2>3, <2>4
<1>2. ASSUME NEW k \in Work, worker_pool_enqueue(k) PROVE Inv'
  <2> USE <1>2 DEF worker_pool_enqueue, SignalOne, flags
  <2>1. TypeOK'
    BY DEF TypeOK, Idle
  <2>2. ThreadsAgree'
    BY DEF TypeOK, ThreadsAgree, InRegion, Idle
  <2>3. InProgressIsBusy'
    BY BusyUnchanged DEF TypeOK
  <2>4. CancelsOperationInHand'
    BY DEF TypeOK, ThreadsAgree, CancelsOperationInHand, Idle, InRegion
  <2> QED
    BY <2>1, <2>2, <2>3, <2>4
<1>3. CASE worker_pool_close
  <2> USE <1>3 DEF worker_pool_close, WakeAll, counters
  <2>1. TypeOK'
    BY DEF TypeOK, Idle
  <2>2. ThreadsAgree'
    BY DEF TypeOK, ThreadsAgree, InRegion, Idle
  <2>3. InProgressIsBusy'
    BY BusyUnchanged DEF TypeOK
  <2>4. CancelsOperationInHand'
    BY DEF TypeOK, ThreadsAgree, CancelsOperationInHand, Idle, InRegion
  <2> QED
    BY <2>1, <2>2, <2>3, <2>4
<1>4. CASE worker_pool_closed
  <2> USE <1>4, <1>0 DEF worker_pool_closed, JoinAll, counters, locals
  <2>1. TypeOK'
    BY EmptySeq DEF TypeOK, Idle
  <2>2. ThreadsAgree'
    BY DEF TypeOK, ThreadsAgree, InRegion, Idle
  <2>3. InProgressIsBusy'
    BY BusyUnchanged DEF TypeOK
  <2>4. CancelsOperationInHand'
    BY DEF TypeOK, ThreadsAgree, CancelsOperationInHand, Idle, InRegion
  <2> QED
    BY <2>1, <2>2, <2>3, <2>4
<1>5. ASSUME NEW w \in Worker, WaitForWork(w) PROVE Inv'
  <2> USE <1>5 DEF WaitForWork, flags, counters
  <2>1. TypeOK'
    BY DEF TypeOK, Idle
  <2>2. ThreadsAgree'
    BY DEF TypeOK, ThreadsAgree, InRegion, Idle
  <2>3. InProgressIsBusy'
    BY BusyUnchanged DEF TypeOK
  <2>4. CancelsOperationInHand'
    BY DEF TypeOK, ThreadsAgree, CancelsOperationInHand, Idle, InRegion
  <2> QED
    BY <2>1, <2>2, <2>3, <2>4
<1>6. ASSUME NEW w \in Worker, SpuriousWakeup(w) PROVE Inv'
  <2> USE <1>6 DEF SpuriousWakeup, flags, counters
  <2>1. TypeOK'
    BY DEF TypeOK, Idle
  <2>2. ThreadsAgree'
    BY DEF TypeOK, ThreadsAgree, InRegion, Idle
  <2>3. InProgressIsBusy'
    BY BusyUnchanged DEF TypeOK
  <2>4. CancelsOperationInHand'
    BY DEF TypeOK, ThreadsAgree, CancelsOperationInHand, Idle, InRegion
  <2> QED
    BY <2>1, <2>2, <2>3, <2>4
<1>7. ASSUME NEW w \in Worker, SeeShutdown(w) PROVE Inv'
  <2> USE <1>7 DEF SeeShutdown, flags, counters
  <2>1. TypeOK'
    BY DEF TypeOK, Idle
  <2>2. ThreadsAgree'
    BY DEF TypeOK, ThreadsAgree, InRegion, Idle
  <2>3. InProgressIsBusy'
    BY BusyUnchanged DEF TypeOK, ThreadsAgree
  <2>4. CancelsOperationInHand'
    BY DEF TypeOK, ThreadsAgree, CancelsOperationInHand, Idle, InRegion
  <2> QED
    BY <2>1, <2>2, <2>3, <2>4
<1>8. ASSUME NEW w \in Worker, SeeInterrupt(w) PROVE Inv'
  <2> USE <1>8 DEF SeeInterrupt, flags, counters
  <2>1. TypeOK'
    BY DEF TypeOK, Idle
  <2>2. ThreadsAgree'
    BY DEF TypeOK, ThreadsAgree, InRegion, Idle
  <2>3. InProgressIsBusy'
    BY BusyUnchanged DEF TypeOK, ThreadsAgree
  <2>4. CancelsOperationInHand'
    BY DEF TypeOK, ThreadsAgree, CancelsOperationInHand, Idle, InRegion
  <2> QED
    BY <2>1, <2>2, <2>3, <2>4
<1>9. ASSUME NEW w \in Worker, TakeWork(w) PROVE Inv'
  <2> USE <1>9 DEF TakeWork, dequeue_work, flags
  <2>1. TypeOK'
    BY DEF TypeOK, Idle
  <2>2. ThreadsAgree'
    BY DEF TypeOK, ThreadsAgree, InRegion, Idle
  <2>3. InProgressIsBusy'
    <3>1. w \notin Busy
      BY DEF TypeOK, ThreadsAgree, Busy
    <3>2. Busy' = Busy \cup {w}
      BY DEF TypeOK, Busy
    <3> QED
      BY <3>1, <3>2, Counting DEF InProgressIsBusy, Busy
  <2>4. CancelsOperationInHand'
    BY DEF TypeOK, ThreadsAgree, CancelsOperationInHand, Idle, InRegion
  <2> QED
    BY <2>1, <2>2, <2>3, <2>4
<1>10. ASSUME NEW w \in Worker, OperationReturns(w) PROVE Inv'
  <2> USE <1>10 DEF OperationReturns, flags, counters
  <2>1. TypeOK'
    BY DEF TypeOK, Idle
  <2>2. ThreadsAgree'
    BY DEF TypeOK, ThreadsAgree, InRegion, Idle
  <2>3. InProgressIsBusy'
    BY BusyUnchanged DEF TypeOK
  <2>4. CancelsOperationInHand'
    BY DEF TypeOK, ThreadsAgree, CancelsOperationInHand, Idle, InRegion
  <2> QED
    BY <2>1, <2>2, <2>3, <2>4
<1>11. ASSUME NEW w \in Worker, ForgetOperation(w) PROVE Inv'
  <2> USE <1>11 DEF ForgetOperation, flags, counters
  <2>1. TypeOK'
    BY DEF TypeOK, Idle
  <2>2. ThreadsAgree'
    BY DEF TypeOK, ThreadsAgree, InRegion, Idle
  <2>3. InProgressIsBusy'
    BY BusyUnchanged DEF TypeOK
  <2>4. CancelsOperationInHand'
    BY DEF TypeOK, ThreadsAgree, CancelsOperationInHand, Idle, InRegion
  <2> QED
    BY <2>1, <2>2, <2>3, <2>4
<1>12. ASSUME NEW w \in Worker, ThreadExit(w) PROVE Inv'
  <2> USE <1>12 DEF ThreadExit, flags, counters
  <2>1. TypeOK'
    BY DEF TypeOK, Idle
  <2>2. ThreadsAgree'
    BY DEF TypeOK, ThreadsAgree, InRegion, Idle
  <2>3. InProgressIsBusy'
    BY BusyUnchanged DEF TypeOK
  <2>4. CancelsOperationInHand'
    BY DEF TypeOK, ThreadsAgree, CancelsOperationInHand, Idle, InRegion
  <2> QED
    BY <2>1, <2>2, <2>3, <2>4
<1>13. ASSUME NEW w \in Worker, LoopBack(w) PROVE Inv'
  <2> USE <1>13 DEF LoopBack, flags, counters
  <2>1. TypeOK'
    BY DEF TypeOK, Idle
  <2>2. ThreadsAgree'
    BY DEF TypeOK, ThreadsAgree, InRegion, Idle
  <2>3. InProgressIsBusy'
    BY BusyUnchanged DEF TypeOK
  <2>4. CancelsOperationInHand'
    BY DEF TypeOK, ThreadsAgree, CancelsOperationInHand, Idle, InRegion
  <2> QED
    BY <2>1, <2>2, <2>3, <2>4
<1>14. ASSUME NEW w \in Worker, worker_pool_complete(w) PROVE Inv'
  <2> USE <1>14 DEF worker_pool_complete, CountCompleted, DeferCallback, flags
  <2>0. in_progress_count > 0
    BY Counting DEF InProgressIsBusy, Busy
  <2>1. TypeOK'
    BY <2>0 DEF TypeOK
  <2>2. ThreadsAgree'
    BY DEF TypeOK, ThreadsAgree, InRegion, Idle
  <2>3. InProgressIsBusy'
    <3>1. w \in Busy
      BY DEF Busy
    <3>2. Busy' = Busy \ {w}
      BY DEF TypeOK, Busy
    <3> QED
      BY <3>1, <3>2, Counting DEF InProgressIsBusy, Busy
  <2>4. CancelsOperationInHand'
    BY DEF TypeOK, ThreadsAgree, CancelsOperationInHand, Idle, InRegion
  <2> QED
    BY <2>1, <2>2, <2>3, <2>4
<1>15. ASSUME NEW w \in Worker, worker_unblock_func(w) PROVE Inv'
  <2> USE <1>15 DEF worker_unblock_func, WakeAll, flags, counters
  <2>1. TypeOK'
    BY DEF TypeOK, Idle
  <2>2. ThreadsAgree'
    BY DEF TypeOK, ThreadsAgree, InRegion, Idle
  <2>3. InProgressIsBusy'
    BY BusyUnchanged DEF TypeOK
  <2>4. CancelsOperationInHand'
    BY DEF TypeOK, ThreadsAgree, CancelsOperationInHand, Idle, InRegion
  <2> QED
    BY <2>1, <2>2, <2>3, <2>4
<1>16. ASSUME NEW w \in Worker, CancelAndReturn(w) PROVE Inv'
  <2> USE <1>16 DEF CancelAndReturn, flags, counters
  <2>1. TypeOK'
    BY DEF TypeOK, Idle
  <2>2. ThreadsAgree'
    BY DEF TypeOK, ThreadsAgree, InRegion, Idle
  <2>3. InProgressIsBusy'
    BY BusyUnchanged DEF TypeOK
  <2>4. CancelsOperationInHand'
    BY DEF TypeOK, ThreadsAgree, CancelsOperationInHand, Idle, InRegion
  <2> QED
    BY <2>1, <2>2, <2>3, <2>4
<1>17. CASE worker_pool_deferred_callback
  <2> USE <1>17 DEF worker_pool_deferred_callback, ReleaseCallback, flags, counters, locals
  <2>1. TypeOK'
    BY DEF TypeOK, Idle
  <2>2. ThreadsAgree'
    BY DEF TypeOK, ThreadsAgree, InRegion, Idle
  <2>3. InProgressIsBusy'
    BY BusyUnchanged DEF TypeOK
  <2>4. CancelsOperationInHand'
    BY DEF TypeOK, ThreadsAgree, CancelsOperationInHand, Idle, InRegion
  <2> QED
    BY <2>1, <2>2, <2>3, <2>4
<1>18. CASE UNCHANGED vars
  <2> USE <1>18 DEF vars, flags, counters, locals
  <2>1. TypeOK'
    BY DEF TypeOK, Idle
  <2>2. ThreadsAgree'
    BY DEF TypeOK, ThreadsAgree, InRegion, Idle
  <2>3. InProgressIsBusy'
    BY BusyUnchanged DEF TypeOK
  <2>4. CancelsOperationInHand'
    BY DEF TypeOK, ThreadsAgree, CancelsOperationInHand, Idle, InRegion
  <2> QED
    BY <2>1, <2>2, <2>3, <2>4
<1> QED
    BY <1>1, <1>2, <1>3, <1>4, <1>5, <1>6, <1>7, <1>8, <1>9, <1>10, <1>11, <1>12, <1>13,
       <1>14, <1>15, <1>16, <1>17, <1>18
    DEF Next, PoolStep, WorkerStep

\* The types of the pool's fields and of every thread's locals, the counters being
\* naturals although worker_pool_complete decrements one of them.
THEOREM TypeCorrect == Spec => []TypeOK
<1>1. Inv => TypeOK
    BY DEF Inv
<1> QED
    BY <1>1, InvInit, InvStep, PTL DEF Spec

\* worker_unblock_func cancels, after it dropped the mutex, only the operation its
\* worker still has in hand.
THEOREM CancelSafety == Spec => []CancelsOperationInHand
<1>1. Inv => CancelsOperationInHand
    BY DEF Inv
<1> QED
    BY <1>1, InvInit, InvStep, PTL DEF Spec

\* Nothing touches the pool's mutex or a freed worker after close.
THEOREM CloseSafety == Spec => []ClosedPoolIsQuiet
<1>1. Inv => ClosedPoolIsQuiet
    BY DEF Inv, ThreadsAgree, InRegion, ClosedPoolIsQuiet, TypeOK
<1> QED
    BY <1>1, InvInit, InvStep, PTL DEF Spec

-----------------------------------------------------------------------------
\* No lost wakeup.  Each step is described by what it does to the sets of sleeping
\* and of awake workers and to the length of the queue.

LEMMA WakeupInit == Init => NoSleepWhileWorkWaits
BY DEF Init, NoSleepWhileWorkWaits, Asleep

LEMMA WakeupStep == Inv /\ NoSleepWhileWorkWaits /\ [Next]_vars => NoSleepWhileWorkWaits'
<1> SUFFICES ASSUME Inv, NoSleepWhileWorkWaits, [Next]_vars PROVE NoSleepWhileWorkWaits'
    OBVIOUS
<1> USE WorkerPoolAssumption DEF Inv
<1>a. Cardinality(Awake) \in Nat /\ Len(queue) \in Nat /\ Awake \in SUBSET Worker
    BY FS_Subset, FS_CardinalityType DEF Awake, TypeOK
<1>b. ASSUME Asleep' = {} PROVE NoSleepWhileWorkWaits'
    BY <1>b DEF NoSleepWhileWorkWaits
<1>c. ASSUME Asleep' \subseteq Asleep, UNCHANGED <<shutdown, queue>>, Awake' = Awake
      PROVE  NoSleepWhileWorkWaits'
    BY <1>c DEF NoSleepWhileWorkWaits
<1>d. ASSUME NEW w \in Worker, w \notin Awake, Awake' = Awake \cup {w},
             Asleep' \subseteq Asleep, UNCHANGED <<shutdown, queue>>
      PROVE  NoSleepWhileWorkWaits'
  <2>1. Cardinality(Awake') = Cardinality(Awake) + 1
    BY <1>a, <1>d, Counting
  <2> QED
    BY <2>1, <1>a, <1>d DEF NoSleepWhileWorkWaits
<1>1. ASSUME NEW created \in SUBSET Worker, worker_pool_initialize(created)
      PROVE  NoSleepWhileWorkWaits'
    BY <1>1, <1>b DEF worker_pool_initialize, Asleep
<1>2. ASSUME NEW k \in Work, worker_pool_enqueue(k) PROVE NoSleepWhileWorkWaits'
  <2> USE <1>2 DEF worker_pool_enqueue, flags
  <2>1. CASE Asleep = {}
    BY <2>1, <1>b DEF SignalOne, Asleep
  <2>2. CASE Asleep # {}
    <3>1. PICK w \in Asleep : pc' = [pc EXCEPT ![w] = "entry"]
      BY <2>2 DEF SignalOne, Asleep
    <3>2. w \in Worker /\ w \notin Awake
      BY DEF Asleep, Awake, ThreadsAgree
    <3>3. Awake' = Awake \cup {w}
      BY <3>1 DEF Asleep, Awake, TypeOK
    <3>4. Cardinality(Awake') = Cardinality(Awake) + 1
      BY <3>2, <3>3, <1>a, Counting
    <3>5. Len(queue') = Len(queue) + 1
      BY DEF TypeOK
    <3> QED
      BY <3>4, <3>5, <2>2, <1>a DEF NoSleepWhileWorkWaits
  <2> QED
    BY <2>1, <2>2
<1>3. CASE worker_pool_close
    BY <1>3, <1>b DEF worker_pool_close, WakeAll, Asleep, TypeOK
<1>4. CASE worker_pool_closed
  <2>1. Asleep' = {}
    BY <1>4 DEF worker_pool_closed, NoSleepWhileWorkWaits, Asleep, locals
  <2> QED
    BY <2>1, <1>b
<1>5. ASSUME NEW w \in Worker, WaitForWork(w) PROVE NoSleepWhileWorkWaits'
  <2>1. Len(queue') = 0 /\ ~shutdown'
    BY <1>5 DEF WaitForWork, flags
  <2>2. Awake' \in SUBSET Worker
    BY DEF Awake
  <2>3. Cardinality(Awake') \in Nat
    BY <2>2, FS_Subset, FS_CardinalityType
  <2> QED
    BY <2>1, <2>3 DEF NoSleepWhileWorkWaits
<1>6. ASSUME NEW w \in Worker, SpuriousWakeup(w) PROVE NoSleepWhileWorkWaits'
  <2> USE <1>6 DEF SpuriousWakeup, flags
  <2>1. w \notin Awake /\ Awake' = Awake \cup {w}
    BY DEF Awake, TypeOK, ThreadsAgree
  <2>2. Asleep' \subseteq Asleep
    BY DEF Asleep, TypeOK
  <2> QED
    BY <2>1, <2>2, <1>d
<1>7. ASSUME NEW w \in Worker, SeeShutdown(w) PROVE NoSleepWhileWorkWaits'
  <2>1. Asleep' = {}
    BY <1>7 DEF SeeShutdown, NoSleepWhileWorkWaits, Asleep, TypeOK
  <2> QED
    BY <2>1, <1>b
<1>8. ASSUME NEW w \in Worker, SeeInterrupt(w) PROVE NoSleepWhileWorkWaits'
    BY <1>8, <1>c DEF SeeInterrupt, flags, Asleep, Awake, TypeOK
<1>9. ASSUME NEW w \in Worker, TakeWork(w) PROVE NoSleepWhileWorkWaits'
  <2> USE <1>9 DEF TakeWork, dequeue_work, flags
  <2>1. w \in Awake /\ Awake' = Awake \ {w}
    BY DEF Awake, TypeOK
  <2>2. Cardinality(Awake') = Cardinality(Awake) - 1
    BY <2>1, <1>a, Counting
  <2>3. Len(queue') = Len(queue) - 1
    BY DEF TypeOK
  <2>4. Asleep' \subseteq Asleep
    BY DEF Asleep, TypeOK
  <2> QED
    BY <2>2, <2>3, <2>4, <1>a DEF NoSleepWhileWorkWaits
<1>10. ASSUME NEW w \in Worker, OperationReturns(w) PROVE NoSleepWhileWorkWaits'
    BY <1>10, <1>c DEF OperationReturns, flags, Asleep, Awake, TypeOK
<1>11. ASSUME NEW w \in Worker, ForgetOperation(w) PROVE NoSleepWhileWorkWaits'
    BY <1>11, <1>c DEF ForgetOperation, flags, Asleep, Awake, TypeOK
<1>12. ASSUME NEW w \in Worker, ThreadExit(w) PROVE NoSleepWhileWorkWaits'
    BY <1>12, <1>c DEF ThreadExit, flags, Asleep, Awake, TypeOK
<1>13. ASSUME NEW w \in Worker, LoopBack(w) PROVE NoSleepWhileWorkWaits'
    BY <1>13, <1>c DEF LoopBack, flags, Asleep, Awake, TypeOK
<1>14. ASSUME NEW w \in Worker, worker_pool_complete(w) PROVE NoSleepWhileWorkWaits'
  <2> USE <1>14 DEF worker_pool_complete, flags
  <2>1. w \notin Awake /\ Awake' = Awake \cup {w}
    BY DEF Awake, TypeOK
  <2>2. Asleep' \subseteq Asleep
    BY DEF Asleep, TypeOK
  <2> QED
    BY <2>1, <2>2, <1>d
<1>15. ASSUME NEW w \in Worker, worker_unblock_func(w) PROVE NoSleepWhileWorkWaits'
    BY <1>15, <1>b DEF worker_unblock_func, WakeAll, Asleep, TypeOK
<1>16. ASSUME NEW w \in Worker, CancelAndReturn(w) PROVE NoSleepWhileWorkWaits'
    BY <1>16, <1>c DEF CancelAndReturn, flags, Asleep, Awake
<1>17. CASE worker_pool_deferred_callback
    BY <1>17, <1>c DEF worker_pool_deferred_callback, flags, locals, Asleep, Awake
<1>18. CASE UNCHANGED vars
    BY <1>18, <1>c DEF vars, flags, locals, Asleep, Awake
<1> QED
    BY <1>1, <1>2, <1>3, <1>4, <1>5, <1>6, <1>7, <1>8, <1>9, <1>10, <1>11, <1>12, <1>13,
       <1>14, <1>15, <1>16, <1>17, <1>18
    DEF Next, PoolStep, WorkerStep

\* However many workers, items and interrupts: no worker sleeps while an item it
\* was signalled for waits, and nobody sleeps through a shutdown.
THEOREM NoLostWakeup == Spec => []NoSleepWhileWorkWaits
<1>1. Inv /\ NoSleepWhileWorkWaits /\ [Next]_vars => (Inv /\ NoSleepWhileWorkWaits)'
    BY InvStep, WakeupStep
<1> QED
    BY <1>1, InvInit, WakeupInit, PTL DEF Spec

-----------------------------------------------------------------------------
\* Ownership of work items.

\* A pool that never had workers never had work, and work is discarded only by a
\* close, after which nothing can be enqueued.
PoolPhase ==
    /\ ~shutdown => \A w \in Worker : pc[w] # "none"
    /\ (\A w \in Worker : pc[w] = "none") => queue = <<>> /\ discarded = {}
    /\ discarded # {} => shutdown

Owned == PoolPhase /\ OneOwner /\ StoreHoldsLiveCallbacks

\* Appending an item adds that item only.
LEMMA AppendElements ==
    ASSUME NEW s \in Seq(Work), NEW k \in Work
    PROVE  {Append(s, k)[i] : i \in DOMAIN Append(s, k)} = {s[i] : i \in DOMAIN s} \cup {k}
<1>1. DOMAIN s = 1 .. Len(s) /\ DOMAIN Append(s, k) = 1 .. Len(s) + 1 /\ Len(s) \in Nat
    OBVIOUS
<1>2. \A i \in 1 .. Len(s) : i \in 1 .. Len(s) + 1 /\ Append(s, k)[i] = s[i]
    OBVIOUS
<1>3. Len(s) + 1 \in 1 .. Len(s) + 1 /\ Append(s, k)[Len(s) + 1] = k
    BY <1>1
<1>4. \A i \in 1 .. Len(s) + 1 : i \in 1 .. Len(s) \/ i = Len(s) + 1
    BY <1>1
<1> QED
    BY <1>1, <1>2, <1>3, <1>4

\* Taking the head out of a queue without repetitions removes that item only.
LEMMA TailElements ==
    ASSUME NEW s \in Seq(Work), s # <<>>, \A i, j \in DOMAIN s : s[i] = s[j] => i = j
    PROVE  {Tail(s)[i] : i \in DOMAIN Tail(s)} = {s[i] : i \in DOMAIN s} \ {Head(s)}
<1>1. DOMAIN s = 1 .. Len(s) /\ DOMAIN Tail(s) = 1 .. Len(s) - 1 /\ Len(s) \in Nat \ {0}
    OBVIOUS
<1>2. \A i \in 1 .. Len(s) - 1 : Tail(s)[i] = s[i + 1]
    OBVIOUS
<1>3. Head(s) = s[1]
    OBVIOUS
<1>4. \A i \in 1 .. Len(s) - 1 : i + 1 \in 1 .. Len(s) /\ s[i + 1] # s[1]
    BY <1>1
<1>5. \A j \in 1 .. Len(s) : s[j] # s[1] => j - 1 \in 1 .. Len(s) - 1 /\ Tail(s)[j - 1] = s[j]
    BY <1>1, <1>2
<1>6. ASSUME NEW x PROVE x \in {Tail(s)[i] : i \in DOMAIN Tail(s)} => x \in {s[i] : i \in DOMAIN s} \ {Head(s)}
    BY <1>1, <1>2, <1>3, <1>4
<1>7. ASSUME NEW x PROVE x \in {s[i] : i \in DOMAIN s} \ {Head(s)} => x \in {Tail(s)[i] : i \in DOMAIN Tail(s)}
  <2>1. SUFFICES ASSUME NEW j \in DOMAIN s, s[j] # Head(s)
                 PROVE  s[j] \in {Tail(s)[i] : i \in DOMAIN Tail(s)}
    OBVIOUS
  <2>2. j \in 1 .. Len(s) /\ s[j] # s[1]
    BY <2>1, <1>1, <1>3
  <2>3. j - 1 \in 1 .. Len(s) - 1 /\ Tail(s)[j - 1] = s[j]
    BY <2>2, <1>5
  <2> QED
    BY <2>3, <1>1
<1> QED
    BY <1>6, <1>7

LEMMA OwnedInit == Init => Owned
<1> SUFFICES ASSUME Init PROVE Owned
    OBVIOUS
<1>1. Queued = {} /\ Deferred = {} /\ InHand = {}
    BY WorkerPoolAssumption DEF Init, Queued, Deferred, InHand
<1> QED
    BY <1>1, WorkerPoolAssumption DEF Init, Owned, PoolPhase, OneOwner, StoreHoldsLiveCallbacks, Live

LEMMA OwnedStep == Inv /\ Owned /\ [Next]_vars => Owned'
<1> SUFFICES ASSUME Inv, Owned, [Next]_vars PROVE Owned'
    OBVIOUS
<1> USE WorkerPoolAssumption DEF Inv
<1>a. queue \in Seq(Work) /\ deferred \in Seq(Work)
    BY DEF TypeOK
\* Steps that move no work item.
<1>b. ASSUME UNCHANGED <<queue, deferred, store, called, discarded>>,
             \A w \in Worker : result'[w] \in Work <=> result[w] \in Work,
             \A w \in Worker : result[w] \in Work => result'[w] = result[w]
      PROVE  OneOwner' /\ StoreHoldsLiveCallbacks'
  <2>1. Queued' = Queued /\ Deferred' = Deferred
    BY <1>b DEF Queued, Deferred
  <2>2. InHand' = InHand
    BY <1>b DEF InHand
  <2>3. \A v, w \in Worker : result'[v] \in Work /\ result'[v] = result'[w] => v = w
    BY <1>b DEF Owned, OneOwner
  <2> QED
    BY <1>b, <2>1, <2>2, <2>3 DEF Owned, OneOwner, StoreHoldsLiveCallbacks, Live
\* Steps that leave queue and phase alone.
<1>c. ASSUME UNCHANGED <<shutdown, queue, discarded>>,
             \A w \in Worker : pc'[w] = "none" <=> pc[w] = "none"
      PROVE  PoolPhase'
    BY <1>c DEF Owned, PoolPhase
<1>1. ASSUME NEW created \in SUBSET Worker, worker_pool_initialize(created) PROVE Owned'
  <2> USE <1>1 DEF worker_pool_initialize
  <2>1. PoolPhase'
    BY DEF Owned, PoolPhase
  <2> QED
    BY <2>1, <1>b DEF Owned
<1>2. ASSUME NEW k \in Work, worker_pool_enqueue(k) PROVE Owned'
  <2> USE <1>2 DEF worker_pool_enqueue, flags
  <2>1. Queued' = Queued \cup {k}
    <3>1. {Append(queue, k)[i] : i \in DOMAIN Append(queue, k)}
            = {queue[i] : i \in DOMAIN queue} \cup {k}
      BY <1>a, AppendElements
    <3> QED
      BY <3>1 DEF Queued
  <2>2. InHand' = InHand /\ Deferred' = Deferred
    BY DEF InHand, Deferred
  <2>3. \A i, j \in DOMAIN queue' : queue'[i] = queue'[j] => i = j
    BY <1>a DEF Owned, OneOwner, Queued, Live
  <2>4. discarded = {}
    BY DEF Owned, PoolPhase
  <2>5. OneOwner'
    BY <2>1, <2>2, <2>3, <2>4 DEF Owned, OneOwner, Live
  <2>6. StoreHoldsLiveCallbacks'
    BY <2>1, <2>2 DEF Owned, StoreHoldsLiveCallbacks, Live
  <2>7. \A w \in Worker : pc'[w] # "none"
    BY DEF Owned, PoolPhase, SignalOne, TypeOK
  <2>8. PoolPhase'
    BY <2>4, <2>7 DEF PoolPhase
  <2> QED
    BY <2>5, <2>6, <2>8 DEF Owned
<1>3. CASE worker_pool_close
  <2> USE <1>3 DEF worker_pool_close, WakeAll
  <2>1. PoolPhase'
    BY DEF Owned, PoolPhase, TypeOK
  <2> QED
    BY <2>1, <1>b DEF Owned
<1>4. CASE worker_pool_closed
  <2> USE <1>4 DEF worker_pool_closed, locals
  <2>1. Queued' = {} /\ InHand' = InHand /\ Deferred' = Deferred
    BY DEF Queued, InHand, Deferred
  <2>2. OneOwner'
    BY <2>1 DEF Owned, OneOwner, Live
  <2>3. StoreHoldsLiveCallbacks'
    BY <2>1 DEF Owned, OneOwner, StoreHoldsLiveCallbacks, Live
  <2>4. PoolPhase'
    BY DEF Owned, PoolPhase, Queued
  <2> QED
    BY <2>2, <2>3, <2>4 DEF Owned
<1>5. ASSUME NEW w \in Worker, WaitForWork(w) PROVE Owned'
    BY <1>5, <1>b, <1>c DEF WaitForWork, Owned, TypeOK, ThreadsAgree, flags
<1>6. ASSUME NEW w \in Worker, SpuriousWakeup(w) PROVE Owned'
    BY <1>6, <1>b, <1>c DEF SpuriousWakeup, Owned, TypeOK, ThreadsAgree, flags
<1>7. ASSUME NEW w \in Worker, SeeShutdown(w) PROVE Owned'
    BY <1>7, <1>b, <1>c DEF SeeShutdown, Owned, TypeOK, ThreadsAgree, flags
<1>8. ASSUME NEW w \in Worker, SeeInterrupt(w) PROVE Owned'
    BY <1>8, <1>b, <1>c DEF SeeInterrupt, Owned, TypeOK, ThreadsAgree, flags
<1>9. ASSUME NEW w \in Worker, TakeWork(w) PROVE Owned'
  <2> USE <1>9 DEF TakeWork, dequeue_work, flags
  <2>0. Head(queue) = queue[1] /\ 1 \in DOMAIN queue /\ Head(queue) \in Work
    BY <1>a
  <2>1. Queued' = Queued \ {Head(queue)} /\ Head(queue) \in Queued
    <3>1. queue # <<>> /\ \A i, j \in DOMAIN queue : queue[i] = queue[j] => i = j
      BY DEF Owned, OneOwner
    <3>2. {Tail(queue)[i] : i \in DOMAIN Tail(queue)}
            = {queue[i] : i \in DOMAIN queue} \ {Head(queue)}
      BY <3>1, <1>a, TailElements
    <3> QED
      BY <3>2, <2>0 DEF Queued
  <2>2. result[w] \notin Work
    BY DEF TypeOK, ThreadsAgree
  <2>3. InHand' = InHand \cup {Head(queue)}
    BY <2>0, <2>2 DEF InHand, TypeOK
  <2>4. Deferred' = Deferred
    BY DEF Deferred
  <2>5. \A i, j \in DOMAIN queue' : queue'[i] = queue'[j] => i = j
    BY <1>a DEF Owned, OneOwner
  <2>6. \A u, v \in Worker : result'[u] \in Work /\ result'[u] = result'[v] => u = v
    BY <2>1, <2>2 DEF Owned, OneOwner, InHand, TypeOK
  <2>7. OneOwner'
    BY <2>1, <2>3, <2>4, <2>5, <2>6 DEF Owned, OneOwner, Live
  <2>8. StoreHoldsLiveCallbacks'
    BY <2>1, <2>3, <2>4 DEF Owned, StoreHoldsLiveCallbacks, Live
  <2>9. PoolPhase'
    BY DEF Owned, PoolPhase, TypeOK
  <2> QED
    BY <2>7, <2>8, <2>9 DEF Owned
<1>10. ASSUME NEW w \in Worker, OperationReturns(w) PROVE Owned'
    BY <1>10, <1>b, <1>c DEF OperationReturns, Owned, TypeOK, ThreadsAgree, flags
<1>11. ASSUME NEW w \in Worker, ForgetOperation(w) PROVE Owned'
    BY <1>11, <1>b, <1>c DEF ForgetOperation, Owned, TypeOK, ThreadsAgree, flags
<1>12. ASSUME NEW w \in Worker, ThreadExit(w) PROVE Owned'
    BY <1>12, <1>b, <1>c DEF ThreadExit, Owned, TypeOK, ThreadsAgree, flags
<1>13. ASSUME NEW w \in Worker, LoopBack(w) PROVE Owned'
    BY <1>13, <1>b, <1>c DEF LoopBack, Owned, TypeOK, ThreadsAgree, flags
<1>14. ASSUME NEW w \in Worker, worker_pool_complete(w) PROVE Owned'
  <2> USE <1>14 DEF worker_pool_complete, DeferCallback, flags
  <2>1. InHand' = InHand \ {result[w]} /\ result[w] \in InHand
    BY DEF InHand, Owned, OneOwner, TypeOK
  <2>a. Deferred' = Deferred \cup {result[w]}
    <3>1. deferred' = Append(deferred, result[w]) /\ result[w] \in Work
      OBVIOUS
    <3>2. {Append(deferred, result[w])[i] : i \in DOMAIN Append(deferred, result[w])}
            = {deferred[i] : i \in DOMAIN deferred} \cup {result[w]}
      BY <1>a, <3>1, AppendElements
    <3> QED
      BY <3>1, <3>2 DEF Deferred
  <2>2. Deferred' = Deferred \cup {result[w]} /\ Queued' = Queued
    BY <2>a DEF Queued
  <2>3. \A i, j \in DOMAIN deferred' : deferred'[i] = deferred'[j] => i = j
    BY <1>a, <2>1 DEF Owned, OneOwner, Deferred
  <2>4. \A u, v \in Worker : result'[u] \in Work /\ result'[u] = result'[v] => u = v
    BY DEF Owned, OneOwner, TypeOK
  <2>5. OneOwner'
    BY <2>1, <2>2, <2>3, <2>4 DEF Owned, OneOwner, Live
  <2>6. StoreHoldsLiveCallbacks'
    BY <2>1, <2>2 DEF Owned, StoreHoldsLiveCallbacks, Live
  <2>7. PoolPhase'
    BY <1>c DEF TypeOK
  <2> QED
    BY <2>5, <2>6, <2>7 DEF Owned
<1>15. ASSUME NEW w \in Worker, worker_unblock_func(w) PROVE Owned'
    BY <1>15, <1>b, <1>c DEF worker_unblock_func, WakeAll, Owned, TypeOK, flags
<1>16. ASSUME NEW w \in Worker, CancelAndReturn(w) PROVE Owned'
    BY <1>16, <1>b, <1>c DEF CancelAndReturn, Owned, TypeOK, ThreadsAgree, flags
<1>17. CASE worker_pool_deferred_callback
  <2> USE <1>17 DEF worker_pool_deferred_callback, ReleaseCallback, flags, locals
  <2>0. Head(deferred) = deferred[1] /\ 1 \in DOMAIN deferred
    BY <1>a
  <2>1. Deferred' = Deferred \ {Head(deferred)} /\ Head(deferred) \in Deferred
    <3>1. deferred # <<>> /\ \A i, j \in DOMAIN deferred : deferred[i] = deferred[j] => i = j
      BY DEF Owned, OneOwner
    <3>2. {Tail(deferred)[i] : i \in DOMAIN Tail(deferred)}
            = {deferred[i] : i \in DOMAIN deferred} \ {Head(deferred)}
      BY <3>1, <1>a, TailElements
    <3> QED
      BY <3>2, <2>0 DEF Deferred
  <2>2. InHand' = InHand /\ Queued' = Queued
    BY DEF InHand, Queued
  <2>3. \A i, j \in DOMAIN deferred' : deferred'[i] = deferred'[j] => i = j
    BY <1>a DEF Owned, OneOwner
  <2>4. OneOwner'
    BY <2>1, <2>2, <2>3 DEF Owned, OneOwner, Live
  <2>5. StoreHoldsLiveCallbacks'
    BY <2>1, <2>2 DEF Owned, OneOwner, StoreHoldsLiveCallbacks, Live
  <2> QED
    BY <2>4, <2>5, <1>c DEF Owned
<1>18. CASE UNCHANGED vars
    BY <1>18, <1>b, <1>c DEF vars, flags, locals, Owned
<1> QED
    BY <1>1, <1>2, <1>3, <1>4, <1>5, <1>6, <1>7, <1>8, <1>9, <1>10, <1>11, <1>12, <1>13,
       <1>14, <1>15, <1>16, <1>17, <1>18
    DEF Next, PoolStep, WorkerStep

\* Every work item has one owner from enqueue to its callback or to close: no
\* callback runs twice and no item is used after it was freed.
THEOREM OwnershipSafety == Spec => []OneOwner
<1>1. Inv /\ Owned /\ [Next]_vars => (Inv /\ Owned)'
    BY InvStep, OwnedStep
<1>2. Owned => OneOwner
    BY DEF Owned
<1> QED
    BY <1>1, <1>2, InvInit, OwnedInit, PTL DEF Spec

\* IodineStore holds the callbacks of exactly the live work items.
THEOREM CallbackStoreSafety == Spec => []StoreHoldsLiveCallbacks
<1>1. Inv /\ Owned /\ [Next]_vars => (Inv /\ Owned)'
    BY InvStep, OwnedStep
<1>2. Owned => StoreHoldsLiveCallbacks
    BY DEF Owned
<1> QED
    BY <1>1, <1>2, InvInit, OwnedInit, PTL DEF Spec

\* The pool's memory is sound (worker_pool_complete, worker_pool_deferred_callback,
\* worker_pool_close): types, IodineStore's references and the quiet after close.
THEOREM PoolMemorySafety == Spec => []PoolSound
<1>1. TypeOK /\ StoreHoldsLiveCallbacks /\ ClosedPoolIsQuiet => PoolSound
    BY DEF PoolSound
<1> QED
    BY <1>1, TypeCorrect, CallbackStoreSafety, CloseSafety, PTL

-----------------------------------------------------------------------------
\* The statistics.

\* close discards a queue of finitely many items.
StatsInv == IsFiniteSet(discarded) /\ StatsAddUp

\* A queue without repetitions has as many items as places.
LEMMA QueuedCount ==
    ASSUME TypeOK, OneOwner
    PROVE  IsFiniteSet(Queued) /\ Cardinality(Queued) = Len(queue)
<1>1. Len(queue) \in Nat /\ DOMAIN queue = 1 .. Len(queue)
    BY DEF TypeOK
<1>2. IsFiniteSet(1 .. Len(queue)) /\ Cardinality(1 .. Len(queue)) = Len(queue)
  <2>1. 1 \in Int /\ Len(queue) \in Int
    BY <1>1
  <2>2. /\ IsFiniteSet(1 .. Len(queue))
        /\ Cardinality(1 .. Len(queue)) = IF 1 > Len(queue) THEN 0 ELSE Len(queue) - 1 + 1
    BY ONLY <2>1, FS_Interval
  <2> QED
    BY <2>2, <1>1
<1>3. ExistsBijection(1 .. Len(queue), Queued)
  <2> DEFINE place == [i \in 1 .. Len(queue) |-> queue[i]]
  <2>1. place \in Bijection(1 .. Len(queue), Queued)
    BY <1>1 DEF Bijection, Injection, Surjection, IsInjective, Queued, OneOwner
  <2> QED
    BY <2>1 DEF ExistsBijection
<1> QED
    BY <1>2, <1>3, FS_Bijection

LEMMA StatsInit == Init => StatsInv
BY FS_EmptySet DEF Init, StatsInv, StatsAddUp, worker_pool_statistics

LEMMA StatsStep == Inv /\ Owned /\ StatsInv /\ [Next]_vars => StatsInv'
<1> SUFFICES ASSUME Inv, Owned, StatsInv, [Next]_vars PROVE StatsInv'
    OBVIOUS
<1> USE DEF StatsInv, StatsAddUp, worker_pool_statistics
<1>a. /\ submitted_count \in Nat /\ in_progress_count \in Nat /\ completed_count \in Nat
      /\ queue \in Seq(Work) /\ Len(queue) \in Nat
      /\ Cardinality(discarded) \in Nat
    BY FS_CardinalityType DEF Inv, TypeOK
<1>b. ASSUME UNCHANGED <<queue, counters, discarded>> PROVE StatsInv'
    BY <1>b DEF counters
<1>1. ASSUME NEW created \in SUBSET Worker, worker_pool_initialize(created) PROVE StatsInv'
    BY <1>1, <1>b DEF worker_pool_initialize
<1>2. ASSUME NEW k \in Work, worker_pool_enqueue(k) PROVE StatsInv'
  <2>1. Len(queue') = Len(queue) + 1
    BY <1>2, <1>a DEF worker_pool_enqueue
  <2> QED
    BY <1>2, <1>a, <2>1 DEF worker_pool_enqueue
<1>3. CASE worker_pool_close
    BY <1>3, <1>b DEF worker_pool_close
<1>4. CASE worker_pool_closed
  <2>1. IsFiniteSet(Queued) /\ Cardinality(Queued) = Len(queue)
    BY QueuedCount DEF Inv, Owned
  <2>2. discarded \cap Queued = {}
    BY DEF Owned, OneOwner, Live
  <2>3. /\ IsFiniteSet(discarded \cup Queued)
        /\ Cardinality(discarded \cup Queued) = Cardinality(discarded) + Len(queue)
    <3>1. Cardinality(discarded \cap Queued) = 0
      BY <2>2, FS_EmptySet
    <3>2. /\ IsFiniteSet(discarded \cup Queued)
          /\ Cardinality(discarded \cup Queued)
                = Cardinality(discarded) + Cardinality(Queued) - Cardinality(discarded \cap Queued)
      BY <2>1, FS_Union
    <3> QED
      BY <2>1, <3>1, <3>2, <1>a
  <2>4. Len(queue') = 0
    BY <1>4 DEF worker_pool_closed
  <2> QED
    BY <1>4, <1>a, <2>3, <2>4 DEF worker_pool_closed, counters
<1>5. ASSUME NEW w \in Worker, WaitForWork(w) PROVE StatsInv'
    BY <1>5, <1>b DEF WaitForWork
<1>6. ASSUME NEW w \in Worker, SpuriousWakeup(w) PROVE StatsInv'
    BY <1>6, <1>b DEF SpuriousWakeup
<1>7. ASSUME NEW w \in Worker, SeeShutdown(w) PROVE StatsInv'
    BY <1>7, <1>b DEF SeeShutdown
<1>8. ASSUME NEW w \in Worker, SeeInterrupt(w) PROVE StatsInv'
    BY <1>8, <1>b DEF SeeInterrupt
<1>9. ASSUME NEW w \in Worker, TakeWork(w) PROVE StatsInv'
  <2>1. Len(queue') = Len(queue) - 1
    BY <1>9, <1>a DEF TakeWork, dequeue_work
  <2> QED
    BY <1>9, <1>a, <2>1 DEF TakeWork
<1>10. ASSUME NEW w \in Worker, OperationReturns(w) PROVE StatsInv'
    BY <1>10, <1>b DEF OperationReturns
<1>11. ASSUME NEW w \in Worker, ForgetOperation(w) PROVE StatsInv'
    BY <1>11, <1>b DEF ForgetOperation
<1>12. ASSUME NEW w \in Worker, ThreadExit(w) PROVE StatsInv'
    BY <1>12, <1>b DEF ThreadExit
<1>13. ASSUME NEW w \in Worker, LoopBack(w) PROVE StatsInv'
    BY <1>13, <1>b DEF LoopBack
<1>14. ASSUME NEW w \in Worker, worker_pool_complete(w) PROVE StatsInv'
    BY <1>14, <1>a DEF worker_pool_complete, CountCompleted
<1>15. ASSUME NEW w \in Worker, worker_unblock_func(w) PROVE StatsInv'
    BY <1>15, <1>b DEF worker_unblock_func
<1>16. ASSUME NEW w \in Worker, CancelAndReturn(w) PROVE StatsInv'
    BY <1>16, <1>b DEF CancelAndReturn
<1>17. CASE worker_pool_deferred_callback
    BY <1>17, <1>b DEF worker_pool_deferred_callback
<1>18. CASE UNCHANGED vars
    BY <1>18, <1>b DEF vars
<1> QED
    BY <1>1, <1>2, <1>3, <1>4, <1>5, <1>6, <1>7, <1>8, <1>9, <1>10, <1>11, <1>12, <1>13,
       <1>14, <1>15, <1>16, <1>17, <1>18
    DEF Next, PoolStep, WorkerStep

\* pool.stats adds up (worker_pool_statistics): every submitted item is queued, in
\* progress or completed, until worker_pool_close discards what was queued.
THEOREM StatsSafety == Spec => []StatsAddUp
<1>1. Inv /\ Owned /\ StatsInv /\ [Next]_vars => (Inv /\ Owned /\ StatsInv)'
    BY InvStep, OwnedStep, StatsStep
<1>2. StatsInv => StatsAddUp
    BY DEF StatsInv
<1> QED
    BY <1>1, <1>2, InvInit, OwnedInit, StatsInit, PTL DEF Spec
=============================================================================
