------------------------------- MODULE Timers -------------------------------
(***************************************************************************)
(* facil.io timers (fio.c, "Timers"): a list kept ordered by due time,     *)
(* from which the reactor moves what is due into the task queue; the task  *)
(* runs the timer and puts it back until its repetitions are used up.      *)
(*                                                                         *)
(* `fio_timer_lock` covers each access to the list, so an insertion, a     *)
(* scheduling pass and the final clearing are one step each.  Between      *)
(* being taken off the list and being put back a timer belongs to a task   *)
(* and is run by any of the pool's threads.                                *)
(***************************************************************************)
EXTENDS Naturals, Sequences, FiniteSets

CONSTANTS
    Timer,        \* timer objects, one per accepted or refused fio_run_every call
    Time,         \* instants of the cycle clock `last_cycle`, in milliseconds
    Interval,     \* `milliseconds` arguments
    Repetitions,  \* `repetitions` arguments; 0 repeats forever
    PROBE_LIMIT   \* FIO_TIMER_TAIL_PROBE_LIMIT

ASSUME TimersAssumption ==
    Time \subseteq Nat /\ Interval \subseteq Nat /\ Repetitions \subseteq Nat /\ PROBE_LIMIT \in Nat

VARIABLES
    last_cycle,   \* the reactor's notion of now; its origin is arbitrary
    timers,       \* the list fio_timers, first due first
    timer,        \* Timer -> {due, interval, repetitions}
    deferred,     \* fio_timer_perform_single tasks in the task queue
    running,      \* timers whose task a thread is running
    active,       \* the reactor has not been stopped
    cleared,      \* fio_worker_cleanup passed fio_timer_clear_all
    called,       \* timers fio_run_every was called for
    refused,      \* those it returned -1 for
    asked,        \* Timer -> repetitions asked for
    runs,         \* Timer -> times the task ran
    finished      \* Timer -> times on_finish was called

vars == <<last_cycle, timers, timer, deferred, running, active, cleared,
          called, refused, asked, runs, finished>>

Listed == {timers[i] : i \in DOMAIN timers}
Waiting == {deferred[i] : i \in DOMAIN deferred}

TypeOK ==
    /\ last_cycle \in Nat
    /\ timers \in Seq(Timer)
    /\ timer \in [Timer -> [due : Nat, interval : Nat, repetitions : Nat]]
    /\ deferred \in Seq(Timer)
    /\ running \subseteq Timer
    /\ active \in BOOLEAN /\ cleared \in BOOLEAN
    /\ called \subseteq Timer /\ refused \subseteq Timer
    /\ asked \in [Timer -> Nat]
    /\ runs \in [Timer -> Nat]
    /\ finished \in [Timer -> Nat]

Init ==
    /\ last_cycle = 0
    /\ timers = <<>> /\ deferred = <<>> /\ running = {}
    /\ timer = [t \in Timer |-> [due |-> 0, interval |-> 0, repetitions |-> 0]]
    /\ active = TRUE /\ cleared = FALSE
    /\ called = {} /\ refused = {}
    /\ asked = [t \in Timer |-> 0]
    /\ runs = [t \in Timer |-> 0]
    /\ finished = [t \in Timer |-> 0]

-----------------------------------------------------------------------------

fio_timer_calc_due(now, interval) == now + interval

\* The place fio_timer_add_order gives a timer due at `d` in a non-empty list:
\* the tail, the head, behind the last of the PROBE_LIMIT rearmost timers that
\* is not later, or else before the first that is not earlier.
ProbeWindow == {i \in DOMAIN timers : i + PROBE_LIMIT > Len(timers)}

Place_AtProbeLimit(d) ==
    IF timers # <<>> /\ d < timer[timers[Len(timers)]].due
    THEN (IF Len(timers) > PROBE_LIMIT THEN Len(timers) - PROBE_LIMIT ELSE 0) + 1
    ELSE Len(timers) + 1
Place(d) ==
    LET dueAt(i)  == timer[timers[i]].due
        probed    == {i \in ProbeWindow : dueAt(i) <= d}
        notBefore == {i \in DOMAIN timers : d <= dueAt(i)}
    IN  IF timers = <<>> \/ d >= dueAt(Len(timers)) THEN Len(timers) + 1
        ELSE IF d <= dueAt(1) THEN 1
        ELSE IF probed # {} THEN (CHOOSE i \in probed : \A j \in probed : j <= i) + 1
        ELSE CHOOSE i \in notBefore : \A j \in notBefore : i <= j

InsertAt(i, t) == SubSeq(timers, 1, i - 1) \o <<t>> \o SubSeq(timers, i, Len(timers))

fio_timer_add_order(t, due) == timers' = InsertAt(Place(due), t)

\* fio_run_every refreshes the cycle clock itself: `now` is what it reads.
fio_run_every(t, milliseconds, repetitions, now) ==
    /\ t \notin called /\ called' = called \cup {t}
    /\ asked' = [asked EXCEPT ![t] = repetitions]
    /\ \/ /\ milliseconds = 0 /\ repetitions = 0
          /\ refused' = refused \cup {t}
          /\ UNCHANGED <<last_cycle, timers, timer>>
       \/ /\ milliseconds # 0 \/ repetitions # 0
          /\ last_cycle' = now
          /\ LET due == fio_timer_calc_due(now, milliseconds) IN
             /\ timer' = [timer EXCEPT ![t] = [due |-> due, interval |-> milliseconds,
                                               repetitions |-> repetitions]]
             /\ fio_timer_add_order(t, due)
          /\ UNCHANGED refused
    /\ UNCHANGED <<deferred, running, active, cleared, runs, finished>>

\* How many timers at the front of the list are due at `now`.
DueCount_Strict(now) ==
    Cardinality({i \in DOMAIN timers : \A j \in 1 .. i : timer[timers[j]].due < now})
DueCount(now) ==
    Cardinality({i \in DOMAIN timers : \A j \in 1 .. i : timer[timers[j]].due <= now})

Remaining_OneBack(now) ==
    SubSeq(timers, IF DueCount(now) = 0 THEN 1 ELSE DueCount(now), Len(timers))
Remaining(now) == SubSeq(timers, DueCount(now) + 1, Len(timers))

\* fio_cycle_schedule_events marks the time and defers every due timer.
fio_timer_schedule(now) ==
    /\ ~cleared
    /\ last_cycle' = now
    /\ deferred' = deferred \o SubSeq(timers, 1, DueCount(now))
    /\ timers' = Remaining(now)
    /\ UNCHANGED <<timer, running, active, cleared, called, asked, refused, runs, finished>>

\* A thread takes the oldest task and calls timer->task.
fio_timer_perform_single ==
    /\ deferred # <<>>
    /\ running' = running \cup {Head(deferred)}
    /\ runs' = [runs EXCEPT ![Head(deferred)] = @ + 1]
    /\ deferred' = Tail(deferred)
    /\ UNCHANGED <<last_cycle, timers, timer, active, cleared, called, asked, refused, finished>>

LastRepetition_OneShort(t) == timer[t].repetitions \in {1, 2}
\* `!repetitions || fio_atomic_sub(&repetitions, 1)`: zero repeats forever.
LastRepetition(t) == timer[t].repetitions = 1

OneLess_Wrapped(n) == n - 1
OneLess(n) == IF n = 0 THEN 0 ELSE n - 1

\* The task returned: one repetition less, then reschedule or finish.
fio_timer_reschedule(t) ==
    /\ t \in running /\ ~LastRepetition(t)
    /\ LET due == fio_timer_calc_due(last_cycle, timer[t].interval) IN
       /\ timer' = [timer EXCEPT ![t].due = due,
                                 ![t].repetitions = OneLess(@)]
       /\ fio_timer_add_order(t, due)
    /\ running' = running \ {t}
    /\ UNCHANGED <<last_cycle, deferred, active, cleared, called, asked, refused, runs, finished>>

fio_timer_finish(t) ==
    /\ t \in running /\ LastRepetition(t)
    /\ timer' = [timer EXCEPT ![t].repetitions = 0]
    /\ finished' = [finished EXCEPT ![t] = @ + 1]
    /\ running' = running \ {t}
    /\ UNCHANGED <<last_cycle, timers, deferred, active, cleared, called, asked, refused, runs>>

fio_stop ==
    /\ active /\ active' = FALSE
    /\ UNCHANGED <<last_cycle, timers, timer, deferred, running, cleared, called, asked, refused,
                   runs, finished>>

\* fio_worker_cleanup drains the task queue before it clears the timers.
Drained == deferred = <<>> /\ running = {}

FinishListed_Silently == finished
FinishListed == [t \in Timer |-> IF t \in Listed THEN finished[t] + 1 ELSE finished[t]]

\* fio_worker_cleanup runs it once, before the last tasks and the ON_FINISH
\* callbacks: a timer they add stays in a list that nobody reads any more.
fio_timer_clear_all ==
    /\ ~active /\ ~cleared /\ Drained
    /\ cleared' = TRUE
    /\ finished' = FinishListed
    /\ timers' = <<>>
    /\ UNCHANGED <<last_cycle, timer, deferred, running, active, called, asked, refused, runs>>

Next ==
    \/ \E t \in Timer, ms \in Interval, n \in Repetitions, now \in {x \in Time : x >= last_cycle} :
          fio_run_every(t, ms, n, now)
    \/ \E now \in {x \in Time : x >= last_cycle} : fio_timer_schedule(now)
    \/ fio_timer_perform_single
    \/ \E t \in Timer : fio_timer_reschedule(t) \/ fio_timer_finish(t)
    \/ fio_stop
    \/ fio_timer_clear_all

Spec == Init /\ [][Next]_vars

\* The reactor cycles until cleanup, its threads run tasks to their end and a
\* stopped reactor cleans up.
Fairness ==
    /\ WF_vars(fio_timer_schedule(last_cycle))
    /\ WF_vars(fio_timer_perform_single)
    /\ \A t \in Timer : WF_vars(fio_timer_reschedule(t) \/ fio_timer_finish(t))
    /\ WF_vars(fio_timer_clear_all)

FairSpec == Spec /\ Fairness

-----------------------------------------------------------------------------
\* Whatever shortcut fio_timer_add_order takes, the list stays ordered by due time.
Ordered ==
    \A i, j \in DOMAIN timers : i <= j => timer[timers[i]].due <= timer[timers[j]].due

\* A timer is in the list, in the task queue or with a thread, in one place only,
\* from its creation until on_finish; never again afterwards, when it is freed
\* (fio_timer_perform_single, fio_timer_clear_all).
OnePlace ==
    /\ \A i, j \in DOMAIN timers : timers[i] = timers[j] => i = j
    /\ \A i, j \in DOMAIN deferred : deferred[i] = deferred[j] => i = j
    /\ Listed \cap Waiting = {} /\ Listed \cap running = {} /\ Waiting \cap running = {}
    /\ Listed \cup Waiting \cup running =
          {t \in called \ refused : finished[t] = 0}

\* A task runs as often as it was asked to before on_finish, less only when the
\* process cleans up, and on_finish is called once.
RunsAsAsked ==
    \A t \in Timer :
        /\ finished[t] <= 1
        /\ asked[t] # 0 => runs[t] <= asked[t]
        /\ finished[t] = 1 /\ ~cleared => runs[t] = asked[t]

\* A timer that is due before the cleanup runs, or the cleanup finishes it.
DueTimerRuns ==
    \A t \in Timer :
        (~cleared /\ t \in Listed /\ timer[t].due <= last_cycle)
            ~> (t \in running \/ finished[t] > 0)

\* A stop leaves no timer that was set before the cleanup without its on_finish,
\* wherever the timer was when the stop came.
StopFinishesTimers ==
    \A t \in Timer : (~active /\ ~cleared /\ t \in called \ refused) ~> (finished[t] > 0)

\* ... not so a timer that is set later, by a task that fio_worker_cleanup performs
\* after fio_timer_clear_all or by a callback of ON_FINISH (fio.c:4922-4931).
EveryTimerFinishes ==
    \A t \in Timer : (~active /\ t \in called \ refused) ~> (finished[t] > 0)

\* fio.h, fio_run_every: "The `on_finish` handler is always called (even on error)."
OnFinishEvenOnError == \A t \in refused : finished[t] > 0

\* The timer list (fio_timer_add_order, fio_timer_schedule): sorted, every timer
\* in one place, and run as often as fio_run_every was asked.
TimersSound == TypeOK /\ Ordered /\ OnePlace /\ RunsAsAsked

\* Due timers run and a stop finishes those that are set when it cleans up
\* (fio_timer_schedule, fio_timer_clear_all).
TimersProgress == DueTimerRuns /\ StopFinishesTimers
=============================================================================
