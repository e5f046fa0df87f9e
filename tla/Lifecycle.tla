------------------------------ MODULE Lifecycle ------------------------------
(***************************************************************************)
(* One process from fio_start to its end: the callbacks of its states,     *)
(* signal handlers, listening sockets and client sockets.  The reactor's   *)
(* thread runs the callbacks; threads of the application add and remove    *)
(* them, listen, connect and close at any time.                            *)
(***************************************************************************)
EXTENDS Integers, SequencesExt

CONSTANTS
    Process,     \* processes to look at: [role, uses]; role is "single", "root" (of workers) or
                 \* "worker", uses what the application has of the sets below
    Listener,    \* listening sockets; UnixSocket are those at a path
    UnixSocket,
    Client,      \* sockets that connect
    Task,        \* arguments of the application's callbacks
    MaxStarts,   \* how often fio_start is called
    Threads,     \* threads of the reactor
    NONE

Event == {"PRE_START", "ON_START", "ON_SHUTDOWN", "ON_FINISH", "ON_IDLE"}

VARIABLES
    process, starts,
    phase,    \* where the reactor's thread is: "down" (fio_start has not been called, or has returned), ...
    active,   \* fio_data->active
    cb,       \* callback_collection: each event's callbacks, [fn, arg]
    copy,     \* the callbacks fio_state_callback_force still has to run
    ran,      \* the application's callbacks this event has run
    due,      \* history: the event, and the callbacks it had when it began
    lst,      \* listeners: [pr, open, attached, done, file]; pr is the protocol object's memory
    queue,    \* fio_accept_queue_listeners
    con,      \* clients: [pr, open, ready, ok, failed]; ready: on_ready was replaced
    closing,  \* on_close callbacks that were deferred
    app,      \* what a thread of the application is about to do
    idle,     \* ON_IDLE: [events, pending, running, held, twice]; held is each block's count in IodineStore,
              \* twice (history) the blocks that were deferred while another thread ran them
    sig,      \* the handler of SIGINT, the one that was saved, fio_signal_set_flag
    stale,    \* history: listeners a start found freed in the callbacks (StaleEntries)
    bad       \* the listeners and clients that were used when they were freed

vars == <<process, starts, phase, active, cb, copy, ran, due, lst, queue, con, closing, app, idle, sig, stale, bad>>
appvars == <<app, idle>>
sockvars == <<lst, queue, con, closing>>
loopvars == <<process, starts, phase, active, copy, ran, due, sig>>

role == process.role
NoListener == [pr |-> "none", open |-> FALSE, attached |-> FALSE, done |-> 0, file |-> FALSE]
NoClient == [pr |-> "none", open |-> FALSE, ready |-> FALSE, ok |-> 0, failed |-> 0]

Init ==
    /\ process \in Process /\ starts = 0 /\ phase = "down" /\ active = FALSE
    /\ cb = [e \in Event |-> <<>>] /\ copy = <<>> /\ ran = <<>> /\ due = [event |-> "PRE_START", calls |-> <<>>]
    /\ app = NONE
    /\ lst = [l \in Listener |-> NoListener] /\ queue = <<>>
    /\ con = [c \in Client |-> NoClient] /\ closing = <<>>
    /\ idle = [events |-> FALSE, pending |-> <<>>, running |-> <<>>, held |-> [a \in Task |-> 0], twice |-> {}]
    /\ sig = [handler |-> "old", saved |-> "default", set |-> FALSE]
    /\ stale = {} /\ bad = {}

fio_is_running == active
UsesFreed(x, freed) == bad' = bad \union (IF freed THEN {x} ELSE {})
Call(fn, arg) == [fn |-> fn, arg |-> arg]
Mine(list) == SelectSeq(list, LAMBDA k : k.fn = "task")

-----------------------------------------------------------------------------
(* State callbacks                                                         *)

fio_state_callback_add(list, call) == Append(list, call)
(* the first that matches *)
fio_state_callback_remove(list, call) ==
    LET i == SelectInSeq(list, LAMBDA k : k = call) IN IF i = 0 THEN list ELSE RemoveAt(list, i)
fio_state_callback_clear(list) == <<>>

InOrder == {"PRE_START", "ON_START"}
(* Mutant: every event runs its callbacks from the last to the first.      *)
Copied_LastFirst(e) == cb[e]
(* the copy that is made under the lock: built from its front or its end,  *)
(* and always run from its end                                             *)
Copied(e) == IF e \in InOrder THEN Reverse(cb[e]) ELSE cb[e]
fio_state_callback_force(e) ==
    /\ copy' = Copied(e)
    /\ ran' = <<>> /\ due' = [event |-> e, calls |-> Mine(cb[e])]

-----------------------------------------------------------------------------
(* Listening                                                               *)

Gone(l) == lst[l].pr = "freed"
(* Mutant: a freed listener stays in the list of listeners.                *)
fio_listen_cleanup_task_Keeps(l, unlinks) ==
    /\ lst' = [lst EXCEPT ![l] = [@ EXCEPT !.pr = "freed", !.open = FALSE, !.done = @ + 1,
                                           !.file = @ /\ (role = "worker" \/ ~unlinks)]]
    /\ UsesFreed(l, Gone(l)) /\ UNCHANGED queue
(* a path is unlinked by the master, if the byte where a port would be is  *)
(* zero; nothing wrote it                                                  *)
fio_listen_cleanup_task(l, unlinks) ==
    /\ queue' = SelectSeq(queue, LAMBDA k : k # l)
    /\ lst' = [lst EXCEPT ![l] = [@ EXCEPT !.pr = "freed", !.open = FALSE, !.done = @ + 1,
                                           !.file = @ /\ (role = "worker" \/ ~unlinks)]]
    /\ UsesFreed(l, Gone(l))
Unlinks(l) == IF l \in UnixSocket THEN {TRUE, FALSE} ELSE {FALSE}

(* fio_attach: to a socket that is gone it only defers on_close            *)
Attach(ls, l) == [ls EXCEPT ![l].attached = ls[l].open]
Attached(l) == IF lst[l].open THEN closing ELSE Append(closing, l)

(* the reactor releases it from now on, not the event of shutdown          *)
fio_listen_on_startup(l) ==
    /\ cb' = [cb EXCEPT !["ON_SHUTDOWN"] = fio_state_callback_remove(@, Call("fio_listen_cleanup_task", l))]
    /\ UsesFreed(l, Gone(l))
    /\ lst' = Attach(lst, l) /\ closing' = Attached(l)

(* one callback of the copy *)
RunsCallback ==
    /\ copy # <<>>
    /\ copy' = Front(copy)
    /\ LET k == Last(copy) IN
         \/ /\ k.fn = "task" /\ ran' = Append(ran, k)
            /\ UNCHANGED <<cb, lst, queue, closing, bad>>
         \/ k.fn = "fio_listen_on_startup" /\ fio_listen_on_startup(k.arg) /\ UNCHANGED <<queue, ran>>
         \/ /\ k.fn = "fio_listen_cleanup_task"
            /\ \E u \in Unlinks(k.arg) : fio_listen_cleanup_task(k.arg, u)
            /\ UNCHANGED <<cb, closing, ran>>
    /\ UNCHANGED <<process, starts, phase, active, due, con, sig, stale, appvars>>

(* fio_listen: a socket and the protocol object, and a look at             *)
(* fio_is_running ...                                                      *)
fio_listen ==
    \E l \in Listener \intersect process.uses :
      /\ lst[l].pr = "none" /\ app = NONE
      /\ lst' = [lst EXCEPT ![l] = [NoListener EXCEPT !.pr = "live", !.open = TRUE, !.file = l \in UnixSocket]]
      /\ queue' = Append(queue, l)
      /\ app' = [l |-> l, running |-> fio_is_running]
      /\ UNCHANGED <<loopvars, cb, idle, con, closing, stale, bad>>

(* ... then it goes to the reactor, or to the callbacks of start and       *)
(* shutdown, whatever the process has done since the look                  *)
Enlists ==
    /\ app # NONE /\ app' = NONE
    /\ \/ /\ app.running
          /\ lst' = Attach(lst, app.l) /\ closing' = Attached(app.l) /\ UNCHANGED cb
       \/ /\ ~app.running
          /\ cb' = [cb EXCEPT !["ON_START"] = fio_state_callback_add(@, Call("fio_listen_on_startup", app.l)),
                              !["ON_SHUTDOWN"] = fio_state_callback_add(@, Call("fio_listen_cleanup_task", app.l))]
          /\ UNCHANGED <<lst, closing>>
    /\ UNCHANGED <<loopvars, idle, queue, con, stale, bad>>

(* fio_close by the application or on an error                             *)
CloseListener ==
    \E l \in Listener :
      /\ lst[l].pr = "live" /\ lst[l].open
      /\ lst' = [lst EXCEPT ![l].open = FALSE, ![l].attached = FALSE]
      /\ closing' = IF lst[l].attached THEN Append(closing, l) ELSE closing
      /\ UNCHANGED <<loopvars, cb, queue, con, appvars, stale, bad>>

(* the walk holds the list's lock, so it sees whole cleanups only          *)
fio_queued_connections ==
    /\ bad' = bad \union {l \in Range(queue) : Gone(l)}
    /\ UNCHANGED <<loopvars, cb, sockvars, appvars, stale>>

-----------------------------------------------------------------------------
(* Connecting                                                              *)

fio_connect ==
    \E c \in Client \intersect process.uses :
      /\ con[c].pr = "none" /\ fio_is_running
      /\ con' = [con EXCEPT ![c].pr = "live", ![c].open = TRUE]
      /\ UNCHANGED <<loopvars, cb, lst, queue, closing, appvars, stale, bad>>

Reacts == copy = <<>> /\ phase = "run"

(* Mutant: on_fail is kept when the connection is ready.                   *)
ConnectClosed_Fails(c) == [con[c] EXCEPT !.pr = "freed", !.failed = @ + 1]
(* fio_connect_on_close: on_fail is forgotten once it is ready             *)
ConnectClosed(c) == [con[c] EXCEPT !.pr = "freed", !.failed = IF con[c].ready THEN @ ELSE @ + 1]
(* fio_connect_on_ready, also when it was already handled: on_connect may  *)
(* attach another protocol, and this one's on_close is deferred            *)
fio_connect_on_ready ==
    \E c \in Client :
      /\ Reacts /\ con[c].pr = "live" /\ con[c].open
      /\ \/ con[c].ready /\ UNCHANGED <<con, closing>>
         \/ /\ ~con[c].ready
            /\ \E attaches \in BOOLEAN :
                 /\ con' = [con EXCEPT ![c].ready = TRUE, ![c].ok = @ + 1, ![c].open = ~attaches]
                 /\ closing' = IF attaches THEN Append(closing, c) ELSE closing
      /\ UNCHANGED <<loopvars, cb, lst, queue, appvars, stale, bad>>

(* refused, timed out or closed *)
ConnectFails ==
    \E c \in Client :
      /\ con[c].pr = "live" /\ con[c].open
      /\ con' = [con EXCEPT ![c].open = FALSE] /\ closing' = Append(closing, c)
      /\ UNCHANGED <<loopvars, cb, lst, queue, appvars, stale, bad>>

-----------------------------------------------------------------------------
(* on_close, deferred: fio_listen_on_close and fio_connect_on_close        *)
OnClose ==
    /\ closing # <<>> /\ copy = <<>> /\ phase \in {"run", "unwind", "finish"}
    /\ closing' = Tail(closing)
    /\ \/ /\ Head(closing) \in Listener
          /\ \E u \in Unlinks(Head(closing)) : fio_listen_cleanup_task(Head(closing), u)
          /\ UNCHANGED con
       \/ /\ Head(closing) \in Client
          /\ con' = [con EXCEPT ![Head(closing)] = ConnectClosed(Head(closing))]
          /\ UsesFreed(Head(closing), con[Head(closing)].pr = "freed")
          /\ UNCHANGED <<lst, queue>>
    /\ UNCHANGED <<loopvars, cb, appvars, stale>>

-----------------------------------------------------------------------------
(* fio_start and fio_worker_cleanup                                        *)

(* the old handler is saved, unless the flag says it was                   *)
fio_signal_handler_setup(s) ==
    IF s.set THEN s ELSE [handler |-> "fio", saved |-> s.handler, set |-> TRUE]
(* as the code has it: nothing happens while the flag is set               *)
fio_signal_handler_reset(s) ==
    IF s.set THEN s ELSE [handler |-> s.saved, saved |-> "default", set |-> FALSE]

(* The callbacks of start and shutdown keep a listener that the event of   *)
(* shutdown released: the next fio_start calls them with what was freed.   *)
Waiting(l) == \E e \in Event : \E i \in DOMAIN cb[e] : cb[e][i].fn # "task" /\ cb[e][i].arg = l
StaleEntries == {l \in Listener : Gone(l) /\ Waiting(l)}

(* a worker is forked and exits, the process that forks it may start again *)
fio_start ==
    /\ phase = "down" /\ starts < MaxStarts
    /\ starts = 0 \/ role # "worker"
    /\ starts' = starts + 1 /\ phase' = "pre" /\ active' = TRUE
    /\ sig' = fio_signal_handler_setup(sig)
    /\ fio_state_callback_force("PRE_START")
    /\ stale' = stale \union StaleEntries
    /\ UNCHANGED <<process, cb, sockvars, appvars, bad>>

fio_worker_startup ==
    /\ phase = "pre" /\ copy = <<>>
    /\ IF role = "root" THEN phase' = "run" /\ UNCHANGED <<copy, ran, due>>
       ELSE phase' = "start" /\ fio_state_callback_force("ON_START")
    /\ UNCHANGED <<process, starts, active, cb, sockvars, appvars, sig, stale, bad>>

(* fio_state_callback_clear(FIO_CALL_ON_START)                             *)
Started ==
    /\ phase = "start" /\ copy = <<>>
    /\ cb' = [cb EXCEPT !["ON_START"] = fio_state_callback_clear(@)] /\ phase' = "run"
    /\ UNCHANGED <<process, starts, active, copy, ran, due, sig, sockvars, appvars, stale, bad>>

(* by a signal or the application, at any time *)
fio_stop ==
    /\ active /\ active' = FALSE
    /\ UNCHANGED <<process, starts, phase, copy, ran, due, sig, cb, sockvars, appvars, stale, bad>>

(* the reactor's loop and its threads have ended *)
Stopped ==
    /\ phase = "run" /\ copy = <<>> /\ ~active /\ idle.pending = <<>> /\ idle.running = <<>>
    /\ phase' = "stop" /\ fio_state_callback_force("ON_SHUTDOWN")
    /\ UNCHANGED <<process, starts, active, cb, sockvars, appvars, sig, stale, bad>>

(* what is attached is shut down ... *)
fio_worker_cleanup ==
    /\ phase = "stop" /\ copy = <<>>
    /\ LET ls == SetToSeq({l \in Listener : lst[l].attached})
           cs == SetToSeq({c \in Client : con[c].open}) IN
       /\ closing' = closing \o ls \o cs
       /\ lst' = [l \in Listener |-> IF lst[l].attached THEN [lst[l] EXCEPT !.open = FALSE, !.attached = FALSE] ELSE lst[l]]
       /\ con' = [c \in Client |-> [con[c] EXCEPT !.open = FALSE]]
    /\ phase' = "unwind"
    /\ UNCHANGED <<process, starts, active, copy, ran, due, cb, queue, appvars, sig, stale, bad>>

(* ... and what is still open is closed, after the deferred callbacks      *)
Unwound ==
    /\ phase = "unwind" /\ closing = <<>> /\ idle.pending = <<>> /\ idle.running = <<>>
    /\ closing' = SetToSeq({l \in Listener : lst[l].attached})
    /\ lst' = [l \in Listener |-> [lst[l] EXCEPT !.open = FALSE, !.attached = FALSE]]
    /\ phase' = "finish" /\ fio_state_callback_force("ON_FINISH")
    /\ UNCHANGED <<process, starts, active, cb, queue, con, appvars, sig, stale, bad>>

Finished ==
    /\ phase = "finish" /\ copy = <<>> /\ closing = <<>>
    /\ phase' = "down" /\ sig' = fio_signal_handler_reset(sig)
    /\ UNCHANGED <<process, starts, active, copy, ran, due, cb, sockvars, appvars, stale, bad>>

-----------------------------------------------------------------------------
(* Callbacks of the application, each for one event                        *)

Entries(list, a) == Len(SelectSeq(list, LAMBDA k : k = Call("task", a)))
Unused(a) == a \in process.uses /\ \A e \in Event : Entries(cb[e], a) = 0

iodine_on_state ==
    \E e \in Event \ {"ON_IDLE"}, a \in Task :
      /\ Unused(a)
      /\ cb' = [cb EXCEPT ![e] = fio_state_callback_add(@, Call("task", a))]
      /\ UNCHANGED <<loopvars, sockvars, appvars, stale, bad>>

(* also during the event, which then calls it all the same                 *)
RemovesTask ==
    \E e \in Event \ {"ON_IDLE"}, a \in Task :
      /\ Call("task", a) \in Range(cb[e])
      /\ cb' = [cb EXCEPT ![e] = fio_state_callback_remove(@, Call("task", a))]
      /\ UNCHANGED <<loopvars, sockvars, appvars, stale, bad>>

(* Blocks for the next idle cycle, also from such a block while it runs    *)
iodine_sched_on_idle ==
    \E a \in Task :
      /\ Unused(a) \/ (Entries(cb["ON_IDLE"], a) = 1 /\ a \in Range(idle.running))
      /\ cb' = [cb EXCEPT !["ON_IDLE"] = fio_state_callback_add(@, Call("task", a))]
      /\ idle' = [idle EXCEPT !.held[a] = @ + 1]
      /\ UNCHANGED <<loopvars, sockvars, app, stale, bad>>

(* the root and the clean-up have one thread *)
Pool == IF phase = "run" /\ role # "root" THEN Threads ELSE 1
(* a poll without events after one with events; the blocks are deferred,   *)
(* and the next cycle is deferred after them                               *)
Blocks == [i \in DOMAIN cb["ON_IDLE"] |-> cb["ON_IDLE"][i].arg]
fio_cycle_schedule_events ==
    \E events \in BOOLEAN :
      /\ phase \in {"run", "unwind"} /\ copy = <<>>
      /\ idle.pending = <<>> /\ Len(idle.running) < Pool
      /\ idle' = [idle EXCEPT !.events = events,
                              !.pending = IF idle.events /\ ~events THEN Blocks ELSE @,
                              !.twice = IF idle.events /\ ~events THEN @ \union (Range(Blocks) \intersect Range(idle.running)) ELSE @]
      /\ UNCHANGED <<loopvars, cb, sockvars, app, stale, bad>>

fio_state_on_idle_perform ==
    /\ idle.pending # <<>> /\ Len(idle.running) < Pool
    /\ idle' = [idle EXCEPT !.pending = Tail(@), !.running = Append(@, Head(idle.pending))]
    /\ UNCHANGED <<loopvars, cb, sockvars, app, stale, bad>>

(* IodineStore.remove: one that is not there is let pass *)
Less(n) == IF n = 0 THEN 0 ELSE n - 1
(* Mutant: the block is not removed from the event's callbacks.            *)
iodine_perform_on_idle_callback_Keeps ==
    \E i \in DOMAIN idle.running :
      /\ idle' = [idle EXCEPT !.held[idle.running[i]] = Less(@), !.running = RemoveAt(@, i)]
      /\ UNCHANGED <<loopvars, cb, sockvars, app, stale, bad>>
(* the block has run *)
iodine_perform_on_idle_callback ==
    \E i \in DOMAIN idle.running :
      LET a == idle.running[i] IN
      /\ idle' = [idle EXCEPT !.held[a] = Less(@), !.running = RemoveAt(@, i)]
      /\ cb' = [cb EXCEPT !["ON_IDLE"] = fio_state_callback_remove(@, Call("task", a))]
      /\ UNCHANGED <<loopvars, sockvars, app, stale, bad>>

Next ==
    \/ RunsCallback \/ fio_listen \/ Enlists \/ CloseListener \/ fio_queued_connections
    \/ fio_connect \/ fio_connect_on_ready \/ ConnectFails \/ OnClose
    \/ fio_start \/ fio_worker_startup \/ Started \/ fio_stop \/ Stopped \/ fio_worker_cleanup \/ Unwound \/ Finished
    \/ iodine_on_state \/ RemovesTask
    \/ iodine_sched_on_idle \/ fio_cycle_schedule_events \/ fio_state_on_idle_perform \/ iodine_perform_on_idle_callback
Spec == Init /\ [][Next]_vars

-----------------------------------------------------------------------------
(* A listener is released once and never used again, whichever of start,   *)
(* shutdown, close, stop and the application comes first, also when it     *)
(* starts to listen between two of them; when fio_start has returned it    *)
(* was released, waits for the next start, or has its on_close queued for  *)
(* it.  Nothing is said of a listener that the event of shutdown released  *)
(* while the callbacks kept it, once fio_start is called again (fio.c,     *)
(* fio_listen to fio_listen_on_close).                                     *)
ListenersReleasedOnce ==
    \A l \in Listener \ stale :
      /\ l \notin bad
      /\ lst[l].done = (IF Gone(l) THEN 1 ELSE 0)
      /\ lst[l].pr = "live" => l \in Range(queue)
      /\ phase = "down" /\ starts > 0 /\ lst[l].pr = "live" =>
           Waiting(l) \/ l \in Range(closing) \/ (app # NONE /\ app.l = l)

(* A client is told once: on_connect or on_fail, never both, and one of    *)
(* them before its protocol is freed (fio.c, fio_connect).                 *)
ConnectAnswersOnce ==
    \A c \in Client :
      /\ c \notin bad
      /\ con[c].ok + con[c].failed <= 1
      /\ con[c].pr = "freed" => con[c].ok + con[c].failed = 1

(* An event runs each of the callbacks it had when it began once, whatever *)
(* is added and removed meanwhile, in the order in which the code copies   *)
(* them: those of PRE_START and ON_START from the first to the last, those *)
(* of ON_SHUTDOWN and ON_FINISH from the last to the first (fio.c,         *)
(* fio_state_callback_force).  fio.h says otherwise: LastToFirst.          *)
InTurn == IF due.event \in {"PRE_START", "ON_START"} THEN due.calls ELSE Reverse(due.calls)
CallbacksRunInTurn ==
    /\ IsPrefix(ran, InTurn)
    /\ copy = <<>> => ran = InTurn

(* What fio.h says of every event: "Callbacks are called from last to      *)
(* first" (fio.h:1696).  It is false of the events that start something.   *)
LastToFirst == IsPrefix(ran, Reverse(due.calls))

(* A block for the next idle cycle runs once for each time it was given,   *)
(* and is held until then: "Schedules a single occuring event" (iodine.c,  *)
(* iodine_sched_on_idle and iodine_perform_on_idle_callback); unless, with *)
(* two threads, an idle cycle came while the other thread ran it: then it  *)
(* is deferred again.                                                      *)
RunOnce(a) ==
    /\ idle.held[a] = Entries(cb["ON_IDLE"], a)
    /\ Len(SelectSeq(idle.pending \o idle.running, LAMBDA b : b = a)) <= idle.held[a]
IdleBlocksRunOnce == \A a \in Task \ idle.twice : RunOnce(a)

(* Without that exception, what the documentation of on_idle says.         *)
SingleOccurring == \A a \in Task : RunOnce(a)

(* When the process ends or starts again no path of a listener is left, if *)
(* it is the one that made it.  The byte that decides is never written     *)
(* (fio.c:5642).                                                           *)
PathsRemoved == \A l \in Listener : Gone(l) /\ role # "worker" => ~lst[l].file

(* When fio_start has returned, the signals are handled as before it (fio.h *)
(* 1055-1062).                                                             *)
SignalsRestored == phase = "down" => sig.handler = "old"
=============================================================================
