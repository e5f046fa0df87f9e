------------------------------ MODULE Requests ------------------------------
(***************************************************************************)
(* HTTP/1.1 requests of iodine: pipelined requests of a connection are     *)
(* handled one after the other by reactor threads (http1.c); the           *)
(* application answers, upgrades the connection or returns a fiber to wait *)
(* for, and then the request is paused (http.c) until the fiber publishes  *)
(* its end on a channel of its own (iodine_http.c).  A graceful stop       *)
(* (fio.c) waits for the paused requests it counts.                        *)
(*                                                                         *)
(* Tasks are the functions of fio.c's two queues, which TaskQueue models;  *)
(* subscription and publication are single steps here, PubSub models them. *)
(* A task that holds the protocol's TASK lock while the application runs   *)
(* is several steps; the other ones are one.  A uuid is never reused:      *)
(* Socket models that.                                                     *)
(***************************************************************************)
EXTENDS Integers, SequencesExt

CONSTANTS
    Conn,       \* connections (uuids), open and with an HTTP protocol at first
    Thread,     \* reactor threads
    REQUESTS,   \* Conn -> the requests its client will send
    PIPELINE,   \* pipeline_limit of http1_consume_data (8)
    PENDING,    \* packets above which a client is throttled (4)
    TICKS,      \* repetitions of the graceful stop's timer (30)
    MAXTASKS,   \* bound on background tasks
    App,        \* what the application does with a request
    Resumed,    \* what a finished fiber's result may be
    NULL

ASSUME RequestsAssumption ==
    /\ IsFiniteSet(Conn) /\ REQUESTS \in [Conn -> Nat] /\ NULL \notin Thread \cup Conn
    /\ PIPELINE \in Nat \ {0} /\ PENDING \in Nat /\ TICKS \in Nat \ {0} /\ MAXTASKS \in Nat
    /\ App \subseteq {"respond", "defer", "websocket", "sse", "tcp"}
    /\ Resumed \subseteq {"respond", "websocket", "sse", "tcp"}

VARIABLES
    uuid,      \* Conn -> the slot and the HTTP protocol object behind it
    request,   \* Conn -> the request in p->request, 0 if none
    answers,   \* Conn -> the requests answered on the wire, in order
    sent,      \* Conn -> requests sent by the client
    parsed,    \* Conn -> requests the parser completed
    handle,    \* Conn -> its http_pause_handle_s: "none", "paused", "subscribed", "resuming"
    fiber,     \* Conn -> "none", "blocked", "woken", "done"
    store,     \* Conns whose fiber IodineStore keeps from the GC
    subs,      \* Conns with a live subscription to their fiber's channel
    missed,    \* Conns whose wake-up came before anyone waited for it (history)
    misused,   \* a request was used after its protocol was freed (history)
    stop,      \* [active, requested, ticks, paused, tasks]: fio_data's counters and flags
    urgent,    \* task_queue_urgent
    normal,    \* task_queue_normal
    th         \* Thread -> [pc, c, limit]

conns == <<request, answers, sent, parsed>>
fibers == <<handle, fiber, store, subs>>
vars == <<uuid, request, answers, sent, parsed, handle, fiber, store, subs, missed, misused, stop,
          urgent, normal, th>>

Idle == [pc |-> "idle", c |-> NULL, limit |-> 0]

Init ==
    /\ uuid = [c \in Conn |->
                  [open |-> TRUE, protocol |-> "http1", lock |-> NULL, stop |-> {},
                   scheduled |-> FALSE, armed |-> TRUE, socket |-> 0, buf |-> 0,
                   pending |-> 0, ready |-> FALSE, freed |-> FALSE]]
    /\ request = [c \in Conn |-> 0] /\ answers = [c \in Conn |-> <<>>] 
    /\ sent = [c \in Conn |-> 0] /\ parsed = [c \in Conn |-> 0]
    /\ handle = [c \in Conn |-> "none"] /\ fiber = [c \in Conn |-> "none"]
    /\ store = {} /\ subs = {} /\ missed = {} /\ misused = FALSE
    /\ stop = [active |-> TRUE, requested |-> FALSE, ticks |-> 0, paused |-> 0, tasks |-> 0]
    /\ urgent = <<>> /\ normal = <<>>
    /\ th = [t \in Thread |-> Idle]

-----------------------------------------------------------------------------
(* Tasks *)

Task(f, c, forced) == [func |-> f, c |-> c, forced |-> forced]

\* the urgent queue is emptied first
NextTask == IF urgent # <<>> THEN Head(urgent) ELSE Head(normal)

\* t is free and pops the task f of connection c
Pops(t, f, c) ==
    /\ th[t] = Idle
    /\ urgent # <<>> \/ normal # <<>>
    /\ NextTask.func = f /\ NextTask.c = c

\* the popped task leaves its queue and the tasks of `more` are pushed
Popped(more) ==
    /\ urgent' = IF urgent # <<>> THEN Tail(urgent) ELSE urgent
    /\ normal' = (IF urgent # <<>> THEN normal ELSE Tail(normal)) \o more

Push(more) == normal' = normal \o more /\ UNCHANGED urgent

Waits(f, c) == \E i \in DOMAIN normal : normal[i].func = f /\ normal[i].c = c

\* fio_force_event(uuid, FIO_EVENT_ON_DATA): nothing for an invalid uuid
OnData(c, u) == IF u.open THEN <<Task("on_data", c, TRUE)>> ELSE <<>>
fio_suspend(u) == IF u.open THEN [u EXCEPT !.scheduled = TRUE] ELSE u

-----------------------------------------------------------------------------
(* What a connection's operations do to its slot u and protocol *)

\* http1_after_finish, after the response was written to the socket
Finished(u) ==
    [u EXCEPT !.stop = @ \ {1},
              !.pending = IF u.open THEN @ + 1 ELSE 0,
              !.ready = u.open]

\* fio_attach of the upgrade's protocol; the old one's on_close is deferred
Attached(u, protocol) == IF u.open THEN [u EXCEPT !.protocol = protocol] ELSE u
OldClosed(c, u) == IF u.open THEN <<Task("on_close", c, FALSE)>> ELSE <<>>

\* sets stop, which finishing the response clears
http1_upgrade2sse(u) == Attached(Finished(u), "sse")

\* finishes the response first; the new protocol's data event is forced
http1_http2websocket_server(u) ==
    fio_suspend(Attached([Finished(u) EXCEPT !.stop = {1}], "websocket"))

\* detaches and polls again, then the response and the new protocol
http1_hijack(u) == Attached(Finished([u EXCEPT !.stop = {1, 2}, !.armed = u.open]), "tcp")

\* the response's effect on the slot, by what it is
Replied(u, how) ==
    CASE how = "respond"   -> Finished(u)
      [] how = "sse"       -> http1_upgrade2sse(u)
      [] how = "websocket" -> http1_http2websocket_server(u)
      [] how = "tcp"       -> http1_hijack(u)

\* and the tasks it leaves behind
RepliedTasks(c, u, how) ==
    CASE how = "respond"   -> <<>>
      [] how = "websocket" -> OldClosed(c, u) \o OnData(c, u)
      [] OTHER             -> OldClosed(c, u)

\* the answer reaches the wire of a connection that is open
Answered(c) == IF uuid[c].open THEN [answers EXCEPT ![c] = Append(@, request[c])] ELSE answers

\* fio_clear_fd: the protocol's on_close is deferred
Cleared(u) ==
    [u EXCEPT !.open = FALSE, !.protocol = "none", !.scheduled = FALSE, !.armed = FALSE,
              !.pending = 0, !.ready = FALSE]
ClearedTasks(c) == IF uuid[c].protocol = "http1" THEN <<Task("on_close", c, FALSE)>> ELSE <<>>

-----------------------------------------------------------------------------
(* The client and the kernel *)

client_send(c) ==
    /\ uuid[c].open /\ sent[c] < REQUESTS[c]
    /\ sent' = [sent EXCEPT ![c] = @ + 1]
    /\ uuid' = [uuid EXCEPT ![c].socket = @ + 1]
    /\ UNCHANGED <<request, answers, parsed, fibers, missed, misused, stop, urgent, normal, th>>

\* an armed descriptor with data: one shot
poll_read(c) ==
    /\ uuid[c].armed /\ uuid[c].socket > 0
    /\ uuid' = [uuid EXCEPT ![c].armed = FALSE]
    /\ Push(<<Task("on_data", c, FALSE)>>)
    /\ UNCHANGED <<conns, fibers, missed, misused, stop, th>>

\* the peer hangs up, or reading fails
fio_force_close(c) ==
    /\ uuid[c].open
    /\ uuid' = [uuid EXCEPT ![c] = Cleared(@)]
    /\ Push(ClearedTasks(c))
    /\ UNCHANGED <<conns, fibers, missed, misused, stop, th>>

\* a connection that was idle for too long, unless one of its tasks is running
fio_review_timeout(c) ==
    /\ uuid[c].open /\ uuid[c].protocol # "none" /\ uuid[c].lock = NULL
    /\ ~Waits("ping", c)
    /\ Push(<<Task("ping", c, FALSE)>>)
    /\ UNCHANGED <<uuid, conns, fibers, missed, misused, stop, th>>

\* HTTP has no ping of its own: mock_ping closes
deferred_ping(t, c) ==
    /\ Pops(t, "ping", c)
    /\ \/ /\ uuid[c].protocol = "http1"
          /\ uuid' = [uuid EXCEPT ![c] = Cleared(@)]
          /\ Popped(ClearedTasks(c))
       \/ /\ uuid[c].protocol # "http1"
          /\ Popped(<<>>) /\ UNCHANGED uuid
    /\ UNCHANGED <<conns, fibers, missed, misused, stop, th>>

\* the IO thread's fio_flush_all sends what waits, without an on_ready
fio_flush_all(c) ==
    /\ uuid[c].pending > 0
    /\ uuid' = [uuid EXCEPT ![c].pending = 0]
    /\ UNCHANGED <<conns, fibers, missed, misused, stop, urgent, normal, th>>

\* the reactor's flush after a write; on_ready follows once all is sent
deferred_on_ready(c) ==
    /\ uuid[c].ready
    /\ uuid' = [uuid EXCEPT ![c].ready = FALSE, ![c].pending = 0]
    /\ Push(<<Task("on_ready", c, FALSE)>>)
    /\ UNCHANGED <<conns, fibers, missed, misused, stop, th>>

http1_on_ready_Quiet(t, c) ==
    /\ Pops(t, "on_ready", c)
    /\ uuid' = [uuid EXCEPT ![c].stop = @ \ {4}]
    /\ Popped(<<>>)
    /\ UNCHANGED <<conns, fibers, missed, misused, stop, th>>

\* deferred_on_ready_usr: a throttled client is read from again
http1_on_ready(t, c) ==
    /\ Pops(t, "on_ready", c)
    /\ \/ /\ uuid[c].protocol = "http1" /\ 4 \in uuid[c].stop
          /\ uuid' = [uuid EXCEPT ![c] = fio_suspend([uuid[c] EXCEPT !.stop = @ \ {4}])]
          /\ Popped(OnData(c, uuid[c]))
       \/ /\ uuid[c].protocol # "http1" \/ 4 \notin uuid[c].stop
          /\ Popped(<<>>) /\ UNCHANGED uuid
    /\ UNCHANGED <<conns, fibers, missed, misused, stop, th>>

-----------------------------------------------------------------------------
(* on_data *)

\* the protocol's TASK lock is taken
Busy(c) == uuid[c].protocol = "http1" /\ uuid[c].lock # NULL

\* the data event of a closed connection is dropped, that of an upgraded one is
\* the new protocol's, and that of a busy one is tried again
deferred_on_data_Elsewhere(t, c) ==
    /\ Pops(t, "on_data", c)
    /\ \/ /\ uuid[c].protocol = "none"
          /\ Popped(<<>>) /\ UNCHANGED uuid
       \/ /\ uuid[c].protocol \in {"websocket", "sse", "tcp"}
          /\ uuid' = [uuid EXCEPT ![c].socket = 0, ![c].scheduled = TRUE, ![c].armed = TRUE]
          /\ Popped(<<>>)
       \/ /\ Busy(c) /\ NextTask.forced
          /\ Popped(<<NextTask>>) /\ UNCHANGED uuid
       \/ /\ Busy(c) /\ ~NextTask.forced
          /\ uuid' = [uuid EXCEPT ![c].armed = TRUE]
          /\ Popped(<<>>)
    /\ UNCHANGED <<conns, fibers, missed, misused, stop, th>>

\* `if (p->stop)` of http1_on_data
Stopped_ThrottleOnly(u) == 4 \in u.stop

Stopped(u) == u.stop # {}

\* deferred_on_data takes the lock and http1_on_data reads what there is
http1_on_data(t, c) ==
    /\ Pops(t, "on_data", c)
    /\ uuid[c].protocol = "http1" /\ uuid[c].lock = NULL
    /\ Popped(<<>>)
    /\ LET u == [uuid[c] EXCEPT !.lock = t, !.scheduled = FALSE] IN
       IF Stopped(u)
       THEN /\ uuid' = [uuid EXCEPT ![c] = fio_suspend(u)]
            /\ th' = [th EXCEPT ![t] = [pc |-> "unlock", c |-> c, limit |-> 0]]
       ELSE /\ uuid' = [uuid EXCEPT ![c] = [u EXCEPT !.buf = u.buf + u.socket, !.socket = 0]]
            /\ th' = [th EXCEPT ![t] = [pc |-> "consume", c |-> c, limit |-> PIPELINE]]
    /\ UNCHANGED <<conns, fibers, missed, misused, stop>>

\* the parser completes the next request of the buffer
Parse(c) ==
    /\ parsed' = [parsed EXCEPT ![c] = @ + 1]
    /\ request' = [request EXCEPT ![c] = parsed[c] + 1]

\* http1_consume_data: a client that does not take its answers is throttled
http1_consume_data(t) ==
    LET c == th[t].c IN
    /\ th[t].pc = "consume"
    /\ \/ /\ uuid[c].pending > PENDING
          /\ th' = [th EXCEPT ![t].pc = "throttle"]
          /\ UNCHANGED <<uuid, request, parsed>>
       \/ /\ uuid[c].pending <= PENDING /\ uuid[c].buf = 0
          /\ th' = [th EXCEPT ![t].pc = "unlock"]
          /\ UNCHANGED <<uuid, request, parsed>>
       \/ /\ uuid[c].pending <= PENDING /\ uuid[c].buf > 0
          /\ Parse(c)
          /\ uuid' = [uuid EXCEPT ![c].buf = @ - 1]
          /\ th' = [th EXCEPT ![t].pc = "app"]
    /\ UNCHANGED <<answers, sent, fibers, missed, misused, stop, urgent, normal>>

\* nobody will call on_ready any more: the wake-up of this throttling is lost
ReadySpent(c) == uuid[c].open /\ ~uuid[c].ready /\ ~Waits("on_ready", c)

http1_throttle(t) ==
    LET c == th[t].c IN
    /\ th[t].pc = "throttle"
    /\ uuid' = [uuid EXCEPT ![c] = fio_suspend([uuid[c] EXCEPT !.stop = @ \cup {4}])]
    /\ missed' = IF ReadySpent(c) THEN missed \cup {c} ELSE missed
    /\ th' = [th EXCEPT ![t].pc = "unlock"]
    /\ UNCHANGED <<conns, fibers, misused, stop, urgent, normal>>

\* the loop of http1_consume_data goes on to the next request of the buffer, ...
GoesOn(t, u) == u.buf > 0 /\ th[t].limit > 1 /\ ~Stopped(u) /\ u.open

\* ... or is over; when it reached its limit on_data is forced
Loop(t, u, tasks) ==
    LET c == th[t].c IN
    IF GoesOn(t, u)
    THEN /\ Parse(c)
         /\ uuid' = [uuid EXCEPT ![c] = [u EXCEPT !.buf = u.buf - 1]]
         /\ th' = [th EXCEPT ![t].pc = "app", ![t].limit = @ - 1]
         /\ Push(tasks)
    ELSE /\ request' = [request EXCEPT ![c] = IF th[t].pc = "pause" THEN @ ELSE 0]
         /\ uuid' = [uuid EXCEPT ![c] = IF th[t].limit = 1 THEN fio_suspend(u) ELSE u]
         /\ th' = [th EXCEPT ![t].pc = "unlock"]
         /\ Push(tasks \o IF th[t].limit = 1 THEN OnData(c, u) ELSE <<>>)
         /\ UNCHANGED parsed

\* on_rack_request: the application answers or upgrades at once
on_rack_request(t, how) ==
    LET c == th[t].c IN
    /\ th[t].pc = "app" /\ how \in App \ {"defer"}
    /\ misused' = (misused \/ uuid[c].freed)
    /\ answers' = Answered(c)
    /\ Loop(t, Replied(uuid[c], how), RepliedTasks(c, uuid[c], how))
    /\ UNCHANGED <<sent, fibers, missed, stop>>

\* the application returns [:__http_defer__, fiber]; the fiber has started
iodine_handle_request_in_GVL(t) ==
    LET c == th[t].c IN
    /\ th[t].pc = "app" /\ "defer" \in App
    /\ misused' = (misused \/ uuid[c].freed)
    /\ fiber' = [fiber EXCEPT ![c] = "blocked"]
    /\ store' = store \cup {c}
    /\ th' = [th EXCEPT ![t].pc = "pause"]
    /\ UNCHANGED <<uuid, conns, handle, subs, missed, stop, urgent, normal>>

fio_pause_Uncounted == stop

\* async_connection_count
fio_pause == [stop EXCEPT !.paused = @ + 1]
fio_resume == [stop EXCEPT !.paused = @ - 1]

http_pause(t) ==
    LET c == th[t].c IN
    /\ th[t].pc = "pause"
    /\ handle' = [handle EXCEPT ![c] = "paused"]
    /\ stop' = fio_pause
    /\ Loop(t, fio_suspend([uuid[c] EXCEPT !.stop = {1}]), <<Task("pause", c, FALSE)>>)
    /\ UNCHANGED <<answers, sent, fiber, store, subs, missed, misused>>

protocol_unlock(t) ==
    /\ th[t].pc = "unlock"
    /\ uuid' = [uuid EXCEPT ![th[t].c].lock = NULL]
    /\ th' = [th EXCEPT ![t].pc = "rearm"]
    /\ UNCHANGED <<conns, fibers, missed, misused, stop, urgent, normal>>

\* the end of deferred_on_data: poll again unless suspended
deferred_on_data_rearm(t) ==
    LET c == th[t].c IN
    /\ th[t].pc = "rearm"
    /\ uuid' = IF uuid[c].open /\ ~uuid[c].scheduled
               THEN [uuid EXCEPT ![c].scheduled = TRUE, ![c].armed = TRUE]
               ELSE uuid
    /\ th' = [th EXCEPT ![t] = Idle]
    /\ UNCHANGED <<conns, fibers, missed, misused, stop, urgent, normal>>

-----------------------------------------------------------------------------
(* Paused requests *)

\* http_pause_request_handler: subscribe to the fiber's channel
http_pause_wrapper(t, c) ==
    /\ Pops(t, "pause", c)
    /\ subs' = subs \cup {c}
    /\ handle' = [handle EXCEPT ![c] = "subscribed"]
    /\ Popped(<<>>)
    /\ UNCHANGED <<uuid, conns, fiber, store, missed, misused, stop, th>>

\* a timer, an IO event or the worker pool defers the fiber's continuation
fiber_wakes(c) ==
    /\ fiber[c] = "blocked"
    /\ fiber' = [fiber EXCEPT ![c] = "woken"]
    /\ Push(<<Task("fiber", c, FALSE)>>)
    /\ UNCHANGED <<uuid, conns, handle, store, subs, missed, misused, stop, th>>

\* the fiber ends and publishes on its channel: without a subscription there
\* is no channel and the message is dropped
fiber_ends(t, c) ==
    /\ Pops(t, "fiber", c)
    /\ fiber' = [fiber EXCEPT ![c] = "done"]
    /\ normal' = Tail(normal)
    /\ urgent' = IF c \in subs THEN <<Task("message", c, FALSE)>> ELSE <<>>
    /\ missed' = IF c \in subs THEN missed ELSE missed \cup {c}
    /\ UNCHANGED <<uuid, conns, handle, store, subs, misused, stop, th>>

\* on_iodine_request_id_message calls http_resume, which defers an IO task
http_resume(t, c) ==
    /\ Pops(t, "message", c)
    /\ handle' = [handle EXCEPT ![c] = "resuming"]
    /\ Popped(<<Task("resume", c, FALSE)>>)
    /\ UNCHANGED <<uuid, conns, fiber, store, subs, missed, misused, stop, th>>

\* fio_io_task_perform finds the connection busy
fio_io_task_postpone(t, c) ==
    /\ Pops(t, "resume", c)
    /\ Busy(c)
    /\ Popped(<<NextTask>>)
    /\ UNCHANGED <<uuid, conns, fibers, missed, misused, stop, th>>

\* or gone: http_resume_fallback_wrapper has no fallback to call
http_resume_fallback_wrapper(t, c) ==
    /\ Pops(t, "resume", c)
    /\ uuid[c].protocol = "none"
    /\ handle' = [handle EXCEPT ![c] = "none"]
    /\ Popped(<<>>)
    /\ UNCHANGED <<uuid, conns, fiber, store, subs, missed, misused, stop, th>>

\* http1_on_resume: only a connection that was not taken over is read again
http1_on_resume(u) == ~Stopped(u)

\* fio_io_task_perform: within the lock, the fiber's result is the response
http_resume_wrapper(t, c, how) ==
    LET u == Replied(uuid[c], how) IN
    /\ Pops(t, "resume", c)
    /\ uuid[c].protocol # "none" /\ ~Busy(c)
    /\ how \in Resumed
    /\ misused' = (misused \/ uuid[c].freed)
    /\ subs' = subs \ {c} /\ store' = store \ {c}
    /\ fiber' = [fiber EXCEPT ![c] = "none"] /\ handle' = [handle EXCEPT ![c] = "none"]
    /\ answers' = Answered(c) /\ request' = [request EXCEPT ![c] = 0]
    /\ IF http1_on_resume(u)
       THEN /\ stop' = fio_resume
            /\ uuid' = [uuid EXCEPT ![c] = fio_suspend(u)]
            /\ Popped(RepliedTasks(c, uuid[c], how) \o OnData(c, u))
       ELSE /\ uuid' = [uuid EXCEPT ![c] = u]
            /\ Popped(RepliedTasks(c, uuid[c], how))
            /\ UNCHANGED stop
    /\ UNCHANGED <<sent, parsed, missed, th>>

deferred_on_close_AtOnce(t, c) ==
    /\ Pops(t, "on_close", c)
    /\ uuid' = [uuid EXCEPT ![c].freed = TRUE]
    /\ Popped(<<>>)
    /\ UNCHANGED <<conns, fibers, missed, misused, stop, th>>

\* http1_on_close frees the protocol and its request once no task holds it
deferred_on_close(t, c) ==
    /\ Pops(t, "on_close", c)
    /\ \/ /\ uuid[c].lock = NULL
          /\ uuid' = [uuid EXCEPT ![c].freed = TRUE]
          /\ Popped(<<>>)
       \/ /\ uuid[c].lock # NULL
          /\ Popped(<<NextTask>>) /\ UNCHANGED uuid
    /\ UNCHANGED <<conns, fibers, missed, misused, stop, th>>

-----------------------------------------------------------------------------
(* Graceful stop *)

\* Iodine.task_inc! and Iodine.task_dec!, which the application pairs
fio_register_background_task ==
    /\ stop.tasks < MAXTASKS
    /\ stop' = [stop EXCEPT !.tasks = @ + 1]
    /\ UNCHANGED <<uuid, conns, fibers, missed, misused, urgent, normal, th>>

fio_deregister_background_task ==
    /\ stop.tasks > 0
    /\ stop' = [stop EXCEPT !.tasks = @ - 1]
    /\ UNCHANGED <<uuid, conns, fibers, missed, misused, urgent, normal, th>>

GracefulStop_TasksOnly(s) ==
    IF s.tasks = 0
    THEN [s EXCEPT !.active = FALSE]
    ELSE IF s.requested THEN s ELSE [s EXCEPT !.requested = TRUE, !.ticks = TICKS]

\* fio_graceful_stop on s = fio_data's counters and flags
GracefulStop(s) ==
    IF s.paused = 0 /\ s.tasks = 0
    THEN [s EXCEPT !.active = FALSE]
    ELSE IF s.requested THEN s ELSE [s EXCEPT !.requested = TRUE, !.ticks = TICKS]

\* a signal, or the root's shutdown message
fio_graceful_stop ==
    /\ stop.active
    /\ stop' = GracefulStop(stop)
    /\ UNCHANGED <<uuid, conns, fibers, missed, misused, urgent, normal, th>>

\* its timer: fio_stop after the last repetition
graceful_timer ==
    /\ stop.active /\ stop.ticks > 0
    /\ LET s == GracefulStop(stop) IN
       stop' = [s EXCEPT !.ticks = @ - 1, !.active = @ /\ stop.ticks > 1]
    /\ UNCHANGED <<uuid, conns, fibers, missed, misused, urgent, normal, th>>

\* fio_worker_cleanup: once the threads ran out of tasks
fio_worker_cleanup ==
    /\ ~stop.active /\ urgent = <<>> /\ normal = <<>>
    /\ \A t \in Thread : th[t] = Idle
    /\ \E c \in Conn : uuid[c].open
    /\ normal' = SetToSeq({Task("on_shutdown", c, FALSE) : c \in {d \in Conn : uuid[d].open}})
    /\ UNCHANGED <<uuid, conns, fibers, missed, misused, stop, urgent, th>>

\* on_shutdown returns 0: the connection is closed
deferred_on_shutdown(t, c) ==
    /\ Pops(t, "on_shutdown", c)
    /\ \/ /\ Busy(c)
          /\ Popped(<<NextTask>>) /\ UNCHANGED uuid
       \/ /\ ~Busy(c)
          /\ uuid' = [uuid EXCEPT ![c] = Cleared(@)]
          /\ Popped(ClearedTasks(c))
    /\ UNCHANGED <<conns, fibers, missed, misused, stop, th>>

-----------------------------------------------------------------------------
Perform(t) ==
    \E c \in Conn :
        \/ deferred_ping(t, c) \/ http1_on_ready(t, c)
        \/ deferred_on_data_Elsewhere(t, c) \/ http1_on_data(t, c)
        \/ http_pause_wrapper(t, c) \/ fiber_ends(t, c) \/ http_resume(t, c)
        \/ fio_io_task_postpone(t, c) \/ http_resume_fallback_wrapper(t, c)
        \/ \E how \in Resumed : http_resume_wrapper(t, c, how)
        \/ deferred_on_close(t, c) \/ deferred_on_shutdown(t, c)

HandleRequest(t) ==
    \/ http1_consume_data(t) \/ http1_throttle(t)
    \/ \E how \in App : on_rack_request(t, how)
    \/ iodine_handle_request_in_GVL(t) \/ http_pause(t)
    \/ protocol_unlock(t) \/ deferred_on_data_rearm(t)

Next ==
    \/ \E t \in Thread : Perform(t) \/ HandleRequest(t)
    \/ \E c \in Conn :
          \/ client_send(c) \/ poll_read(c) \/ fio_force_close(c) \/ fio_review_timeout(c)
          \/ fio_flush_all(c) \/ deferred_on_ready(c) \/ fiber_wakes(c)
    \/ fio_register_background_task \/ fio_deregister_background_task
    \/ fio_graceful_stop \/ graceful_timer \/ fio_worker_cleanup

Spec == Init /\ [][Next]_vars

\* Threads run their tasks, the reactor polls and cycles, peers take what is
\* sent to them and fibers end.
Fairness ==
    /\ \A t \in Thread : WF_vars(Perform(t)) /\ WF_vars(HandleRequest(t))
    /\ \A c \in Conn :
          WF_vars(poll_read(c)) /\ WF_vars(deferred_on_ready(c)) /\ WF_vars(fiber_wakes(c))
    /\ WF_vars(graceful_timer)

FairSpec == Spec /\ Fairness

-----------------------------------------------------------------------------
\* type invariant
TypeOK ==
    /\ uuid \in [Conn -> [open : BOOLEAN, protocol : {"http1", "websocket", "sse", "tcp", "none"},
                          lock : Thread \cup {NULL}, stop : SUBSET {1, 2, 4},
                          scheduled : BOOLEAN, armed : BOOLEAN, socket : Nat, buf : Nat,
                          pending : Nat, ready : BOOLEAN, freed : BOOLEAN]]
    /\ request \in [Conn -> Nat] /\ sent \in [Conn -> Nat] /\ parsed \in [Conn -> Nat]
    /\ \A c \in Conn : answers[c] \in Seq(Nat) /\ parsed[c] <= sent[c] /\ sent[c] <= REQUESTS[c]
    /\ handle \in [Conn -> {"none", "paused", "subscribed", "resuming"}]
    /\ fiber \in [Conn -> {"none", "blocked", "woken", "done"}]
    /\ store \subseteq Conn /\ subs \subseteq Conn /\ missed \subseteq Conn /\ misused \in BOOLEAN
    /\ stop \in [active : BOOLEAN, requested : BOOLEAN, ticks : 0 .. TICKS, paused : Nat,
                 tasks : 0 .. MAXTASKS]
    /\ \A t \in Thread : th[t].c \in Conn \cup {NULL} /\ th[t].limit \in 0 .. PIPELINE

Paused == {c \in Conn : handle[c] # "none"}

\* HTTP/1.1 pipelining: however requests are paused, throttled and resumed, by
\* whichever threads, the answers are on the wire once each, in request order.
AnsweredInOrder == \A c \in Conn : answers[c] = [i \in 1 .. Len(answers[c]) |-> i]

\* No handler runs on a request whose protocol object was freed.
RequestOutlivesItsHandler ==
    /\ ~misused
    /\ \A t \in Thread : th[t].pc \in {"consume", "throttle", "app", "pause", "unlock"}
                            => ~uuid[th[t].c].freed

\* fio_graceful_stop stops the reactor while a request is paused only when it
\* has waited for all its repetitions.
StopWaitsForRequests ==
    [][stop.active /\ ~stop'.active => Paused = {} \/ (stop.requested /\ stop.ticks = 1)]_vars

\* Every request of a connection that stays open and HTTP is answered, unless
\* the process stops or a wake-up was missed.
RequestIsAnswered ==
    \A c \in Conn : \A n \in 1 .. REQUESTS[c] :
        sent[c] >= n ~> \/ Len(answers[c]) >= n
                        \/ uuid[c].protocol # "http1" \/ ~stop.active \/ c \in missed

-----------------------------------------------------------------------------
(* What the comments say of the code *)

\* fio.c, async_connection_count: "number of currently paused connections"
PausedIsCounted == stop.paused = Cardinality(Paused)

\* http.h, http_pause: "The `http_resume` function MUST be called (at some point)"
PausedIsResumed == \A c \in Conn : handle[c] = "subscribed" ~> handle[c] # "subscribed"

\* http1.c, http1_on_ready: "resume slow clients from suspension"
ThrottledIsResumed ==
    \A c \in Conn : 4 \in uuid[c].stop ~> (4 \notin uuid[c].stop \/ ~uuid[c].open)

\* http1.c, http1_upgrade2sse: "On HTTP/1.1 connections, this will preclude
\* future requests using the same connection."
NoRequestAfterUpgrade ==
    \A t \in Thread : th[t].pc = "app" => uuid[th[t].c].protocol \in {"http1", "none"}

\* Whatever answers, defers, upgrades, times out or closes (http1_on_data,
\* http_pause, deferred_on_close), no request is used after its protocol was
\* freed and the counters of paused connections stay counts.
RequestsSound == TypeOK /\ RequestOutlivesItsHandler

-----------------------------------------------------------------------------
(* For model checking: every client sends two requests at once.            *)
OnePipelined == [c \in Conn |-> 2]
=============================================================================
