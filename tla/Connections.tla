----------------------------- MODULE Connections -----------------------------
(***************************************************************************)
(* The life of a connection in iodine's reactor: descriptor slots and      *)
(* their uuids, protocol objects with their locks, the deferred handlers   *)
(* that forward events to them and the polling that feeds these (fio.c);   *)
(* websockets and server-sent events that HTTP requests upgrade to         *)
(* (websockets.c, http1.c, http.c), raw sockets (iodine_tcp.c), the Ruby   *)
(* objects for all three with their subscriptions (iodine_connection.c,    *)
(* iodine_http.c), the fibers that wait for a descriptor (scheduler.c),    *)
(* and the unwinding of a worker that stops.                               *)
(*                                                                         *)
(* Sending is abstracted to whether a packet is left over: Socket models   *)
(* it.  Pub/sub is abstracted to one channel: PubSub models it.            *)
(***************************************************************************)
EXTENDS Integers, SequencesExt

CONSTANTS
    Fd,        \* descriptors
    Reactor,   \* reactor threads
    AppThread, \* the application's own threads
    Fiber,     \* fibers of the application
    COUNTER,   \* values of a slot's counter (2^8)
    Scenarios  \* the settings and applications that are looked at

\* "listen": a subscription with a block
Calls == {"none", "write", "close", "subscribe", "listen", "unsubscribe"}

\* the reactor threads that run, what a listening socket attaches, what a request does, what
\* fibers wait for and how long, what callbacks and the application's threads call, whether
\* peers may be slow to read and silent for long, whether the worker stops, and the bounds on an
\* application thread's calls, protocol objects, data arrivals, subscriptions and messages
Scenario ==
    [reactors : SUBSET Reactor, accepts : SUBSET {"http", "raw"},
     upgrades : SUBSET {"ws", "sse", "close"},
     waits : SUBSET SUBSET {"r", "w"}, limits : SUBSET {"nil", "some", "zero"},
     onOpen : SUBSET Calls, onMessage : SUBSET Calls, onShutdown : SUBSET Calls,
     outside : SUBSET Calls, slow : BOOLEAN, stops : BOOLEAN,
     maxCall : Nat, maxObj : Nat, maxData : Nat, maxSub : Nat, maxMsg : Nat]

ASSUME ConnectionsAssumption ==
    /\ Fd \subseteq Nat \ {0} /\ COUNTER \in Nat \ {0} /\ Scenarios \subseteq Scenario

VARIABLES
    env,    \* the scenario
    sys,    \* fio_data, the queues, the objects and the kernel's descriptors
    th,     \* Reactor -> [pc, task, pr]
    app,    \* AppThread -> [pc, p, sub, calls]
    fiber,  \* Fiber -> "new" or "started"
    data,   \* data arrivals so far
    sent,   \* messages published so far
    stop    \* "no", "stopping", "unwind", "closing" or "done"

\* whether the kernel's buffer has room for what is written
Through == {b \in BOOLEAN : env.slow \/ b}

vars == <<env, sys, th, app, fiber, data, sent, stop>>

-----------------------------------------------------------------------------
(* Slots, uuids and objects *)

Fds == SetToSortSeq(Fd, <)

\* era counts the clearings without wrapping: history, no code reads it
ClearSlot ==
    [n |-> 0, era |-> 0, open |-> FALSE, close |-> FALSE, protocol |-> 0, internal |-> FALSE,
     timeout |-> FALSE, old |-> FALSE, scheduled |-> FALSE, packet |-> FALSE]

\* a descriptor in the kernel: its owner, input that waits, a full output buffer, a peer
\* that hung up, and the sides of epoll that will report it (once)
NoFile == [owner |-> "none", in |-> "none", full |-> FALSE, hup |-> FALSE, armed |-> {}]
File(owner) == [NoFile EXCEPT !.owner = owner]
fio_poll_add(s, fd, sides) ==
    [s EXCEPT !.file[fd].armed = IF s.file[fd].owner # "none" THEN @ \cup sides ELSE @]

Uuid(s, fd) == [fd |-> fd, n |-> s.slot[fd].n, era |-> s.slot[fd].era]
Zero == [fd |-> 0, n |-> 0, era |-> 0]
Gone == [fd |-> 0, n |-> 1, era |-> 0]

\* MUTANT (OldUuidsAreDead): the counter is not compared
uuid_is_valid_AnyCounter(s, u) == u.fd \in Fd

uuid_is_valid(s, u) == u.fd \in Fd /\ s.slot[u.fd].n = u.n
fio_is_closed(s, u) == ~uuid_is_valid(s, u) \/ ~s.slot[u.fd].open \/ s.slot[u.fd].close

\* a protocol object with the Ruby connection, or the fiber's wait, it serves:
\* freed protocol, locks held, first (on_data_first to come), ready (on_ready set),
\* mock (ping replaced); uuid/arg/handler/stored/ref/sub of the connection object;
\* opened, closed, early: callbacks seen (history); wants/limit/fulfilled/resumed of a wait
Object(kind, u) ==
    [kind |-> kind, uuid |-> u, freed |-> FALSE, locks |-> {}, first |-> (kind = "ws"),
     ready |-> FALSE, mock |-> FALSE,
     cuuid |-> IF kind = "raw" THEN u ELSE Zero, handler |-> kind \in {"ws", "sse", "raw"},
     stored |-> kind \in {"ws", "sse", "raw", "wait"}, ref |-> 1, sub |-> 0,
     opened |-> 0, closed |-> 0, early |-> {},
     wants |-> {}, limit |-> "nil", fiber |-> 0, fulfilled |-> FALSE, resumed |-> 0,
     collected |-> FALSE]

Task(f, u, p) == [func |-> f, uuid |-> u, p |-> p]

Push(s, f, u, p) == [s EXCEPT !.normal = Append(@, Task(f, u, p))]
Urge(s, f, u, p) == [s EXCEPT !.urgent = Append(@, Task(f, u, p))]

\* a pointer to p's memory is followed
Used(s, p) == IF s.obj[p].freed THEN [s EXCEPT !.misused = TRUE] ELSE s

\* an operation through u changes the slot of a later connection
Crossed(s, u) == [s EXCEPT !.crossed = @ \/ u.era # s.slot[u.fd].era]

fio_clear_fd(s, fd, open) ==
    LET pr == s.slot[fd].protocol
        c == [s EXCEPT !.slot[fd] = [ClearSlot EXCEPT !.n = (s.slot[fd].n + 1) % COUNTER,
                                                      !.era = s.slot[fd].era + 1, !.open = open]]
    IN  IF pr # 0 THEN Push(c, "on_close", Uuid(c, fd), pr) ELSE c

fio_fd2uuid(s, fd) == IF s.slot[fd].open THEN s ELSE fio_clear_fd(s, fd, TRUE)

fio_force_close(s, u) ==
    IF ~uuid_is_valid(s, u) THEN s
    ELSE [fio_clear_fd(Crossed(s, u), u.fd, FALSE)
             EXCEPT !.file[u.fd] = NoFile, !.count = IF @ > 0 THEN @ - 1 ELSE 0]

touchfd(s, fd) == [s EXCEPT !.slot[fd].old = FALSE]

fio_flush(s, u) ==
    IF ~uuid_is_valid(s, u) \/ ~s.slot[u.fd].packet \/ s.file[u.fd].full THEN s
    ELSE LET f == [s EXCEPT !.slot[u.fd].packet = FALSE]
         IN  IF s.slot[u.fd].close THEN fio_force_close(f, u) ELSE f

deferred_on_ready(s, u, now) ==
    LET f == fio_flush(s, u)
    IN  CASE uuid_is_valid(f, u) /\ f.slot[u.fd].packet ->
               IF now THEN Urge(f, "on_ready", u, 0)
               ELSE fio_poll_add(f, u.fd, {"w"})
          [] f.slot[u.fd].protocol = 0 -> f
          [] OTHER -> Push(f, "on_ready_usr", u, 0)

\* through: the kernel's buffer has room
fio_write(s, u, through) ==
    IF ~uuid_is_valid(s, u) THEN s
    ELSE IF s.slot[u.fd].packet THEN Crossed(s, u)
    ELSE deferred_on_ready(touchfd([Crossed(s, u) EXCEPT !.slot[u.fd].packet = TRUE,
                                        !.file[u.fd].full = @ \/ ~through], u.fd), u, TRUE)

fio_close(s, u) ==
    IF ~uuid_is_valid(s, u) THEN s
    ELSE IF s.slot[u.fd].packet
    THEN Urge([Crossed(s, u) EXCEPT !.slot[u.fd].close = TRUE], "on_ready", u, 0)
    ELSE fio_force_close(s, u)

force_on_data(s, u) ==
    IF uuid_is_valid(s, u)
    THEN Push([s EXCEPT !.slot[u.fd].scheduled = TRUE], "on_data", u, 1) ELSE s
force_on_ready(s, u) == IF uuid_is_valid(s, u) THEN Urge(s, "on_ready", u, 0) ELSE s

fio_timeout_set(s, u, set) ==
    IF uuid_is_valid(s, u)
    THEN [touchfd(Crossed(s, u), u.fd) EXCEPT !.slot[u.fd].timeout = set] ELSE s

\* MUTANT (ClosedIsReleased): the replaced protocol's on_close is not scheduled
fio_attach_Forgets(s, u, p) ==
    IF ~uuid_is_valid(s, u) THEN Push(s, "on_close", u, p)
    ELSE LET a == touchfd([s EXCEPT !.slot[u.fd].open = TRUE,
                              !.slot[u.fd].internal = TRUE, !.slot[u.fd].protocol = p], u.fd)
         IN  IF s.slot[u.fd].protocol # 0 THEN a ELSE fio_poll_add(a, u.fd, {"r", "w"})

fio_attach__internal(s, u, p) ==
    IF ~uuid_is_valid(s, u) THEN Push(s, "on_close", u, p)
    ELSE LET old == s.slot[u.fd].protocol
             a == touchfd([Crossed(s, u) EXCEPT !.slot[u.fd].open = TRUE,
                              !.slot[u.fd].internal = TRUE, !.slot[u.fd].protocol = p], u.fd)
         IN  IF old # 0 THEN Push(a, "on_close", u, old)
             ELSE fio_poll_add(a, u.fd, {"r", "w"})

fio_watch__internal(s, u, p) ==
    LET old == s.slot[u.fd].protocol
        a == touchfd([s EXCEPT !.slot[u.fd].open = TRUE, !.slot[u.fd].internal = FALSE,
                               !.slot[u.fd].protocol = p], u.fd)
    IN  fio_poll_add(IF old # 0 THEN Push(a, "on_close", u, old) ELSE a, u.fd, {"r", "w"})

-----------------------------------------------------------------------------
(* Ruby connections *)

\* iodine_connection_validate_data
validate_data(s, p) == s.obj[p].handler /\ s.obj[p].cuuid # Gone

\* c->info.arg, NULL once the connection ended
websocket(s, p) == IF s.obj[p].cuuid = Gone THEN [s EXCEPT !.misused = TRUE] ELSE Used(s, p)
websocket_close(s, p, through) ==
    LET u == s.obj[p].uuid IN fio_close(fio_write(websocket(s, p), u, through), u)

\* the parts of iodine_connection_write and _close that follow their tests
write_now(s, p, through) ==
    IF s.obj[p].kind = "ws" THEN fio_write(websocket(s, p), s.obj[p].uuid, through)
    ELSE fio_write(s, s.obj[p].cuuid, through)
close_now(s, p, through) ==
    IF s.obj[p].kind = "ws" THEN websocket_close(s, p, through) ELSE fio_close(s, s.obj[p].cuuid)

\* iodine_connection_data_free: the connection's memory loses a reference
data_free(s, p) == [s EXCEPT !.obj[p].ref = @ - 1]

optimize4broadcasts(s, p, n) == IF s.obj[p].kind = "ws" THEN [s EXCEPT !.generic = @ + n] ELSE s

iodine_on_unsubscribe(s, i) ==
    LET p == s.subs[i].p
    IN  data_free(IF s.subs[i].direct THEN optimize4broadcasts(s, p, -1) ELSE s, p)

\* a reference to subscription i is dropped
subscription_free(s, i) ==
    LET d == [s EXCEPT !.subs[i].ref = @ - 1]
    IN  IF d.subs[i].ref = 0 THEN iodine_on_unsubscribe(d, i) ELSE d

fio_unsubscribe(s, i) == IF i = 0 THEN s ELSE subscription_free([s EXCEPT !.subs[i].live = FALSE], i)

\* iodine_pubsub_subscribe up to fio_subscribe, which adds subscription Len(subs) + 1
subscribe_begin(s, p, direct) ==
    LET r == [(IF direct THEN optimize4broadcasts(s, p, 1) ELSE s) EXCEPT !.obj[p].ref = @ + 1]
    IN  [r EXCEPT !.subs = Append(@, [p |-> p, direct |-> direct, live |-> TRUE, ref |-> 1])]

\* MUTANT (NothingHeld): a connection that ended meanwhile keeps the subscription
subscribe_end_Always(s, p, i) == fio_unsubscribe([s EXCEPT !.obj[p].sub = i], s.obj[p].sub)

\* and after it, in the connection's lock: a subscription of the same name is replaced
subscribe_end(s, p, i) ==
    IF s.obj[p].cuuid = Gone THEN fio_unsubscribe(s, i)
    ELSE fio_unsubscribe([s EXCEPT !.obj[p].sub = i], s.obj[p].sub)

\* a call of the connection's methods inside one of its callbacks
Call(s, p, call, through) ==
    CASE ~validate_data(s, p) -> s
      [] call = "write" -> IF fio_is_closed(s, s.obj[p].cuuid) THEN s ELSE write_now(s, p, through)
      [] call = "close" -> IF fio_is_closed(s, s.obj[p].cuuid) THEN s ELSE close_now(s, p, through)
      [] call \in {"subscribe", "listen"} /\ Len(s.subs) < env.maxSub ->
            subscribe_end(subscribe_begin(s, p, call = "subscribe"), p, Len(s.subs) + 1)
      [] call = "unsubscribe" -> [fio_unsubscribe(s, s.obj[p].sub) EXCEPT !.obj[p].sub = 0]
      [] OTHER -> s

\* iodine_connection_fire_event but for the end of a connection; the callback calls `call`
fire_event(s, p, event, call, through) ==
    IF ~validate_data(s, p) THEN s
    ELSE Call([s EXCEPT !.obj[p].opened = IF event = "open" THEN @ + 1 ELSE @,
                        !.obj[p].early = IF event # "open" /\ s.obj[p].opened = 0 THEN @ \cup {event} ELSE @],
              p, call, through)

-----------------------------------------------------------------------------
(* Fibers that wait *)

\* iodine_scheduler_attach, by fiber f, once the protocol p = Len(obj) + 1 is made
scheduler_attach(s, f, fd, wants, limit) ==
    LET r == fio_fd2uuid(s, fd)
        u == Uuid(r, fd)
        p == Len(s.obj) + 1
        o == [Object("wait", u) EXCEPT !.wants = wants, !.limit = limit, !.fiber = f]
        m == [r EXCEPT !.obj = Append(@, o)]
    IN  fio_watch__internal(IF limit = "zero" THEN m ELSE fio_timeout_set(m, u, limit = "some"), u, p)

\* a fiber that was resumed ends, or waits again
NextWaits(s) ==
    {[fd |-> 0, wants |-> {}, limit |-> "nil"]} \cup
    (IF Len(s.obj) < env.maxObj
     THEN [fd : {fd \in Fd : s.file[fd].owner = "app"}, wants : env.waits, limit : env.limits] ELSE {})

\* the wait p's block is called; w is what the fiber does next
resume(s, p, w) ==
    LET r == [s EXCEPT !.obj[p].resumed = @ + 1]
    IN  IF w.fd = 0 THEN r ELSE scheduler_attach(r, s.obj[p].fiber, w.fd, w.wants, w.limit)

-----------------------------------------------------------------------------
(* Tasks and threads *)

Idle == [pc |-> "idle", task |-> Task("none", Zero, 0), pr |-> 0]

Init ==
    /\ env \in Scenarios
    /\ sys = [slot |-> [fd \in Fd |-> ClearSlot], file |-> [fd \in Fd |-> NoFile],
              obj |-> <<>>, subs |-> <<>>, normal |-> <<Task("cycle", Zero, 0)>>, urgent |-> <<>>,
              count |-> 0, adrift |-> FALSE, generic |-> 0, misused |-> FALSE,
              crossed |-> FALSE, hasty |-> FALSE]
    /\ th = [t \in Reactor |-> Idle]
    /\ app = [a \in AppThread |-> [pc |-> "idle", p |-> 0, sub |-> 0, calls |-> 0]]
    /\ fiber = [f \in Fiber |-> "new"]
    /\ data = 0 /\ sent = 0 /\ stop = "no"

\* a thread inside protocol_try_lock holds the slot's protocol lock, which
\* everything waits for but a hang-up and the on_close task
Free == \A t \in Reactor : th[t].pc # "window"

Popped(s) == IF s.urgent # <<>> THEN [s EXCEPT !.urgent = Tail(@)] ELSE [s EXCEPT !.normal = Tail(@)]

NextTask == Head(sys.urgent \o sys.normal)

\* the next task is one of function f, which t performs; Pops: once the slot's lock is free
Takes(t, f) ==
    /\ t \in env.reactors /\ th[t].pc = "idle"
    /\ sys.urgent # <<>> \/ sys.normal # <<>>
    /\ NextTask.func = f
Pops(t, f) == Free /\ Takes(t, f)

\* t goes on in a handler
At(t, pc) == Free /\ th[t].pc = pc

Others == UNCHANGED <<env, app, fiber, data, sent, stop>>

Ends(t, s) == sys' = s /\ th' = [th EXCEPT ![t] = Idle] /\ Others
Goes(t, s, pc) == sys' = s /\ th' = [th EXCEPT ![t].pc = pc] /\ Others

\* protocol_try_lock, for the task k: the slot's protocol is read
protocol_try_lock(t, s, k, invalid) ==
    LET pr == s.slot[k.uuid.fd].protocol
    IN  IF pr = 0 THEN Ends(t, invalid)
        ELSE sys' = s /\ th' = [th EXCEPT ![t] = [pc |-> "window", task |-> k, pr |-> pr]] /\ Others

LockOf(f) == IF f \in {"on_data", "on_shutdown"} THEN "task" ELSE "write"

\* what becomes of a task whose protocol is locked
Postponed(s, k) ==
    CASE k.func = "on_data" /\ k.p = 0 -> fio_poll_add(s, k.uuid.fd, {"r"})
      [] k.func = "on_ready_usr" -> Push(s, "on_ready", k.uuid, 0)
      [] OTHER -> Push(s, k.func, k.uuid, k.p)

\* and locked, or found locked
protocol_try_lock_ends(t) ==
    /\ th[t].pc = "window"
    /\ LET k == th[t].task pr == th[t].pr lock == LockOf(k.func)
           s == Used(sys, pr)
       IN  IF lock \in s.obj[pr].locks THEN Ends(t, Postponed(s, k))
           ELSE Goes(t, [s EXCEPT !.obj[pr].locks = @ \cup {lock}], k.func)

Unlocked(s, pr, lock) == [Used(s, pr) EXCEPT !.obj[pr].locks = @ \ {lock}]

-----------------------------------------------------------------------------
(* on_data *)

deferred_on_data(t) ==
    /\ Pops(t, "on_data")
    /\ LET k == NextTask s == Popped(sys) IN
        /\ ~fio_is_closed(s, k.uuid)
        /\ IF s.slot[k.uuid.fd].protocol = 0 THEN Ends(t, deferred_on_ready(s, k.uuid, k.p = 1))
           ELSE protocol_try_lock(t, s, k, s)

deferred_on_data_closed(t) ==
    /\ Takes(t, "on_data") /\ fio_is_closed(sys, NextTask.uuid)
    /\ Ends(t, Popped(sys))

\* fio_read: the end of the stream closes the connection
Read(s, u) ==
    IF fio_is_closed(s, u) THEN s
    ELSE IF s.file[u.fd].in = "eof" THEN fio_force_close(s, u)
    ELSE [s EXCEPT !.file[u.fd].in = "none"]
Got(s, u) == ~fio_is_closed(s, u) /\ s.file[u.fd].in = "data"

\* websocket_attach: the new protocol's object is p
websocket_attach(s, u, p) ==
    LET m == fio_timeout_set([s EXCEPT !.obj = Append(@, Object("ws", u))], u, TRUE)
    IN  force_on_data(fio_attach__internal(m, u, p), u)

on_data_first(s, p, call, through) ==
    LET u == s.obj[p].uuid
        o == fire_event([s EXCEPT !.obj[p].cuuid = u], p, "open", call, through)
    IN  force_on_ready(force_on_data([o EXCEPT !.obj[p].first = FALSE, !.obj[p].ready = TRUE], u), u)

iodine_sse_on_open(s, p, call, through) ==
    LET u == s.obj[p].uuid
        o == fire_event([s EXCEPT !.obj[p].cuuid = u], p, "open", call, through)
    IN  IF fio_is_closed(s, u) THEN s
        ELSE force_on_ready([o EXCEPT !.obj[p].ready = TRUE], o.obj[p].cuuid)

http1_upgrade2sse(s, u, p, call, through) ==
    LET m == fio_timeout_set([s EXCEPT !.obj = Append(@, Object("sse", u))], u, TRUE)
    IN  fio_attach__internal(iodine_sse_on_open(m, p, call, through), u, p)

\* an HTTP request's response is written and the connection upgraded or closed
Request(s, u, up, call, through) ==
    LET w == fio_write(s, u, through)
        p == Len(s.obj) + 1
    IN  CASE up = "close" -> fio_close(w, u)
          [] up = "ws" -> websocket_attach(w, u, p)
          [] up = "sse" -> http1_upgrade2sse(w, u, p, call, through)

\* what the on_data callbacks of a websocket, a raw socket and a stream of events do
websocket_on_data(s, p, u, call, through) ==
    IF Got(s, u) THEN force_on_data(fire_event(Read(s, u), p, "message", call, through), u)
    ELSE Read(s, u)
iodine_tcp_on_data(s, p, u, call, through) ==
    IF Got(s, u) THEN fire_event(Read(s, u), p, "message", call, through) ELSE Read(s, u)
fio_suspend(s, u) == IF uuid_is_valid(s, u) THEN [s EXCEPT !.slot[u.fd].scheduled = TRUE] ELSE s

\* the protocol's on_data, with the application's choices
on_data(s, p, u, up, call, through) ==
    CASE s.obj[p].kind = "http" ->
           IF Got(s, u) THEN Request(Read(s, u), u, up, call, through) ELSE Read(s, u)
      [] s.obj[p].kind = "ws" -> IF s.obj[p].first THEN on_data_first(s, p, call, through)
                                 ELSE websocket_on_data(s, p, u, call, through)
      [] s.obj[p].kind = "raw" -> iodine_tcp_on_data(s, p, u, call, through)
      [] s.obj[p].kind = "sse" -> fio_suspend(s, u)
      [] OTHER -> s

\* whether a callback resumes the fiber of the wait p
Resumes(s, p, side) == s.obj[p].kind = "wait" /\ side \in s.obj[p].wants /\ ~s.obj[p].fulfilled

deferred_on_data_call(t) ==
    LET p == th[t].pr u == th[t].task.uuid
        s == [Used(sys, p) EXCEPT !.slot[u.fd].scheduled = FALSE]
    IN  /\ At(t, "on_data")
        /\ \/ /\ Resumes(s, p, "r")
              /\ \E w \in NextWaits(s) : Goes(t, resume(s, p, w), "fulfil")
           \/ /\ ~Resumes(s, p, "r")
              /\ \E up \in IF Len(s.obj) < env.maxObj THEN env.upgrades ELSE {"close"},
                    call \in IF s.obj[p].kind # "http" /\ s.obj[p].opened = 1
                             THEN env.onMessage ELSE env.onOpen,
                    through \in Through :
                    Goes(t, on_data(s, p, u, up, call, through), "rearm")

\* MUTANT (CallbacksInOrder): the block's return is not recorded
task_fulfilled_Forgets(t) ==
    /\ At(t, "fulfil")
    /\ Goes(t, Used(sys, th[t].pr), IF th[t].task.func = "on_data" THEN "rearm" ELSE "unlock")

\* iodine_scheduler_task_perform and _timeout: fulfilled once the block returned
task_fulfilled(t) ==
    /\ At(t, "fulfil")
    /\ Goes(t, [Used(sys, th[t].pr) EXCEPT !.obj[th[t].pr].fulfilled = TRUE],
            IF th[t].task.func = "on_data" THEN "rearm" ELSE "unlock")

deferred_on_data_rearm(t) ==
    LET u == th[t].task.uuid
        s == Unlocked(sys, th[t].pr, "task")
    IN  /\ At(t, "rearm")
        /\ Ends(t, IF s.slot[u.fd].scheduled THEN s
                   ELSE fio_poll_add([s EXCEPT !.slot[u.fd].scheduled = TRUE], u.fd, {"r"}))

-----------------------------------------------------------------------------
(* on_ready, ping, on_shutdown *)

deferred_on_ready_task(t) ==
    /\ Pops(t, "on_ready")
    /\ Ends(t, deferred_on_ready(Popped(sys), NextTask.uuid, FALSE))

deferred_on_ready_usr(t) ==
    /\ Pops(t, "on_ready_usr")
    /\ LET k == NextTask s == Popped(sys) IN
        /\ protocol_try_lock(t, s, k, s)

deferred_on_ready_call(t) ==
    LET p == th[t].pr s == Used(sys, p) o == s.obj[p]
    IN  /\ At(t, "on_ready_usr")
        /\ \/ /\ o.limit = "zero" /\ Goes(t, Push(s, "not_ready", th[t].task.uuid, p), "unlock")
           \/ /\ o.limit # "zero" /\ Resumes(s, p, "w")
              /\ \E w \in NextWaits(s) : Goes(t, resume(s, p, w), "fulfil")
           \/ /\ o.limit # "zero" /\ ~Resumes(s, p, "w")
              /\ Goes(t, IF o.ready THEN fire_event(s, p, "drained", "none", TRUE) ELSE s, "unlock")

deferred_ping(t) ==
    /\ Pops(t, "ping")
    /\ LET k == NextTask s == Popped(sys) fd == k.uuid.fd IN
        /\ IF s.slot[fd].protocol = 0 \/ (s.slot[fd].timeout /\ ~s.slot[fd].old) THEN Ends(t, s)
           ELSE protocol_try_lock(t, s, k, Push(s, "ping", k.uuid, 0))

mock_ping(s, u) == fio_force_close(s, u)
ws_ping(s, u, through) == fio_write(s, u, through)
http1_sse_ping(s, u, through) == fio_write(s, u, through)
iodine_tcp_ping(s, p) == fire_event(s, p, "ping", "none", TRUE)

\* the fiber that waits is told, unless it was resumed
iodine_scheduler_task_timeout(t, s, p, u) ==
    \/ s.obj[p].fulfilled /\ Goes(t, s, "unlock")
    \/ /\ ~s.obj[p].fulfilled
       /\ \E w \in NextWaits(s) :
             Goes(t, resume([s EXCEPT !.hasty = @ \/ ~s.slot[u.fd].old], p, w), "fulfil")

deferred_ping_call(t) ==
    LET p == th[t].pr u == th[t].task.uuid s == Used(sys, p) o == s.obj[p]
    IN  /\ At(t, "ping")
        /\ CASE o.mock \/ o.kind = "http" -> Goes(t, mock_ping(s, u), "unlock")
             [] o.kind = "wait" -> iodine_scheduler_task_timeout(t, s, p, u)
             [] o.kind = "ws" -> \E through \in Through : Goes(t, ws_ping(s, u, through), "unlock")
             [] o.kind = "sse" -> \E through \in Through : Goes(t, http1_sse_ping(s, u, through), "unlock")
             [] OTHER -> Goes(t, iodine_tcp_ping(s, p), "unlock")

deferred_on_shutdown(t) ==
    /\ Pops(t, "on_shutdown")
    /\ LET k == NextTask s == Popped(sys) IN
        /\ protocol_try_lock(t, s, k, s)

\* after the callback; a connection that is closed by then was not subtracted and never will be
Counted(s, u, p) == [s EXCEPT !.count = @ + 1, !.adrift = @ \/ s.slot[u.fd].protocol # p]

\* MUTANT (StopEnds): the protocol keeps its ping callback
on_shutdown_KeepsPing(t) ==
    LET p == th[t].pr u == th[t].task.uuid s == touchfd(Used(sys, p), u.fd)
    IN  /\ At(t, "on_shutdown")
        /\ \E call \in env.onShutdown, through \in Through :
              LET e == fire_event(s, p, "shutdown", call, through)
                  b == IF s.obj[p].kind = "ws" THEN fio_write(e, u, through) ELSE e
              IN  Goes(t, [Counted(b, u, p) EXCEPT !.slot[u.fd].timeout = TRUE], "unlock")

deferred_on_shutdown_call(t) ==
    LET p == th[t].pr u == th[t].task.uuid s == touchfd(Used(sys, p), u.fd)
    IN  /\ At(t, "on_shutdown")
        /\ \E call \in env.onShutdown, through \in Through :
              LET e == fire_event(s, p, "shutdown", call, through)
                  b == IF s.obj[p].kind = "ws" THEN fio_write(e, u, through) ELSE e
              IN  Goes(t, [Counted(b, u, p) EXCEPT !.slot[u.fd].timeout = TRUE, !.obj[p].mock = TRUE], "unlock")

\* the lock is released; after on_shutdown the connection is closed
UnlockEnds(t) ==
    LET k == th[t].task s == Unlocked(sys, th[t].pr, LockOf(k.func))
    IN  /\ At(t, "unlock")
        /\ Ends(t, IF k.func = "on_shutdown" THEN fio_close(s, k.uuid) ELSE s)

\* iodine_scheduler_task_not_ready
task_not_ready(t) ==
    /\ Pops(t, "not_ready")
    /\ LET k == NextTask s == Used(Popped(sys), k.p) IN
        /\ \/ s.obj[k.p].fulfilled /\ Ends(t, s)
           \/ /\ ~s.obj[k.p].fulfilled
              /\ \E w \in NextWaits(s) :
                    Ends(t, [resume(s, k.p, w) EXCEPT !.obj[k.p].fulfilled = TRUE])

-----------------------------------------------------------------------------
(* on_close *)

\* the end of a connection object, but for the application's callback
connection_ends(s, p) ==
    IF s.obj[p].kind \in {"http", "wait"} THEN s
    ELSE [fio_unsubscribe(s, s.obj[p].sub)
             EXCEPT !.obj[p].sub = 0, !.obj[p].handler = FALSE, !.obj[p].cuuid = Gone]

\* MUTANT (NoUseAfterFree): the protocol's locks are not looked at
on_close_Unlocked(t) ==
    /\ Takes(t, "on_close")
    /\ sys' = Popped(sys)
    /\ th' = [th EXCEPT ![t] = [pc |-> "destroy", task |-> NextTask, pr |-> NextTask.p]] /\ Others

\* the protocol's on_close is called, in whose middle the application runs
deferred_on_close(t) ==
    /\ Takes(t, "on_close")
    /\ LET k == NextTask s == Used(Popped(sys), k.p) p == k.p IN
        /\ \/ s.obj[p].locks # {} /\ Ends(t, Push(s, "on_close", k.uuid, p))
           \/ /\ s.obj[p].locks = {}
              /\ \E w \in IF s.obj[p].kind = "wait" /\ ~s.obj[p].fulfilled THEN NextWaits(s)
                          ELSE {[fd |-> 0]} :
                    /\ sys' = IF s.obj[p].kind = "wait" /\ ~s.obj[p].fulfilled THEN resume(s, p, w)
                              ELSE IF s.obj[p].handler THEN [s EXCEPT !.obj[p].closed = @ + 1] ELSE s
                    /\ th' = [th EXCEPT ![t] = [pc |-> "destroy", task |-> k, pr |-> p]] /\ Others

\* and what is left is released
on_close_destroy(t) ==
    LET p == th[t].pr
    IN  /\ th[t].pc = "destroy"
        /\ Ends(t, [connection_ends(Used(sys, p), p) EXCEPT !.obj[p].stored = FALSE, !.obj[p].freed = TRUE])

-----------------------------------------------------------------------------
(* Pub/sub *)

\* iodine_on_pubsub, for subscription i: directly to the socket or to a block
pubsub_message(t) ==
    /\ Pops(t, "message")
    /\ LET i == NextTask.p s == Popped(sys) p == sys.subs[i].p u == sys.obj[p].cuuid
           pr == IF uuid_is_valid(s, u) THEN s.slot[u.fd].protocol ELSE 0
       IN  CASE ~s.subs[i].live -> Ends(t, subscription_free(s, i))
             [] s.subs[i].direct ->
                  \E through \in Through :
                     Ends(t, subscription_free(IF ~validate_data(s, p) \/ fio_is_closed(s, u) THEN s
                                               ELSE write_now(s, p, through), i))
             [] OTHER ->
                  IF pr # 0 /\ "task" \in s.obj[pr].locks
                  THEN Ends(t, Push(s, "message", Zero, i))
                  ELSE Ends(t, subscription_free(IF pr = 0 THEN s ELSE Used(s, pr), i))

Publish ==
    /\ sent < env.maxMsg /\ sent' = sent + 1
    /\ \E i \in DOMAIN sys.subs :
          /\ sys.subs[i].live
          /\ sys' = Push([sys EXCEPT !.subs[i].ref = @ + 1], "message", Zero, i)
    /\ Free /\ UNCHANGED <<env, th, app, fiber, data, stop>>

-----------------------------------------------------------------------------
(* The application's own threads *)

\* the connections whose object the application was given and still has
Known == {p \in DOMAIN sys.obj : sys.obj[p].opened + sys.obj[p].closed > 0 /\ sys.obj[p].ref > 0}

AppGoes(a, s, pc, p, i) ==
    /\ sys' = s
    /\ app' = [app EXCEPT ![a] = [pc |-> pc, p |-> p, sub |-> i,
                                  calls |-> IF pc = "idle" THEN @.calls ELSE @.calls + 1]]
    /\ Free /\ UNCHANGED <<env, th, fiber, data, sent, stop>>

\* iodine_connection_write and _close: the tests, then the operation
app_tests(a) ==
    \E p \in Known, call \in env.outside \cap {"write", "close"} :
        /\ app[a].pc = "idle" /\ app[a].calls < env.maxCall
        /\ validate_data(sys, p) /\ ~fio_is_closed(sys, sys.obj[p].cuuid)
        /\ AppGoes(a, sys, call, p, 0)

app_writes(a) ==
    /\ app[a].pc = "write"
    /\ \E through \in Through : AppGoes(a, write_now(sys, app[a].p, through), "idle", 0, 0)

app_closes(a) ==
    /\ app[a].pc = "close"
    /\ \E through \in Through : AppGoes(a, close_now(sys, app[a].p, through), "idle", 0, 0)

\* iodine_pubsub_subscribe
app_subscribes(a) ==
    /\ app[a].pc = "idle" /\ app[a].calls < env.maxCall /\ Len(sys.subs) < env.maxSub
    /\ \E p \in Known, call \in env.outside \cap {"subscribe", "listen"} :
          /\ validate_data(sys, p)
          /\ AppGoes(a, subscribe_begin(sys, p, call = "subscribe"), "subscribed", p, Len(sys.subs) + 1)

app_subscribed(a) ==
    /\ app[a].pc = "subscribed"
    /\ AppGoes(a, subscribe_end(sys, app[a].p, app[a].sub), "idle", 0, 0)

\* iodine_pubsub_unsubscribe
app_unsubscribes(a) ==
    /\ app[a].pc = "idle" /\ "unsubscribe" \in env.outside
    /\ \E p \in Known :
          /\ validate_data(sys, p) /\ sys.obj[p].sub # 0
          /\ AppGoes(a, Call(sys, p, "unsubscribe", TRUE), "idle", 0, 0)

\* iodine_connection_data_free by the GC, once nothing refers to the Ruby object
GC ==
    \E p \in DOMAIN sys.obj :
        /\ sys.obj[p].kind \in {"ws", "sse", "raw"} /\ sys.obj[p].freed
        /\ ~sys.obj[p].stored /\ ~sys.obj[p].collected
        /\ \A a \in AppThread : app[a].p # p
        /\ sys' = [data_free(sys, p) EXCEPT !.obj[p].collected = TRUE]
        /\ Free /\ UNCHANGED <<env, th, app, fiber, data, sent, stop>>

-----------------------------------------------------------------------------
(* Connections, waits and events *)

\* a listening socket accepts: fio_accept, and the attachment its on_open makes
Accept ==
    \E t \in env.reactors, fd \in Fd, kind \in env.accepts,
       call \in IF "raw" \in env.accepts THEN env.onOpen ELSE {"none"}, through \in Through :
        /\ th[t].pc = "idle" /\ stop = "no"
        /\ sys.file[fd].owner = "none" /\ Len(sys.obj) < env.maxObj
        /\ LET s == fio_clear_fd([sys EXCEPT !.file[fd] = File("iodine")], fd, TRUE)
               u == Uuid(s, fd)
               p == Len(s.obj) + 1
               a == fio_attach__internal([s EXCEPT !.obj = Append(@, Object(kind, u))], u, p)
               o == fire_event(a, p, "open", call, through)
           IN  sys' = IF kind = "http" THEN fio_timeout_set(a, u, TRUE)
                      ELSE force_on_ready([o EXCEPT !.obj[p].ready = TRUE], u)
        /\ Free /\ UNCHANGED <<env, th, app, fiber, data, sent, stop>>

\* the application opens a descriptor of its own, or closes it without a word to iodine
AppOpens ==
    \E fd \in Fd, through \in Through :
        /\ stop = "no" /\ sys.file[fd].owner = "none" /\ env.waits # {}
        /\ \E f \in Fiber : fiber[f] = "new"
        /\ \A other \in Fd : sys.file[other].owner # "app"
        /\ sys' = [sys EXCEPT !.file[fd] = [File("app") EXCEPT !.full = ~through]]
        /\ Free /\ UNCHANGED <<env, th, app, fiber, data, sent, stop>>

AppClosesFile ==
    \E fd \in Fd :
        /\ sys.file[fd].owner = "app" /\ \A f \in Fiber : fiber[f] = "started"
        /\ sys' = [sys EXCEPT !.file[fd] = NoFile]
        /\ Free /\ UNCHANGED <<env, th, app, fiber, data, sent, stop>>

FiberWaits ==
    \E t \in env.reactors, f \in Fiber, w \in NextWaits(sys) :
        /\ th[t].pc = "idle" /\ stop = "no" /\ fiber[f] = "new" /\ w.fd # 0
        /\ sys' = scheduler_attach(sys, f, w.fd, w.wants, w.limit)
        /\ fiber' = [fiber EXCEPT ![f] = "started"]
        /\ Free /\ UNCHANGED <<env, th, app, data, sent, stop>>

Arrives ==
    \E fd \in Fd :
        /\ data < env.maxData /\ data' = data + 1
        /\ sys.file[fd].owner # "none" /\ sys.file[fd].in = "none" /\ ~sys.file[fd].hup
        /\ sys' = [sys EXCEPT !.file[fd].in = "data"]
        /\ Free /\ UNCHANGED <<env, th, app, fiber, sent, stop>>

HangsUp ==
    \E fd \in Fd :
        /\ sys.file[fd].owner # "none" /\ ~sys.file[fd].hup
        /\ sys' = [sys EXCEPT !.file[fd].hup = TRUE,
                              !.file[fd].in = IF @ = "none" THEN "eof" ELSE @]
        /\ Free /\ UNCHANGED <<env, th, app, fiber, data, sent, stop>>

\* the peer reads what was sent
Drains ==
    \E fd \in Fd :
        /\ sys.file[fd].full
        /\ sys' = [sys EXCEPT !.file[fd].full = FALSE]
        /\ Free /\ UNCHANGED <<env, th, app, fiber, data, sent, stop>>

\* epoll reports the side of fd that is armed, once
Ready(s, fd, side) ==
    LET f == s.file[fd]
    IN  side \in f.armed /\ (f.hup \/ (IF side = "w" THEN ~f.full ELSE f.in # "none"))

Report(s, e) ==
    LET f == s.file[e.fd]
        u == Uuid(s, e.fd)
        off == [s EXCEPT !.file[e.fd].armed = @ \ {e.side}]
        r == IF e.side = "w" THEN IF f.full THEN off ELSE Urge(off, "on_ready", u, 0)
             ELSE IF f.in # "none" THEN Push(off, "on_data", u, 0) ELSE off
    IN  CASE ~Ready(s, e.fd, e.side) -> s
          [] ~f.hup -> r
          [] s.slot[e.fd].internal -> fio_force_close(r, u)
          [] OTHER -> fio_clear_fd(r, e.fd, FALSE)

Sides(side) == [i \in DOMAIN Fds |-> [fd |-> Fds[i], side |-> side]]
Events == Sides("r") \o Sides("w")
fio_poll(s) == FoldLeft(Report, s, Events)

\* the connections whose time is up and whose locks are free are pinged
fio_review_timeout(s) ==
    LET late(fd) == s.slot[fd].open /\ s.slot[fd].old /\ s.slot[fd].protocol # 0
                    /\ s.obj[s.slot[fd].protocol].locks = {}
        ping(r, fd) == IF late(fd) THEN Push(r, "ping", Uuid(r, fd), 0) ELSE r
    IN  FoldLeft(ping, s, Fds)

\* bound: the timeouts' review is one task at a time, as need_review has it; a review
\* that finds no connection late does nothing and is left out
cycle_schedule_events(s) ==
    IF (\E fd \in Fd : s.slot[fd].old) /\ ~\E i \in DOMAIN s.normal : s.normal[i].func = "review"
    THEN Push(fio_poll(s), "review", Zero, 0) ELSE fio_poll(s)

NoHangUp == \A fd \in Fd : sys.file[fd].hup => ~sys.slot[fd].internal

\* the reactor's own task, and the one it has when it stops
fio_cycle(t) ==
    /\ Takes(t, "cycle") /\ (Free \/ NoHangUp)
    /\ LET s == cycle_schedule_events(Popped(sys))
       IN  Ends(t, IF stop = "no" THEN Push(s, "cycle", Zero, 0) ELSE s)

fio_cycle_unwind(t) ==
    /\ Pops(t, "unwind")
    /\ Ends(t, IF sys.count = 0 THEN Popped(sys)
               ELSE Push(cycle_schedule_events(Popped(sys)), "unwind", Zero, 0))

review_timeouts(t) == Pops(t, "review") /\ Ends(t, fio_review_timeout(Popped(sys)))

\* time passes without activity of fd
Ages(fd) ==
    /\ env.slow /\ sys.slot[fd].open /\ sys.slot[fd].protocol # 0 /\ ~sys.slot[fd].old
    /\ sys' = [sys EXCEPT !.slot[fd].old = TRUE]
    /\ Free /\ UNCHANGED <<env, th, app, fiber, data, sent, stop>>

-----------------------------------------------------------------------------
(* The end *)

Quiet == sys.normal = <<>> /\ sys.urgent = <<>> /\ \A t \in Reactor : th[t].pc = "idle"

fio_stop ==
    /\ env.stops /\ stop = "no" /\ stop' = "stopping"
    /\ Free /\ UNCHANGED <<env, sys, th, app, fiber, data, sent>>

\* fio_worker_cleanup, once the tasks of the active reactor are performed
worker_cleanup ==
    /\ stop = "stopping" /\ stop' = "unwind" /\ Quiet
    /\ sys' = LET shutdown(s, fd) == IF s.slot[fd].protocol # 0
                                     THEN Push(s, "on_shutdown", Uuid(s, fd), 0) ELSE s
              IN  Push(FoldLeft(shutdown, sys, Fds), "unwind", Zero, 0)
    /\ Free /\ UNCHANGED <<env, th, app, fiber, data, sent>>

\* and once the connections are unwound the rest is closed at once
worker_cleanup_close ==
    /\ stop = "unwind" /\ stop' = "closing" /\ Quiet
    /\ sys' = LET close(s, fd) == IF s.slot[fd].protocol # 0 \/ s.slot[fd].open
                                  THEN fio_force_close(s, Uuid(s, fd)) ELSE s
              IN  FoldLeft(close, sys, Fds)
    /\ Free /\ UNCHANGED <<env, th, app, fiber, data, sent>>

Exits ==
    /\ stop = "closing" /\ Quiet /\ stop' = "done"
    /\ Free /\ UNCHANGED <<env, sys, th, app, fiber, data, sent>>

Exited == stop = "done" /\ UNCHANGED vars

-----------------------------------------------------------------------------

Run(t) ==
    \/ deferred_on_data(t) \/ deferred_on_data_closed(t) \/ deferred_on_data_call(t)
    \/ task_fulfilled(t) \/ deferred_on_data_rearm(t)
    \/ deferred_on_ready_task(t) \/ deferred_on_ready_usr(t) \/ deferred_on_ready_call(t)
    \/ deferred_ping(t) \/ deferred_ping_call(t)
    \/ deferred_on_shutdown(t) \/ deferred_on_shutdown_call(t)
    \/ UnlockEnds(t) \/ task_not_ready(t) \/ pubsub_message(t)
    \/ fio_cycle(t) \/ fio_cycle_unwind(t) \/ review_timeouts(t)
    \/ deferred_on_close(t) \/ on_close_destroy(t) \/ protocol_try_lock_ends(t)

Application(a) ==
    \/ app_tests(a) \/ app_writes(a) \/ app_closes(a)
    \/ app_subscribes(a) \/ app_subscribed(a) \/ app_unsubscribes(a)

World ==
    \/ Publish \/ GC \/ Accept \/ AppOpens \/ AppClosesFile \/ FiberWaits
    \/ Arrives \/ Drains \/ HangsUp
    \/ fio_stop \/ worker_cleanup \/ worker_cleanup_close \/ Exits \/ Exited
    \/ \E fd \in Fd : Ages(fd)

Next ==
    \/ \E t \in Reactor : Run(t)
    \/ \E a \in AppThread : Application(a)
    \/ World

\* threads run, and get a spin lock others take again and again; time passes; an application
\* thread ends its call
Fairness ==
    /\ \A t \in Reactor : SF_vars(Run(t))
    /\ \A fd \in Fd : WF_vars(Ages(fd))
    /\ \A a \in AppThread : WF_vars(app_writes(a) \/ app_closes(a) \/ app_subscribed(a))
    /\ WF_vars(worker_cleanup \/ worker_cleanup_close \/ Exits)

Spec == Init /\ [][Next]_vars /\ Fairness

-----------------------------------------------------------------------------
(* Properties *)

\* No handler follows a pointer to a protocol object that its on_close released: the locks
\* postpone deferred_on_close as long as anyone may use the object.
NoUseAfterFree == ~sys.misused

\* What is done through a uuid never reaches the connection that took the descriptor later.
OldUuidsAreDead == ~sys.crossed

\* A connection's callbacks come in order, whatever order its events come in: on_open once
\* and before the others, on_close once when the protocol is released; and a
\* fiber's wait is resumed once.
CallbacksInOrder ==
    \A p \in DOMAIN sys.obj : LET o == sys.obj[p] IN
        /\ o.early = {} /\ o.opened <= 1 /\ o.closed <= 1 /\ o.resumed <= 1
        /\ o.freed /\ o.kind \in {"ws", "sse", "raw"} => o.closed = 1
        /\ o.freed /\ o.kind = "wait" => o.resumed = 1

\* the references an application thread holds in the middle of a subscription
Live(p) == {i \in DOMAIN sys.subs : sys.subs[i].p = p /\ sys.subs[i].ref > 0}

\* The Ruby connection object is kept from the GC until on_close, its memory until the last
\* subscription is released; a closed connection keeps no subscription, and the broadcast
\* optimisation is counted once for every direct subscription of a websocket.
NothingHeld ==
    /\ \A p \in DOMAIN sys.obj : LET o == sys.obj[p] IN
          /\ o.stored = (~o.freed /\ o.kind # "http")
          /\ o.kind \in {"ws", "sse", "raw"} =>
                o.ref = Cardinality(Live(p)) + (IF o.collected THEN 0 ELSE 1)
          /\ o.freed => \A i \in Live(p) :
                \/ ~sys.subs[i].live
                \/ \E a \in AppThread : app[a].sub = i
    /\ sys.generic = Cardinality({i \in DOMAIN sys.subs :
                        sys.subs[i].ref > 0 /\ sys.subs[i].direct /\ sys.obj[sys.subs[i].p].kind = "ws"})

\* A fiber is told that its wait timed out only when the time it asked for passed without
\* activity.
TimesOutWhenLate == ~sys.hasty

Objects == 1..Max({e.maxObj : e \in Scenarios})

\* A protocol that lost its descriptor is released.
ClosedIsReleased ==
    \A p \in Objects :
        (p \in DOMAIN sys.obj /\ \A fd \in Fd : sys.slot[fd].protocol # p)
            ~> (p \in DOMAIN sys.obj /\ sys.obj[p].freed)

\* A worker that stops ends: every connection is told, flushed or timed out, and closed, also
\* when callbacks, the peer or an application thread close it first; unless on_shutdown counted
\* one that was closed already, by itself or by a thread meanwhile (fio.c:2829-2840).
StopEnds == stop = "stopping" ~> (stop = "done" \/ sys.adrift)

\* Without that exception: the unwinding cycle waits for connections that are gone.
StopAlwaysEnds == stop = "stopping" ~> stop = "done"

\* What belongs to a connection ends with it: its protocol is not used after
\* on_close, its old uuids are refused, its subscriptions and references are
\* given back (fio_clear_fd, protocol_try_lock, iodine_connection_s).
ConnectionsSound == NoUseAfterFree /\ OldUuidsAreDead /\ NothingHeld
=============================================================================
