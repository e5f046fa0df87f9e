# TLA+ specifications of the iodine runtime

iodine is a Ruby HTTP, WebSocket and pub/sub server whose core is a C extension
(`src/ext/iodine`) built around the facil.io reactor (`fio.c`). This directory
holds TLA+ modules of that core (its concurrent parts, the processes and their
messages, the parsers and containers under them), TLC configurations that check
them on small instances, and TLAPS proofs about eight of them: the task queue,
the timers, the worker pool, the post office, HTTP requests, sockets, the cluster
and the Redis engine.

    tlc -workers 2 -config Requests.cfg Requests     # one run
    tlapm WorkerPoolProofs.tla                           # proofs of one component

`PROJECT.json` lists the components, the runs, which source lines each
definition stands for, a mutant of the code per property, and the hazards the
properties are aimed at.

## 1. The system

### Processes and threads

A root process forks worker processes. In each worker one or more *reactor
threads* run tasks from two queues (urgent first), one of the tasks being the
reactor cycle itself: mark the time, move due timers into the queue, poll for
events, review timeouts. The reactor runs without Ruby's global lock (GVL) and
takes it for every call into Ruby. Beside the reactor threads there are

- the *IO thread* (`iodine_defer.c`), which flushes all sockets periodically;
- *Ruby threads*, which call the API with the GVL held;
- the threads of `Iodine::WorkerPool`, which run blocking operations of the
  fiber scheduler without the GVL.

### Components, their state and their operations

| Component | State | Operations | How it meets the others |
|---|---|---|---|
| Task queue (`fio.c`) | ring blocks, reader, writer, a static block | push, pop, clear, has-queue | everything that is deferred goes through it |
| Timers (`fio.c`) | ordered list, repetitions | run every, schedule, perform, clear | fed by callers and tasks, drained by the cycle into the task queue |
| Worker pool (`iodine_worker_pool.c`) | queue, workers, counters, flags | enqueue, wait and execute, unblock, close, statistics | called by the scheduler with the GVL, defers completions to the reactor |
| Sockets (`fio.c`) | per descriptor: packet queue, lock, marks, generation counter | write, flush, read, close, force close, accept | called by every thread; poll and the IO thread flush |
| Connections and protocols (`fio.c`) | protocol pointer with three locks, `scheduled` | attach, on_data, on_ready, on_close, ping, shutdown | tasks created by polling, closing, timeouts |
| HTTP/1.1 (`http1.c`, `http.c`, `iodine_http.c`) | buffer, request, `stop` bits, pause handle, fiber | consume, answer, upgrade, pause, resume | resumes by pub/sub message; counted for the graceful stop |
| Graceful stop (`fio.c`) | paused and background counters, flag, timer | stop, register / deregister | entered by signals and its timer |
| Pub/sub (`fio.c`, `iodine_pubsub.c`, `iodine_connection.c`) | three collections of channels, subscriptions, messages with reference counts, engines | subscribe, unsubscribe, publish, deliver, defer, attach | callbacks take the GVL or a connection's lock |
| Connections (`fio.c`, `websockets.c`, `http1.c`, `iodine_connection.c`, `iodine_tcp.c`, `scheduler.c`) | slots, uuids, protocol objects, Ruby objects with subscriptions and counts, waiting fibers | accept, attach, upgrade, write, close, subscribe, wait, ping, shut down | events become deferred tasks; requests become websockets; the worker's stop waits for all of them |
| Cluster and processes (`fio.c`) | children, sentinel threads, the fork lock, connections between root and workers | fork, respawn, hot restart, forward messages and subscriptions, shut down | the post offices of all processes exchange messages over it |
| Life of a process (`fio.c`, `iodine.c`) | state callbacks, listeners, clients, idle blocks, signal handlers | start, stop, listen, connect, add and remove callbacks | every other part is started and ended by it |
| Redis engine (`redis_engine.c`) | two connections, command queue, reference count | command, publish, subscribe, reconnect, destroy | an engine of the post office; workers reach it through the cluster |
| Readers of streams (`resp_parser.h`, `websocket_parser.h`, `http1_parser.h`, `http_mime_parser.h`, `fio.c`) | a buffer and the parser's stage | consume what a read brought | feed Redis, websockets, requests, forms and the cluster |
| Containers and objects (`fio.h`, `fiobject.h`, `fiobj_*.c`) | lists, arrays, strings, hash maps, counted objects | insert, remove, grow, compact, rehash, share, free | everything else is built on them |
| Bodies (`fiobj_data.c`, `iodine_rack_io.c`) | memory, file and its buffer, slices | write, read, gets, seek, slice, close | a request's body and `rack.input` |
| Conversions of texts (`mustache_parser.h`, `fio_json_parser.h`, `http.c`, `iodine_helpers.c`, `iodine_http.c`, `fio_cli.c`, `hpack.h`) | none | render, parse, format, decode | called by the application and by requests |
| Allocator, hashes (`fio.c`) | arenas, blocks, counts; a digest and its buffer | allocate, free, reallocate; write, finish | called by everything |

### What is hard here

- **Locks that are tried, not waited for.** A task that finds a lock taken puts
  itself back or leaves the work to whoever holds it; if nobody does, work waits
  for ever.
- **Deferred work on objects that die.** Tasks carry uuids, protocols, channels,
  subscriptions and messages whose owners go away meanwhile.
- **Descriptors that are reused.** A uuid is a descriptor and an 8 bit counter.
- **Wake-ups before the wait.** A fiber may end before anybody subscribed to its
  end; data may be flushed before the reader was throttled.
- **Two kinds of locks.** The GVL and the spinlocks of `fio.c` are taken in
  either order.
- **Counters that somebody waits for.** The graceful stop waits for counts that
  must be paired over every path, a worker's stop for a count of connections.
- **Processes that die.** Workers and root may crash at any moment of a fork, a
  connect or a shutdown, and a connection to Redis is lost with commands on it.
- **Bytes that arrive in pieces.** Every parser must resume at any byte; buffers
  must always have room, and loops must always advance.
- **Memory with two views.** Short and long strings, holes in maps, a file with a
  buffer beside it, blocks shared by slices: each call must keep both in step.

### What makes each part correct

- Task queue: it is a FIFO; no block is leaked or used after release.
- Timers: ordered by due time; each timer has one owner, runs as often as asked
  and gets `on_finish` once.
- Worker pool: every submitted item is completed or discarded, once; no worker
  sleeps on waiting work; a cancellation only hits the operation in hand; a
  closed pool is quiet; close returns.
- Sockets: packets arrive whole, at their own connection, and are released once;
  nothing waits without a wake-up; marked connections are closed.
- Pub/sub: exact reference counts; at most one delivery; silence after an
  unsubscribe; engines agree with the collections.
- Requests: answers in the order of requests; no handler runs on freed memory;
  the graceful stop waits; every request is answered.
- Connections: a protocol is not used after its `on_close`; an old uuid names
  nothing; callbacks come in order; subscriptions and references are given back;
  closed connections are released and a stop ends.
- Cluster: a publication reaches every connected process once; the root has the
  workers' subscriptions; lost workers are replaced; a stop ends every process.
- Redis: the engine lives as long as it is used; the server knows the subscribed
  names; commands are first executed in order, and answered.
- Streams, texts, bodies, containers, hashes: the result is what was put in,
  however it was cut, grown or moved. Allocator: allocations are apart and are
  all returned. Processes: listeners are released once, clients told once,
  callbacks run in turn.

## 2. Modules

| Module | Models | Extends |
|---|---|---|
| `TaskFIFO` | abstract queue: what the task queue promises | |
| `TaskQueue` | `fio_defer_push_task_fn`, `fio_defer_pop_task`, clearing | instantiates `TaskFIFO` |
| `TaskQueueProofs` | blocks are sound, `TaskQueue` implements `TaskFIFO` | `TaskQueue`, `TLAPS` |
| `Timers` | timer list, scheduling, performing, clearing | |
| `TimersProofs` | the list is ordered, timers run as asked | `Timers`, `TLAPS` |
| `WorkerPool` | `iodine_worker_pool.c` | |
| `WorkerPoolProofs` | ownership, wake-ups, cancellation, closing, statistics | `WorkerPool`, `TLAPS` |
| `PubSub` | post office, delivery, engines, the GVL | |
| `PubSubProofs` | messages delivered once and only while subscribed, `on_unsubscribe` last, references | `PubSub`, `TLAPS` |
| `Channels` | the subscriptions of one websocket or event stream | |
| `Socket` | one slot of the connection table | |
| `SocketProofs` | packets are queued, released, sent whole and not forgotten; bytes reach their peer | `Socket`, `TLAPS` |
| `Requests` | HTTP/1.1 requests, pause and resume, protocol locks, graceful stop | |
| `RequestsProofs` | order of answers, the graceful stop, no use after free | `Requests`, `TLAPS` |
| `Connections` | slots, protocols, websockets, event streams, raw sockets, Ruby connections, waiting fibers, a worker's stop | |
| `Cluster` | root and workers: forks, sentinels, messages, crashes | |
| `ClusterProofs` | forks alone, publications delivered once, mirrored subscriptions | `Cluster`, `TLAPS` |
| `Redis` | the Redis engine | |
| `RedisProofs` | the engine's references, subscriptions and order over losses | `Redis`, `TLAPS` |
| `Lifecycle` | one process: state callbacks, listeners, clients, signals, idle blocks | |
| `Allocator` | arenas, blocks and slices, large allocations | |
| `Hashes` | SHA-1 and SHA-2 as streams | |
| `Bytes`, `Framing`, `WebSocketFrames`, `Http1Parser`, `MimeForm` | readers and writers of byte streams: cluster messages and RESP replies, websocket frames, requests, forms | `Bytes` |
| `Streams` | feeds each of them in pieces | `Framing`, `WebSocketFrames`; instantiates the others |
| `Lists`, `FioStr`, `HashMap`, `Objects` | the linked list, array, string and map of `fio.h` and the FIOBJ types | |
| `Structures` | drives each of them beside the value it stands for | `HashMap`, `FioStr`; instantiates the others |
| `Mustache`, `Json`, `Params`, `Codecs`, `Responses` | conversions of texts: templates with their meaning, JSON, parameters and URLs, base 64, dates, HPACK strings and integers, the Rack environment, cookies and static files | `Objects` |
| `Texts` | performs one conversion and records what it should give | `Responses`, `Codecs`; instantiates `Mustache` |
| `DataStreams` | `fiobj_data.c`; bodies and `rack.input` beside their text | |
| `Library` | side by side: streams, containers, texts, bodies, allocator, hashes, processes, packets (`Socket` between threads), descriptor (`Socket` over two connections) and channels | instantiates them |
| `MC*` | constants and bounds for TLC of the module they name; `MCLibrary` instantiates `MCStreams` and `MCTexts` | the module they name |

The runs of `TaskQueue`, `Timers`, `Socket`, `PubSub`, `Requests`, `Cluster` and
`Redis` need no such module: their configurations (`PubSubThreads.cfg` and
`RequestsLost.cfg` are second ones) give values to the module's own constants.

Definitions carry the names of the C functions they model. A function whose
effects other threads can see in pieces is several actions, named for the piece
(`flush_wrote`, `flush_test`, `force_close_clear`, ...). Operators that end in a
suffix such as `_Quiet` or `_Never` stand immediately before the definition they
vary: they are mistakes that code could contain, and show that the property
aimed at them can fail.

### TaskQueue

State: `block` maps addresses to ring blocks (`tasks`, `next`, `write`, `read`,
`state`), `reader`, `writer`, and the heap blocks owned. All operations hold
`queue->lock` from first to last access and are one step each. The refinement
mapping `Contents` reads the chain of rings from reader to writer;
`ImplementsFIFO` is `TaskFIFO`'s specification under it. `state` (0 normal, 1
full ring, 2 parked static block) is kept, because an exactly full ring and an
exactly empty one differ in nothing else. `Reset` sets a ring's indices back to its
first slot, `Wrapped` is the index after the last slot's.

### Timers

`timers` is the list, `deferred` and `running` the timers with a task. An
insertion is placed by `Place`: the tail, the head, the bounded probe from the
tail, or the scan from the front. The clock `last_cycle` advances through `Time`
and is measured from an arbitrary origin. `cleared` says that the process has
cleaned up: `fio_timer_clear_all` runs once, with the list as it is then, and
timers may still be set afterwards.

### WorkerPool

`pc` is the position of each worker's thread, `result` its local `work`,
`current_op` the operation its unblock function would cancel. Critical sections
of `pool->mutex` are one step; the GVL orders enqueue, close and completion.
`unblocking` is an unblock function that has read `current_op` and not yet
cancelled it. The completion callback runs in the reactor (`deferred`).

### PubSub

`channels` maps names, patterns and filters to channel addresses, `chan` and
`sub` hold the objects with their reference counts, lists and locks, `urgent`
and `tasks` the two kinds of tasks. Threads are callers (inside the API) and
workers (performing tasks). Reading a channel with count zero sets the thread's
position to `crashed`; nothing happens afterwards. The three collections are
separate name spaces, so the sets of names, patterns and filters are disjoint: the
same string subscribed to as a name and as a pattern is two keys. `engine` is an
attached engine with the keys it was told of; `overtaken` (history) are those of
which it heard a channel's end after the beginning of the channel's successor. `Kept` is the
loop over a channel's list that skips some of its subscriptions. `life`, `got`, `due`,
`ended` and `sent` are history variables for the properties. A removed filter
channel is looked up with the hash of names, as in the code, and so stays.

### Socket

`fd` is the slot (`fio_fd_data_s`), `sock` the connection the kernel has behind
the descriptor, `ready` the on_ready tasks, `armed` the one-shot write event.
Taking `sock_lock` is one step and the section under it the next, so that every
thread can come between. `write(2)` sends all, part, nothing (EAGAIN) or fails
(`Outcome`). The counter is compared with the width of a `uint8_t`. `Hooked`
selects the TLS hooks, abstracted to what their `flush` and `before_close`
return. A worker's reactor thread and its IO thread touch the descriptor at any
moment (`iodine_defer.c:45-51`, started in every worker). Two history variables name what goes wrong
between them: `parted` are connections whose socket `close(2)` of a late thread
or the slowloris test took from their slot, `fd.late` a mark that comes when the
queue is empty and no flush has still to look at it.

### Channels

`obj` is the websocket or the event source with its list of subscriptions, `conn`
its connection with the task and write locks, `office` what the post office knows
of each subscription. `Handler` are threads that run the connection's callbacks,
`Outside` those that hold a duplicate of an event source, `Direct` the
subscriptions whose messages go to the client without a callback. The end of the
connection revokes what the list still holds; `told` counts `on_unsubscribe`.
`Clumsy` names calls that the code does not guard against.

### Requests

`uuid[c]` is a connection's slot with the protocol object that was attached
first: `stop` is the set of bits of `p->stop` (1 busy, 2 hijacked, 4 throttled),
`lock` the holder of the protocol's TASK lock, `scheduled` the spinlock that
keeps a connection from being polled, `armed` its poll registration, `socket`
and `buf` the requests not yet read and not yet parsed. `urgent` and `normal`
are the task queues of the process, in order; `th` the reactor threads. A task
that holds the TASK lock while the application runs (`http1_on_data` to
`deferred_on_data_rearm`) is split where other threads can see it; the other
tasks are one step. `App` is what the application does with a request: answer,
defer to a fiber, or upgrade to a WebSocket, SSE or raw TCP connection;
`Resumed` is what a finished fiber's result may be.

Abstractions: a request is a number, a response is complete and keep-alive; the
close after a last response is `fio_force_close`; a shutdown closes at once
(`fio_close` of a drained socket); connections do not reuse each other's
descriptors (`Socket` models that); subscribing and publishing are single steps
(`PubSub` models them); an idle timeout may come whenever no task runs on the
connection; hangs inside the application are excluded. `missed` records the two
wake-ups the code can lose (a fiber's end before the subscription, an on_ready
before the throttling), so that the liveness property can say *everything else*
is answered.

### Connections

`sys` holds the slots (protocol, counter, timeout, scheduled), the protocol
objects with their kind, locks and Ruby object, the two task queues, the
subscriptions and the kernel's descriptors. A reactor thread polls or performs a
task; `"window"` is the place between reading a slot's protocol and locking it,
where other threads and the poll can come between. `env` chooses a scenario:
what a listening socket accepts, what requests become, which calls callbacks and
application threads make, whether peers are slow and whether the worker stops.
`sys.adrift` (history) says that a connection was closed before its
`on_shutdown` counted it, so that the count the stop waits for stays above 0. Data is abstracted to whether some is there, sending to whether a packet is left
(`Socket`), pub/sub to one channel (`PubSub`).

### Cluster

Process 0 is the root, a child number one incarnation of a worker. A child has a
sentinel thread in the root that holds `fio_fork_lock` over the fork, waits for
its end and respawns it. `up` and `down` are the two directions of a child's
socket; what was written before a crash is still read, then the hang-up. The
root's slots have counters, so that a late message meets a uuid as in the code.

### Redis

`wire`, `replies`, `subwire` and `inbox` are the two connections, `queue` the
commands of which the first may be outstanding (`pub_sent`), `mail` and `back`
the messages between workers and root. The server is external: it executes and
answers in order and forgets a connection that closes. A loss may come at any
step and drops what is in flight.

### Streams, Structures, Texts, DataStreams

Each drives the code's algorithm beside what it should give: the messages that
were written, the plain sequence or map, the text's meaning (a tree for
templates and JSON, the fields of a URL, a date), the body's text and position.
Bytes are symbols and a word that a parser only passes on is one symbol; sizes
(frame classes, small strings, page and header limits) are constants, small in
the instances. The map's hash function is a constant chosen so that keys collide
in the first, in the second or in all of its places.

Where a reader hands on something else than what was written, the case is not
left out: `ReadAs` (`Streams`) gives what it is read as, `Stale` and `Astray`
(`DataStreams`) name the streams of which only less can be said, and what that is.

### Allocator, Hashes, Lifecycle

Memory is counted in slices of 16 bytes; freeing needs no lock, and every
decrement that other threads see is a step. A digest is the sequence of blocks
that were mixed into it and a byte is its place in the message, so a lost,
repeated or misplaced byte shows; the rounds are left out. `misplaced` (history)
says that a piece went beyond the end of a partly filled block and left bytes
over, which `fio_sha1_write` and `fio_sha2_write` copy to the wrong place. In
`Lifecycle` the reactor's thread runs the callbacks of each event from the copy
the code makes, while application threads add and remove callbacks, listen,
connect, close and stop at any time; a single process or a root may be started
again. `stale` (history) are the listeners that the event of shutdown released
while the callbacks of the next start still name them, `idle.twice` the idle
blocks that a cycle deferred while another thread ran them.

### Library

The parts in it share no state. A behaviour is one of them; the variables of the
others are `Off`. It exists so that one run asks the same question of all:
whatever the order and the cutting of calls, is the result what was put in?

## 3. Runs that pass

State counts are those of the full state spaces at the given bounds.

| Run | Configuration | States | Shows |
|---|---|---|---|
| `task_queue` | rings of 3, 3 heap blocks, up to 8 tasks of 2 kinds | 101,764 | FIFO refinement; no block leaked or dangling |
| `worker_pool` | 2 workers, 3 work items, 2 interrupts | 57,088 | ownership, wake-ups, cancellation, memory, progress |
| `timers` | 3 timers, intervals 0..2, repetitions twice/for ever, probe limit 1, clock 0..2 | 293,548 | order, ownership, runs as asked; liveness of due timers and of the `on_finish` of those set before the cleanup |
| `pubsub` | 1 subscribing and 1 publishing thread, 2 pool threads, 2 subscriptions, 2 messages, a name and a pattern, an engine | 1,391,573 | exact counts, delivery, no leak |
| `pubsub_threads` | 2 subscribing threads, a name and a filter, one mock subscription, an engine | 79,175 | `on_unsubscribe` last, engine agreement; delivery and release (liveness) |
| `socket` | a reactor thread and the IO thread, 2 connections after each other on one descriptor, 2 packets, of these 3 together (`MaxUses`), slowloris limit 2 | 93,805 | no orphan descriptor, data to its own connection; release and closing (liveness) |
| `requests` | 2 reactor threads, 2 pipelined requests, pipeline limit 2, throttling at any pending packet, 2 timer ticks, 1 background task | 306,820 | order of answers, no use after free, graceful stop, every request answered |
| `connections` | 1 descriptor, 1 or 2 reactor threads, an application thread, a fiber, 10 scenarios | 145,319 | life of protocols, uuids, callbacks, subscriptions; release and stop (liveness) |
| `cluster` | root and 2 workers of up to 4 incarnations, any 2 of: subscription, publication, stop, hot restart, crash, failing fork | 398,080 | delivery once everywhere, mirrored subscriptions; replacement and stop (liveness) |
| `redis` | 2 commands, 2 losses, 2 subscription calls, 1 message, of these 2 together, password | 373,878 | references, subscriptions and order over losses; answers (liveness) |
| `library` | ten parts, the values of `Components`: streams, containers (3 items, keys a, b, c), texts, bodies (pages of 1 byte), allocator (2 threads, blocks of 4 slices, allocations of 1, 3 and 5), hashes (blocks of 6 and 8 bytes, pieces of up to 13), processes (2 starts, 2 threads), packets (a caller and the IO thread that write and close), descriptor (2 connections after each other, a reactor and the IO thread), channels (3 subscriptions, 2 handlers, 1 outside thread) | 1,685,303 | results are what was put in; memory, listeners, packets and subscriptions are sound |

Why these bounds are enough for the cases of interest: rings of 3 with 8 tasks
fill three rings and wrap each, and the static block is parked and reused; with
three timers and a probe limit of 1 every branch of the insertion is taken; two
workers and three items let one wake-up be consumed by the wrong worker while an
item waits; two connections on one descriptor are what a stale uuid needs
(`MaxUses` lets one connection have two packets, or two follow each other with
one; packets written alike are taken in one order, as only their names differ); a
pipeline limit of 2 with two requests reaches the limit, the deferral behind it
and the resume. `PENDING = 0` stands for the limit of 4 packets so that one
answer throttles. Deadlock checking is off only where the system may stop:
the pool after its close, timers after cleanup, and runs for single questions.

More bounds: four incarnations of two workers let both be replaced, or one twice;
two events are what a crash during a shutdown or a publication during a respawn
needs; one descriptor with a counter of 16 values is reused by every scenario of
`connections`; two losses hit a command and its repetition; streams are cut at
every byte and form windows have every length from 22 to 50; three keys with
colliding hashes force rehashing; blocks of four slices with allocations of 1, 3
and 5 change blocks within two calls and pass the block's limit. Deadlock checking
is also off in `cluster` and `redis` (both end) and in `library` (its parts end).

The properties, by run. Several are conjunctions; their parts keep their names
in the modules, and section 5 uses them one by one.

- `task_queue`: `BlocksSound` (indices stay inside the ring, owned blocks are
  exactly the reachable ones), `ImplementsFIFO`.
- `worker_pool`: `PoolSound` (types, the callback store, quiet after close),
  `StatsAddUp`, `OneOwner`, `NoSleepWhileWorkWaits`, `CancelsOperationInHand`,
  `PoolProgress` (work ends, close returns).
- `timers`: `TimersSound` (sorted, one place each, run as asked),
  `TimersProgress` (due timers run, a stop finishes those that are set).
- `pubsub`: `ReferencesSound` (channels, subscriptions and messages, no leak),
  `DeliveredOnceWhileSubscribed`.
- `pubsub_threads`: `OnUnsubscribeIsLast`, `EngineAgrees` (but for overtaken
  announcements), `SubscribersServed` (delivery, release).
- `socket`: `BytesReachTheirPeer` (but for `parted`), `SendingEnds` (release,
  closing of what was marked in time).
- `requests`: `RequestsSound` (no use after free), `AnsweredInOrder`,
  `StopWaitsForRequests` (an action property), `RequestIsAnswered`.
- `connections`: `ConnectionsSound` (no use after free, old uuids dead, nothing
  held), `CallbacksInOrder`, `ClosedIsReleased`, `StopEnds`.
- `cluster`: `ClusterSound` (delivery, mirrored subscriptions, forks alone),
  `WorkersAreReplaced`, `StopEndsEveryProcess`.
- `redis`: `EngineSound` (references, known channels, order),
  `CommandIsAnswered`.
- `library`: `StreamsSound`, `FormAdvances` (an action property), `Represents`,
  `TextsConverted`, `BodiesReadAsWritten`, `AllocationsSound`, `HashOfTheWhole`
  (the digest is that of the message if and only if no piece was misplaced),
  `ProcessesSound`, `PacketsSound` (with `NoStalledPackets`, and
  `BytesReachTheirPeer` of the part `descriptor`), `ChannelsSound`.

## 4. Fairness

- Task queue: none; only safety is checked.
- `Timers`: the reactor keeps cycling, tasks run to their end, a stopped reactor
  cleans up.
- `WorkerPool`: threads are scheduled, blocking operations end, the VM's unblock
  function returns, the reactor drains its tasks. New calls are never required.
- `PubSub`: a thread inside a call or with a task to perform keeps running.
- `Socket`: strong fairness for steps that contend for a spinlock which its
  other users leave infinitely often, and for a connected peer that keeps taking
  data; weak fairness for the IO thread's rounds.
- `Requests`: threads perform tasks, the reactor polls and cycles, fibers end,
  the stop's timer ticks. Clients need not send, peers may hang up, timeouts need
  not happen, and the application need not stop the process.
- `Connections`: reactor threads poll, perform tasks and leave the window,
  silent peers time out, a started stop goes on. Data, hang-ups, calls of the
  application and the stop itself need not happen.
- `Cluster`: every live process and sentinel thread takes its steps, messages in
  a socket are read. Crashes, signals and calls need not happen.
- `Redis`: tasks run, connects succeed or fail, the server answers a connection
  that stays up; losses are bounded, so that one finally does.
- `Library` and its parts: none; only safety is checked.

## 5. Counterexamples

The model follows the code; each of these configurations states what a comment,
a test or the part's purpose says and ends in a counterexample.

`requests_lost_wakeup` (`RequestsLost.cfg`), `PausedIsResumed`: `http.h` says
`http_resume` must be called at some point for a paused request. If the fiber
ends before the deferred pause task subscribed to its channel, its message is
dropped. One reactor thread is enough.

The others were found the same way: the configuration of the run, with the
changes in the first column and the property alone, ends in a counterexample. A
`specification` is given where it is not the run's; of the library, `Components`
is the one part named.

| Run and changes | Property | What it shows |
|---|---|---|
| `pubsub`: Msg = {m1}, Pattern = {}, Subscriber = {c1, c2}, Worker = {w1}, MaxDefer = MaxAttach = 0 | `NoFreedChannelRead` | `fio_subscribe` uses a channel after the collection's unlock without a reference (`fio.c:6620`) |
| `pubsub`: as above, three subscriptions, Chan = 1..4 | `ChannelRefs` | the retry of an insertion (`fio.c:6637`) costs a reference |
| `pubsub_threads`: no change | `AnnouncedInOrder` | two threads: the announcement of a channel's end (`fio.c:6767`) overtaken by that of its successor |
| `socket`, `Spec`: no change | `FreedOnce` | a write that loses its connection while waiting for the lock runs `dealloc` twice (`fio.c:3795`) |
| `socket`, `Spec`: Own = {} | `NothingForgotten` | a refused write without `dealloc` forgets its buffer (`fio.c:3798`, `fio.h:1325`) |
| `socket`, `Spec`: no change | `ClosesOnlyItsOwn` | two threads closing one uuid: the slower closes the descriptor's next connection (`fio.c:3872`) |
| `socket`, `Spec`: Reactor = Closer = {r, r2}, IO = {}, API = {"write", "force_close"}, Outcome = {"again"} | `NoStalledPackets` | ... and takes its descriptor out of the poll: what was written to the next connection waits for nothing (`fio.c:3872`) |
| `socket`, `Spec`: no change | `ClosedOnceDrained` | the mark of `fio_close` (`fio.c:3829`) is set after the flush that would have seen it |
| `task_queue`: HeapBlock = {b1, b2}, BLOCK_COUNT = 2, MaxTasks = 5 | `HasQueueReportsWaitingTasks` | `fio_defer_has_queue` (`fio.c:1379`) misses an exactly full ring |
| `timers`: one timer, intervals, repetitions and instants 0 and 1 | `OnFinishEvenOnError` | a refused `fio_run_every` (`fio.c:1638`) does not call `on_finish` |
| `timers`: one timer, intervals, repetitions and instants 0 and 1 | `EveryTimerFinishes` | a timer that is set after `fio_timer_clear_all` (`fio.c:4922`), by a deferred task or by a callback of ON_FINISH, never gets its `on_finish` |
| `requests`: one thread, App = {"respond", "sse"}, PIPELINE = 8, MAXTASKS = 0 | `NoRequestAfterUpgrade` | an SSE upgrade's `stop` bit (`http1.c:477`) is cleared before the loop tests it |
| `requests`: one thread, App = {"defer", "sse"}, PIPELINE = 8, MAXTASKS = 0 | `RequestOutlivesItsHandler` | a request behind an SSE upgrade is paused, the end of the connection frees the protocol it belongs to, and the resume uses it (`http1.c:477`) |
| `requests`: App = {"respond"}, PIPELINE = 8, MAXTASKS = 0 | `ThrottledIsResumed` | two threads: on_ready between the pending test and `stop \|= 4` (`http1.c:732`) |
| `pubsub_threads`, `FairSpec`: Sub = {s1}, Subscriber = Publisher = RubyCaller = {c1}, Block = {s1}, MaxAttach = 0 | `UnsubscribeReturns` | `fio.h:1899` says an unsubscribe may take effect late; called from Ruby it spins on the subscription's lock with the GVL held, while the lock's holder waits for the GVL (`fio.c:6746`) |
| `socket`, `Spec`: Hooked = TRUE, IO = {} | `ClosedOnceDrained` | `fio.h:1478` says a closing that `before_close` delays resumes when the hook's `flush` returns 0; `fio_flush` returns there without closing (`fio.c:3944`) |
| `requests`: one thread, App = {"respond", "defer"}, Resumed = {"respond", "websocket"}, PIPELINE = 8, MAXTASKS = 0 | `PausedIsCounted` | a WebSocket upgrade after a pause, or a close during it, never takes the request off `async_connection_count` (`http1.c:262`, `http.c:779`) |
| `connections`: Scenarios <- Window | `NoUseAfterFree` | two reactor threads: a hang-up clears the slot without the protocol's lock between the lookup and the lock of another thread (`fio.c:2175`) |
| `connections`: Scenarios <- TwoThreads | `CallbacksInOrder` | two reactor threads: a fiber's block is called twice, `fulfilled` is set after the call (`scheduler.c:52-63`) |
| `connections`: Scenarios <- ThreadWrites | `NoUseAfterFree` | an application thread writes to a websocket whose connection ends between its two tests |
| `connections`: Scenarios <- Reconnects, COUNTER = 2 | `OldUuidsAreDead` | a uuid that is kept for as many connections as the counter has values (256) names the next one (`fio.c:586`) |
| `connections`: Scenarios <- NoLimit | `TimesOutWhenLate` | a queued ping ends a fiber's next wait, which has another timeout or none (`fio.c:2921`) |
| `connections`: Scenarios <- ClosesLast | `StopEnds` | a connection closed by its own `on_shutdown`, or by a thread during it, is not subtracted from what the stop waits for (`fio.c:2835`) |
| `connections`: no change | `StopAlwaysEnds` | a connection closed by its own `on_shutdown`, or by a thread during it, is not subtracted from what the stop waits for (`fio.c:2829-2844`) |
| `cluster`: MaxChild = 3, MaxFaults = MaxCalls = 1, Channel = {} | `CrashIsReal` | "Parent Process crash detected" in a worker that connected while the root was shutting down (`fio.c:7304`) |
| `cluster`: as above | `ClientsAreOpen` | the root's list of clients keeps a uuid that was closed |
| `cluster`: as above, Pattern = {"p"} | `PatternsAreWanted` | the root stays subscribed to the patterns of a lost worker (`fio.c:7317`) |
| `cluster`: as above, Msg = {"m"}, COUNTER = 2 | `DeliveredAtMostOnce` | a closed uuid in the list of clients names, once the counter wraps, a new worker, which gets each message twice |
| `redis`: MaxCalls = 3, MaxMsgs = 2, MaxUses = 5 | `AnsweredWasExecuted` | a command attached while the connection comes up is sent before AUTH and again after it; the spare answer is taken for the next command's |
| `redis`: as above | `MessagesPassOn` | a message of a channel that only a pattern still matches is dropped |
| containers: Structs = {"map"}, Hash <- ChainedHash | `Represents` | a key that collides in all its places is lost when the search is shorter than the chain |
| containers: Unsound = {"pop"} | `Represents` | popping from a map leaves the entry of its map in place |
| containers: Structs = {"array"}, Unsound = {"set"} | `Represents` | setting beyond the end of an array that was shifted (`fio.h:5118`) |
| containers: Structs = {"string"}, Unsound = {"detach"} | `Represents` | detaching a short string keeps its length |
| containers: Structs = {"objects"}, Unsound = {"replace"} | `Represents` | `fiobj_ary_replace` of an index outside the array (`fiobj_ary.c:191-196`) |
| texts: Jobs <- PaddingJobs | `TemplatesRender` | a partial used a second time keeps the padding of its first use |
| texts: Jobs <- OddJsonJobs | `JsonRoundTrip` | a document that is `false`, control characters in a row, a number that does not fit |
| texts: Jobs <- OddOwners | `NothingLeftBehind` | a truncated update leaves objects; a parameter replaces one it then uses |
| texts: Jobs <- OddCodecJobs | `CodecsInvert` | a selection from before a string's first character, base 64 with six zero bits, `scheme://host?query` |
| texts: Jobs <- OddHpackJobs | `CodecsInvert` | integers that just fill their prefix, strings that end with a byte or have just the room (`hpack.h:382`, `407`) |
| texts: Jobs <- ForwardedJobs | `RackSaysTheSame` | `x-forwarded-proto` is hashed with a length of 27 instead of 17 and never found (`iodine_http.c:419`) |
| hashes: no change | `SameWhenAskedAgain` | `fio_sha1_result` (`fio.h:2714`) and `fio_sha2_result` (`fio.c:9612`) "can be called for the same object multiple times, but the finalization will only be performed the first time": it is performed each time and gives another digest |
| processes: no change | `LastToFirst` | `fio.h:1696` says callbacks are called from last to first; those of ON_START and PRE_START are called from first to last |
| processes: no change | `SingleOccurring` | two threads: an idle cycle while a block runs defers it again (`iodine.c:63-74`) |
| processes: no change | `PathsRemoved` | whether a Unix socket's file is removed depends on a byte that nothing wrote (`fio.c:5642`) |
| processes: no change | `SignalsRestored` | the handlers are not as before once `fio_start` returned (`fio.h:1055`) |
| texts: Jobs <- OddFileJobs | `FilesServed` | ranges of one byte, of the last bytes or past the end of a file; an error page that is itself refused; a connection that is refused and gets no answer |
| texts: Jobs <- OddCookieJobs | `FilesServed` | a cookie's domain or path is lost, a `%` in a value, the cookie of a client is empty |
| allocator, `Allocator`'s `ForkSpec` | `AllocationsApart` | the locks are reset after a fork while a thread is inside an arena |
| allocator: Sizes = {3, 4}, Faults = {"page"} | `AllReturned` | reallocating to one slice less than the mapped pages loses a page |
| channels: Clumsy = {"subscribe"} | `RevokedAtTheEnd` | a thread that holds a duplicate of an event source subscribes while the connection ends: nobody revokes its subscription |
| channels: Clumsy = {"unsubscribe"} | `UsedWhileAlive` | it unsubscribes, and works on the list without a lock |

The passing runs do not leave these out where the property can say what happens
instead. What they except has a name in the module, is as narrow as the code
allows, and every step of the code stays in the run:

- *Overtaken announcements* (`overtaken`, `PubSub`): `EngineAgrees` is about all
  keys but those whose end an engine heard after their successor's beginning.
- *Parted sockets and late marks* (`parted`, `fd.late`, `Socket`): the slower of
  two threads that close one uuid closes the socket of the descriptor's next
  connection, and a flush that fails late marks the next connection's slot
  (`flush_fatal`, `fio.c:3973-3980`); `fio_close` may set its mark after the last
  flush that would have seen it (`fio.c:3829-3830`).
- *Uncounted closes* (`sys.adrift`, `Connections`): the stop ends, or a connection
  was closed before its `on_shutdown` counted it.
- *What is read as something else* (`ReadAs`, `Streams`): a form's value that a
  window of the body splits keeps the CR before its delimiter, or is one LF if it
  was an empty file; a simple string keeps its CR; a chunked response that is cut
  before its last line end is followed by a request nobody sent
  (`http1_parser.h:717-798`); an empty bulk string that is cut (`EmptyStringCut`)
  makes the parser run past the end of the buffer and `redis_on_data` move nearly
  all memory (`redis_engine.c:429-433`).
- *Stale buffers* (`Stale`, `Astray`, `DataStreams`): what a line without an end
  left in the buffer of a body in a file is shown again; a slice of such a body
  reads on where its parent stands, and `pread` shows the parent's bytes from its
  own beginning; a slice that is cut within a line stays where it was; a slice of
  a slice forgets the first one's offset; `puts` writes the line twice and no line end to
  a file. Of a stream that went astray only this is said: it shows bytes of the
  body, or bytes of nobody.
- *Misplaced rests* (`misplaced`, `Hashes`): a piece that goes beyond the end of a
  partly filled block (`fio.c:9166-9167`) and leaves bytes over. `HashOfTheWhole`
  says that the digest is right in all other cases and wrong in these. A
  websocket's handshake (`http1.c:345-347`) hashes the client's key and then 36
  bytes, so that a key of 29 to 63 bytes is one of these cases.
- *Stale listeners and blocks run twice* (`stale`, `idle.twice`, `Lifecycle`):
  `fio_start` a second time calls the callbacks of listeners that the event of
  shutdown freed, and an idle block that a cycle finds running is deferred again.

Calls that C code can make but that the caller must not are left out by a
constant: `Unsound`, `Faults` and `Clumsy`. `pubsub_threads` says nothing after a
read of freed memory, the packets of `library` are written without `dealloc`,
`requests` excuses the two missed wake-ups by name, and `connections` looks at the
scenarios in which the windows above are closed.

## 6. Proofs

Eight components have proofs. Each `THEOREM` is about the `Spec` that the run
checks, for every value of the constants that satisfies the module's named
assumptions; TLC checked the same formulas, and the inductive invariants, on the
run's instance.

| Module | Theorem | Statement |
|---|---|---|
| `TaskQueueProofs` | `BlocksSafety` | `[]BlocksSound` |
| | `Refinement` | `ImplementsFIFO`: every step is one of `TaskFIFO` or a stutter |
| `TimersProofs` | `TimersSafety` | `[]TimersSound` |
| `WorkerPoolProofs` | `TypeCorrect` | `[]TypeOK` |
| | `CancelSafety` | `[]CancelsOperationInHand` |
| | `CloseSafety` | `[]ClosedPoolIsQuiet` |
| | `NoLostWakeup` | `[]NoSleepWhileWorkWaits` |
| | `OwnershipSafety` | `[]OneOwner` |
| | `CallbackStoreSafety` | `[]StoreHoldsLiveCallbacks` |
| | `PoolMemorySafety` | `[]PoolSound`, the conjunction that `worker_pool` checks |
| | `StatsSafety` | `[]StatsAddUp` |
| `PubSubProofs` | `DeliveredOnce` | `[]DeliveredOnceWhileSubscribed` |
| | `UnsubscribeLast` | `[]OnUnsubscribeIsLast` |
| | `ReferencesCounted` | `[]ReferencesSound`, if `OneSubscribes` |
| `RequestsProofs` | `OrderSafety` | `[]AnsweredInOrder` |
| | `StopSafety` | `StopWaitsForRequests`, an action property |
| | `RequestsSafety` | `[]RequestsSound`, if `NoPauseAfterUpgrade` |
| `SocketProofs` | `QueueSafety` | `[](TypeOK /\ QueueSound /\ NotTorn)` |
| | `PacketSafety` | `[]PacketsSound`, with the default dealloc (`Own = {}`) |
| | `NoneForgotten` | `[]NothingForgotten`, with a dealloc of one's own (`Own = Packet`) |
| | `PeersSafety` | `Spec /\ []NoWrap => []BytesReachTheirPeer` |
| | `NothingStalls` | `[]NoStalledPackets`, if `OneConnection` and `KnownErrors` |
| `ClusterProofs` | `ClusterSafety` | `Spec => []ClusterSound`, if `NoWrap` |
| | `BoundedClusterSafety` | `BoundedSpec => []ClusterSound`, if the same |
| `RedisProofs` | `EngineSafety` | `[]EngineSound`: references, known names, order of commands |

### Task queue

*For every size of a ring and every finite set of heap blocks* (`BLOCK_COUNT`
positive, `BlockAddresses`). `Contents`, the refinement mapping, is a recursive
function that follows `next` from reader to writer; nothing can be proved by
induction along it, so the invariant names its value. `Inv` says that there is a
sequence `c` of addresses, the chain (`Linked(c)`: from the reader to the writer
without repetition, its elements are what is allocated), and a sequence `u` of
accumulated contents, one for each prefix of the chain (`Held(c, u)`); lemma
`ContentsIs` shows that every such `u` ends in `Contents`. A push or a pop is then
a step from one pair of witnesses to another: into the last ring, to a new one,
out of the first, to the next, out of the last element. Two facts have to be part
of `Inv`: only a ring that is alone may be empty, and the parked static ring has no
successor: when the queue falls back to it, nothing writes its `next`.

### Timers

*For every set of timers and every set of natural instants, intervals and
repetitions, and every probe limit* (`TimersAssumption`). `Inv` adds `CountsDown`
to the parts of `TimersSound`: what a timer still has to run and what it ran add
up to what was asked. Lemma `PlaceFits` is about `fio_timer_add_order`: whichever
of its shortcuts is taken, what stands before the place is due no later and what
stands behind it no earlier.

### Worker pool

*For every finite non-empty set of workers and every set of work items*
(`WorkerPoolAssumption`). The inductive invariant is `Inv == TypeOK /\
ThreadsAgree /\ InProgressIsBusy /\ CancelsOperationInHand`. `ThreadsAgree` ties
a thread's position to its locals; without it nothing excludes a worker that
waits with an operation still published in `current_op`. `InProgressIsBusy` is
needed for the type of the counter alone: the code decrements a `size_t`, and it
stays a natural number only because it counts the workers between taking an item
and reporting it. `NoSleepWhileWorkWaits` is inductive relative to `Inv`: it
compares the number of awake workers with the length of the queue, so that each
step is an argument about one worker joining or leaving a finite set (lemma
`Counting`). Ownership needs `PoolPhase` besides: work is discarded only by a
close, after which nothing is enqueued. The statistics need that the items of the
queue are distinct (`QueuedCount`), which is part of ownership.

### Post office

*For every set of names, filters, subscriptions, messages, channels and threads,
every finite set of patterns and every match relation* (`PubSubAssumption`; the
patterns are finite because `publish_patterns` lists those that match). `Inv`
has three parts: `Sound`, `OnUnsubscribeIsLast`, and the exact counts of
subscriptions (`CountsAgree`) of a program that has read no freed memory.

That a message reaches a subscription once does not follow from the state of the
two alone: `fio_perform_subscription_callback` delivers whatever call it finds, and
the same message is posted to a name and to every pattern that matches it. The
invariant therefore follows a message on its way: `PostAgrees` says that a channel
with a post still has no subscription that saw the message, and that a publisher
with patterns left to look up (`publish_patterns`) finds none that was served;
`CallAgrees` that a call waits, is handled, or was answered, never two of these;
`ChannelAgrees` that a list holds a subscription once and only one whose channel it
is. A subscription has one channel, so the calls that different channels make of a
message are for different subscriptions. The callback is silent after
`fio_unsubscribe` because whoever handles a call holds the subscription's lock
(`ThreadAgrees`), and the unsubscriber had it last.

`on_unsubscribe` comes when the count of a subscription reaches zero, so that it is
last if the count is right: its owner, the calls in the queue and the one being
handled (`CountAgrees`). The queue's part is the cardinality of a set of positions;
lemmas `CountTail`, `CountConcat` and `CountAppend` say how it changes. `Kept` is a
recursive function; that it returns the listed members of a set in their order
(`KeptIs`) is shown from the least position where a function that fits would not
exist. After a crash every thread is at rest for good, and `Sound` and
`OnUnsubscribeIsLast` are what the crash leaves of the invariant.

`ReferencesCounted` has a hypothesis, `OneSubscribes`: whoever subscribes or
unsubscribes does it alone, either because it is one thread or because all are Ruby
methods, which keep the GVL until they return (`RubyCaller`). Publishers and
workers are as many as one likes and interleave with it at every step. Without
it the counts are not what holds the channels (section 5): two subscribing threads
free a channel between them or lose a reference to it, and the close of a
connection does unsubscribe from a reactor thread. Under it no thread ever reads
freed memory, so that `Inv` need not provide for a crash any more (`Sane`), and two
parts are added, together `Tidy`.

- `Orderly` is what a subscriber may rely on between its locks. `TurnAgrees`: the
  channel that `fio_filter_dup_lock` found in the collection is still there when it is
  locked, and one that is to be announced as gone has not come back. `StageAgrees`: a subscription
  that is not on its channel's list has a thread that will put it there or has
  taken it off. `Collected` and `Used`: a channel with subscribers is the one the
  collection has, and one in the collection has subscribers or is about to (but for
  filters, whose channels are never removed).
- `Counts` says what the references of a channel and of a message are: the
  collection's, its subscriptions', the tasks that carry it and the threads that
  perform them, which hold a task's references until they put it back or drop them.
  Each step changes at most one term of each sum that is the size of a set by at
  most one (`ChannelCounted`, `MessageCounted`), and `StillLive` turns the count
  into what the steps need: what is held was not freed.

At rest only the collection and the subscriptions are left of the sums: nothing
leaks (`NothingLeaks`).

### Requests

*For every finite set of connections, every set of threads, every number of
requests and every limit* (`RequestsAssumption`). `Inv` has, per thread,
`ThreadAgrees` (from the lock to its release the protocol is not freed, and while
requests are read none of the connection is paused) and, per connection,
`ConnectionAgrees` (a paused HTTP request keeps bit 1 of `stop`; the current
request is the last parsed; a request nobody waits for is only seen under the
lock), `AnswersAgree` (the answers of an open connection are those of all requests
before the current one) and `TasksAgree` (a paused request has one continuation,
and its task matches its stage); `CountAgrees` says that the count of paused
requests never falls behind, which is all a graceful stop needs. The order of
answers follows from the first three: a request is only parsed when the previous
one was answered, and only one thread is between parsing and answering.

`RequestsSafety` has a hypothesis, `NoPauseAfterUpgrade`: an application does not
both upgrade to SSE and pause requests. It is there because the property is false
without it (`RequestOutlivesItsHandler` in section 5): the upgrade lets the loop go
on to the requests behind it, and one of those that is paused outlives the
protocol. Under the hypothesis `HandledInTime` is inductive relative to `Inv`. The
order of answers and the graceful stop need no hypothesis.

### Socket

*For every finite set of packets, every set of reactor threads and callers, every
number of connections, with or without TLS hooks* (`SocketAssumption`; packets are
finite because `NotTorn` counts the pieces of one on the wire), with threads that
come between any two steps. There are three inductive invariants: of the queue, of
the connections, and of waiting packets.

`Inv` needs to know little of the threads: `ThreadsAgree` says that whoever is inside a section
under `sock_lock` holds the lock, and that the queue is not empty when `write(2)`
is called. The rest is about the data. `HandsAgree`: a packet that a
call of `fio_write2` carries is carried by no other, whole, not queued and not
deallocated, until it is linked or dropped. `QueueAgrees` is `QueueSound`, and that
only the head may be partly sent; an urgent packet is put behind the head, which
keeps exactly that. `CountOK`: `packet_count` is never below the length of the list,
but may be above it, since what `force_close` drops is not counted down. `WireAgrees`
is why packets are not torn: what was sent of a packet is in one piece, and what was
sent of the head ends the wire.

`Released` and `Remembered` have a condition each, because `fio_write2` is wrong
about the other case (section 5). When the uuid is not valid any more, it calls
`after.dealloc`: after `fio_packet_free`, which has called it already, so that only
the default `dealloc` is called at most once (`Own = {}`); and not at all for the
default, so that only data with a `dealloc` of its own is never forgotten
(`Own = Packet`).

`PeersInv` is about which connection the slot, the socket and the packets are of,
whoever flushes and closes meanwhile. `Parted` and `SlotAgrees`: an open slot's
connection has the kernel's socket or was parted from it; a socket without a slot
was parted too, or a thread is about to close it or to give it its slot.
`AcceptorsAgree`: one that was accepted and has no slot yet has one thread.
`TargetsAgree`: what a writer holds carries the uuid of the connection it was
written to, and what is queued was written to the connection whose slot it is. The
hypothesis `NoWrap` (`fd.gen < WRAP` at every moment, that is: the slot was cleared
fewer than 256 times) makes `uuid_is_valid` the equality of uuids: it is looked at before the lock is taken
and, in `fio_write2`, again under it, and that suffices for any number of threads.
What it does not suffice for is the exception `parted`. The hypothesis is about the
code: the counter is a `uint8_t`, and when it comes round an old uuid is valid
again.

`Flows` is for `NoStalledPackets`, which only speaks of states in
which no call runs. Inductive is `Awaited`: while packets wait, an event or an
`on_ready` task is to come, or there is a thread whose position promises one
(`Comes`): it is about to flush, to schedule a flush, or to drop the queue. The IO
thread promises nothing, because `fio_flush_all` only counts what `fio_flush` returns, and a
writer that appends to a queue with packets relies on somebody else. So every step that
takes a promise back, be it that the flush finds the lock taken, that the event fired or
that the task was taken from its queue, has to give another one. `Opening` and `OneUuid` say
that there is one uuid while the connection is open, `WritersFlush` that what a writer
starts is not the IO thread's kind of flush. The hypotheses: `OneConnection`
(`MaxConn = 1`, as in `library`), because a slow `close(2)` of the connection before disarms
the descriptor (section 5); `KnownErrors`, because after an errno that `fio_flush` does not
list (`fio.c:3982`) it returns 0, and the packet is left to the hang-up.

### Cluster

*For every number of workers, incarnations, messages, calls and faults, and every
finite set of channels and of patterns* (`ClusterAssumption`; the names are finite
because `fio_cluster_on_connect` lists them). The three things `ClusterSound` says
have a part of `Inv` each, above what ties a worker to its connection
(`WorkersAgree`) and a sentinel thread to the fork lock (`ThreadsAgree`).

- *Delivery*: `DeliveredOnceEverywhere` speaks of messages no longer on their way.
  Inductive is where one may be. `PostAgrees` follows it: with its publisher (written
  or put back into the task queue, not both), and then nobody else has it, the root
  included; or with the root, which has sent it to some; a process it is on its way to
  was not given it. `ServedAgrees` says of everyone it is owed to that it is still on
  its way to them. What a worker that ends had put back is lost with it, which is why
  the property asks that the publisher is alive and the root runs.
- *One copy each* needs the root's list of clients, in which entries of lost workers
  stay for good (`fio_cluster_on_close`, section 5): `ClientsAgree` says that the
  entries differ and are not ahead of their slot's counter, so that a uuid that is
  given out anew is not among them (`CopiesAre`, `BumpIs`). `SlotsAgree` counts a
  slot's uses: an incarnation moves one counter when it is accepted and one when it
  is closed.
- *Subscriptions*: `Told(s, S, n, b)` says what the root will know of `n` when it has
  read `s`, by the last notice in `s` about `n`; `NameAgrees` that this is what the
  worker is subscribed to. Lemmas `ToldTaken` and `ToldJoined` say what reading and
  sending change, `NoticesAre` what `fio_cluster_on_connect` sends.

The hypothesis `NoWrap` is that the counters do not come round: `2 * MaxChild + 1 <
COUNTER`. With the 256 values of a `uint8_t` that is 127 incarnations, all in the
same slot at worst. Without it the first part is false: a stale entry names a new
worker, which is sent each message twice (section 5, `COUNTER = 2`).

### Redis engine

*For any commands, numbers of losses, calls and messages, with a password or
without* (`RedisAssumption`: no command of the application is one of the
engine's own `AUTH` and `PING`). `Inv` has a part for each of the three things
`EngineSound` says, and they need nothing of each other but the connections' states.

- *References* (`Counted`): besides the exact count, a subscription connection that
  was told to close is still there, so that its `on_close` gives up one reference.
- *Subscriptions* (`Knows`): `ServerKnowsChannels` speaks of a connection with
  nothing left to read. Inductive is what the server *will* know: `Heard(q, S, n)`
  says that one subscribed to `S` is subscribed to `n` when it has read `q`, by the
  last word of `q` that names `n`. While a connection is being made only channels
  are heard of, not all of them: those of before are only sent by
  `redis_on_connect`. Lemmas `HeardTold`, `HeardRead` and `HeardAgain` say what a
  word sent, a word read and reattaching change.
- *Order* (`Orderly`): of the commands that were sent, in their order, some were
  answered, the next are in the queue behind what the engine put in front, the last
  are in the mail (`Line`). What was written, executed or not, follows that order
  with repetitions (`InOrder`) and does not go beyond the first command in the queue
  (`Bounded`): that is what a resent command must not be overtaken by. Nothing is
  claimed of what is answered: `AnsweredWasExecuted` is false (section 5), and
  `Orderly` holds although a spare answer removes a command from the queue that
  was never executed.

### What TLC checks only

- Every liveness property: `PoolProgress`, `TimersProgress`, `SubscribersServed`,
  `SendingEnds`, `RequestIsAnswered`, `ClosedIsReleased`, `StopEnds`,
  `WorkersAreReplaced`, `StopEndsEveryProcess`, `CommandIsAnswered`. Fairness and
  ENABLED are outside what the prover handles.
- `StreamsSound`, `FormAdvances`, `Represents`, `TextsConverted`,
  `BodiesReadAsWritten`, `HashOfTheWhole`: what recursive definitions compute for
  every input is an induction over data, and several of these modules reach
  RECURSIVE operators or `Bitwise`.
- `EngineAgrees`, and the invariants of `Connections`, `Lifecycle`, `Allocator` and
  `Channels`: not proved (section 7).

## 7. Plan

1. *Done*: task queue, timers, worker pool, sockets, pub/sub, requests;
   connections, cluster, redis, life of a process; streams, containers, texts,
   bodies, allocator, hashes; the worker pool's safety proofs.
2. *Done*: the worker pool's statistics, the timers, the task queue and its
   refinement, requests, delivery by the post office with its references,
   the Redis engine, sockets, the cluster.
3. Proofs to come: `EngineAgrees` for any threads, `Channels`, `Allocator` (`AllocationsSound`),
   `Lifecycle`, `Connections`.
4. An abstract specification of the cluster ("a message published anywhere
   reaches subscribers everywhere") that `Cluster` implements while no process
   fails.
5. `Connection#handler=`, the TLS handshake as far as it is not OpenSSL's.

## 8. Not modelled

- TLS handshakes and certificates: OpenSSL's state machine; the hooks' results
  are in `Socket`.
- The kqueue and poll engines; epoll's is modelled.
- That a signal handler interrupts a thread holding the lock it then takes:
  `fio_graceful_stop` calls `fio_run_every` in the handler (`fio.c:1328`) and
  spins if the timer lock was held.
- `Thread#kill` on a pool worker, which unwinds out of the C frame and drops its
  work item (`iodine_worker_pool.c:195`).
- Handing a raw socket to Ruby (`iodine_rack_io.c:187-219`), negative offsets of
  slices, `Connection#handler=` (`iodine_connection.c:349-385`), linked objects
  (`fio_uuid_link`), metadata callbacks of messages.
- Logging, HPACK's tables, number formatting.
- The rounds of SHA, SipHash, RiskyHash and the random generator: arithmetic on
  words.
- The Ruby library and the executable: configuration and start-up.

## 9. Points noticed that no model states

Requests and connections:
- `http_pause_request_handler` calls Ruby outside the GVL (`iodine_http.c:863`);
  a fiber whose result is the wait directive again is only logged
  (`iodine_http.c:829`); a request without a host gives "null"; an empty header
  value sends no header; the scan of `Forwarded` passes over the character that
  did not match.
- `fio_rw_hook_set` on a closed uuid calls `cleanup` when it is NULL
  (`fio.c:4136`); an unpaired `Iodine.task_dec!` wraps the counter
  (`fio.c:4485`); waits of fibers without a timeout end after 300 seconds; a
  wait for writing with timeout 0 is never ready; a hang-up of a watched
  descriptor gives an error although data had arrived; blocks subscribed by a
  closed connection run without its lock.
- `http_set_cookie` uses positions from before the buffer grew
  (`http.c:219-344`); `http_send_error2` is given up before anything is sent;
  the `retry:` line of `http_sse_write` has no line end; an event source's
  `on_close` runs before its uuid is -1; `max_body_size` is tested before a chunk
  is added;
  `max_msg_size` only before a read.

Processes and memory:
- A cluster connection's set of patterns is not freed (`fio.c:7317`);
  `fio_timer_clear_all` calls `on_finish` under the timer lock (`fio.c:1620`);
  the queue's blocks come from `fio_malloc` and are cleared with `free`
  (`fio.c:1284`); timers follow the settable system clock (`fio.c:1482`); a
  restarted single process has no IO thread (`iodine_defer.c:453`).

Containers and texts:
- `fio_str_replace` moves a wrong count where it shrinks; negative positions of
  short strings; `fiobj_hash_pop`'s test of the count is inverted
  (`fiobj_hash.c:247`).
- `fiobj2resp` writes `false` as "$4"; nested arrays of replies are mixed up; a
  form whose last delimiter has no line end is never finished.
- `pread` beyond the end underflows; a negative slice counts from one past the
  end.
- `fio_atol` takes prefixes for numbers; a NUL ends UTF-8 counting; a future
  time is printed as now; the documentation of RFC 2822 and RFC 2109 dates is
  swapped (`iodine_helpers.c:160-210`); a cookie's fragments after ";" are
  parameters.
- `hpack.h` is not included by any source file; it shifts by 32 when a byte is
  complete, and its static table has values of length 0.
