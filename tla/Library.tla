------------------------------ MODULE Library ------------------------------
(***************************************************************************)
(* The parts of the library that share no state, side by side: a behaviour *)
(* is one of the readers of byte streams, a container, a conversion of     *)
(* texts, a request's body, the allocator, a hash, a process with its      *)
(* listeners and callbacks, one connection's packets between threads, two  *)
(* connections on one descriptor, or the subscriptions of a websocket or   *)
(* event source.  Each part is the specification of its own module; the    *)
(* variables of the others are Off.                                        *)
(***************************************************************************)
EXTENDS Integers

CONSTANTS
    Components,    \* the parts to look at
    Off,
    Cases, pipeline_limit, MaxRead, boundary, HeaderLine,             \* Streams
    Short, Long, Block, WS_MAX_FRAME_SIZE, max_msg_size,
    Hash, HashBits, FIO_SET_CUCKOO_STEPS, FIO_SET_MAX_MAP_SEEK,       \* Structures
    FIO_SET_MAX_MAP_FULL_COLLISIONS, FIO_STR_SMALL_CAPA, WORD,
    Nodes, List, FIO_ARY_PADDING, UNSHIFT_ROOM, Keys, Objs, Letters,
    MaxItems, MaxCapa, MaxObjs, MaxRefs, Structs, Unsound,
    Jobs, Files, Trees, MUSTACHE_NESTING_LIMIT, Templates, Contexts,  \* Texts
    CliNames, JSON_MAX_DEPTH, Word, PARAMS_MAX_DEPTH, NESTING,
    LONGEST_FILE_EXTENSION_LENGTH, MimeTypes, public_folder, STACK, Roots,
    PAGE, HTTP_MAX_HEADER_LENGTH, Chunks, MaxLen, MaxStreams,         \* DataStreams
    Pthread, Arena, Mapping, FIO_MEMORY_BLOCKS_PER_ALLOCATION,         \* Allocator
    FIO_MEMORY_BLOCK_SLICES, FIO_MEMORY_BLOCK_START_POS, Sizes,
    FIO_MEMORY_BLOCK_ALLOC_LIMIT, Slots, NULL, Faults,
    Variants, Pieces, MaxMessage, MaxResults,                         \* Hashes
    Process, Listener, UnixSocket, Client, Task, MaxStarts, Threads,  \* Lifecycle
    NONE,
    Reactor, Caller, IO, Packet, Own, Urgent, API, Closer, Outcome,   \* Socket
    Hooked, SLOWLORIS, MaxConn, MaxUses,
    Subscription, Direct, Handler, Outside, Clumsy, MaxMessages,      \* Channels
    MaxCalls, FREE

VARIABLES
    part,
    kind, messages, arriving, st, split,
    which, rep, abs,
    job, done, got, want,
    io, ref, body, input, out,
    mapped, head, mem, pool, arena, lock, last, live, big, pages, th, good,
    variant, s, written, misplaced, result,
    process, starts, phase, active, cb, copy, ran, due, lst, queue, con, closing, app, idle, sig, stale, bad,
    fd, sock_lock, left, ready, armed, sock, conns, hups, opened, parted, target, wire, freed, thread,
    conn, obj, office, told, optimized, user, sent, wrong

S == INSTANCE Streams WITH want <- messages, input <- arriving
C == INSTANCE Structures
X == INSTANCE Texts
B == INSTANCE DataStreams
A == INSTANCE Allocator
H == INSTANCE Hashes
P == INSTANCE Lifecycle
K == INSTANCE Socket WITH lock <- sock_lock, th <- thread
\* two connections after each other on one descriptor, of a reactor beside the IO thread
D == INSTANCE Socket WITH lock <- sock_lock, th <- thread, Caller <- {}, Closer <- Reactor, MaxConn <- 2,
                          API <- {"write", "close", "force_close", "read"}, Outcome <- {"all", "again", "fatal"}
N == INSTANCE Channels WITH thread <- user

streams == <<kind, messages, arriving, st, split>>
containers == <<which, rep, abs>>
texts == <<job, done, got, want>>
bodies == <<io, ref, body, input, out>>
allocator == <<mapped, head, mem, pool, arena, lock, last, live, big, pages, th, good>>
hashes == <<variant, s, written, misplaced, result>>
processes == <<process, starts, phase, active, cb, copy, ran, due, lst, queue, con, closing, app, idle, sig, stale, bad>>
packets == <<fd, sock_lock, left, ready, armed, sock, conns, hups, opened, parted, target, wire, freed, thread>>
channels == <<conn, obj, office, told, optimized, user, sent, wrong>>
vars == <<part, streams, containers, texts, bodies, allocator, hashes, processes, packets, channels>>

StreamsOff ==
    /\ kind = Off /\ messages = Off /\ arriving = Off /\ st = Off /\ split = Off
StructuresOff ==
    /\ which = Off /\ rep = Off /\ abs = Off
TextsOff ==
    /\ job = Off /\ done = Off /\ got = Off /\ want = Off
DataStreamsOff ==
    /\ io = Off /\ ref = Off /\ body = Off /\ input = Off /\ out = Off
AllocatorOff ==
    /\ mapped = Off /\ head = Off /\ mem = Off /\ pool = Off /\ arena = Off /\ lock = Off /\ last = Off
    /\ live = Off /\ big = Off /\ pages = Off /\ th = Off /\ good = Off
HashesOff ==
    /\ variant = Off /\ s = Off /\ written = Off /\ misplaced = Off /\ result = Off
LifecycleOff ==
    /\ process = Off /\ starts = Off /\ phase = Off /\ active = Off /\ cb = Off /\ copy = Off /\ ran = Off
    /\ due = Off /\ lst = Off /\ queue = Off /\ con = Off /\ closing = Off /\ app = Off /\ idle = Off
    /\ sig = Off /\ stale = Off /\ bad = Off
SocketOff ==
    /\ fd = Off /\ sock_lock = Off /\ left = Off /\ ready = Off /\ armed = Off /\ sock = Off /\ conns = Off
    /\ hups = Off /\ opened = Off /\ parted = Off /\ target = Off /\ wire = Off /\ freed = Off /\ thread = Off
ChannelsOff ==
    /\ conn = Off /\ obj = Off /\ office = Off /\ told = Off /\ optimized = Off /\ user = Off /\ sent = Off
    /\ wrong = Off

Init ==
    /\ part \in Components
    /\ IF part = "streams" THEN S!Init ELSE StreamsOff
    /\ IF part = "containers" THEN C!Init ELSE StructuresOff
    /\ IF part = "texts" THEN X!Init ELSE TextsOff
    /\ IF part = "bodies" THEN B!Init ELSE DataStreamsOff
    /\ IF part = "allocator" THEN A!Init ELSE AllocatorOff
    /\ IF part = "hashes" THEN H!Init ELSE HashesOff
    /\ IF part = "processes" THEN P!Init ELSE LifecycleOff
    /\ IF part = "packets" THEN K!Init ELSE IF part = "descriptor" THEN D!Init ELSE SocketOff
    /\ IF part = "channels" THEN N!Init ELSE ChannelsOff

StreamStep ==
    /\ part = "streams" /\ S!Next
    /\ UNCHANGED <<part, containers, texts, bodies, allocator, hashes, processes, packets, channels>>
ContainerStep ==
    /\ part = "containers" /\ C!Next
    /\ UNCHANGED <<part, streams, texts, bodies, allocator, hashes, processes, packets, channels>>
TextStep ==
    /\ part = "texts" /\ X!Next
    /\ UNCHANGED <<part, streams, containers, bodies, allocator, hashes, processes, packets, channels>>
BodyStep ==
    /\ part = "bodies" /\ B!Next
    /\ UNCHANGED <<part, streams, containers, texts, allocator, hashes, processes, packets, channels>>
AllocatorStep ==
    /\ part = "allocator" /\ A!Next
    /\ UNCHANGED <<part, streams, containers, texts, bodies, hashes, processes, packets, channels>>
HashStep ==
    /\ part = "hashes" /\ H!Next
    /\ UNCHANGED <<part, streams, containers, texts, bodies, allocator, processes, packets, channels>>
ProcessStep ==
    /\ part = "processes" /\ P!Next
    /\ UNCHANGED <<part, streams, containers, texts, bodies, allocator, hashes, packets, channels>>
PacketStep ==
    /\ part = "packets" /\ K!Next
    /\ UNCHANGED <<part, streams, containers, texts, bodies, allocator, hashes, processes, channels>>
DescriptorStep ==
    /\ part = "descriptor" /\ D!Next
    /\ UNCHANGED <<part, streams, containers, texts, bodies, allocator, hashes, processes, channels>>
ChannelStep ==
    /\ part = "channels" /\ N!Next
    /\ UNCHANGED <<part, streams, containers, texts, bodies, allocator, hashes, processes, packets>>

Next ==
    \/ StreamStep \/ ContainerStep \/ TextStep \/ BodyStep \/ AllocatorStep \/ HashStep
    \/ ProcessStep \/ PacketStep \/ DescriptorStep \/ ChannelStep
Spec == Init /\ [][Next]_vars

-----------------------------------------------------------------------------
(* What is written arrives: messages of Redis, of the cluster, of          *)
(* websockets and of HTTP, cut at any byte, are read as they were written  *)
(* but for what Streams!ReadAs and Streams!EmptyStringCut name: a simple   *)
(* string keeps its CR, an empty bulk string that is cut lets the reader   *)
(* run on, a chunked response cut before its last line end is followed by  *)
(* a request nobody sent, a form's value that a window splits keeps its    *)
(* line end.  And a websocket's buffer always has room for more of the     *)
(* frame it waits for (resp_parser.h, fio.c, websocket_parser.h,           *)
(* http1_parser.h, http_mime_parser.h).                                    *)
StreamsSound == part = "streams" => S!ReadAsWritten /\ S!RoomToRead

(* Every turn of http_parse_multipart's loop consumes something of a       *)
(* complete form, also where a delimiter straddles two windows; a turn     *)
(* that does not is repeated for ever.                                     *)
FormAdvances == [][part = "streams" /\ kind = "form" => st'.at > st.at]_streams

(* Lists, arrays, strings, maps and reference counted objects stand for    *)
(* what was put in them, after any sequence of calls (fio.h, fiobject.h).  *)
Represents == part = "containers" => C!Represents

(* Conversions of texts give what their input stands for: templates, JSON, *)
(* nested parameters, URLs, dates, HPACK, Rack's environment, files and    *)
(* cookies; damaged input leaves nothing behind (mustache_parser.h,        *)
(* fio_json_parser.h, iodine_helpers.c, fio.c, hpack.h, iodine_http.c,     *)
(* http.c, http1.c).                                                       *)
TextsConverted ==
    part = "texts" => /\ X!TemplatesRender /\ X!JsonRoundTrip /\ X!NothingLeftBehind
                      /\ X!ParametersRead /\ X!CodecsInvert /\ X!RackSaysTheSame
                      /\ X!FilesServed

(* Reading, seeking and slicing a request's body gives what was written to *)
(* it, whether it is kept in memory, in a file or moved from the one to    *)
(* the other, but for what DataStreams names: a file's read after gets may *)
(* show the buffer again (Stale, Astray), pread of a slice shows its       *)
(* parent's bytes, puts to a file writes the line twice and not its end    *)
(* (fiobj_data.c, iodine_rack_io.c).                                       *)
BodiesReadAsWritten == part = "bodies" => B!StreamsReadAsWritten

(* No two allocations overlap, and what is freed returns to the pool or to *)
(* the system, however threads, arenas and blocks change (fio.c).          *)
AllocationsSound == part = "allocator" => A!AllocationsApart /\ A!AllReturned

(* A message written in pieces has the hash of the whole, unless a piece   *)
(* overran a partly filled block and left a rest: then it never has        *)
(* (fio.c).                                                                *)
HashOfTheWhole == part = "hashes" => H!HashOfTheWhole

(* A process with its listeners, clients and callbacks: a listener is      *)
(* released once and never used again, whichever of start, shutdown, close *)
(* and the application comes first, until the process starts again with    *)
(* its entries (fio_listen); a client is told once, on_connect or on_fail  *)
(* (fio_connect); a state's callbacks run once each, in the order of the   *)
(* code and not of fio.h:1696 (fio_state_callback_force); a block for the  *)
(* next idle cycle runs once and is held until then, unless a cycle comes  *)
(* while another thread runs it (iodine_sched_on_idle).                    *)
ProcessesSound ==
    part = "processes" => /\ P!ListenersReleasedOnce /\ P!ConnectAnswersOnce
                          /\ P!CallbacksRunInTurn /\ P!IdleBlocksRunOnce

(* One connection's packets while a caller, the reactor and the IO thread  *)
(* write, flush and close it: the queue stays linked, packets are released *)
(* once and never torn on the wire (fio_write2, fio_flush), and packets    *)
(* that wait when no call is running have a flush to come: the descriptor  *)
(* is armed or an on_ready task is queued (deferred_on_ready).  And the     *)
(* bytes of two connections on one descriptor reach their own peers.       *)
PacketsSound ==
    /\ part = "packets" => K!PacketsSound /\ K!NoStalledPackets
    /\ part = "descriptor" => D!PacketsSound /\ D!BytesReachTheirPeer

(* The subscriptions of a websocket or event source: its object is used    *)
(* while it is allocated, although messages and on_unsubscribe come in     *)
(* other threads after on_close; everything that holds it is counted; none *)
(* of its subscriptions outlives the connection (websocket_subscribe,      *)
(* http_sse_subscribe, http_sse_destroy).                                  *)
ChannelsSound == part = "channels" => N!ChannelsSound
=============================================================================
