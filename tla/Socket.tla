------------------------------- MODULE Socket -------------------------------
(***************************************************************************)
(* One slot of fio.c's connection table (fio_fd_data_s): the queue of      *)
(* outgoing packets, the socket lock, the open and close marks and the     *)
(* counter that tells the connections apart that use the same file         *)
(* descriptor one after the other.  A uuid is the descriptor and the       *)
(* counter; with one descriptor it is the counter alone.                   *)
(*                                                                         *)
(* Reactor threads run on_ready tasks, poll and accept; any of them and    *)
(* the other callers write, read and close; the IO thread of iodine_defer.c*)
(* flushes whatever is open.  A step is what a thread does between two     *)
(* accesses of the slot that another thread can come between: taking the   *)
(* lock is one step, the section it protects and its release the next.     *)
(*                                                                         *)
(* The kernel's side of the descriptor is `sock`: the connection that owns *)
(* the descriptor number at this moment, or 0.                             *)
(***************************************************************************)
EXTENDS Integers, SequencesExt

CONSTANTS
    Reactor, Caller, IO,  \* threads
    Packet,               \* one per fio_write2 call
    Own,                  \* those written with .after.dealloc
    Urgent,               \* those written with .urgent
    API,                  \* the calls made: "write", "close", "force_close", "read"
    Closer,               \* the threads that make the closing and reading calls
    Outcome,              \* what write(2) may do: "all", "part", "again", "fatal", "other"
    Hooked,               \* TRUE: the TLS hooks (before_close asks for time)
    SLOWLORIS,            \* FIO_SLOWLORIS_LIMIT
    MaxConn,              \* bound on accepted connections
    MaxUses,              \* bound on accepted connections and written packets together
    NULL

Thread == Reactor \cup Caller \cup IO

Size == 2     \* pieces a packet's data is sent in, at most
WRAP == 256   \* counter is a uint8_t

ASSUME SocketAssumption ==
    /\ IsFiniteSet(Packet) /\ Own \subseteq Packet /\ Urgent \subseteq Packet
    /\ API \subseteq {"write", "close", "force_close", "read"}
    /\ Outcome \subseteq {"all", "part", "again", "fatal", "other"}
    /\ Closer \subseteq Reactor \cup Caller /\ Hooked \in BOOLEAN
    /\ SLOWLORIS \in Nat /\ MaxConn \in Nat /\ MaxUses \in Nat /\ NULL \notin Packet \cup Thread

VARIABLES
    fd,      \* the slot: fio_fd_data_s
    lock,    \* holder of sock_lock
    left,    \* Packet -> pieces not yet written (its length)
    ready,   \* deferred_on_ready tasks in the urgent queue, by uuid
    armed,   \* the descriptor is armed for EPOLLOUT (one shot)
    sock,    \* the kernel's connection behind the descriptor, or 0
    conns,   \* connections accepted so far
    hups,    \* connections whose hang-up epoll reported
    opened,  \* connection -> the uuid fio_accept returned (0: not yet)
    parted,  \* connections whose slot or socket was taken without the other (history)
    target,  \* Packet -> the connection its writer meant (0: not written)
    wire,    \* connection -> pieces its peer received
    freed,   \* Packet -> times its data was deallocated
    th       \* Thread -> where it is, with the uuid, connection and packet
slot == <<fd, lock, left, freed, wire>>
kernel == <<sock, conns, hups, opened, parted>>
vars == <<fd, lock, left, ready, armed, sock, conns, hups, opened, parted,
          target, wire, freed, th>>

Conn == 1 .. MaxConn
Room == conns + Cardinality({p \in Packet : target[p] # 0}) < MaxUses
Idle == [pc |-> "idle", u |-> 0, c |-> 0, p |-> NULL, arg |-> NULL]

Cleared(n, open) ==
    [gen |-> n, open |-> open, close |-> 0, late |-> FALSE, internal |-> open,
     packet |-> <<>>, last |-> NULL, count |-> 0]

Init ==
    /\ fd = Cleared(0, FALSE) /\ lock = NULL
    /\ left = [p \in Packet |-> Size]
    /\ ready = {} /\ armed = FALSE
    /\ sock = 0 /\ conns = 0 /\ hups = {}
    /\ opened = [c \in Conn |-> 0] /\ parted = {}
    /\ target = [p \in Packet |-> 0]
    /\ wire = [c \in Conn |-> <<>>]
    /\ freed = [p \in Packet |-> 0]
    /\ th = [t \in Thread |-> Idle]

-----------------------------------------------------------------------------
(* Helpers *)

uuid_is_valid_Always(u) == TRUE

uuid_is_valid(u) == u % WRAP = fd.gen % WRAP

At(t, pc) == th[t].pc = pc
Goto(t, pc) == th' = [th EXCEPT ![t].pc = pc]
Done(t) == th' = [th EXCEPT ![t] = Idle]

\* fio_packet_free of every packet of a list
fio_packet_free(ps) == [p \in Packet |-> freed[p] + Cardinality({i \in DOMAIN ps : ps[i] = p})]

\* where a mark in the queue is: NULL is the head pointer itself
Position(p) == IF p = NULL THEN 0 ELSE CHOOSE i \in DOMAIN fd.packet : fd.packet[i] = p

\* *packet_last = packet; packet_last = &packet->next
Appended(p) ==
    [fd EXCEPT !.packet = SubSeq(@, 1, Position(fd.last)) \o <<p>>,
               !.last = p, !.count = @ + 1]

\* an urgent packet that ends up last is not noted as such
Inserted_KeepsLast(p) ==
    [fd EXCEPT !.packet = InsertAt(@, IF fd.packet = <<>> THEN 1 ELSE 2, p), !.count = @ + 1]

\* an urgent packet goes behind the first one, which may be half sent
Inserted(p) ==
    LET pos == IF fd.packet = <<>> THEN 1 ELSE 2 IN
    [fd EXCEPT !.packet = InsertAt(@, pos, p), !.count = @ + 1,
               !.last = IF pos > Len(fd.packet) THEN p ELSE @]

\* a rotation that counts twice
Rotated_CountTwice ==
    LET rest == Tail(fd.packet) IN
    [fd EXCEPT !.packet = rest, !.count = @ - 2,
               !.last = IF rest = <<>> \/ @ = Head(fd.packet) THEN NULL ELSE @]

fio_sock_packet_rotate_unsafe ==
    LET rest == Tail(fd.packet) IN
    [fd EXCEPT !.packet = rest,
               !.count = IF rest = <<>> THEN 0 ELSE @ - 1,
               !.last = IF rest = <<>> \/ @ = Head(fd.packet) THEN NULL ELSE @]

-----------------------------------------------------------------------------
(* fio_accept and fio_attach: the kernel hands out the free descriptor, the *)
(* slot is cleared for a new uuid and the descriptor registered.            *)

accept4(t) ==
    /\ t \in Reactor /\ At(t, "idle") /\ sock = 0 /\ conns < MaxConn /\ Room
    /\ conns' = conns + 1 /\ sock' = conns + 1
    /\ th' = [th EXCEPT ![t] = [Idle EXCEPT !.pc = "accepted", !.c = conns + 1]]
    /\ UNCHANGED <<slot, ready, armed, hups, opened, parted, target>>

fio_clear_fd(open) ==
    /\ lock = NULL
    /\ fd' = Cleared(fd.gen + 1, open)
    /\ freed' = fio_packet_free(fd.packet)

fio_accept(t) ==
    /\ At(t, "accepted")
    /\ fio_clear_fd(TRUE)
    /\ opened' = [opened EXCEPT ![th[t].c] = fd.gen + 1]
    /\ armed' = (sock # 0)
    /\ Done(t)
    /\ UNCHANGED <<lock, left, ready, sock, conns, hups, parted, target, wire>>

-----------------------------------------------------------------------------
(* fio_write2_fn *)

\* packets written alike differ in name only: a call takes the first unwritten one
NextOfItsKind(p) ==
    p = CHOOSE q \in Packet :
            target[q] = 0 /\ (q \in Own <=> p \in Own) /\ (q \in Urgent <=> p \in Urgent)

fio_write2(t) ==
    /\ "write" \in API /\ t \in Reactor \cup Caller /\ At(t, "idle") /\ Room
    /\ \E c \in Conn, p \in Packet :
        /\ opened[c] # 0 /\ target[p] = 0 /\ NextOfItsKind(p)
        /\ target' = [target EXCEPT ![p] = c]
        /\ \/ /\ uuid_is_valid(opened[c])
              /\ th' = [th EXCEPT ![t] = [pc |-> "write_lock", u |-> opened[c], c |-> c,
                                          p |-> p, arg |-> "now"]]
              /\ UNCHANGED freed
           \/ /\ ~uuid_is_valid(opened[c])
              /\ freed' = fio_packet_free(IF p \in Own THEN <<p>> ELSE <<>>)
              /\ UNCHANGED th
    /\ UNCHANGED <<fd, lock, left, wire, ready, armed, kernel>>

LockedBy(t, pc, next) ==
    /\ At(t, pc) /\ lock = NULL
    /\ lock' = t /\ Goto(t, next)
    /\ UNCHANGED <<fd, left, freed, wire, ready, armed, kernel, target>>

write_lock(t) == LockedBy(t, "write_lock", "write")

\* an urgent packet put in front of a packet that may be half sent
Queued_Front(p) ==
    IF p \in Urgent
    THEN [fd EXCEPT !.packet = <<p>> \o @, !.count = @ + 1, !.last = IF @ = NULL THEN p ELSE @]
    ELSE Appended(p)

Queued(p) == IF p \in Urgent THEN Inserted(p) ELSE Appended(p)

\* the writer that finds the queue empty flushes it, from this very call
write_packet(t) ==
    /\ At(t, "write") /\ uuid_is_valid(th[t].u)
    /\ fd' = Queued(th[t].p)
    /\ lock' = NULL
    /\ th' = [th EXCEPT ![t] = IF fd.packet = <<>> THEN [@ EXCEPT !.pc = "flush", !.p = NULL]
                                                   ELSE Idle]
    /\ UNCHANGED <<left, freed, wire, ready, armed, kernel, target>>

\* closed while we waited for the lock: fio_packet_free, then after.dealloc too
write_error(t) ==
    /\ At(t, "write") /\ ~uuid_is_valid(th[t].u)
    /\ lock' = NULL
    /\ freed' = fio_packet_free(IF th[t].p \in Own THEN <<th[t].p, th[t].p>> ELSE <<th[t].p>>)
    /\ Done(t)
    /\ UNCHANGED <<fd, left, wire, ready, armed, kernel, target>>

-----------------------------------------------------------------------------
(* fio_flush and its callers: deferred_on_ready (with arg "now" from        *)
(* fio_write2, "task" from the queue) and fio_flush_all (arg "all").        *)

deferred_on_ready(t) ==
    /\ t \in Reactor /\ At(t, "idle")
    /\ \E u \in ready :
        /\ ready' = ready \ {u}
        /\ th' = [th EXCEPT ![t] = [Idle EXCEPT !.pc = "flush", !.u = u, !.arg = "task"]]
    /\ UNCHANGED <<slot, armed, kernel, target>>

fio_flush_all(t) ==
    /\ t \in IO /\ At(t, "idle")
    /\ fd.open \/ fd.packet # <<>>
    /\ th' = [th EXCEPT ![t] = [Idle EXCEPT !.pc = "flush", !.u = fd.gen, !.arg = "all"]]
    /\ UNCHANGED <<slot, ready, armed, kernel, target>>

\* a flush that left data behind, or found the lock taken, must be repeated
Again(t) == th' = [th EXCEPT ![t] = IF @.arg = "all" THEN Idle ELSE [@ EXCEPT !.pc = "rearm"]]

fio_flush(t) ==
    /\ At(t, "flush")
    /\ \/ /\ ~uuid_is_valid(th[t].u) /\ Done(t) /\ UNCHANGED lock
       \/ /\ uuid_is_valid(th[t].u) /\ lock # NULL
          /\ Again(t) /\ UNCHANGED lock
       \/ /\ uuid_is_valid(th[t].u) /\ lock = NULL
          /\ lock' = t
          /\ Goto(t, IF fd.packet = <<>> THEN "hook" ELSE "syscall")
    /\ UNCHANGED <<fd, left, freed, wire, ready, armed, kernel, target>>

\* an empty queue: both implementations of rw_hooks->flush return 0
flush_rw_hook(t) ==
    /\ At(t, "hook") /\ lock' = NULL /\ Done(t)
    /\ UNCHANGED <<fd, left, freed, wire, ready, armed, kernel, target>>

\* write_func wrote n pieces of the first packet
Wrote(n) ==
    LET p == Head(fd.packet) IN
    /\ wire' = [wire EXCEPT ![sock] = @ \o [i \in 1 .. n |-> p]]
    /\ left' = [left EXCEPT ![p] = @ - n]
    /\ IF left[p] = n
       THEN fd' = fio_sock_packet_rotate_unsafe /\ freed' = fio_packet_free(<<p>>)
       ELSE UNCHANGED <<fd, freed>>

Slowloris(n) == fd.count >= SLOWLORIS /\ left[Head(fd.packet)] # n

flush_wrote(t) ==
    /\ At(t, "syscall") /\ sock # 0
    /\ \E n \in 1 .. left[Head(fd.packet)] :
        /\ (IF n = left[Head(fd.packet)] THEN "all" ELSE "part") \in Outcome
        /\ Wrote(n)
        /\ Goto(t, IF Slowloris(n) THEN "attacked" ELSE "test")
    /\ lock' = NULL
    /\ UNCHANGED <<ready, armed, kernel, target>>

\* test_errno; EBADF (the descriptor was closed under us) is fatal too
flush_failed(t) ==
    /\ At(t, "syscall")
    /\ \E o \in IF sock = 0 THEN {"fatal"} ELSE Outcome \ {"all", "part"} :
        CASE o = "again" -> Again(t)
          [] o = "fatal" -> Goto(t, "fatal")
          [] o = "other" -> Done(t)
    /\ lock' = NULL
    /\ UNCHANGED <<fd, left, freed, wire, ready, armed, kernel, target>>

\* (history) a mark that comes when the queue is empty and no flush has still to
\* test for it
Unseen == fd.packet = <<>> /\ \A t \in Thread : At(t, "test") => ~uuid_is_valid(th[t].u)
Marked(late) == [fd EXCEPT !.close = 1, !.late = IF fd.close = 0 THEN late ELSE @]

\* the slot may be the next connection's by now: then nobody closes it
flush_fatal(t) ==
    /\ At(t, "fatal")
    /\ fd' = Marked(Unseen /\ ~uuid_is_valid(th[t].u))
    /\ Goto(t, "force_close")
    /\ UNCHANGED <<lock, left, freed, wire, ready, armed, kernel, target>>

\* the queue is drained and the connection marked: the unlocked test for it
Drained == fd.packet = <<>> /\ fd.close # 0

\* a flush that does not look at the mark
flush_test_NoClose(t) ==
    /\ At(t, "test") /\ Goto(t, "return")
    /\ UNCHANGED <<slot, ready, armed, kernel, target>>

flush_test(t) ==
    /\ At(t, "test")
    /\ Goto(t, IF Drained THEN "force_close" ELSE "return")
    /\ UNCHANGED <<slot, ready, armed, kernel, target>>

flush_return(t) ==
    /\ At(t, "return")
    /\ IF fd.open /\ fd.packet # <<>> THEN Again(t) ELSE Done(t)
    /\ UNCHANGED <<slot, ready, armed, kernel, target>>

\* a flush from fio_write2 that does not schedule the next one
Rearmed_TaskOnly(t) ==
    /\ armed' = (armed \/ (th[t].arg = "task" /\ sock # 0))
    /\ UNCHANGED ready

\* the end of deferred_on_ready after a flush that must be repeated
Rearmed(t) ==
    IF th[t].arg = "now" THEN ready' = ready \cup {th[t].u} /\ UNCHANGED armed
                         ELSE armed' = (armed \/ sock # 0) /\ UNCHANGED ready

on_ready_again(t) ==
    /\ At(t, "rearm") /\ Rearmed(t) /\ Done(t)
    /\ UNCHANGED <<slot, kernel, target>>

\* detach from facil.io, leave the descriptor open
flush_attacked(t) ==
    /\ At(t, "attacked")
    /\ fio_clear_fd(FALSE)
    /\ parted' = parted \cup ({sock} \ {0})
    /\ Done(t)
    /\ UNCHANGED <<lock, left, wire, ready, armed, sock, conns, hups, opened, target>>

-----------------------------------------------------------------------------
(* fio_close and fio_force_close *)

Call(t, c, pc) == th' = [th EXCEPT ![t] = [Idle EXCEPT !.pc = pc, !.u = opened[c], !.c = c]]

fio_close(t) ==
    /\ "close" \in API /\ t \in Closer /\ At(t, "idle")
    /\ \E c \in Conn :
        /\ opened[c] # 0 /\ uuid_is_valid(opened[c])
        /\ Call(t, c, IF fd.packet # <<>> \/ lock # NULL THEN "mark" ELSE "force_close")
    /\ UNCHANGED <<slot, ready, armed, kernel, target>>

close_mark(t) ==
    /\ At(t, "mark")
    /\ fd' = Marked(Unseen)
    /\ Goto(t, "event")
    /\ UNCHANGED <<lock, left, freed, wire, ready, armed, kernel, target>>

fio_force_event(t) ==
    /\ At(t, "event")
    /\ ready' = IF uuid_is_valid(th[t].u) THEN ready \cup {th[t].u} ELSE ready
    /\ Done(t)
    /\ UNCHANGED <<slot, armed, kernel, target>>

call_force_close(t) ==
    /\ "force_close" \in API /\ t \in Closer /\ At(t, "idle")
    /\ \E c \in Conn : opened[c] # 0 /\ Call(t, c, "force_close")
    /\ UNCHANGED <<slot, ready, armed, kernel, target>>

fio_force_close(t) ==
    /\ At(t, "force_close")
    /\ IF uuid_is_valid(th[t].u)
       THEN /\ fd' = [fd EXCEPT !.close = IF @ = 0 THEN 1 ELSE @]
            /\ Goto(t, "drop_lock")
       ELSE Done(t) /\ UNCHANGED fd
    /\ UNCHANGED <<lock, left, freed, wire, ready, armed, kernel, target>>

force_close_lock(t) == LockedBy(t, "drop_lock", "drop")

\* the dropped packets stay linked
force_close_drop_Linked(t) ==
    /\ At(t, "drop")
    /\ freed' = fio_packet_free(fd.packet)
    /\ lock' = NULL
    /\ Goto(t, "before_close")
    /\ UNCHANGED <<fd, left, wire, ready, armed, kernel, target>>

\* packet_count is left as it was
force_close_drop(t) ==
    /\ At(t, "drop")
    /\ fd' = [fd EXCEPT !.packet = <<>>, !.last = NULL]
    /\ freed' = fio_packet_free(fd.packet)
    /\ lock' = NULL
    /\ Goto(t, "before_close")
    /\ UNCHANGED <<left, wire, ready, armed, kernel, target>>

before_close(t) ==
    /\ At(t, "before_close")
    /\ IF Hooked /\ fd.open /\ fd.close = 1
       THEN fd' = [fd EXCEPT !.close = 2] /\ armed' = (armed \/ sock # 0) /\ Done(t)
       ELSE Goto(t, "clear") /\ UNCHANGED <<fd, armed>>
    /\ UNCHANGED <<lock, left, freed, wire, ready, kernel, target>>

\* the slot is cleared and the descriptor forgotten
force_close_clear_Only(t) ==
    /\ At(t, "clear")
    /\ fio_clear_fd(FALSE)
    /\ Done(t)
    /\ UNCHANGED <<lock, left, wire, ready, armed, kernel, target>>

\* the uuid is not looked at again
force_close_clear(t) ==
    /\ At(t, "clear")
    /\ fio_clear_fd(FALSE)
    /\ Goto(t, "close_fd")
    /\ UNCHANGED <<lock, left, wire, ready, armed, kernel, target>>

\* (history) the socket that close(2) closes is the next connection's
Struck == {c \in Conn : c = sock /\ opened[c] \in {0, fd.gen}}

close_fd(t) ==
    /\ At(t, "close_fd")
    /\ sock' = 0 /\ armed' = FALSE
    /\ parted' = parted \cup Struck
    /\ Done(t)
    /\ UNCHANGED <<slot, ready, conns, hups, opened, target>>

-----------------------------------------------------------------------------
(* fio_read: the lock only protects the copy of the hooks *)

fio_read(t) ==
    /\ "read" \in API /\ t \in Closer /\ At(t, "idle")
    /\ \E c \in Conn :
        opened[c] # 0 /\ uuid_is_valid(opened[c]) /\ fd.open /\ Call(t, c, "read_lock")
    /\ UNCHANGED <<slot, ready, armed, kernel, target>>

read_lock(t) == LockedBy(t, "read_lock", "read_hooks")

\* rw_read got data, or nothing to read, or the end of the stream; a descriptor
\* that was closed under us is an end too
read_hooks(t) ==
    /\ At(t, "read_hooks") /\ lock' = NULL
    /\ (sock # 0 /\ Done(t)) \/ Goto(t, "force_close")
    /\ UNCHANGED <<fd, left, freed, wire, ready, armed, kernel, target>>

-----------------------------------------------------------------------------
(* fio_poll: an event names the descriptor; the uuid is looked up when the  *)
(* event is handled.                                                        *)

poll_write(t) ==
    /\ t \in Reactor /\ At(t, "idle") /\ armed
    /\ armed' = FALSE
    /\ ready' = ready \cup {fd.gen}
    /\ UNCHANGED <<slot, kernel, target, th>>

poll_hangup(t) ==
    /\ t \in Reactor /\ At(t, "idle") /\ sock # 0 /\ sock \notin hups
    /\ hups' = hups \cup {sock} /\ armed' = FALSE
    /\ th' = [th EXCEPT ![t] = [Idle EXCEPT !.pc = "hangup", !.c = sock]]
    /\ UNCHANGED <<slot, ready, sock, conns, opened, parted, target>>

fio_force_close_in_poll(t) ==
    /\ At(t, "hangup") /\ fd.internal
    /\ fd' = [fd EXCEPT !.close = 2]
    /\ th' = [th EXCEPT ![t].pc = "force_close", ![t].u = fd.gen]
    /\ UNCHANGED <<lock, left, freed, wire, ready, armed, kernel, target>>

poll_clear(t) ==
    /\ At(t, "hangup") /\ ~fd.internal
    /\ fio_clear_fd(FALSE) /\ Done(t)
    /\ UNCHANGED <<lock, left, wire, ready, armed, kernel, target>>

-----------------------------------------------------------------------------
Flush(t) ==
    \/ fio_flush(t) \/ flush_rw_hook(t) \/ flush_wrote(t) \/ flush_failed(t)
    \/ flush_fatal(t) \/ flush_test(t) \/ flush_return(t) \/ on_ready_again(t)
Close(t) ==
    \/ close_mark(t) \/ fio_force_event(t) \/ fio_force_close(t)
    \/ force_close_lock(t) \/ force_close_drop(t) \/ before_close(t)
    \/ force_close_clear(t) \/ close_fd(t)
Runs(t) ==
    \/ fio_accept(t) \/ write_lock(t) \/ write_packet(t)
    \/ read_lock(t) \/ read_hooks(t) \/ fio_force_close_in_poll(t)
    \/ Flush(t) \/ Close(t)
(* What becomes of a call when its connection is closed under it by another  *)
(* thread, or when its peer leaves SLOWLORIS packets waiting.                *)
Overtaken(t) == write_error(t) \/ poll_clear(t) \/ flush_attacked(t)
Resume(t) == Runs(t) \/ Overtaken(t)
Serve(t) == deferred_on_ready(t) \/ poll_write(t)
Start(t) ==
    \/ accept4(t) \/ fio_write2(t) \/ fio_close(t) \/ call_force_close(t)
    \/ fio_read(t) \/ poll_hangup(t)

Next == \E t \in Thread : Resume(t) \/ Serve(t) \/ Start(t) \/ fio_flush_all(t)

Spec == Init /\ [][Next]_vars

(* Threads run on, a waiter gets the spin lock (its holders only pass: the   *)
(* IO thread sleeps between rounds), the reactor takes tasks and polls for   *)
(* as long as it runs, and a connected peer eventually takes more data.      *)
Fairness ==
    /\ \A t \in Thread : SF_vars(Resume(t)) /\ SF_vars(flush_wrote(t))
    /\ \A t \in Reactor : SF_vars(deferred_on_ready(t)) /\ SF_vars(poll_write(t))
    /\ \A t \in IO : WF_vars(fio_flush_all(t))
FairSpec == Spec /\ Fairness

-----------------------------------------------------------------------------
(* Properties *)

AtRest == \A t \in Thread : At(t, "idle")

(* Every variable has its type; a queue never exceeds the packets there are. *)
TypeOK ==
    /\ fd \in [gen : Nat, open : BOOLEAN, close : 0 .. 2, internal : BOOLEAN,
               late : BOOLEAN, packet : Seq(Packet), last : Packet \cup {NULL}, count : 0 .. Cardinality(Packet)]
    /\ lock \in Thread \cup {NULL}
    /\ left \in [Packet -> 0 .. Size]
    /\ ready \subseteq Nat /\ armed \in BOOLEAN
    /\ sock \in 0 .. MaxConn /\ conns \in 0 .. MaxConn /\ hups \subseteq Conn
    /\ opened \in [Conn -> Nat] /\ parted \subseteq Conn /\ target \in [Packet -> 0 .. MaxConn]
    /\ wire \in [Conn -> Seq(Packet)] /\ freed \in [Packet -> Nat]

(* packet_last always designates the end of the queue: no append cuts off    *)
(* packets, whatever mix of urgent writes, rotations and closings preceded.  *)
TailKnown == fd.last = IF fd.packet = <<>> THEN NULL ELSE Last(fd.packet)

(* What is queued is there once, has data left and was not deallocated, so   *)
(* fio_flush never hands freed memory to write(2).                           *)
QueuedIsAlive ==
    /\ \A i, j \in DOMAIN fd.packet : fd.packet[i] = fd.packet[j] => i = j
    /\ \A i \in DOMAIN fd.packet : freed[fd.packet[i]] = 0 /\ left[fd.packet[i]] > 0

(* The queue is sound whoever flushes, writes or closes meanwhile.           *)
QueueSound == TailKnown /\ QueuedIsAlive

(* fio_write2 owns the data it is given: it is deallocated at most once.     *)
FreedOnce == \A p \in Packet : freed[p] <= 1

(* ... and nothing handed to fio_write2 is forgotten: once no call is        *)
(* running, the data is queued or was deallocated.                           *)
NothingForgotten ==
    AtRest => \A p \in Packet :
        target[p] = 0 \/ freed[p] > 0 \/ \E i \in DOMAIN fd.packet : fd.packet[i] = p

(* The peer receives whole packets: urgent packets, retries and concurrent   *)
(* flushes never put another packet's data inside one or repeat a piece.     *)
NotTorn ==
    \A c \in Conn :
        /\ \A i, j \in DOMAIN wire[c] :
            wire[c][i] = wire[c][j] => \A k \in i .. j : wire[c][k] = wire[c][i]
        /\ \A p \in Packet : Cardinality({i \in DOMAIN wire[c] : wire[c][i] = p}) <= Size

(* Data only ever reaches the connection it was written to, although the     *)
(* descriptor, the slot and the queue are reused by the next connection; but *)
(* for data of a connection whose socket was closed under its open slot.     *)
SentToItsConnection ==
    \A c \in Conn : \A i \in DOMAIN wire[c] : target[wire[c][i]] \in {c} \cup parted

(* When no call is running, waiting packets have a future: the descriptor is *)
(* armed for writing or an on_ready task is queued.                          *)
NoStalledPackets ==
    AtRest /\ fd.open /\ fd.packet # <<>> => armed \/ fd.gen \in ready

(* fio_close keeps its word: a marked connection whose data was sent is not  *)
(* left open with nothing scheduled that would close it.                     *)
ClosedOnceDrained ==
    AtRest /\ fd.open /\ Drained => armed \/ fd.gen \in ready

(* No descriptor is left behind: once no call is running a slot that is not  *)
(* open has no socket (a slowloris suspect is detached on purpose).          *)
NoOrphanSocket == AtRest /\ ~fd.open => sock \in {0} \cup parted

\* the connections thread t's operation was called for
Meant(t) == {c \in Conn : c = th[t].c \/ opened[c] = th[t].u}

(* An operation on one connection never closes the socket of another nor     *)
(* resets its slot: uuids "protect sockets from collisions".                 *)
ClosesOnlyItsOwn ==
    [][/\ sock # 0 /\ sock' = 0 =>
            \E t \in Thread : At(t, "close_fd") /\ sock \in Meant(t)
       /\ \A c \in Conn : fd.open /\ opened[c] = fd.gen /\ fd'.gen # fd.gen =>
            \E t \in Thread : th'[t] # th[t] /\ c \in Meant(t)]_vars

(* Data handed to fio_write2 is eventually sent or dropped, and deallocated. *)
EveryPacketReleased == \A p \in Packet : target[p] # 0 ~> freed[p] > 0

(* A connection marked by fio_close is eventually closed, unless the mark    *)
(* came after the last flush that would have seen it.                        *)
MarkedIsClosed ==
    \A c \in Conn : fd.close # 0 /\ ~fd.late /\ opened[c] = fd.gen ~> opened[c] # fd.gen

(* Whoever flushes and closes meanwhile, data reaches the peer it was        *)
(* written for and no other (uuid_is_valid in every call), and no socket is  *)
(* left without a slot (fio_force_close), unless close(2) or the slowloris   *)
(* test parted them.                                                         *)
BytesReachTheirPeer == TypeOK /\ SentToItsConnection /\ NoOrphanSocket

(* The packet queue under concurrent writers and flushers: linked, released  *)
(* once (fio_packet_free), and on the wire one packet at a time (fio_flush). *)
PacketsSound == QueueSound /\ FreedOnce /\ NotTorn

(* Sending ends, beside an IO thread that flushes and closes: every packet   *)
(* given to fio_write2 is released, and a connection that fio_close marks in *)
(* time is closed.                                                           *)
SendingEnds == EveryPacketReleased /\ MarkedIsClosed
=============================================================================
