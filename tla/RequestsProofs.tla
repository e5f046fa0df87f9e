---------------------------- MODULE RequestsProofs ----------------------------
(***************************************************************************)
(* Theorems about requests, for any connections, threads and limits:       *)
(* answers leave in the order of the requests, a graceful stop waits for   *)
(* paused requests, and no request is used after its protocol was freed.   *)
(***************************************************************************)
EXTENDS Requests, FiniteSetTheorems, SequenceTheorems, TLAPS

Function == {"on_data", "on_close", "on_ready", "on_shutdown", "ping",
             "pause", "fiber", "resume"}
TaskRecord == [func : Function, c : Conn, forced : BOOLEAN]

Slot == [open : BOOLEAN, protocol : {"http1", "websocket", "sse", "tcp", "none"},
         lock : Thread \cup {NULL}, stop : SUBSET {1, 2, 4},
         scheduled : BOOLEAN, armed : BOOLEAN, socket : Nat, buf : Nat,
         pending : Nat, ready : BOOLEAN, freed : BOOLEAN]

Place == [pc : {"idle", "consume", "throttle", "app", "pause", "unlock", "rearm"},
          c : Conn \cup {NULL}, limit : 0 .. PIPELINE]

Flags == [active : BOOLEAN, requested : BOOLEAN, ticks : 0 .. TICKS, paused : Nat,
          tasks : 0 .. MAXTASKS]

Typed ==
    /\ uuid \in [Conn -> Slot]
    /\ request \in [Conn -> Nat] /\ sent \in [Conn -> Nat] /\ parsed \in [Conn -> Nat]
    /\ answers \in [Conn -> Seq(Nat)]
    /\ handle \in [Conn -> {"none", "paused", "subscribed", "resuming"}]
    /\ fiber \in [Conn -> {"none", "blocked", "woken", "done"}]
    /\ store \subseteq Conn /\ subs \subseteq Conn /\ missed \subseteq Conn /\ misused \in BOOLEAN
    /\ stop \in Flags
    /\ th \in [Thread -> Place]
    /\ normal \in Seq(TaskRecord)
    /\ urgent = <<>> \/ \E c \in Conn : urgent = <<Task("message", c, FALSE)>>

\* In a queue, no task f of connection c; at most one of them.
Absent(q, f, c) == \A i \in DOMAIN q : ~(q[i].func = f /\ q[i].c = c)
AtMostOne(q, f, c) ==
    \A i, j \in DOMAIN q : q[i].func = f /\ q[i].c = c /\ q[j].func = f /\ q[j].c = c => i = j

\* Nobody waits for the answer of c, or whoever does is known: c is paused or closed.
Settled(c) == (request[c] = 0 /\ fiber[c] = "none") \/ handle[c] # "none" \/ uuid[c].protocol = "none"

\* From when a thread takes the protocol's lock until it releases it: nobody frees the
\* protocol, and while it reads requests none of this connection is paused.
ThreadAgrees(t) ==
    LET p == th[t].pc  c == th[t].c IN
    /\ p # "idle" => c \in Conn
    /\ p \in {"consume", "throttle", "app", "pause", "unlock"} =>
          uuid[c].lock = t /\ ~uuid[c].freed
    /\ p \in {"consume", "throttle", "app", "pause"} =>
          th[t].limit > 0 /\ handle[c] = "none" /\ c \notin subs
    /\ p \in {"consume", "throttle"} => request[c] = 0
    /\ p \in {"app", "pause"} => request[c] # 0
    /\ p \in {"consume", "throttle", "app"} => fiber[c] = "none"
    /\ p = "unlock" => Settled(c)

\* What is known of a connection whichever thread looks at it.
ConnectionAgrees(c) ==
    LET u == uuid[c] IN
    /\ u.open <=> u.protocol # "none"
    /\ u.freed => u.protocol # "http1"
    /\ parsed[c] + u.buf + u.socket <= sent[c] /\ sent[c] <= REQUESTS[c]
    /\ request[c] = 0 \/ request[c] = parsed[c]
    /\ handle[c] # "none" => request[c] # 0 /\ (u.protocol = "http1" => 1 \in u.stop)
    /\ handle[c] = "resuming" => fiber[c] = "done"
    /\ c \in subs => \/ handle[c] \in {"subscribed", "resuming"}
                     \/ fiber[c] = "done" /\ u.protocol = "none"
    /\ Settled(c) \/ u.lock # NULL

\* The answers of an open connection are those of every request before the current one.
AnswersAgree(c) ==
    /\ answers[c] = [i \in 1 .. Len(answers[c]) |-> i]
    /\ uuid[c].open => Len(answers[c]) = IF request[c] = 0 THEN parsed[c] ELSE parsed[c] - 1

\* A paused request has one continuation, and its task matches its stage.
Single == {"pause", "fiber", "resume"}

TasksAgree(c) ==
    /\ \A f \in Single : AtMostOne(normal, f, c)
    /\ Absent(normal, "pause", c) \/ handle[c] = "paused"
    /\ Absent(normal, "fiber", c) \/ fiber[c] = "woken"
    /\ Absent(normal, "resume", c) \/ handle[c] = "resuming"
    /\ Absent(normal, "on_close", c) \/ uuid[c].protocol # "http1"
    /\ urgent = <<>> \/ urgent[1].c # c \/ (handle[c] = "subscribed" /\ fiber[c] = "done")

\* The count of paused requests never falls behind.
CountAgrees ==
    /\ IsFiniteSet(Paused) /\ Cardinality(Paused) <= stop.paused
    /\ stop.ticks > 0 => stop.requested

Inv ==
    /\ Typed /\ CountAgrees
    /\ \A t \in Thread : ThreadAgrees(t)
    /\ \A c \in Conn : ConnectionAgrees(c) /\ AnswersAgree(c) /\ TasksAgree(c)

\* An SSE upgrade lets the requests behind it run, and one of those may be paused.  With
\* no such pair a protocol is only replaced by the last request it reads.
NoPauseAfterUpgrade == ~({"sse", "defer"} \subseteq App)

HandledInTime ==
    /\ ~misused
    /\ \A t \in Thread : th[t].pc \in {"consume", "throttle", "app", "pause"} /\ "defer" \in App =>
          uuid[th[t].c].protocol \in {"http1", "none"}
    /\ \A t \in Thread : th[t].pc = "pause" => "defer" \in App
    /\ \A c \in Conn : handle[c] # "none" => uuid[c].protocol \in {"http1", "none"}

-----------------------------------------------------------------------------
\* Queues of tasks.

LEMMA Rest ==
    ASSUME NEW q \in Seq(TaskRecord), q # <<>>
    PROVE  /\ Tail(q) \in Seq(TaskRecord) /\ Head(q) \in TaskRecord /\ Head(q) = q[1]
           /\ \A f, c : /\ Absent(q, f, c) => Absent(Tail(q), f, c)
                        /\ AtMostOne(q, f, c) => AtMostOne(Tail(q), f, c)
                        /\ Absent(q, f, c) => ~(Head(q).func = f /\ Head(q).c = c)
                        /\ AtMostOne(q, f, c) /\ Head(q).func = f /\ Head(q).c = c
                              => Absent(Tail(q), f, c)
<1>1. /\ Tail(q) \in Seq(TaskRecord) /\ Head(q) \in TaskRecord /\ Head(q) = q[1]
      /\ Len(Tail(q)) = Len(q) - 1 /\ Len(q) \in Nat /\ Len(q) > 0
      /\ \A i \in 1 .. Len(q) - 1 : Tail(q)[i] = q[i + 1]
    OBVIOUS
<1>2. DOMAIN q = 1 .. Len(q) /\ DOMAIN Tail(q) = 1 .. Len(q) - 1 /\ 1 \in DOMAIN q
    BY <1>1
<1>3. \A i \in DOMAIN Tail(q) : i + 1 \in DOMAIN q /\ i + 1 # 1 /\ Tail(q)[i] = q[i + 1]
    BY <1>1, <1>2
<1>4. \A i, j \in DOMAIN Tail(q) : i + 1 = j + 1 => i = j
    BY <1>1, <1>2
<1> HIDE <1>1
<1>5. Head(q) = q[1]
    BY <1>1
<1>6. SUFFICES ASSUME NEW f, NEW c
               PROVE /\ Absent(q, f, c) => Absent(Tail(q), f, c)
                     /\ AtMostOne(q, f, c) => AtMostOne(Tail(q), f, c)
                     /\ Absent(q, f, c) => ~(Head(q).func = f /\ Head(q).c = c)
                     /\ AtMostOne(q, f, c) /\ Head(q).func = f /\ Head(q).c = c
                           => Absent(Tail(q), f, c)
    BY <1>1
<1>7. Absent(q, f, c) => Absent(Tail(q), f, c) /\ ~(Head(q).func = f /\ Head(q).c = c)
    BY <1>2, <1>3, <1>5 DEF Absent
<1>8. AtMostOne(q, f, c) => AtMostOne(Tail(q), f, c)
    BY <1>3, <1>4 DEF AtMostOne
<1>9. AtMostOne(q, f, c) /\ Head(q).func = f /\ Head(q).c = c => Absent(Tail(q), f, c)
    BY <1>2, <1>3, <1>5 DEF AtMostOne, Absent
<1> QED
    BY <1>7, <1>8, <1>9

LEMMA Joined ==
    ASSUME NEW q \in Seq(TaskRecord), NEW r \in Seq(TaskRecord)
    PROVE  /\ q \o r \in Seq(TaskRecord)
           /\ \A f, c : /\ Absent(q \o r, f, c) <=> Absent(q, f, c) /\ Absent(r, f, c)
                        /\ AtMostOne(q, f, c) /\ Absent(r, f, c) => AtMostOne(q \o r, f, c)
                        /\ Absent(q, f, c) /\ AtMostOne(r, f, c) => AtMostOne(q \o r, f, c)
<1>1. /\ q \o r \in Seq(TaskRecord) /\ Len(q \o r) = Len(q) + Len(r)
      /\ Len(q) \in Nat /\ Len(r) \in Nat
      /\ \A i \in 1 .. Len(q) + Len(r) :
            (q \o r)[i] = IF i <= Len(q) THEN q[i] ELSE r[i - Len(q)]
    OBVIOUS
<1>2. /\ DOMAIN q = 1 .. Len(q) /\ DOMAIN r = 1 .. Len(r)
      /\ DOMAIN (q \o r) = 1 .. Len(q) + Len(r)
    BY <1>1
<1>3. \A i \in DOMAIN q : i \in DOMAIN (q \o r) /\ (q \o r)[i] = q[i]
    BY <1>1, <1>2
<1>4. \A i \in DOMAIN r : Len(q) + i \in DOMAIN (q \o r) /\ (q \o r)[Len(q) + i] = r[i]
    BY <1>1, <1>2
<1>5. \A i \in DOMAIN (q \o r) : \/ i \in DOMAIN q
                                 \/ \E j \in DOMAIN r : i = Len(q) + j
  <2>1. SUFFICES ASSUME NEW i \in DOMAIN (q \o r), i \notin DOMAIN q
                 PROVE  \E j \in DOMAIN r : i = Len(q) + j
    OBVIOUS
  <2>2. i - Len(q) \in DOMAIN r /\ i = Len(q) + (i - Len(q))
    BY <1>1, <1>2, <2>1
  <2> QED
    BY <2>2
<1>6. SUFFICES ASSUME NEW f, NEW c
               PROVE /\ Absent(q \o r, f, c) <=> Absent(q, f, c) /\ Absent(r, f, c)
                     /\ AtMostOne(q, f, c) /\ Absent(r, f, c) => AtMostOne(q \o r, f, c)
                     /\ Absent(q, f, c) /\ AtMostOne(r, f, c) => AtMostOne(q \o r, f, c)
    BY <1>1
<1>7. Absent(q \o r, f, c) <=> Absent(q, f, c) /\ Absent(r, f, c)
  <2> DEFINE s == q \o r
             Hit(x) == x.func = f /\ x.c = c
  <2>1. /\ \A i \in DOMAIN q : i \in DOMAIN s /\ s[i] = q[i]
        /\ \A i \in DOMAIN r : Len(q) + i \in DOMAIN s /\ s[Len(q) + i] = r[i]
        /\ \A i \in DOMAIN s : i \in DOMAIN q \/ \E j \in DOMAIN r : i = Len(q) + j
    BY <1>3, <1>4, <1>5
  <2> HIDE DEF s, Hit
  <2>2. (\A i \in DOMAIN s : ~Hit(s[i])) <=>
            (\A i \in DOMAIN q : ~Hit(q[i])) /\ (\A i \in DOMAIN r : ~Hit(r[i]))
    BY <2>1
  <2> QED
    BY <2>2 DEF Absent, s, Hit
<1>8. AtMostOne(q, f, c) /\ Absent(r, f, c) => AtMostOne(q \o r, f, c)
    BY <1>3, <1>4, <1>5 DEF Absent, AtMostOne
<1>9. Absent(q, f, c) /\ AtMostOne(r, f, c) => AtMostOne(q \o r, f, c)
    BY <1>3, <1>4, <1>5 DEF Absent, AtMostOne
<1> QED
    BY <1>7, <1>8, <1>9

LEMMA OneTask ==
    ASSUME NEW x \in TaskRecord
    PROVE  /\ <<x>> \in Seq(TaskRecord) /\ <<>> \in Seq(TaskRecord)
           /\ \A f, c : /\ Absent(<<x>>, f, c) <=> ~(x.func = f /\ x.c = c)
                        /\ AtMostOne(<<x>>, f, c) /\ Absent(<<>>, f, c) /\ AtMostOne(<<>>, f, c)
<1>1. /\ <<x>> \in Seq(TaskRecord) /\ <<>> \in Seq(TaskRecord)
      /\ DOMAIN <<x>> = {1} /\ <<x>>[1] = x
    OBVIOUS
<1>2. \A i : i \notin DOMAIN <<>>
    OBVIOUS
<1> QED
    BY <1>1, <1>2 DEF Absent, AtMostOne

\* What a step does to the tasks that wait when it adds none of a paused request.
Rearranged(more) ==
    /\ normal' \in Seq(TaskRecord) /\ urgent' = urgent
    /\ \A f \in Single, d \in Conn :
          /\ Absent(normal, f, d) => Absent(normal', f, d)
          /\ AtMostOne(normal, f, d) => AtMostOne(normal', f, d)
    /\ \A d \in Conn : Absent(normal, "on_close", d) /\ Absent(more, "on_close", d)
                          => Absent(normal', "on_close", d)

Mild(more) ==
    /\ more \in Seq(TaskRecord)
    /\ \A f \in Single, d \in Conn : Absent(more, f, d)

LEMMA MildPushed ==
    ASSUME Typed, NEW more, Mild(more), Push(more)
    PROVE  Rearranged(more)
    BY Joined DEF Typed, Mild, Push, Rearranged

\* The next task is the head of the normal queue, unless it is a message.
LEMMA PoppedNext ==
    ASSUME Typed, NEW t, NEW f, NEW c, f # "message", Pops(t, f, c)
    PROVE  /\ urgent = <<>> /\ normal # <<>> /\ normal \in Seq(TaskRecord)
           /\ NextTask = Head(normal) /\ NextTask \in TaskRecord
           /\ NextTask.func = f /\ NextTask.c = c /\ c \in Conn /\ f \in Function
           /\ ~Absent(normal, f, c) /\ th[t] = Idle
<1>1. urgent = <<>>
    BY DEF Typed, Pops, NextTask, Task
<1>2. normal # <<>> /\ normal \in Seq(TaskRecord) /\ NextTask = Head(normal)
      /\ NextTask.func = f /\ NextTask.c = c /\ th[t] = Idle
    BY <1>1 DEF Typed, Pops, NextTask
<1>3. Head(normal) \in TaskRecord
    BY <1>2
<1>4. ~Absent(normal, f, c)
    BY <1>2, Rest
<1> QED
    BY <1>1, <1>2, <1>3, <1>4 DEF TaskRecord

LEMMA MildPopped ==
    ASSUME Typed, NEW t, NEW f, NEW c, f # "message", Pops(t, f, c),
           NEW more, Mild(more), Popped(more)
    PROVE  /\ Rearranged(more)
           /\ f \in Single /\ AtMostOne(normal, f, c) => Absent(normal', f, c)
<1>1. /\ urgent = <<>> /\ normal # <<>> /\ normal \in Seq(TaskRecord) /\ c \in Conn
      /\ Head(normal).func = f /\ Head(normal).c = c
    BY PoppedNext
<1>2. normal' = Tail(normal) \o more /\ urgent' = urgent
    BY <1>1 DEF Popped
<1>3. Tail(normal) \in Seq(TaskRecord) /\ more \in Seq(TaskRecord)
    BY <1>1, Rest DEF Mild
<1>4. Rearranged(more)
    BY <1>1, <1>2, <1>3, Rest, Joined DEF Mild, Rearranged
<1>5. f \in Single /\ AtMostOne(normal, f, c) => Absent(normal', f, c)
    BY <1>1, <1>2, <1>3, Rest, Joined DEF Mild
<1> QED
    BY <1>4, <1>5

LEMMA PutBack ==
    ASSUME Typed, NEW t, NEW f, NEW c, f # "message", Pops(t, f, c), Popped(<<NextTask>>)
    PROVE  Rearranged(<<>>)
<1>1. /\ urgent = <<>> /\ normal # <<>> /\ normal \in Seq(TaskRecord) /\ c \in Conn
      /\ NextTask = Head(normal) /\ NextTask \in TaskRecord
      /\ Head(normal).func = f /\ Head(normal).c = c
    BY PoppedNext
<1>2. normal' = Tail(normal) \o <<NextTask>> /\ urgent' = urgent
    BY <1>1 DEF Popped
<1>3. Tail(normal) \in Seq(TaskRecord) /\ <<NextTask>> \in Seq(TaskRecord)
    BY <1>1, Rest
<1>4. \A g, d : /\ Absent(normal, g, d) => Absent(normal', g, d)
                /\ AtMostOne(normal, g, d) => AtMostOne(normal', g, d)
  <2>1. SUFFICES ASSUME NEW g, NEW d
                 PROVE  /\ Absent(normal, g, d) => Absent(normal', g, d)
                        /\ AtMostOne(normal, g, d) => AtMostOne(normal', g, d)
    OBVIOUS
  <2>2. Absent(<<NextTask>>, g, d) <=> ~(NextTask.func = g /\ NextTask.c = d)
    BY <1>1, OneTask
  <2>3. AtMostOne(<<NextTask>>, g, d)
    BY <1>1, OneTask
  <2>4. Absent(normal, g, d) => Absent(normal', g, d)
    BY <1>1, <1>2, <1>3, <2>2, Rest, Joined
  <2>5. AtMostOne(normal, g, d) => AtMostOne(normal', g, d)
    BY <1>1, <1>2, <1>3, <2>2, <2>3, Rest, Joined
  <2> QED
    BY <2>4, <2>5
<1> QED
    BY <1>2, <1>3, <1>4, Joined DEF Rearranged

-----------------------------------------------------------------------------
\* Steps that leave requests, fibers and threads alone.

SlotKept(u, v) ==
    /\ v.lock = u.lock
    /\ v.open => u.open
    /\ v.open <=> v.protocol # "none"
    /\ v.protocol \in {u.protocol, "none"}
    /\ v.freed => u.freed \/ (u.lock = NULL /\ u.protocol # "http1")
    /\ v.protocol = "http1" /\ 1 \in u.stop => 1 \in v.stop

Undisturbed(more) ==
    /\ UNCHANGED <<request, answers, parsed, fibers, missed, misused, stop, th>>
    /\ uuid' \in [Conn -> Slot] /\ sent' \in [Conn -> Nat]
    /\ \A d \in Conn :
          /\ SlotKept(uuid[d], uuid'[d])
          /\ parsed[d] + uuid'[d].buf + uuid'[d].socket <= sent'[d] /\ sent'[d] <= REQUESTS[d]
          /\ Absent(more, "on_close", d) \/ uuid'[d].protocol # "http1"
    /\ Rearranged(more)

LEMMA Frame ==
    ASSUME Inv, NEW more, Undisturbed(more)
    PROVE  Inv' /\ (HandledInTime => HandledInTime')
<1>1. /\ request' = request /\ answers' = answers /\ parsed' = parsed /\ handle' = handle
      /\ fiber' = fiber /\ store' = store /\ subs' = subs /\ missed' = missed
      /\ misused' = misused /\ stop' = stop /\ th' = th /\ urgent' = urgent
      /\ normal' \in Seq(TaskRecord)
      /\ \A d \in Conn : SlotKept(uuid[d], uuid'[d])
    BY DEF Undisturbed, Rearranged, fibers
<1>2. Typed'
    BY <1>1 DEF Inv, Typed, Undisturbed
<1>3. CountAgrees'
    BY <1>1 DEF Inv, CountAgrees, Paused
<1>4. ASSUME NEW t \in Thread PROVE ThreadAgrees(t)'
  <2>1. ThreadAgrees(t) /\ t # NULL
    BY RequestsAssumption DEF Inv
  <2>2. th[t].c \in Conn => SlotKept(uuid[th[t].c], uuid'[th[t].c])
    BY <1>1
  <2> QED
    BY <1>1, <2>1, <2>2 DEF ThreadAgrees, Settled, SlotKept
<1>5. ASSUME NEW c \in Conn PROVE ConnectionAgrees(c)'
  <2>1. ConnectionAgrees(c) /\ SlotKept(uuid[c], uuid'[c])
    BY <1>1 DEF Inv
  <2>2. parsed[c] + uuid'[c].buf + uuid'[c].socket <= sent'[c] /\ sent'[c] <= REQUESTS[c]
    BY DEF Undisturbed
  <2> QED
    BY <1>1, <2>1, <2>2 DEF ConnectionAgrees, Settled, SlotKept
<1>6. ASSUME NEW c \in Conn PROVE AnswersAgree(c)'
  <2>1. AnswersAgree(c) /\ SlotKept(uuid[c], uuid'[c])
    BY <1>1 DEF Inv
  <2> QED
    BY <1>1, <2>1 DEF AnswersAgree, SlotKept
<1>7. ASSUME NEW c \in Conn PROVE TasksAgree(c)'
  <2>1. TasksAgree(c) /\ SlotKept(uuid[c], uuid'[c])
    BY <1>1 DEF Inv
  <2>2. \A f \in Single : /\ Absent(normal, f, c) => Absent(normal', f, c)
                          /\ AtMostOne(normal, f, c) => AtMostOne(normal', f, c)
    BY DEF Undisturbed, Rearranged
  <2>3. Absent(normal', "on_close", c) \/ uuid'[c].protocol # "http1"
    BY <2>1 DEF Undisturbed, Rearranged, TasksAgree, SlotKept
  <2>4. "pause" \in Single /\ "fiber" \in Single /\ "resume" \in Single
    BY DEF Single
  <2> QED
    BY <1>1, <2>1, <2>2, <2>3, <2>4 DEF TasksAgree
<1>8. HandledInTime => HandledInTime'
  <2>1. SUFFICES ASSUME HandledInTime PROVE HandledInTime'
    OBVIOUS
  <2>2. \A c \in Conn : uuid[c].protocol \in {"http1", "none"} => uuid'[c].protocol \in {"http1", "none"}
    BY <1>1 DEF SlotKept
  <2>3. \A t \in Thread : th[t].pc # "idle" => th[t].c \in Conn
    BY DEF Inv, ThreadAgrees
  <2> QED
    BY <1>1, <2>1, <2>2, <2>3 DEF HandledInTime
<1> QED
    BY <1>2, <1>3, <1>4, <1>5, <1>6, <1>7, <1>8 DEF Inv

LEMMA OneSlot ==
    ASSUME Inv, NEW c \in Conn, NEW v \in Slot, uuid' = [uuid EXCEPT ![c] = v],
           SlotKept(uuid[c], v), parsed[c] + v.buf + v.socket <= sent[c],
           UNCHANGED <<conns, fibers, missed, misused, stop, th>>,
           NEW more, Rearranged(more),
           \A d \in Conn : Absent(more, "on_close", d) \/ (d = c /\ v.protocol # "http1")
    PROVE  Inv' /\ (HandledInTime => HandledInTime')
<1>1. /\ UNCHANGED <<request, answers, parsed, fibers, missed, misused, stop, th>>
      /\ sent' = sent /\ sent' \in [Conn -> Nat] /\ uuid' \in [Conn -> Slot]
    BY DEF conns, Inv, Typed
<1>2. ASSUME NEW d \in Conn
      PROVE  /\ SlotKept(uuid[d], uuid'[d])
             /\ parsed[d] + uuid'[d].buf + uuid'[d].socket <= sent'[d] /\ sent'[d] <= REQUESTS[d]
             /\ Absent(more, "on_close", d) \/ uuid'[d].protocol # "http1"
  <2>1. ConnectionAgrees(d) /\ ConnectionAgrees(c)
    BY DEF Inv
  <2>2. CASE d = c
    <3>1. uuid'[d] = v
      BY <2>2 DEF Inv, Typed
    <3> QED
      BY <1>1, <2>1, <2>2, <3>1 DEF ConnectionAgrees
  <2>3. CASE d # c
    <3>1. uuid'[d] = uuid[d]
      BY <2>3 DEF Inv, Typed
    <3> QED
      BY <1>1, <2>1, <2>3, <3>1 DEF ConnectionAgrees, SlotKept
  <2> QED
    BY <2>2, <2>3
<1> QED
    BY <1>1, <1>2, Frame DEF Undisturbed

LEMMA MildTask ==
    /\ Mild(<<>>) /\ \A d : Absent(<<>>, "on_close", d)
    /\ \A f \in Function \ Single, c \in Conn, b \in BOOLEAN :
          /\ Task(f, c, b) \in TaskRecord /\ Mild(<<Task(f, c, b)>>)
          /\ \A d : Absent(<<Task(f, c, b)>>, "on_close", d) \/ (f = "on_close" /\ d = c)
<1>1. Mild(<<>>) /\ \A d : Absent(<<>>, "on_close", d)
  <2>1. <<>> \in Seq(TaskRecord)
    OBVIOUS
  <2> QED
    BY <2>1 DEF Mild, Absent
<1>2. ASSUME NEW f \in Function \ Single, NEW c \in Conn, NEW b \in BOOLEAN
      PROVE  /\ Task(f, c, b) \in TaskRecord /\ Mild(<<Task(f, c, b)>>)
             /\ \A d : Absent(<<Task(f, c, b)>>, "on_close", d) \/ (f = "on_close" /\ d = c)
  <2>1. /\ Task(f, c, b) \in TaskRecord /\ Task(f, c, b).func = f /\ Task(f, c, b).c = c
    BY DEF Task, TaskRecord
  <2> QED
    BY <2>1, OneTask DEF Mild
<1> QED
    BY <1>1, <1>2

\* The tasks a connection leaves behind.
LEMMA MildJoined ==
    ASSUME NEW q, NEW r, Mild(q), Mild(r)
    PROVE  /\ Mild(q \o r)
           /\ \A d : Absent(q \o r, "on_close", d) <=> Absent(q, "on_close", d) /\ Absent(r, "on_close", d)
    BY Joined DEF Mild

LEMMA LeftBehind ==
    ASSUME NEW c \in Conn, NEW u
    PROVE  /\ Mild(OnData(c, u)) /\ Mild(OldClosed(c, u)) /\ Mild(ClearedTasks(c))
           /\ \A d \in Conn : /\ Absent(OnData(c, u), "on_close", d)
                              /\ Absent(OldClosed(c, u), "on_close", d) \/ (d = c /\ u.open)
                              /\ Absent(ClearedTasks(c), "on_close", d) \/ d = c
<1>1. "on_data" \in Function \ Single /\ "on_close" \in Function \ Single
    BY DEF Function, Single
<1> QED
    BY <1>1, MildTask DEF OnData, OldClosed, ClearedTasks

\* The fields that an operation on a slot leaves alone.
Alike(u, v) == v.lock = u.lock /\ v.freed = u.freed /\ v.socket = u.socket /\ v.buf = u.buf

LEMMA SlotOperations ==
    ASSUME NEW u \in Slot
    PROVE  /\ /\ fio_suspend(u) \in Slot /\ Alike(u, fio_suspend(u))
              /\ fio_suspend(u).open = u.open /\ fio_suspend(u).protocol = u.protocol
              /\ fio_suspend(u).stop = u.stop
           /\ /\ Cleared(u) \in Slot /\ Alike(u, Cleared(u))
              /\ Cleared(u).protocol = "none" /\ ~Cleared(u).open /\ Cleared(u).stop = u.stop
           /\ /\ Finished(u) \in Slot /\ Alike(u, Finished(u))
              /\ Finished(u).open = u.open /\ Finished(u).protocol = u.protocol
              /\ Finished(u).stop = u.stop \ {1}
<1>1. /\ fio_suspend(u) \in Slot /\ Alike(u, fio_suspend(u))
      /\ fio_suspend(u).open = u.open /\ fio_suspend(u).protocol = u.protocol
      /\ fio_suspend(u).stop = u.stop
  <2>1. CASE u.open
    BY <2>1 DEF Slot, fio_suspend, Alike
  <2>2. CASE ~u.open
    BY <2>2 DEF fio_suspend, Alike
  <2> QED
    BY <2>1, <2>2
<1>2. /\ Cleared(u) \in Slot /\ Alike(u, Cleared(u))
      /\ Cleared(u).protocol = "none" /\ ~Cleared(u).open /\ Cleared(u).stop = u.stop
    BY DEF Slot, Cleared, Alike
<1>3. /\ Finished(u) \in Slot /\ Alike(u, Finished(u))
      /\ Finished(u).open = u.open /\ Finished(u).protocol = u.protocol
      /\ Finished(u).stop = u.stop \ {1}
  <2>1. u.stop \ {1} \in SUBSET {1, 2, 4} /\ (IF u.open THEN u.pending + 1 ELSE 0) \in Nat
    BY DEF Slot
  <2> QED
    BY <2>1 DEF Slot, Finished, Alike
<1> QED
    BY <1>1, <1>2, <1>3

LEMMA ClearedKept ==
    ASSUME Inv, NEW c \in Conn
    PROVE  /\ Cleared(uuid[c]) \in Slot /\ SlotKept(uuid[c], Cleared(uuid[c]))
           /\ Cleared(uuid[c]).protocol # "http1"
           /\ parsed[c] + Cleared(uuid[c]).buf + Cleared(uuid[c]).socket <= sent[c]
<1>1. uuid[c] \in Slot /\ ConnectionAgrees(c)
    BY DEF Inv, Typed
<1> QED
    BY <1>1, SlotOperations DEF Alike, ConnectionAgrees, SlotKept

LEMMA Unmoved ==
    ASSUME Inv, NEW c \in Conn
    PROVE  /\ uuid[c] \in Slot /\ SlotKept(uuid[c], uuid[c])
           /\ parsed[c] + uuid[c].buf + uuid[c].socket <= sent[c]
           /\ uuid = [uuid EXCEPT ![c] = uuid[c]]
    BY DEF Inv, Typed, ConnectionAgrees, SlotKept

LEMMA ClientStep ==
    ASSUME Inv, NEW c \in Conn, client_send(c)
    PROVE  Inv' /\ (HandledInTime => HandledInTime')
<1> DEFINE v == [uuid[c] EXCEPT !.socket = @ + 1]
<1>1. v \in Slot /\ v.socket = uuid[c].socket + 1 /\ v.buf = uuid[c].buf
      /\ SlotKept(uuid[c], v) /\ sent' = [sent EXCEPT ![c] = @ + 1] /\ sent[c] < REQUESTS[c]
      /\ uuid' = [uuid EXCEPT ![c] = v]
  <2>1. uuid[c] \in Slot /\ ConnectionAgrees(c)
    BY DEF Inv, Typed
  <2>2. v \in Slot /\ v.socket = uuid[c].socket + 1 /\ v.buf = uuid[c].buf
    BY <2>1 DEF Slot
  <2>3. SlotKept(uuid[c], v)
    BY <2>1 DEF Slot, SlotKept, ConnectionAgrees
  <2> QED
    BY <2>2, <2>3 DEF client_send
<1> HIDE DEF v
<1>2. /\ UNCHANGED <<request, answers, parsed, fibers, missed, misused, stop, th, urgent, normal>>
    BY DEF client_send
<1>3. uuid' \in [Conn -> Slot] /\ sent' \in [Conn -> Nat]
    BY <1>1 DEF Inv, Typed
<1>4. Rearranged(<<>>)
    BY <1>2 DEF Rearranged, Inv, Typed
<1>5. ASSUME NEW d \in Conn
      PROVE  /\ SlotKept(uuid[d], uuid'[d])
             /\ parsed[d] + uuid'[d].buf + uuid'[d].socket <= sent'[d] /\ sent'[d] <= REQUESTS[d]
  <2>1. SlotKept(uuid[d], uuid[d]) /\ ConnectionAgrees(d)
        /\ parsed[d] \in Nat /\ uuid[d].buf \in Nat /\ uuid[d].socket \in Nat /\ sent[d] \in Nat
    BY Unmoved DEF Inv, Typed, Slot
  <2>2. CASE d = c
    <3>1. uuid'[d] = v /\ sent'[d] = sent[d] + 1
      BY <1>1, <2>2 DEF Inv, Typed
    <3>2. REQUESTS[d] \in Nat
      BY RequestsAssumption
    <3>3. parsed[d] + uuid[d].buf + uuid[d].socket <= sent[d]
      BY <2>1 DEF ConnectionAgrees
    <3> QED
      BY <1>1, <2>1, <2>2, <3>1, <3>2, <3>3
  <2>3. CASE d # c
    <3>1. uuid'[d] = uuid[d] /\ sent'[d] = sent[d]
      BY <1>1, <2>3 DEF Inv, Typed
    <3> QED
      BY <2>1, <3>1 DEF ConnectionAgrees
  <2> QED
    BY <2>2, <2>3
<1>6. \A d \in Conn : Absent(<<>>, "on_close", d)
    BY MildTask
<1> QED
    BY <1>2, <1>3, <1>4, <1>5, <1>6, Frame DEF Undisturbed

LEMMA KernelStep ==
    ASSUME Inv, NEW c \in Conn,
           \/ poll_read(c) \/ fio_force_close(c) \/ fio_review_timeout(c)
           \/ fio_flush_all(c) \/ deferred_on_ready(c)
    PROVE  Inv' /\ (HandledInTime => HandledInTime')
<1>1. uuid[c] \in Slot /\ ConnectionAgrees(c) /\ Typed
    BY DEF Inv, Typed
<1>2. {"on_data", "on_ready", "ping"} \subseteq Function \ Single
    BY DEF Function, Single
<1>3. CASE poll_read(c)
  <2> DEFINE v == [uuid[c] EXCEPT !.armed = FALSE]
             more == <<Task("on_data", c, FALSE)>>
  <2>1. v \in Slot /\ SlotKept(uuid[c], v) /\ v.buf = uuid[c].buf /\ v.socket = uuid[c].socket
    BY <1>1 DEF Slot, SlotKept, ConnectionAgrees
  <2>2. uuid' = [uuid EXCEPT ![c] = v] /\ Push(more)
        /\ UNCHANGED <<conns, fibers, missed, misused, stop, th>>
    BY <1>3 DEF poll_read
  <2>3. Rearranged(more) /\ \A d \in Conn : Absent(more, "on_close", d)
    BY <1>1, <1>2, <2>2, MildTask, MildPushed
  <2> HIDE DEF v, more
  <2> QED
    BY <1>1, <2>1, <2>2, <2>3, OneSlot DEF ConnectionAgrees
<1>4. CASE fio_force_close(c)
  <2>1. uuid' = [uuid EXCEPT ![c] = Cleared(uuid[c])] /\ Push(ClearedTasks(c))
        /\ UNCHANGED <<conns, fibers, missed, misused, stop, th>>
    BY <1>4 DEF fio_force_close
  <2>2. Rearranged(ClearedTasks(c)) /\ \A d \in Conn : Absent(ClearedTasks(c), "on_close", d) \/ d = c
    BY <1>1, <2>1, LeftBehind, MildPushed
  <2> QED
    BY <1>1, <2>1, <2>2, ClearedKept, OneSlot
<1>5. CASE fio_review_timeout(c)
  <2> DEFINE more == <<Task("ping", c, FALSE)>>
  <2>1. uuid' = uuid /\ Push(more) /\ UNCHANGED <<conns, fibers, missed, misused, stop, th>>
    BY <1>5 DEF fio_review_timeout
  <2>2. Rearranged(more) /\ \A d \in Conn : Absent(more, "on_close", d)
    BY <1>1, <1>2, <2>1, MildTask, MildPushed
  <2> HIDE DEF more
  <2> QED
    BY <2>1, <2>2, Unmoved, OneSlot
<1>6. CASE fio_flush_all(c)
  <2> DEFINE v == [uuid[c] EXCEPT !.pending = 0]
  <2>1. v \in Slot /\ SlotKept(uuid[c], v) /\ v.buf = uuid[c].buf /\ v.socket = uuid[c].socket
    BY <1>1 DEF Slot, SlotKept, ConnectionAgrees
  <2>2. uuid' = [uuid EXCEPT ![c] = v] /\ normal' = normal /\ urgent' = urgent
        /\ UNCHANGED <<conns, fibers, missed, misused, stop, th>>
    BY <1>6 DEF fio_flush_all
  <2>3. Rearranged(<<>>) /\ \A d \in Conn : Absent(<<>>, "on_close", d)
    BY <1>1, <2>2, MildTask DEF Rearranged, Typed
  <2> HIDE DEF v
  <2> QED
    BY <1>1, <2>1, <2>2, <2>3, OneSlot DEF ConnectionAgrees
<1>7. CASE deferred_on_ready(c)
  <2> DEFINE v == [uuid[c] EXCEPT !.ready = FALSE, !.pending = 0]
             more == <<Task("on_ready", c, FALSE)>>
  <2>1. v \in Slot /\ SlotKept(uuid[c], v) /\ v.buf = uuid[c].buf /\ v.socket = uuid[c].socket
    BY <1>1 DEF Slot, SlotKept, ConnectionAgrees
  <2>2. uuid' = [uuid EXCEPT ![c] = v] /\ Push(more)
        /\ UNCHANGED <<conns, fibers, missed, misused, stop, th>>
    BY <1>7 DEF deferred_on_ready
  <2>3. Rearranged(more) /\ \A d \in Conn : Absent(more, "on_close", d)
    BY <1>1, <1>2, <2>2, MildTask, MildPushed
  <2> HIDE DEF v, more
  <2> QED
    BY <1>1, <2>1, <2>2, <2>3, OneSlot DEF ConnectionAgrees
<1> QED
    BY <1>3, <1>4, <1>5, <1>6, <1>7

\* A task that changes at most its connection's slot.
LEMMA TaskDone ==
    ASSUME Inv, NEW t \in Thread, NEW f, NEW c, f # "message", Pops(t, f, c),
           NEW v \in Slot, uuid' = [uuid EXCEPT ![c] = v], SlotKept(uuid[c], v),
           parsed[c] + v.buf + v.socket <= sent[c],
           UNCHANGED <<conns, fibers, missed, misused, stop, th>>,
           NEW more, Mild(more), Popped(more),
           \A d \in Conn : Absent(more, "on_close", d) \/ (d = c /\ v.protocol # "http1")
    PROVE  Inv' /\ (HandledInTime => HandledInTime')
<1>1. Typed /\ c \in Conn
    BY PoppedNext DEF Inv
<1>2. Rearranged(more)
    BY <1>1, MildPopped
<1> QED
    BY <1>1, <1>2, OneSlot

LEMMA TaskPutBack ==
    ASSUME Inv, NEW t \in Thread, NEW f, NEW c, f # "message", Pops(t, f, c), Popped(<<NextTask>>),
           UNCHANGED <<uuid, conns, fibers, missed, misused, stop, th>>
    PROVE  Inv' /\ (HandledInTime => HandledInTime')
<1>1. Typed /\ c \in Conn
    BY PoppedNext DEF Inv
<1>2. Rearranged(<<>>) /\ \A d \in Conn : Absent(<<>>, "on_close", d)
    BY <1>1, PutBack, MildTask
<1> QED
    BY <1>1, <1>2, Unmoved, OneSlot

LEMMA PingStep ==
    ASSUME Inv, NEW t \in Thread, NEW c \in Conn, deferred_ping(t, c)
    PROVE  Inv' /\ (HandledInTime => HandledInTime')
<1>1. Pops(t, "ping", c) /\ UNCHANGED <<conns, fibers, missed, misused, stop, th>>
    BY DEF deferred_ping
<1>2. CASE uuid[c].protocol = "http1"
  <2>1. uuid' = [uuid EXCEPT ![c] = Cleared(uuid[c])] /\ Popped(ClearedTasks(c))
    BY <1>2 DEF deferred_ping
  <2>2. Mild(ClearedTasks(c)) /\ \A d \in Conn : Absent(ClearedTasks(c), "on_close", d) \/ d = c
    BY LeftBehind
  <2> QED
    BY <1>1, <2>1, <2>2, ClearedKept, TaskDone
<1>3. CASE uuid[c].protocol # "http1"
  <2>1. uuid' = uuid /\ Popped(<<>>)
    BY <1>3 DEF deferred_ping
  <2> QED
    BY <1>1, <2>1, Unmoved, MildTask, TaskDone
<1> QED
    BY <1>2, <1>3

LEMMA ReadyStep ==
    ASSUME Inv, NEW t \in Thread, NEW c \in Conn, http1_on_ready(t, c)
    PROVE  Inv' /\ (HandledInTime => HandledInTime')
<1>1. Pops(t, "on_ready", c) /\ UNCHANGED <<conns, fibers, missed, misused, stop, th>>
    BY DEF http1_on_ready
<1>2. CASE uuid[c].protocol = "http1" /\ 4 \in uuid[c].stop
  <2> DEFINE w == [uuid[c] EXCEPT !.stop = @ \ {4}]
             v == fio_suspend(w)
  <2>1. uuid' = [uuid EXCEPT ![c] = v] /\ Popped(OnData(c, uuid[c]))
    BY <1>2 DEF http1_on_ready
  <2>2. uuid[c] \in Slot /\ ConnectionAgrees(c)
    BY DEF Inv, Typed
  <2>3. w \in Slot /\ Alike(uuid[c], w) /\ w.stop = uuid[c].stop \ {4}
        /\ w.open = uuid[c].open /\ w.protocol = uuid[c].protocol
    <3>1. uuid[c].stop \ {4} \in SUBSET {1, 2, 4}
      BY <2>2 DEF Slot
    <3> QED
      BY <2>2, <3>1 DEF Slot, Alike
  <2> HIDE DEF w
  <2>4. v \in Slot /\ Alike(w, v) /\ v.open = w.open /\ v.protocol = w.protocol /\ v.stop = w.stop
    BY <2>3, SlotOperations
  <2> HIDE DEF v
  <2>5. SlotKept(uuid[c], v) /\ v.buf = uuid[c].buf /\ v.socket = uuid[c].socket
    <3>1. 1 \in uuid[c].stop => 1 \in uuid[c].stop \ {4}
      OBVIOUS
    <3> QED
      BY <2>2, <2>3, <2>4, <3>1 DEF Alike, SlotKept, ConnectionAgrees
  <2>6. Mild(OnData(c, uuid[c])) /\ \A d \in Conn : Absent(OnData(c, uuid[c]), "on_close", d)
    BY LeftBehind
  <2>7. parsed[c] + v.buf + v.socket <= sent[c]
    BY <2>2, <2>5 DEF ConnectionAgrees
  <2> QED
    BY <1>1, <2>1, <2>4, <2>5, <2>6, <2>7, TaskDone
<1>3. CASE ~(uuid[c].protocol = "http1" /\ 4 \in uuid[c].stop)
  <2>1. uuid' = uuid /\ Popped(<<>>)
    BY <1>3 DEF http1_on_ready
  <2> QED
    BY <1>1, <2>1, Unmoved, MildTask, TaskDone
<1> QED
    BY <1>2, <1>3

LEMMA ElsewhereStep ==
    ASSUME Inv, NEW t \in Thread, NEW c \in Conn, deferred_on_data_Elsewhere(t, c)
    PROVE  Inv' /\ (HandledInTime => HandledInTime')
<1>1. Pops(t, "on_data", c) /\ UNCHANGED <<conns, fibers, missed, misused, stop, th>>
    BY DEF deferred_on_data_Elsewhere
<1>2. uuid[c] \in Slot /\ ConnectionAgrees(c) /\ parsed[c] \in Nat /\ sent[c] \in Nat
    BY DEF Inv, Typed
<1>3. CASE uuid' = uuid /\ Popped(<<>>)
    BY <1>1, <1>3, Unmoved, MildTask, TaskDone
<1>4. CASE uuid' = uuid /\ Popped(<<NextTask>>)
    BY <1>1, <1>4, TaskPutBack
<1>5. CASE uuid' = [uuid EXCEPT ![c].socket = 0, ![c].scheduled = TRUE, ![c].armed = TRUE]
           /\ Popped(<<>>)
  <2> DEFINE v == [uuid[c] EXCEPT !.socket = 0, !.scheduled = TRUE, !.armed = TRUE]
  <2>1. uuid' = [uuid EXCEPT ![c] = v]
    BY <1>2, <1>5 DEF Slot
  <2>2. v \in Slot /\ SlotKept(uuid[c], v) /\ v.buf = uuid[c].buf /\ v.socket = 0
    BY <1>2 DEF Slot, SlotKept, ConnectionAgrees
  <2> HIDE DEF v
  <2>3. parsed[c] + v.buf + v.socket <= sent[c]
    BY <1>2, <2>2 DEF ConnectionAgrees, Slot
  <2> QED
    BY <1>1, <1>5, <2>1, <2>2, <2>3, MildTask, TaskDone
<1>6. CASE uuid' = [uuid EXCEPT ![c].armed = TRUE] /\ Popped(<<>>)
  <2> DEFINE v == [uuid[c] EXCEPT !.armed = TRUE]
  <2>1. uuid' = [uuid EXCEPT ![c] = v]
    BY <1>6
  <2>2. v \in Slot /\ SlotKept(uuid[c], v) /\ v.buf = uuid[c].buf /\ v.socket = uuid[c].socket
    BY <1>2 DEF Slot, SlotKept, ConnectionAgrees
  <2> HIDE DEF v
  <2>3. parsed[c] + v.buf + v.socket <= sent[c]
    BY <1>2, <2>2 DEF ConnectionAgrees
  <2> QED
    BY <1>1, <1>6, <2>1, <2>2, <2>3, MildTask, TaskDone
<1> QED
    BY <1>3, <1>4, <1>5, <1>6 DEF deferred_on_data_Elsewhere

LEMMA CloseStep ==
    ASSUME Inv, NEW t \in Thread, NEW c \in Conn, deferred_on_close(t, c)
    PROVE  Inv' /\ (HandledInTime => HandledInTime')
<1>1. Pops(t, "on_close", c) /\ UNCHANGED <<conns, fibers, missed, misused, stop, th>>
    BY DEF deferred_on_close
<1>2. CASE uuid[c].lock = NULL
  <2> DEFINE v == [uuid[c] EXCEPT !.freed = TRUE]
  <2>1. uuid' = [uuid EXCEPT ![c] = v] /\ Popped(<<>>)
    BY <1>2 DEF deferred_on_close
  <2>2. uuid[c].protocol # "http1"
    BY <1>1, PoppedNext DEF Inv, TasksAgree
  <2>3. v \in Slot /\ SlotKept(uuid[c], v) /\ v.buf = uuid[c].buf /\ v.socket = uuid[c].socket
        /\ ConnectionAgrees(c)
    <3>1. uuid[c] \in Slot /\ ConnectionAgrees(c)
      BY DEF Inv, Typed
    <3>2. v \in Slot /\ v.buf = uuid[c].buf /\ v.socket = uuid[c].socket
      BY <3>1 DEF Slot
    <3>3. SlotKept(uuid[c], v)
      BY <1>2, <2>2, <3>1 DEF Slot, SlotKept, ConnectionAgrees
    <3> QED
      BY <3>1, <3>2, <3>3
  <2> HIDE DEF v
  <2>4. parsed[c] + v.buf + v.socket <= sent[c]
    BY <2>3 DEF ConnectionAgrees
  <2> QED
    BY <1>1, <2>1, <2>3, <2>4, MildTask, TaskDone
<1>3. CASE uuid[c].lock # NULL
    BY <1>1, <1>3, TaskPutBack DEF deferred_on_close
<1> QED
    BY <1>2, <1>3

LEMMA ShutdownStep ==
    ASSUME Inv, NEW t \in Thread, NEW c \in Conn, deferred_on_shutdown(t, c)
    PROVE  Inv' /\ (HandledInTime => HandledInTime')
<1>1. Pops(t, "on_shutdown", c) /\ UNCHANGED <<conns, fibers, missed, misused, stop, th>>
    BY DEF deferred_on_shutdown
<1>2. CASE Busy(c)
    BY <1>1, <1>2, TaskPutBack DEF deferred_on_shutdown
<1>3. CASE ~Busy(c)
  <2>1. uuid' = [uuid EXCEPT ![c] = Cleared(uuid[c])] /\ Popped(ClearedTasks(c))
    BY <1>3 DEF deferred_on_shutdown
  <2>2. Mild(ClearedTasks(c)) /\ \A d \in Conn : Absent(ClearedTasks(c), "on_close", d) \/ d = c
    BY LeftBehind
  <2> QED
    BY <1>1, <2>1, <2>2, ClearedKept, TaskDone
<1> QED
    BY <1>2, <1>3

LEMMA PostponeStep ==
    ASSUME Inv, NEW t \in Thread, NEW c \in Conn, fio_io_task_postpone(t, c)
    PROVE  Inv' /\ (HandledInTime => HandledInTime')
    BY TaskPutBack DEF fio_io_task_postpone

\* SetToSeq lists each element of a finite set.
LEMMA Listed ==
    ASSUME NEW S \in SUBSET TaskRecord, IsFiniteSet(S)
    PROVE  /\ SetToSeq(S) \in Seq(TaskRecord)
           /\ \A i \in DOMAIN SetToSeq(S) : SetToSeq(S)[i] \in S
<1>1. Cardinality(S) \in Nat /\ ExistsBijection(1 .. Cardinality(S), S)
    BY FS_CardinalityType
<1>2. \E f \in [1 .. Cardinality(S) -> S] : IsInjective(f)
  <2>1. PICK g : g \in Bijection(1 .. Cardinality(S), S)
    BY <1>1 DEF ExistsBijection
  <2>2. g \in [1 .. Cardinality(S) -> S] /\ \A a, b \in 1 .. Cardinality(S) : g[a] = g[b] => a = b
    BY <2>1 DEF Bijection, Injection, IsInjective
  <2> QED
    BY <2>2 DEF IsInjective
<1>3. SetToSeq(S) \in [1 .. Cardinality(S) -> S]
    BY <1>2 DEF SetToSeq
<1> QED
    BY <1>1, <1>3

LEMMA CleanupStep ==
    ASSUME Inv, fio_worker_cleanup
    PROVE  Inv' /\ (HandledInTime => HandledInTime')
<1> DEFINE S == {Task("on_shutdown", c, FALSE) : c \in {d \in Conn : uuid[d].open}}
           q == SetToSeq(S)
<1>1. normal' = q /\ normal = <<>> /\ urgent' = urgent /\ sent' = sent
      /\ UNCHANGED <<uuid, request, answers, parsed, fibers, missed, misused, stop, th>>
    BY DEF fio_worker_cleanup, conns
<1>2. S \in SUBSET TaskRecord /\ \A x \in S : x.func = "on_shutdown"
  <2>1. \A c \in Conn : Task("on_shutdown", c, FALSE) \in TaskRecord
                       /\ Task("on_shutdown", c, FALSE).func = "on_shutdown"
    BY DEF TaskRecord, Task, Function
  <2> QED
    BY <2>1
<1>3. IsFiniteSet(S)
  <2> DEFINE C == {d \in Conn : uuid[d].open}
             g == [c \in C |-> Task("on_shutdown", c, FALSE)]
  <2>1. IsFiniteSet(C)
    BY RequestsAssumption, FS_Subset
  <2>2. g \in Surjection(C, S)
    BY DEF Surjection
  <2> HIDE DEF C, S, g
  <2> QED
    BY <2>1, <2>2, FS_Surjection
<1> HIDE DEF S
<1>4. q \in Seq(TaskRecord) /\ \A i \in DOMAIN q : q[i].func = "on_shutdown"
    BY <1>2, <1>3, Listed
<1> HIDE DEF q
<1>5. \A f, d : f # "on_shutdown" => Absent(q, f, d) /\ AtMostOne(q, f, d)
    BY <1>4 DEF Absent, AtMostOne
<1>6. "on_shutdown" \notin Single
    BY DEF Single
<1>7. Rearranged(<<>>) /\ \A d \in Conn : Absent(<<>>, "on_close", d)
    BY <1>1, <1>4, <1>5, <1>6, MildTask DEF Rearranged
<1>8. \A d \in Conn : /\ SlotKept(uuid[d], uuid'[d])
                      /\ parsed[d] + uuid'[d].buf + uuid'[d].socket <= sent'[d]
                      /\ sent'[d] <= REQUESTS[d]
    BY <1>1, Unmoved DEF Inv, ConnectionAgrees
<1>9. uuid' \in [Conn -> Slot] /\ sent' \in [Conn -> Nat]
    BY <1>1 DEF Inv, Typed
<1> QED
    BY <1>1, <1>7, <1>8, <1>9, Frame DEF Undisturbed

-----------------------------------------------------------------------------
\* Steps about one connection.

SameElsewhere(c) ==
    /\ \A d \in Conn \ {c} :
          /\ uuid'[d] = uuid[d] /\ request'[d] = request[d] /\ answers'[d] = answers[d]
          /\ sent'[d] = sent[d] /\ parsed'[d] = parsed[d]
          /\ handle'[d] = handle[d] /\ fiber'[d] = fiber[d]
          /\ d \in subs' <=> d \in subs

LEMMA OnlyAt ==
    ASSUME Inv, NEW c \in Conn, SameElsewhere(c),
           \A u \in Thread : ThreadAgrees(u)' \/ (th'[u] = th[u] /\ th[u].c # c),
           ConnectionAgrees(c)', AnswersAgree(c)'
    PROVE  /\ \A u \in Thread : ThreadAgrees(u)'
           /\ \A d \in Conn : ConnectionAgrees(d)' /\ AnswersAgree(d)'
<1>1. ASSUME NEW u \in Thread PROVE ThreadAgrees(u)'
  <2>1. CASE th'[u] = th[u] /\ th[u].c # c
    <3>1. ThreadAgrees(u)
      BY DEF Inv
    <3>2. CASE th[u].c \in Conn
      <4>1. th[u].c \in Conn \ {c}
        BY <2>1, <3>2
      <4> QED
        BY <2>1, <3>1, <4>1 DEF SameElsewhere, ThreadAgrees, Settled
    <3>3. CASE th[u].c \notin Conn
      BY <2>1, <3>1, <3>3 DEF ThreadAgrees
    <3> QED
      BY <3>2, <3>3
  <2> QED
    BY <2>1
<1>2. ASSUME NEW d \in Conn \ {c} PROVE ConnectionAgrees(d)' /\ AnswersAgree(d)'
  <2>1. ConnectionAgrees(d) /\ AnswersAgree(d)
    BY DEF Inv
  <2>2. ConnectionAgrees(d)'
    BY <2>1 DEF SameElsewhere, ConnectionAgrees, Settled
  <2>3. AnswersAgree(d)'
    BY <2>1 DEF SameElsewhere, AnswersAgree
  <2> QED
    BY <2>2, <2>3
<1> QED
    BY <1>1, <1>2

\* A thread that holds the lock of a protocol, or takes it, works alone on it.
LEMMA ThreadStep ==
    ASSUME Inv, NEW t \in Thread, NEW c \in Conn, uuid[c].lock \in {t, NULL}, SameElsewhere(c),
           \A u \in Thread \ {t} : th'[u] = th[u],
           ThreadAgrees(t)', ConnectionAgrees(c)', AnswersAgree(c)'
    PROVE  /\ \A u \in Thread : ThreadAgrees(u)'
           /\ \A d \in Conn : ConnectionAgrees(d)' /\ AnswersAgree(d)'
           /\ \A u \in Thread \ {t} : th[u].c = c => th[u].pc \in {"idle", "rearm"}
<1>1. ASSUME NEW u \in Thread \ {t}, th[u].c = c
      PROVE  th[u].pc \in {"idle", "rearm"} /\ ThreadAgrees(u)'
  <2>1. ThreadAgrees(u) /\ th[u] \in Place /\ u # NULL /\ th'[u] = th[u]
    BY RequestsAssumption DEF Inv, Typed
  <2>2. th[u].pc \in {"idle", "rearm"}
    BY <1>1, <2>1 DEF ThreadAgrees, Place
  <2> QED
    BY <1>1, <2>1, <2>2 DEF ThreadAgrees
<1>2. \A u \in Thread : ThreadAgrees(u)' \/ (th'[u] = th[u] /\ th[u].c # c)
    BY <1>1
<1> QED
    BY <1>1, <1>2, OnlyAt

LEMMA TasksKept ==
    ASSUME Inv, NEW d \in Conn, NEW more, Rearranged(more),
           Absent(more, "on_close", d) \/ uuid'[d].protocol # "http1",
           uuid'[d].protocol = "http1" => uuid[d].protocol = "http1",
           handle'[d] = handle[d], fiber'[d] = fiber[d]
    PROVE  TasksAgree(d)'
<1>1. TasksAgree(d) /\ urgent' = urgent
    BY DEF Inv, Rearranged
<1>2. \A f \in Single : /\ Absent(normal, f, d) => Absent(normal', f, d)
                        /\ AtMostOne(normal, f, d) => AtMostOne(normal', f, d)
    BY DEF Rearranged
<1>3. Absent(normal', "on_close", d) \/ uuid'[d].protocol # "http1"
    BY <1>1 DEF Rearranged, TasksAgree
<1>4. "pause" \in Single /\ "fiber" \in Single /\ "resume" \in Single
    BY DEF Single
<1> QED
    BY <1>1, <1>2, <1>3, <1>4 DEF TasksAgree

LEMMA Replies ==
    ASSUME NEW u \in Slot, NEW how \in {"respond", "websocket", "sse", "tcp"}
    PROVE  /\ Replied(u, how) \in Slot /\ Alike(u, Replied(u, how))
           /\ Replied(u, how).open = u.open
           /\ Replied(u, how).protocol = IF u.open /\ how # "respond" THEN how ELSE u.protocol
           /\ how \in {"websocket", "tcp"} => Replied(u, how).stop # {}
<1>1. Finished(u) \in Slot /\ Alike(u, Finished(u))
      /\ Finished(u).open = u.open /\ Finished(u).protocol = u.protocol
    BY SlotOperations
<1>2. ASSUME NEW v \in Slot, how # "respond"
      PROVE  /\ Attached(v, how) \in Slot /\ Alike(v, Attached(v, how))
             /\ Attached(v, how).open = v.open /\ Attached(v, how).stop = v.stop
             /\ Attached(v, how).protocol = IF v.open THEN how ELSE v.protocol
  <2>1. CASE v.open
    <3>1. Attached(v, how) = [v EXCEPT !.protocol = how]
      BY <2>1 DEF Attached
    <3> DEFINE w == [v EXCEPT !.protocol = how]
    <3>2. w \in Slot /\ Alike(v, w) /\ w.open = v.open /\ w.stop = v.stop /\ w.protocol = how
      BY <1>2 DEF Slot, Alike
    <3> QED
      BY <2>1, <3>1, <3>2
  <2>2. CASE ~v.open
    BY <2>2 DEF Attached, Alike
  <2> QED
    BY <2>1, <2>2
<1>3. CASE how = "respond"
    BY <1>1, <1>3 DEF Replied
<1>4. CASE how = "sse"
    BY <1>1, <1>2, <1>4 DEF Replied, http1_upgrade2sse, Alike
<1>5. CASE how = "websocket"
  <2> DEFINE v == [Finished(u) EXCEPT !.stop = {1}]
  <2>1. v \in Slot /\ Alike(Finished(u), v) /\ v.open = u.open /\ v.protocol = u.protocol
        /\ v.stop = {1}
    BY <1>1 DEF Slot, Alike
  <2>2. Replied(u, how) = fio_suspend(Attached(v, how))
    BY <1>5 DEF Replied, http1_http2websocket_server
  <2> HIDE DEF v
  <2>3. /\ Attached(v, how) \in Slot /\ Alike(v, Attached(v, how))
        /\ Attached(v, how).open = v.open /\ Attached(v, how).stop = v.stop
        /\ Attached(v, how).protocol = IF v.open THEN how ELSE v.protocol
    BY <1>2, <1>5, <2>1
  <2>4. LET w == fio_suspend(Attached(v, how)) IN
        /\ w \in Slot /\ Alike(Attached(v, how), w) /\ w.open = v.open /\ w.stop = {1}
        /\ w.protocol = IF v.open THEN how ELSE v.protocol
    BY <2>1, <2>3, SlotOperations
  <2> QED
    BY <1>1, <1>5, <2>1, <2>2, <2>3, <2>4 DEF Alike
<1>6. CASE how = "tcp"
  <2> DEFINE v == [u EXCEPT !.stop = {1, 2}, !.armed = u.open]
  <2>1. v \in Slot /\ Alike(u, v) /\ v.open = u.open /\ v.protocol = u.protocol
        /\ v.stop = {1, 2}
    BY DEF Slot, Alike
  <2>2. Replied(u, how) = Attached(Finished(v), how)
    BY <1>6 DEF Replied, http1_hijack
  <2> HIDE DEF v
  <2>3. /\ Finished(v) \in Slot /\ Alike(v, Finished(v))
        /\ Finished(v).open = v.open /\ Finished(v).protocol = v.protocol
        /\ Finished(v).stop = {1, 2} \ {1}
    BY <2>1, SlotOperations
  <2>4. LET w == Attached(Finished(v), how) IN
        /\ w \in Slot /\ Alike(Finished(v), w) /\ w.open = v.open /\ w.stop = {1, 2} \ {1}
        /\ w.protocol = IF v.open THEN how ELSE v.protocol
    BY <1>2, <1>6, <2>3
  <2>5. {1, 2} \ {1} # {}
    OBVIOUS
  <2> QED
    BY <1>6, <2>1, <2>2, <2>3, <2>4, <2>5 DEF Alike
<1> QED
    BY <1>3, <1>4, <1>5, <1>6

LEMMA RepliesLeave ==
    ASSUME NEW c \in Conn, NEW u, NEW how \in {"respond", "websocket", "sse", "tcp"}
    PROVE  /\ Mild(RepliedTasks(c, u, how))
           /\ \A d \in Conn : \/ Absent(RepliedTasks(c, u, how), "on_close", d)
                              \/ d = c /\ u.open /\ how # "respond"
<1>1. /\ Mild(OnData(c, u)) /\ Mild(OldClosed(c, u))
      /\ \A d \in Conn : /\ Absent(OnData(c, u), "on_close", d)
                         /\ Absent(OldClosed(c, u), "on_close", d) \/ (d = c /\ u.open)
    BY LeftBehind
<1>2. CASE how = "respond"
    BY <1>2, MildTask DEF RepliedTasks
<1>3. CASE how = "websocket"
    BY <1>1, <1>3, MildJoined DEF RepliedTasks
<1>4. CASE how \in {"sse", "tcp"}
    BY <1>1, <1>4 DEF RepliedTasks
<1> QED
    BY <1>2, <1>3, <1>4

LEMMA ThreadMoves ==
    ASSUME Inv, NEW t \in Thread, NEW c \in Conn, uuid[c].lock \in {t, NULL},
           Typed', stop' = stop, handle' = handle, fiber' = fiber, SameElsewhere(c),
           \A u \in Thread \ {t} : th'[u] = th[u],
           ThreadAgrees(t)', ConnectionAgrees(c)', AnswersAgree(c)',
           NEW more, Rearranged(more),
           \A d \in Conn : Absent(more, "on_close", d) \/ (d = c /\ uuid'[c].protocol # "http1"),
           uuid'[c].protocol = "http1" => uuid[c].protocol = "http1"
    PROVE  Inv'
<1>1. /\ \A u \in Thread : ThreadAgrees(u)'
      /\ \A d \in Conn : ConnectionAgrees(d)' /\ AnswersAgree(d)'
    BY ThreadStep
<1>2. CountAgrees'
    BY DEF Inv, CountAgrees, Paused
<1>3. ASSUME NEW d \in Conn PROVE TasksAgree(d)'
  <2>1. uuid'[d].protocol = "http1" => uuid[d].protocol = "http1"
    BY DEF SameElsewhere
  <2>2. Absent(more, "on_close", d) \/ uuid'[d].protocol # "http1"
    OBVIOUS
  <2> QED
    BY <2>1, <2>2, TasksKept
<1> QED
    BY <1>1, <1>2, <1>3 DEF Inv

LEMMA HandledStep ==
    ASSUME Inv, HandledInTime, NEW t \in Thread, NEW c \in Conn, uuid[c].lock \in {t, NULL},
           SameElsewhere(c), \A u \in Thread \ {t} : th'[u] = th[u],
           ThreadAgrees(t)', ConnectionAgrees(c)', AnswersAgree(c)',
           ~misused', th'[t].pc # "idle" => th'[t].c = c,
           th'[t].pc \in {"consume", "throttle", "app", "pause"} /\ "defer" \in App =>
               uuid'[c].protocol \in {"http1", "none"},
           th'[t].pc = "pause" => "defer" \in App,
           handle'[c] # "none" => uuid'[c].protocol \in {"http1", "none"}
    PROVE  HandledInTime'
<1>1. \A u \in Thread \ {t} : th[u].c = c => th[u].pc \in {"idle", "rearm"}
    BY ThreadStep
<1>2. \A u \in Thread : th'[u].pc \in {"consume", "throttle", "app", "pause"} /\ "defer" \in App =>
          uuid'[th'[u].c].protocol \in {"http1", "none"}
  <2>1. SUFFICES ASSUME NEW u \in Thread, "defer" \in App,
                        th'[u].pc \in {"consume", "throttle", "app", "pause"}
                 PROVE  uuid'[th'[u].c].protocol \in {"http1", "none"}
    OBVIOUS
  <2>2. CASE u = t
    BY <2>1, <2>2
  <2>3. CASE u # t
    <3>1. th'[u] = th[u] /\ th[u].c # c /\ th[u].c \in Conn
      BY <1>1, <2>1, <2>3 DEF Inv, ThreadAgrees
    <3>2. uuid'[th[u].c] = uuid[th[u].c]
      BY <3>1 DEF SameElsewhere
    <3> QED
      BY <2>1, <2>3, <3>1, <3>2 DEF HandledInTime
  <2> QED
    BY <2>2, <2>3
<1>3. \A u \in Thread : th'[u].pc = "pause" => "defer" \in App
    BY DEF HandledInTime
<1>4. \A d \in Conn : handle'[d] # "none" => uuid'[d].protocol \in {"http1", "none"}
    BY DEF HandledInTime, SameElsewhere
<1> QED
    BY <1>2, <1>3, <1>4 DEF HandledInTime

\* What is known of the connection a thread works on.
LEMMA Working ==
    ASSUME Inv, NEW t \in Thread, th[t].pc # "idle"
    PROVE  /\ th[t].c \in Conn /\ th[t] \in Place /\ th \in [Thread -> Place]
           /\ uuid[th[t].c] \in Slot /\ uuid \in [Conn -> Slot]
           /\ ThreadAgrees(t) /\ ConnectionAgrees(th[t].c) /\ AnswersAgree(th[t].c)
    BY DEF Inv, Typed, ThreadAgrees

LEMMA NothingQueued ==
    ASSUME Typed, normal' = normal, urgent' = urgent
    PROVE  Rearranged(<<>>) /\ \A d \in Conn : Absent(<<>>, "on_close", d)
    BY MildTask DEF Typed, Rearranged

LEMMA DataStep ==
    ASSUME Inv, NEW t \in Thread, NEW c \in Conn, http1_on_data(t, c)
    PROVE  Inv' /\ (HandledInTime => HandledInTime')
<1> DEFINE u == [uuid[c] EXCEPT !.lock = t, !.scheduled = FALSE]
           v == IF Stopped(u) THEN fio_suspend(u)
                ELSE [u EXCEPT !.buf = u.buf + u.socket, !.socket = 0]
           p == IF Stopped(u) THEN [pc |-> "unlock", c |-> c, limit |-> 0]
                ELSE [pc |-> "consume", c |-> c, limit |-> PIPELINE]
<1>1. /\ Pops(t, "on_data", c) /\ Popped(<<>>)
      /\ uuid' = [uuid EXCEPT ![c] = v] /\ th' = [th EXCEPT ![t] = p]
      /\ uuid[c].protocol = "http1" /\ uuid[c].lock = NULL
      /\ UNCHANGED <<conns, fibers, missed, misused, stop>>
    BY DEF http1_on_data
<1>2. /\ uuid[c] \in Slot /\ ConnectionAgrees(c) /\ AnswersAgree(c) /\ Typed
      /\ sent[c] \in Nat /\ parsed[c] \in Nat
    BY DEF Inv, Typed
<1>3. Rearranged(<<>>) /\ \A d \in Conn : Absent(<<>>, "on_close", d)
    BY <1>1, <1>2, MildTask, MildPopped
<1>4. /\ u \in Slot /\ u.lock = t /\ u.freed = uuid[c].freed /\ u.socket = uuid[c].socket
      /\ u.buf = uuid[c].buf /\ u.open = uuid[c].open /\ u.protocol = "http1" /\ u.stop = uuid[c].stop
    BY <1>1, <1>2 DEF Slot
<1> HIDE DEF u
<1>5. /\ v \in Slot /\ v.lock = t /\ v.freed = u.freed /\ v.open = u.open /\ v.protocol = u.protocol
      /\ v.stop = u.stop /\ v.buf + v.socket = u.buf + u.socket
      /\ v.buf \in Nat /\ v.socket \in Nat /\ u.buf \in Nat /\ u.socket \in Nat
  <2>1. CASE Stopped(u)
    <3>1. v = fio_suspend(u)
      BY <2>1
    <3> HIDE DEF v
    <3> QED
      BY <1>4, <3>1, SlotOperations DEF Alike, Slot
  <2>2. CASE ~Stopped(u)
    <3>1. v = [u EXCEPT !.buf = u.buf + u.socket, !.socket = 0]
      BY <2>2
    <3> HIDE DEF v
    <3> DEFINE b == u.buf + u.socket
    <3>2. b \in Nat /\ u.buf \in Nat /\ u.socket \in Nat /\ b + 0 = b
      BY <1>4 DEF Slot
    <3>3. v = [u EXCEPT !.buf = b, !.socket = 0]
      BY <3>1
    <3> HIDE DEF b
    <3>4. /\ v \in Slot /\ v.lock = u.lock /\ v.freed = u.freed /\ v.open = u.open
          /\ v.protocol = u.protocol /\ v.stop = u.stop /\ v.buf = b /\ v.socket = 0
      BY <1>4, <3>2, <3>3 DEF Slot
    <3> QED
      BY <1>4, <3>2, <3>4 DEF b
  <2> QED
    BY <2>1, <2>2
<1> HIDE DEF v
<1>6. p \in Place /\ p.c = c /\ p.pc # "idle"
    BY RequestsAssumption DEF Place
<1>7. p.pc = "unlock" \/ (p.pc = "consume" /\ p.limit = PIPELINE /\ u.stop = {})
    BY DEF Stopped
<1> HIDE DEF p
<1>8. /\ uuid'[c] = v /\ th'[t] = p /\ Typed' /\ SameElsewhere(c)
      /\ \A s \in Thread \ {t} : th'[s] = th[s]
  <2>1. uuid'[c] = v /\ th'[t] = p /\ uuid' \in [Conn -> Slot] /\ th' \in [Thread -> Place]
        /\ \A s \in Thread \ {t} : th'[s] = th[s]
        /\ \A d \in Conn \ {c} : uuid'[d] = uuid[d]
    BY <1>1, <1>2, <1>5, <1>6 DEF Typed
  <2> QED
    BY <1>1, <1>2, <1>3, <2>1 DEF Typed, SameElsewhere, conns, fibers, Rearranged
<1>9. Settled(c) /\ (Settled(c))'
    BY <1>1, <1>2, <1>4, <1>5, <1>8 DEF ConnectionAgrees, Settled, conns, fibers
<1>10. ThreadAgrees(t)'
  <2>1. ~v.freed /\ PIPELINE > 0
    BY <1>1, <1>2, <1>4, <1>5, RequestsAssumption DEF ConnectionAgrees
  <2>2. CASE p.pc = "unlock"
    BY <1>5, <1>6, <1>8, <1>9, <2>1, <2>2 DEF ThreadAgrees
  <2>3. CASE p.pc = "consume" /\ p.limit = PIPELINE /\ u.stop = {}
    <3>1. handle[c] = "none" /\ c \notin subs /\ request[c] = 0 /\ fiber[c] = "none"
      BY <1>1, <1>2, <1>4, <1>9, <2>3 DEF ConnectionAgrees, Settled
    <3> QED
      BY <1>1, <1>5, <1>6, <1>8, <2>1, <2>3, <3>1 DEF ThreadAgrees, conns, fibers
  <2> QED
    BY <1>7, <2>2, <2>3
<1>11. ConnectionAgrees(c)' /\ AnswersAgree(c)'
  <2>1. parsed[c] + v.buf + v.socket = parsed[c] + u.buf + u.socket
    BY <1>2, <1>5
  <2> QED
    BY <1>1, <1>2, <1>4, <1>5, <1>8, <1>9, <2>1
       DEF ConnectionAgrees, AnswersAgree, conns, fibers
<1>12. Inv'
    BY <1>1, <1>3, <1>4, <1>5, <1>8, <1>10, <1>11, ThreadMoves DEF conns, fibers
<1>13. HandledInTime => HandledInTime'
    BY <1>1, <1>4, <1>5, <1>6, <1>7, <1>8, <1>10, <1>11, HandledStep DEF HandledInTime
<1> QED
    BY <1>12, <1>13

LEMMA Goes ==
    ASSUME NEW t \in Thread, th \in [Thread -> Place], NEW p \in Place, th' = [th EXCEPT ![t] = p]
    PROVE  /\ th' \in [Thread -> Place] /\ th'[t] = p
           /\ \A s \in Thread \ {t} : th'[s] = th[s]
    OBVIOUS

LEMMA GoesTo ==
    ASSUME NEW t \in Thread, th \in [Thread -> Place],
           NEW x \in {"throttle", "app", "pause", "unlock", "rearm"}, th' = [th EXCEPT ![t].pc = x]
    PROVE  /\ th' \in [Thread -> Place]
           /\ th'[t].pc = x /\ th'[t].c = th[t].c /\ th'[t].limit = th[t].limit
           /\ \A s \in Thread \ {t} : th'[s] = th[s]
<1> DEFINE p == [th[t] EXCEPT !.pc = x]
<1>1. p \in Place /\ p.pc = x /\ p.c = th[t].c /\ p.limit = th[t].limit
    BY DEF Place
<1>2. th' = [th EXCEPT ![t] = p]
    OBVIOUS
<1> HIDE DEF p
<1> QED
    BY <1>1, <1>2, Goes

LEMMA SlotSet ==
    ASSUME NEW c \in Conn, uuid \in [Conn -> Slot], NEW v \in Slot, uuid' = [uuid EXCEPT ![c] = v]
    PROVE  /\ uuid' \in [Conn -> Slot] /\ uuid'[c] = v
           /\ \A d \in Conn \ {c} : uuid'[d] = uuid[d]
    OBVIOUS

\* The thread goes on without touching anything of its connection.
LEMMA JustGoes ==
    ASSUME Inv, NEW t \in Thread, th[t].pc \in {"consume", "throttle", "app", "pause", "unlock"},
           NEW x \in {"throttle", "unlock"}, th' = [th EXCEPT ![t].pc = x],
           x = "throttle" => th[t].pc = "consume",
           th[t].pc \in {"consume", "throttle"},
           UNCHANGED <<uuid, conns, fibers, missed, misused, stop, urgent, normal>>
    PROVE  Inv' /\ (HandledInTime => HandledInTime')
<1>0. PICK c \in Conn : c = th[t].c
    BY Working
<1>1. /\ c \in Conn /\ th[t] \in Place /\ th \in [Thread -> Place] /\ ThreadAgrees(t)
      /\ ConnectionAgrees(c) /\ AnswersAgree(c) /\ Typed
    BY <1>0, Working DEF Inv
<1>2. /\ th' \in [Thread -> Place]
      /\ th'[t].pc = x /\ th'[t].c = c /\ th'[t].limit = th[t].limit
      /\ \A s \in Thread \ {t} : th'[s] = th[s]
    BY <1>0, <1>1, GoesTo
<1>3. uuid[c].lock = t
    BY <1>0, <1>1 DEF ThreadAgrees
<1>a. /\ uuid' = uuid /\ request' = request /\ answers' = answers /\ sent' = sent /\ parsed' = parsed
      /\ handle' = handle /\ fiber' = fiber /\ store' = store /\ subs' = subs /\ missed' = missed
      /\ misused' = misused /\ stop' = stop /\ urgent' = urgent /\ normal' = normal
    BY DEF conns, fibers
<1>4. /\ SameElsewhere(c)
      /\ Typed'
      /\ ConnectionAgrees(c)' /\ AnswersAgree(c)'
  <2>1. SameElsewhere(c)
    BY <1>a DEF SameElsewhere
  <2>2. Typed'
    BY <1>1, <1>2, <1>a DEF Typed
  <2>3. ConnectionAgrees(c)' /\ AnswersAgree(c)'
    BY <1>1, <1>a DEF ConnectionAgrees, AnswersAgree, Settled
  <2> QED
    BY <2>1, <2>2, <2>3
<1>5. ThreadAgrees(t)'
    BY <1>0, <1>1, <1>2, <1>a DEF ThreadAgrees, Settled
<1>6. Inv'
    BY <1>1, <1>2, <1>3, <1>4, <1>5, <1>a, NothingQueued, ThreadMoves
<1>7. HandledInTime => HandledInTime'
    BY <1>0, <1>1, <1>2, <1>3, <1>4, <1>5, <1>a, HandledStep DEF HandledInTime
<1> QED
    BY <1>6, <1>7

LEMMA ConsumeStep ==
    ASSUME Inv, NEW t \in Thread, http1_consume_data(t)
    PROVE  Inv' /\ (HandledInTime => HandledInTime')
<1>1. /\ th[t].pc = "consume" /\ answers' = answers /\ sent' = sent
      /\ handle' = handle /\ fiber' = fiber /\ store' = store /\ subs' = subs /\ missed' = missed
      /\ misused' = misused /\ stop' = stop /\ urgent' = urgent /\ normal' = normal
    BY DEF http1_consume_data, fibers
<1>0. PICK c \in Conn : c = th[t].c
    BY <1>1, Working
<1>2. /\ c \in Conn /\ th[t] \in Place /\ th \in [Thread -> Place] /\ ThreadAgrees(t)
      /\ ConnectionAgrees(c) /\ AnswersAgree(c) /\ Typed /\ uuid[c] \in Slot /\ uuid \in [Conn -> Slot]
    BY <1>0, <1>1, Working DEF Inv
<1>3. /\ uuid[c].lock = t /\ ~uuid[c].freed /\ th[t].limit > 0 /\ handle[c] = "none" /\ c \notin subs
      /\ request[c] = 0 /\ fiber[c] = "none"
    BY <1>0, <1>1, <1>2 DEF ThreadAgrees
<1>4. CASE UNCHANGED <<uuid, request, parsed>> /\ \E x \in {"throttle", "unlock"} : th' = [th EXCEPT ![t].pc = x]
    BY <1>1, <1>4, JustGoes DEF conns, fibers
<1>5. CASE /\ uuid[c].buf > 0 /\ Parse(c) /\ uuid' = [uuid EXCEPT ![c].buf = @ - 1]
           /\ th' = [th EXCEPT ![t].pc = "app"]
  <2> DEFINE v == [uuid[c] EXCEPT !.buf = @ - 1]
             n == parsed[c] + 1
  <2>1. v \in Slot /\ v.buf = uuid[c].buf - 1 /\ v.socket = uuid[c].socket /\ v.lock = t /\ ~v.freed
        /\ v.open = uuid[c].open /\ v.protocol = uuid[c].protocol /\ v.stop = uuid[c].stop
        /\ uuid[c].buf \in Nat /\ uuid[c].socket \in Nat
    BY <1>2, <1>3, <1>5 DEF Slot
  <2>2. uuid' = [uuid EXCEPT ![c] = v]
    BY <1>5
  <2> HIDE DEF v
  <2>3. uuid' \in [Conn -> Slot] /\ uuid'[c] = v /\ \A d \in Conn \ {c} : uuid'[d] = uuid[d]
    BY <1>2, <2>1, <2>2, SlotSet
  <2>4. /\ th' \in [Thread -> Place]
        /\ th'[t].pc = "app" /\ th'[t].c = c /\ th'[t].limit = th[t].limit
        /\ \A s \in Thread \ {t} : th'[s] = th[s]
    BY <1>0, <1>2, <1>5, GoesTo
  <2>5. /\ parsed' = [parsed EXCEPT ![c] = n] /\ request' = [request EXCEPT ![c] = n]
        /\ parsed[c] \in Nat /\ n \in Nat \ {0} /\ sent[c] \in Nat
    BY <1>2, <1>5 DEF Parse, Typed
  <2>6. /\ parsed'[c] = n /\ request'[c] = n /\ parsed' \in [Conn -> Nat] /\ request' \in [Conn -> Nat]
        /\ \A d \in Conn \ {c} : parsed'[d] = parsed[d] /\ request'[d] = request[d]
    BY <1>2, <2>5 DEF Typed
  <2>7. Typed' /\ SameElsewhere(c)
    BY <1>1, <1>2, <2>3, <2>4, <2>6 DEF Typed, SameElsewhere
  <2>8. ThreadAgrees(t)'
    BY <1>1, <1>2, <1>3, <2>1, <2>3, <2>4, <2>5, <2>6 DEF ThreadAgrees
  <2>9. ConnectionAgrees(c)'
    <3>1. parsed'[c] + uuid'[c].buf + uuid'[c].socket = parsed[c] + uuid[c].buf + uuid[c].socket
      <4>1. \A a, b, s \in Nat : (a + 1) + (b - 1) + s = a + b + s
        OBVIOUS
      <4> QED
        BY <2>1, <2>3, <2>5, <2>6, <4>1 DEF n
    <3>2. uuid'[c].lock # NULL
      BY <2>1, <2>3, RequestsAssumption
    <3> QED
      BY <1>1, <1>2, <1>3, <2>1, <2>3, <2>6, <3>1, <3>2 DEF ConnectionAgrees
  <2>10. AnswersAgree(c)'
    <3>1. n # 0 /\ n - 1 = parsed[c]
      BY <2>5
    <3> HIDE DEF n
    <3> QED
      BY <1>1, <1>2, <1>3, <2>1, <2>3, <2>6, <3>1 DEF AnswersAgree
  <2>11. Rearranged(<<>>) /\ \A d \in Conn : Absent(<<>>, "on_close", d)
    BY <1>1, <1>2, NothingQueued
  <2>12. Inv'
    BY <1>1, <1>2, <1>3, <2>1, <2>3, <2>4, <2>7, <2>8, <2>9, <2>10, <2>11, ThreadMoves
  <2>13. HandledInTime => HandledInTime'
    BY <1>0, <1>1, <1>2, <1>3, <2>1, <2>3, <2>4, <2>7, <2>8, <2>9, <2>10, HandledStep DEF HandledInTime
  <2> QED
    BY <2>12, <2>13
<1> QED
    BY <1>0, <1>4, <1>5 DEF http1_consume_data

LEMMA ThrottleStep ==
    ASSUME Inv, NEW t \in Thread, http1_throttle(t)
    PROVE  Inv' /\ (HandledInTime => HandledInTime')
<1>0. PICK c \in Conn : c = th[t].c
    BY Working DEF http1_throttle
<1> DEFINE w == [uuid[c] EXCEPT !.stop = @ \cup {4}]
           v == fio_suspend(w)
<1>1. /\ th[t].pc = "throttle" /\ uuid' = [uuid EXCEPT ![c] = v]
      /\ missed' = IF ReadySpent(c) THEN missed \cup {c} ELSE missed
      /\ th' = [th EXCEPT ![t].pc = "unlock"]
      /\ request' = request /\ answers' = answers /\ sent' = sent /\ parsed' = parsed
      /\ handle' = handle /\ fiber' = fiber /\ store' = store /\ subs' = subs
      /\ misused' = misused /\ stop' = stop /\ urgent' = urgent /\ normal' = normal
    BY <1>0 DEF http1_throttle, conns, fibers
<1>2. /\ c \in Conn /\ th[t] \in Place /\ th \in [Thread -> Place] /\ ThreadAgrees(t)
      /\ ConnectionAgrees(c) /\ AnswersAgree(c) /\ Typed /\ uuid[c] \in Slot /\ uuid \in [Conn -> Slot]
    BY <1>0, <1>1, Working DEF Inv
<1>3. /\ uuid[c].lock = t /\ ~uuid[c].freed /\ request[c] = 0 /\ fiber[c] = "none"
    BY <1>0, <1>1, <1>2 DEF ThreadAgrees
<1>4. w \in Slot /\ Alike(uuid[c], w) /\ w.open = uuid[c].open /\ w.protocol = uuid[c].protocol
      /\ w.stop = uuid[c].stop \cup {4}
  <2>1. uuid[c].stop \cup {4} \in SUBSET {1, 2, 4}
    BY <1>2 DEF Slot
  <2> QED
    BY <1>2, <2>1 DEF Slot, Alike
<1> HIDE DEF w
<1>5. v \in Slot /\ Alike(w, v) /\ v.open = w.open /\ v.protocol = w.protocol /\ v.stop = w.stop
    BY <1>4, SlotOperations
<1> HIDE DEF v
<1>6. uuid' \in [Conn -> Slot] /\ uuid'[c] = v /\ \A d \in Conn \ {c} : uuid'[d] = uuid[d]
    BY <1>1, <1>2, <1>5, SlotSet
<1>7. /\ th' \in [Thread -> Place]
      /\ th'[t].pc = "unlock" /\ th'[t].c = c
      /\ \A s \in Thread \ {t} : th'[s] = th[s]
    BY <1>0, <1>1, <1>2, GoesTo
<1>8. Typed' /\ SameElsewhere(c)
    BY <1>1, <1>2, <1>6, <1>7 DEF Typed, SameElsewhere
<1>9. ThreadAgrees(t)'
    BY <1>1, <1>2, <1>3, <1>4, <1>5, <1>6, <1>7 DEF ThreadAgrees, Settled, Alike
<1>10. ConnectionAgrees(c)' /\ AnswersAgree(c)'
    BY <1>1, <1>2, <1>3, <1>4, <1>5, <1>6
       DEF ConnectionAgrees, AnswersAgree, Settled, Alike
<1>11. Rearranged(<<>>) /\ \A d \in Conn : Absent(<<>>, "on_close", d)
    BY <1>1, <1>2, NothingQueued
<1>12. Inv'
    BY <1>1, <1>2, <1>3, <1>4, <1>5, <1>6, <1>7, <1>8, <1>9, <1>10, <1>11, ThreadMoves
<1>13. HandledInTime => HandledInTime'
    BY <1>1, <1>2, <1>3, <1>4, <1>5, <1>6, <1>7, <1>8, <1>9, <1>10, HandledStep DEF HandledInTime
<1> QED
    BY <1>12, <1>13

LEMMA UnlockStep ==
    ASSUME Inv, NEW t \in Thread, protocol_unlock(t)
    PROVE  Inv' /\ (HandledInTime => HandledInTime')
<1>1. PICK c \in Conn : c = th[t].c
    BY Working DEF protocol_unlock
<1> DEFINE v == [uuid[c] EXCEPT !.lock = NULL]
<1>2. /\ th[t].pc = "unlock" /\ uuid' = [uuid EXCEPT ![c] = v] /\ th' = [th EXCEPT ![t].pc = "rearm"]
      /\ request' = request /\ answers' = answers /\ sent' = sent /\ parsed' = parsed
      /\ handle' = handle /\ fiber' = fiber /\ store' = store /\ subs' = subs /\ missed' = missed
      /\ misused' = misused /\ stop' = stop /\ urgent' = urgent /\ normal' = normal
    BY <1>1 DEF protocol_unlock, conns, fibers
<1>3. /\ th[t] \in Place /\ th \in [Thread -> Place] /\ ThreadAgrees(t)
      /\ ConnectionAgrees(c) /\ AnswersAgree(c) /\ Typed /\ uuid[c] \in Slot /\ uuid \in [Conn -> Slot]
    BY <1>1, <1>2, Working DEF Inv
<1>4. uuid[c].lock = t /\ Settled(c)
    BY <1>1, <1>2, <1>3 DEF ThreadAgrees
<1>5. /\ v \in Slot /\ v.open = uuid[c].open /\ v.protocol = uuid[c].protocol /\ v.stop = uuid[c].stop
      /\ v.freed = uuid[c].freed /\ v.socket = uuid[c].socket /\ v.buf = uuid[c].buf
    BY <1>3 DEF Slot
<1> HIDE DEF v
<1>6. uuid' \in [Conn -> Slot] /\ uuid'[c] = v /\ \A d \in Conn \ {c} : uuid'[d] = uuid[d]
    BY <1>2, <1>3, <1>5, SlotSet
<1>7. /\ th' \in [Thread -> Place] /\ th'[t].pc = "rearm" /\ th'[t].c = c
      /\ \A s \in Thread \ {t} : th'[s] = th[s]
    BY <1>1, <1>2, <1>3, GoesTo
<1>8. Typed' /\ SameElsewhere(c)
    BY <1>2, <1>3, <1>6, <1>7 DEF Typed, SameElsewhere
<1>9. ThreadAgrees(t)'
    BY <1>7 DEF ThreadAgrees
<1>10. ConnectionAgrees(c)'
    BY <1>2, <1>3, <1>4, <1>5, <1>6 DEF ConnectionAgrees, Settled
<1>11. AnswersAgree(c)'
    BY <1>2, <1>3, <1>5, <1>6 DEF AnswersAgree
<1>12. Inv'
    BY <1>2, <1>3, <1>4, <1>5, <1>6, <1>7, <1>8, <1>9, <1>10, <1>11, NothingQueued, ThreadMoves
<1>13. HandledInTime => HandledInTime'
    BY <1>2, <1>4, <1>5, <1>6, <1>7, <1>8, <1>9, <1>10, <1>11, HandledStep DEF HandledInTime
<1> QED
    BY <1>12, <1>13

\* The lock may be another thread's by now.
LEMMA RearmStep ==
    ASSUME Inv, NEW t \in Thread, deferred_on_data_rearm(t)
    PROVE  Inv' /\ (HandledInTime => HandledInTime')
<1>1. PICK c \in Conn : c = th[t].c
    BY Working DEF deferred_on_data_rearm
<1>2. /\ request' = request /\ answers' = answers /\ sent' = sent /\ parsed' = parsed
      /\ handle' = handle /\ fiber' = fiber /\ store' = store /\ subs' = subs /\ missed' = missed
      /\ misused' = misused /\ stop' = stop /\ urgent' = urgent /\ normal' = normal
      /\ th' = [th EXCEPT ![t] = Idle]
    BY DEF deferred_on_data_rearm, conns, fibers
<1> DEFINE v == [uuid[c] EXCEPT !.scheduled = TRUE, !.armed = TRUE]
           w == IF uuid[c].open /\ ~uuid[c].scheduled THEN v ELSE uuid[c]
<1>3. uuid[c] \in Slot /\ uuid \in [Conn -> Slot] /\ th \in [Thread -> Place] /\ Typed
    BY DEF Inv, Typed
<1>4. uuid' = [uuid EXCEPT ![c] = w]
  <2>1. CASE uuid[c].open /\ ~uuid[c].scheduled
    BY <1>1, <2>1 DEF deferred_on_data_rearm
  <2>2. CASE ~(uuid[c].open /\ ~uuid[c].scheduled)
    BY <1>1, <1>3, <2>2 DEF deferred_on_data_rearm
  <2> QED
    BY <2>1, <2>2
<1>5. /\ v \in Slot /\ v.open = uuid[c].open /\ v.protocol = uuid[c].protocol /\ v.stop = uuid[c].stop
      /\ v.lock = uuid[c].lock
      /\ v.freed = uuid[c].freed /\ v.socket = uuid[c].socket /\ v.buf = uuid[c].buf
    BY <1>3 DEF Slot
<1>6. /\ w \in Slot /\ w.open = uuid[c].open /\ w.protocol = uuid[c].protocol /\ w.stop = uuid[c].stop
      /\ w.lock = uuid[c].lock
      /\ w.freed = uuid[c].freed /\ w.socket = uuid[c].socket /\ w.buf = uuid[c].buf
  <2> HIDE DEF v
  <2> QED
    BY <1>3, <1>5
<1> HIDE DEF w
<1>7. /\ uuid' \in [Conn -> Slot]
      /\ \A d \in Conn : /\ uuid'[d].open = uuid[d].open /\ uuid'[d].protocol = uuid[d].protocol
                         /\ uuid'[d].stop = uuid[d].stop /\ uuid'[d].lock = uuid[d].lock
                         /\ uuid'[d].freed = uuid[d].freed /\ uuid'[d].socket = uuid[d].socket
                         /\ uuid'[d].buf = uuid[d].buf
    BY <1>3, <1>4, <1>6, SlotSet
<1>8. Idle \in Place /\ Idle.pc = "idle"
    BY RequestsAssumption DEF Idle, Place
<1>9. th' \in [Thread -> Place] /\ th'[t].pc = "idle" /\ \A s \in Thread \ {t} : th'[s] = th[s]
    BY <1>2, <1>3, <1>8, Goes
<1>10. Typed'
    BY <1>2, <1>3, <1>7, <1>9 DEF Typed
<1>11. ASSUME NEW s \in Thread PROVE ThreadAgrees(s)'
  <2>1. CASE s = t
    BY <1>9, <2>1 DEF ThreadAgrees
  <2>2. CASE s # t
    <3>1. th'[s] = th[s] /\ ThreadAgrees(s)
      BY <1>9, <2>2 DEF Inv
    <3> QED
      BY <1>2, <1>7, <3>1 DEF ThreadAgrees, Settled
  <2> QED
    BY <2>1, <2>2
<1>12. ASSUME NEW d \in Conn PROVE ConnectionAgrees(d)' /\ AnswersAgree(d)' /\ TasksAgree(d)'
  <2>1. ConnectionAgrees(d) /\ AnswersAgree(d) /\ TasksAgree(d)
    BY DEF Inv
  <2>2. ConnectionAgrees(d)'
    BY <1>2, <1>7, <2>1 DEF ConnectionAgrees, Settled
  <2>3. AnswersAgree(d)'
    BY <1>2, <1>7, <2>1 DEF AnswersAgree
  <2>4. TasksAgree(d)'
    BY <1>2, <1>7, <2>1 DEF TasksAgree, Absent, AtMostOne
  <2> QED
    BY <2>2, <2>3, <2>4
<1>13. CountAgrees'
    BY <1>2 DEF Inv, CountAgrees, Paused
<1>14. HandledInTime => HandledInTime'
  <2>1. SUFFICES ASSUME HandledInTime PROVE HandledInTime'
    OBVIOUS
  <2>2. \A s \in Thread : th'[s].pc \in {"consume", "throttle", "app", "pause"} =>
            th'[s] = th[s] /\ th[s].c \in Conn
    BY <1>9 DEF Inv, ThreadAgrees
  <2> QED
    BY <1>2, <1>7, <2>1, <2>2 DEF HandledInTime
<1> QED
    BY <1>10, <1>11, <1>12, <1>13, <1>14 DEF Inv

-----------------------------------------------------------------------------
\* The application's answer and the loop of http1_consume_data.

LEMMA OneMore ==
    ASSUME NEW s \in Seq(Nat), s = [i \in 1 .. Len(s) |-> i], NEW n \in Nat, n = Len(s) + 1
    PROVE  /\ Append(s, n) = [i \in 1 .. Len(Append(s, n)) |-> i]
           /\ Len(Append(s, n)) = n /\ Append(s, n) \in Seq(Nat)
<1> DEFINE r == Append(s, n)
<1>1. r \in Seq(Nat) /\ Len(r) = n /\ \A i \in 1 .. n : r[i] = IF i = n THEN n ELSE s[i]
    OBVIOUS
<1>2. \A i \in 1 .. Len(s) : s[i] = i
    OBVIOUS
<1>3. \A i \in 1 .. n : i = n \/ i \in 1 .. Len(s)
    OBVIOUS
<1> HIDE DEF r
<1>4. \A i \in 1 .. n : r[i] = i
    BY <1>1, <1>2, <1>3
<1>5. r = [i \in 1 .. Len(r) |-> r[i]]
    BY <1>1
<1>6. [i \in 1 .. Len(r) |-> r[i]] = [i \in 1 .. Len(r) |-> i]
    BY <1>1, <1>4
<1> QED
    BY <1>1, <1>5, <1>6 DEF r

LEMMA AnswerLeaves ==
    ASSUME Inv, NEW c \in Conn, request[c] # 0, answers' = Answered(c)
    PROVE  /\ answers' \in [Conn -> Seq(Nat)]
           /\ answers'[c] = [i \in 1 .. Len(answers'[c]) |-> i]
           /\ uuid[c].open => Len(answers'[c]) = parsed[c]
           /\ \A d \in Conn \ {c} : answers'[d] = answers[d]
<1>1. /\ answers \in [Conn -> Seq(Nat)] /\ ConnectionAgrees(c) /\ AnswersAgree(c)
      /\ parsed[c] \in Nat /\ request[c] \in Nat
    BY DEF Inv, Typed
<1>2. request[c] = parsed[c] /\ answers[c] \in Seq(Nat) /\ answers[c] = [i \in 1 .. Len(answers[c]) |-> i]
    BY <1>1 DEF ConnectionAgrees, AnswersAgree
<1>3. CASE ~uuid[c].open
    BY <1>1, <1>2, <1>3 DEF Answered
<1>4. CASE uuid[c].open
  <2>1. Len(answers[c]) = parsed[c] - 1
    BY <1>1, <1>4 DEF AnswersAgree
  <2>2. parsed[c] = Len(answers[c]) + 1
    BY <1>1, <1>2, <2>1
  <2> DEFINE r == Append(answers[c], parsed[c])
  <2>3. r = [i \in 1 .. Len(r) |-> i] /\ Len(r) = parsed[c] /\ r \in Seq(Nat)
    BY <1>1, <1>2, <2>2, OneMore
  <2>4. answers' = [answers EXCEPT ![c] = r]
    BY <1>2, <1>4 DEF Answered
  <2> HIDE DEF r
  <2>5. answers' \in [Conn -> Seq(Nat)] /\ answers'[c] = r /\ \A d \in Conn \ {c} : answers'[d] = answers[d]
    BY <1>1, <2>3, <2>4
  <2> QED
    BY <2>3, <2>5
<1> QED
    BY <1>3, <1>4

\* The slot, the place of the thread and the queue after a turn of the loop.
LoopKept(u, v) ==
    /\ v.lock = u.lock /\ v.freed = u.freed /\ v.socket = u.socket /\ v.open = u.open
    /\ v.protocol = u.protocol /\ v.stop = u.stop

LoopGoesOn(t, c, u, v) ==
    /\ u.stop = {} /\ u.open /\ u.buf > 0 /\ v.buf = u.buf - 1
    /\ th'[t].pc = "app" /\ th'[t].limit > 0
    /\ parsed'[c] = parsed[c] + 1 /\ request'[c] = parsed[c] + 1

LoopEnds(t, c, u, v) ==
    /\ v.buf = u.buf /\ th'[t].pc = "unlock" /\ parsed'[c] = parsed[c]
    /\ request'[c] = IF th[t].pc = "pause" THEN request[c] ELSE 0

Left(tasks) ==
    \E more : /\ Mild(more) /\ \A d \in Conn : Absent(more, "on_close", d)
              /\ normal' = normal \o (tasks \o more)

LEMMA Turn ==
    ASSUME Inv, NEW t \in Thread, NEW c \in Conn, th[t].c = c, th[t].pc \in {"app", "pause"},
           NEW u \in Slot, NEW tasks \in Seq(TaskRecord), Loop(t, u, tasks)
    PROVE  /\ uuid' \in [Conn -> Slot] /\ th' \in [Thread -> Place]
           /\ request' \in [Conn -> Nat] /\ parsed' \in [Conn -> Nat]
           /\ LoopKept(u, uuid'[c]) /\ th'[t].c = c
           /\ LoopGoesOn(t, c, u, uuid'[c]) \/ LoopEnds(t, c, u, uuid'[c])
           /\ \A d \in Conn \ {c} : /\ uuid'[d] = uuid[d]
                                    /\ request'[d] = request[d] /\ parsed'[d] = parsed[d]
           /\ \A s \in Thread \ {t} : th'[s] = th[s]
           /\ urgent' = urgent
           /\ Left(tasks)
<1>1. /\ uuid \in [Conn -> Slot] /\ th \in [Thread -> Place] /\ request \in [Conn -> Nat]
      /\ parsed \in [Conn -> Nat] /\ normal \in Seq(TaskRecord) /\ th[t].limit \in Nat /\ th[t].limit > 0
    BY DEF Inv, Typed, ThreadAgrees, Place
<1>2. CASE GoesOn(t, u)
  <2> DEFINE b == u.buf - 1
             l == th[t].limit - 1
             n == parsed[c] + 1
             v == [u EXCEPT !.buf = b]
             p == [th[t] EXCEPT !.pc = "app", !.limit = l]
  <2>1. /\ u.buf > 0 /\ u.stop = {} /\ u.open /\ th[t].limit > 1
    BY <1>2 DEF GoesOn, Stopped
  <2>2. /\ uuid' = [uuid EXCEPT ![c] = v] /\ th' = [th EXCEPT ![t] = p]
        /\ parsed' = [parsed EXCEPT ![c] = n] /\ request' = [request EXCEPT ![c] = n]
        /\ normal' = normal \o tasks /\ urgent' = urgent
    BY <1>2 DEF Loop, Parse, Push
  <2>3. u.buf \in Nat /\ b \in Nat /\ n \in Nat
    BY <1>1, <2>1 DEF Slot
  <2>4. l \in 0 .. PIPELINE /\ l > 0
    <3>1. th[t].limit \in 0 .. PIPELINE
      BY <1>1 DEF Place
    <3> QED
      BY <2>1, <3>1, RequestsAssumption
  <2>5. v \in Slot /\ LoopKept(u, v) /\ v.buf = u.buf - 1
    <3> HIDE DEF b
    <3>1. v \in Slot /\ LoopKept(u, v) /\ v.buf = b
      BY <2>3 DEF Slot, LoopKept
    <3> QED
      BY <3>1 DEF b
  <2>6. p \in Place /\ p.pc = "app" /\ p.c = c /\ p.limit > 0
    <3> HIDE DEF l
    <3> QED
      BY <1>1, <2>4 DEF Place
  <2> HIDE DEF v, p
  <2>7. uuid' \in [Conn -> Slot] /\ uuid'[c] = v /\ \A d \in Conn \ {c} : uuid'[d] = uuid[d]
    BY <1>1, <2>2, <2>5, SlotSet
  <2>8. th' \in [Thread -> Place] /\ th'[t] = p /\ \A s \in Thread \ {t} : th'[s] = th[s]
    BY <1>1, <2>2, <2>6, Goes
  <2>9. /\ parsed' \in [Conn -> Nat] /\ request' \in [Conn -> Nat] /\ parsed'[c] = n /\ request'[c] = n
        /\ \A d \in Conn \ {c} : parsed'[d] = parsed[d] /\ request'[d] = request[d]
    <3> HIDE DEF n
    <3> QED
      BY <1>1, <2>2, <2>3
  <2>10. normal' = normal \o (tasks \o <<>>) /\ Mild(<<>>) /\ \A d \in Conn : Absent(<<>>, "on_close", d)
    BY <2>2, MildTask
  <2>11. LoopGoesOn(t, c, u, uuid'[c])
    BY <2>1, <2>5, <2>6, <2>7, <2>8, <2>9 DEF LoopGoesOn
  <2> QED
    BY <2>2, <2>5, <2>6, <2>7, <2>8, <2>9, <2>10, <2>11 DEF Left
<1>3. CASE ~GoesOn(t, u)
  <2> DEFINE v == IF th[t].limit = 1 THEN fio_suspend(u) ELSE u
             more == IF th[t].limit = 1 THEN OnData(c, u) ELSE <<>>
             n == IF th[t].pc = "pause" THEN request[c] ELSE 0
  <2>1. /\ uuid' = [uuid EXCEPT ![c] = v] /\ th' = [th EXCEPT ![t].pc = "unlock"]
        /\ request' = [request EXCEPT ![c] = n] /\ parsed' = parsed
        /\ normal' = normal \o (tasks \o more) /\ urgent' = urgent
    BY <1>3 DEF Loop, Push
  <2>2. v \in Slot /\ LoopKept(u, v) /\ v.buf = u.buf
    <3>1. /\ fio_suspend(u) \in Slot /\ Alike(u, fio_suspend(u))
          /\ fio_suspend(u).open = u.open /\ fio_suspend(u).protocol = u.protocol
          /\ fio_suspend(u).stop = u.stop
      BY SlotOperations
    <3> QED
      BY <3>1 DEF LoopKept, Alike
  <2>3. Mild(more) /\ \A d \in Conn : Absent(more, "on_close", d)
    BY LeftBehind, MildTask
  <2>4. n \in Nat
    BY <1>1
  <2> HIDE DEF v, more
  <2>5. uuid' \in [Conn -> Slot] /\ uuid'[c] = v /\ \A d \in Conn \ {c} : uuid'[d] = uuid[d]
    BY <1>1, <2>1, <2>2, SlotSet
  <2>6. /\ th' \in [Thread -> Place] /\ th'[t].pc = "unlock" /\ th'[t].c = c
        /\ \A s \in Thread \ {t} : th'[s] = th[s]
    BY <1>1, <2>1, GoesTo
  <2>7. request' \in [Conn -> Nat] /\ request'[c] = n /\ \A d \in Conn \ {c} : request'[d] = request[d]
    <3> HIDE DEF n
    <3> QED
      BY <1>1, <2>1, <2>4
  <2>8. LoopEnds(t, c, u, uuid'[c])
    BY <2>1, <2>2, <2>5, <2>6, <2>7 DEF LoopEnds
  <2> QED
    BY <1>1, <2>1, <2>2, <2>3, <2>5, <2>6, <2>7, <2>8 DEF Left
<1> QED
    BY <1>2, <1>3

LEMMA RackStep ==
    ASSUME Inv, NEW t \in Thread, NEW how \in App, on_rack_request(t, how)
    PROVE  Inv' /\ (NoPauseAfterUpgrade /\ HandledInTime => HandledInTime')
<1>1. PICK c \in Conn : c = th[t].c
    BY Working DEF on_rack_request
<1> DEFINE u == Replied(uuid[c], how)
           tasks == RepliedTasks(c, uuid[c], how)
<1>2. /\ th[t].pc = "app" /\ how \in {"respond", "websocket", "sse", "tcp"}
      /\ misused' = (misused \/ uuid[c].freed) /\ answers' = Answered(c)
      /\ Loop(t, u, tasks)
      /\ sent' = sent /\ handle' = handle /\ fiber' = fiber /\ store' = store /\ subs' = subs
      /\ missed' = missed /\ stop' = stop
    BY <1>1, RequestsAssumption DEF on_rack_request, fibers
<1>3. /\ ThreadAgrees(t) /\ ConnectionAgrees(c) /\ AnswersAgree(c) /\ Typed /\ uuid[c] \in Slot
      /\ sent[c] \in Nat /\ parsed[c] \in Nat
    BY <1>1, <1>2, Working DEF Inv, Typed
<1>4. /\ uuid[c].lock = t /\ ~uuid[c].freed /\ handle[c] = "none" /\ c \notin subs
      /\ request[c] # 0 /\ fiber[c] = "none"
    BY <1>1, <1>2, <1>3 DEF ThreadAgrees
<1>5. /\ u \in Slot /\ u.lock = t /\ ~u.freed /\ u.buf = uuid[c].buf /\ u.socket = uuid[c].socket
      /\ u.open = uuid[c].open
      /\ u.protocol = IF u.open /\ how # "respond" THEN how ELSE uuid[c].protocol
      /\ how \in {"websocket", "tcp"} => u.stop # {}
    BY <1>2, <1>3, <1>4, Replies DEF Alike
<1>6. Mild(tasks) /\ \A d \in Conn : Absent(tasks, "on_close", d)
                                     \/ (d = c /\ uuid[c].open /\ how # "respond")
    BY <1>2, RepliesLeave
<1>7. tasks \in Seq(TaskRecord)
    BY <1>6 DEF Mild
<1> HIDE DEF u, tasks
<1> DEFINE v == uuid'[c]
<1>8. /\ uuid' \in [Conn -> Slot] /\ th' \in [Thread -> Place]
      /\ request' \in [Conn -> Nat] /\ parsed' \in [Conn -> Nat]
      /\ LoopKept(u, v) /\ th'[t].c = c
      /\ LoopGoesOn(t, c, u, v) \/ LoopEnds(t, c, u, v)
      /\ \A d \in Conn \ {c} : /\ uuid'[d] = uuid[d]
                               /\ request'[d] = request[d] /\ parsed'[d] = parsed[d]
      /\ \A s \in Thread \ {t} : th'[s] = th[s]
      /\ urgent' = urgent
      /\ Left(tasks)
    BY <1>1, <1>2, <1>5, <1>7, Turn
<1>9. PICK more : /\ Mild(more) /\ \A d \in Conn : Absent(more, "on_close", d)
                  /\ normal' = normal \o (tasks \o more)
    BY <1>8 DEF Left
<1>10. /\ v.lock = t /\ ~v.freed /\ v.open = uuid[c].open /\ v.protocol = u.protocol /\ v.stop = u.stop
       /\ v.socket = uuid[c].socket
    BY <1>5, <1>8 DEF LoopKept
<1> HIDE DEF v
<1>11. Rearranged(tasks \o more)
       /\ \A d \in Conn : Absent(tasks \o more, "on_close", d) \/ (d = c /\ v.protocol # "http1")
  <2>1. Mild(tasks \o more)
        /\ \A d : Absent(tasks \o more, "on_close", d) <=> Absent(tasks, "on_close", d) /\ Absent(more, "on_close", d)
    BY <1>6, <1>9, MildJoined
  <2>2. Push(tasks \o more)
    BY <1>8, <1>9 DEF Push
  <2>3. uuid[c].open /\ how # "respond" => v.protocol # "http1"
    BY <1>2, <1>5, <1>10
  <2> QED
    BY <1>3, <1>6, <1>9, <2>1, <2>2, <2>3, MildPushed
<1>12. /\ answers' \in [Conn -> Seq(Nat)]
       /\ answers'[c] = [i \in 1 .. Len(answers'[c]) |-> i]
       /\ uuid[c].open => Len(answers'[c]) = parsed[c]
       /\ \A d \in Conn \ {c} : answers'[d] = answers[d]
    BY <1>2, <1>4, AnswerLeaves
<1>13. Typed' /\ SameElsewhere(c)
  <2>1. normal' \in Seq(TaskRecord)
    BY <1>11 DEF Rearranged
  <2>2. misused' \in BOOLEAN
    BY <1>2
  <2> QED
    BY <1>2, <1>3, <1>8, <1>12, <2>1, <2>2 DEF Typed, SameElsewhere
<1>14. v.open <=> v.protocol # "none"
    BY <1>2, <1>3, <1>5, <1>10 DEF ConnectionAgrees
<1>15. CASE LoopGoesOn(t, c, u, v)
  <2> DEFINE n == parsed[c] + 1
  <2>1. /\ u.stop = {} /\ u.open /\ v.buf = uuid[c].buf - 1 /\ uuid[c].buf > 0
        /\ th'[t].pc = "app" /\ th'[t].limit > 0 /\ parsed'[c] = n /\ request'[c] = n
    BY <1>5, <1>15 DEF LoopGoesOn
  <2>2. n \in Nat /\ n # 0 /\ n - 1 = parsed[c] /\ n + v.buf + v.socket = parsed[c] + uuid[c].buf + uuid[c].socket
    <3>1. uuid[c].buf \in Nat /\ uuid[c].socket \in Nat
      BY <1>3 DEF Slot
    <3>2. \A a, b, s \in Nat : (a + 1) + (b - 1) + s = a + b + s
      OBVIOUS
    <3> QED
      BY <1>3, <1>10, <2>1, <3>1, <3>2
  <2> HIDE DEF n
  <2>3. ThreadAgrees(t)'
    BY <1>2, <1>4, <1>8, <1>10, <2>1, <2>2 DEF ThreadAgrees, v
  <2>4. ConnectionAgrees(c)'
    <3>1. v.lock # NULL
      BY <1>10, RequestsAssumption
    <3>2. parsed'[c] + v.buf + v.socket <= sent[c] /\ sent[c] <= REQUESTS[c]
      BY <1>3, <2>1, <2>2 DEF ConnectionAgrees
    <3> QED
      BY <1>2, <1>4, <1>10, <1>14, <2>1, <2>2, <3>1, <3>2 DEF ConnectionAgrees, v
  <2>5. AnswersAgree(c)'
    BY <1>10, <1>12, <2>1, <2>2 DEF AnswersAgree, v
  <2>6. Inv'
    BY <1>2, <1>4, <1>5, <1>8, <1>10, <1>11, <1>13, <2>3, <2>4, <2>5, ThreadMoves DEF v
  <2>7. NoPauseAfterUpgrade /\ HandledInTime => HandledInTime'
    <3>1. SUFFICES ASSUME NoPauseAfterUpgrade, HandledInTime PROVE HandledInTime'
      OBVIOUS
    <3>2. "defer" \in App => v.protocol \in {"http1", "none"}
      <4>1. "defer" \in App => how = "respond"
        BY <1>2, <1>5, <2>1, <3>1 DEF NoPauseAfterUpgrade
      <4>2. "defer" \in App => uuid[c].protocol \in {"http1", "none"}
        BY <1>1, <1>2, <3>1 DEF HandledInTime
      <4> QED
        BY <1>5, <1>10, <4>1, <4>2
    <3>3. ~misused' /\ handle'[c] = "none"
      BY <1>2, <1>4, <3>1 DEF HandledInTime
    <3> QED
      BY <1>4, <1>8, <1>13, <2>1, <2>3, <2>4, <2>5, <3>1, <3>2, <3>3, HandledStep DEF v
  <2> QED
    BY <2>6, <2>7
<1>16. CASE LoopEnds(t, c, u, v)
  <2>1. /\ v.buf = uuid[c].buf /\ th'[t].pc = "unlock" /\ parsed'[c] = parsed[c] /\ request'[c] = 0
    BY <1>2, <1>5, <1>16 DEF LoopEnds
  <2>2. ThreadAgrees(t)'
    BY <1>2, <1>4, <1>8, <1>10, <2>1 DEF ThreadAgrees, Settled, v
  <2>3. ConnectionAgrees(c)'
    <3>1. parsed'[c] + v.buf + v.socket <= sent[c] /\ sent[c] <= REQUESTS[c]
      BY <1>3, <1>10, <2>1 DEF ConnectionAgrees
    <3> QED
      BY <1>2, <1>4, <1>10, <1>14, <2>1, <3>1 DEF ConnectionAgrees, Settled, v
  <2>4. AnswersAgree(c)'
    BY <1>10, <1>12, <2>1 DEF AnswersAgree, v
  <2>5. Inv'
    BY <1>2, <1>4, <1>5, <1>8, <1>10, <1>11, <1>13, <2>2, <2>3, <2>4, ThreadMoves DEF v
  <2>6. HandledInTime => HandledInTime'
    <3>1. SUFFICES ASSUME HandledInTime PROVE HandledInTime'
      OBVIOUS
    <3>2. ~misused' /\ handle'[c] = "none"
      BY <1>2, <1>4, <3>1 DEF HandledInTime
    <3> QED
      BY <1>4, <1>8, <1>13, <2>1, <2>2, <2>3, <2>4, <3>1, <3>2, HandledStep
  <2> QED
    BY <2>5, <2>6
<1> QED
    BY <1>8, <1>15, <1>16 DEF v

LEMMA DeferStep ==
    ASSUME Inv, NEW t \in Thread, iodine_handle_request_in_GVL(t)
    PROVE  Inv' /\ (HandledInTime => HandledInTime')
<1>1. PICK c \in Conn : c = th[t].c
    BY Working DEF iodine_handle_request_in_GVL
<1>2. /\ th[t].pc = "app" /\ "defer" \in App
      /\ misused' = (misused \/ uuid[c].freed)
      /\ fiber' = [fiber EXCEPT ![c] = "blocked"] /\ store' = store \cup {c}
      /\ th' = [th EXCEPT ![t].pc = "pause"]
      /\ uuid' = uuid /\ request' = request /\ answers' = answers /\ sent' = sent /\ parsed' = parsed
      /\ handle' = handle /\ subs' = subs /\ missed' = missed /\ stop' = stop
      /\ urgent' = urgent /\ normal' = normal
    BY <1>1 DEF iodine_handle_request_in_GVL, conns
<1>3. /\ th[t] \in Place /\ th \in [Thread -> Place] /\ ThreadAgrees(t)
      /\ ConnectionAgrees(c) /\ AnswersAgree(c) /\ Typed /\ TasksAgree(c)
    BY <1>1, <1>2, Working DEF Inv
<1>4. /\ uuid[c].lock = t /\ ~uuid[c].freed /\ handle[c] = "none" /\ c \notin subs
      /\ request[c] # 0 /\ fiber[c] = "none"
    BY <1>1, <1>2, <1>3 DEF ThreadAgrees
<1>5. /\ th' \in [Thread -> Place] /\ th'[t].pc = "pause" /\ th'[t].c = c /\ th'[t].limit = th[t].limit
      /\ \A s \in Thread \ {t} : th'[s] = th[s]
    BY <1>1, <1>2, <1>3, GoesTo
<1>6. /\ fiber' \in [Conn -> {"none", "blocked", "woken", "done"}] /\ fiber'[c] = "blocked"
      /\ \A d \in Conn \ {c} : fiber'[d] = fiber[d]
    BY <1>2, <1>3 DEF Typed
<1>7. Typed' /\ SameElsewhere(c)
    BY <1>2, <1>3, <1>5, <1>6 DEF Typed, SameElsewhere
<1>8. ThreadAgrees(t)'
    BY <1>1, <1>2, <1>3, <1>4, <1>5 DEF ThreadAgrees
<1>9. ConnectionAgrees(c)'
  <2>1. uuid[c].lock # NULL
    BY <1>4, RequestsAssumption
  <2> QED
    BY <1>2, <1>3, <1>4, <2>1 DEF ConnectionAgrees
<1>10. AnswersAgree(c)'
    BY <1>2, <1>3 DEF AnswersAgree
<1>11. /\ \A s \in Thread : ThreadAgrees(s)'
       /\ \A d \in Conn : ConnectionAgrees(d)' /\ AnswersAgree(d)'
    BY <1>4, <1>5, <1>7, <1>8, <1>9, <1>10, ThreadStep
<1>12. ASSUME NEW d \in Conn PROVE TasksAgree(d)'
  <2>1. TasksAgree(d)
    BY DEF Inv
  <2>2. CASE d = c
    BY <1>2, <1>4, <2>1, <2>2 DEF TasksAgree, Absent, AtMostOne
  <2>3. CASE d # c
    BY <1>2, <1>6, <2>1, <2>3 DEF TasksAgree, Absent, AtMostOne
  <2> QED
    BY <2>2, <2>3
<1>13. CountAgrees'
    BY <1>2 DEF Inv, CountAgrees, Paused
<1>14. HandledInTime => HandledInTime'
  <2>1. SUFFICES ASSUME HandledInTime PROVE HandledInTime'
    OBVIOUS
  <2>2. uuid'[c].protocol \in {"http1", "none"} /\ ~misused' /\ handle'[c] = "none"
    BY <1>1, <1>2, <1>4, <2>1 DEF HandledInTime
  <2> QED
    BY <1>2, <1>4, <1>5, <1>7, <1>8, <1>9, <1>10, <2>1, <2>2, HandledStep
<1> QED
    BY <1>7, <1>11, <1>12, <1>13, <1>14 DEF Inv

\* The tasks and the count of the other connections.
LEMMA TasksElsewhere ==
    ASSUME Inv, NEW c \in Conn, SameElsewhere(c), NEW q \in Seq(TaskRecord),
           q = normal \/ (normal # <<>> /\ q = Tail(normal)),
           NEW r \in Seq(TaskRecord), \A f, d : d # c => Absent(r, f, d),
           normal' = q \o r,
           urgent' = urgent \/ urgent' = <<>> \/ urgent'[1].c = c
    PROVE  /\ normal' \in Seq(TaskRecord)
           /\ \A f \in Function : /\ Absent(normal, f, c) => Absent(q, f, c)
                                  /\ AtMostOne(normal, f, c) => AtMostOne(q, f, c)
                                  /\ Absent(normal', f, c) <=> Absent(q, f, c) /\ Absent(r, f, c)
           /\ \A d \in Conn \ {c} : TasksAgree(d)'
<1>1. /\ normal \in Seq(TaskRecord) /\ normal' \in Seq(TaskRecord)
      /\ \A f, d : /\ Absent(normal, f, d) => Absent(q, f, d)
                   /\ AtMostOne(normal, f, d) => AtMostOne(q, f, d)
  <2>1. normal \in Seq(TaskRecord) /\ normal' \in Seq(TaskRecord)
    BY Joined DEF Inv, Typed
  <2>2. CASE q = normal
    BY <2>1, <2>2
  <2>3. CASE normal # <<>> /\ q = Tail(normal)
    BY <2>1, <2>3, Rest
  <2> QED
    BY <2>1, <2>2, <2>3
<1>2. \A f, d : /\ Absent(normal', f, d) <=> Absent(q, f, d) /\ Absent(r, f, d)
                /\ AtMostOne(q, f, d) /\ Absent(r, f, d) => AtMostOne(normal', f, d)
    BY Joined
<1>3. ASSUME NEW d \in Conn \ {c} PROVE TasksAgree(d)'
  <2>1. TasksAgree(d) /\ \A f : Absent(r, f, d)
    BY DEF Inv
  <2>2. \A f : /\ Absent(normal, f, d) => Absent(normal', f, d)
               /\ AtMostOne(normal, f, d) => AtMostOne(normal', f, d)
    BY <1>1, <1>2, <2>1
  <2>3. handle'[d] = handle[d] /\ fiber'[d] = fiber[d] /\ uuid'[d] = uuid[d]
    BY DEF SameElsewhere
  <2>4. urgent' = <<>> \/ urgent'[1].c # d \/ (handle[d] = "subscribed" /\ fiber[d] = "done")
    BY <2>1 DEF TasksAgree
  <2> QED
    BY <2>1, <2>2, <2>3, <2>4 DEF TasksAgree
<1> QED
    BY <1>1, <1>2, <1>3

LEMMA PauseStep ==
    ASSUME Inv, NEW t \in Thread, http_pause(t)
    PROVE  Inv' /\ (HandledInTime => HandledInTime')
<1>1. PICK c \in Conn : c = th[t].c
    BY Working DEF http_pause
<1> DEFINE w == [uuid[c] EXCEPT !.stop = {1}]
           u == fio_suspend(w)
           tasks == <<Task("pause", c, FALSE)>>
           v == uuid'[c]
<1>2. /\ th[t].pc = "pause" /\ handle' = [handle EXCEPT ![c] = "paused"]
      /\ stop' = [stop EXCEPT !.paused = @ + 1]
      /\ Loop(t, u, tasks)
      /\ answers' = answers /\ sent' = sent /\ fiber' = fiber /\ store' = store /\ subs' = subs
      /\ missed' = missed /\ misused' = misused
    BY <1>1 DEF http_pause, fio_pause
<1>3. /\ th[t] \in Place /\ ThreadAgrees(t) /\ ConnectionAgrees(c) /\ AnswersAgree(c) /\ Typed
      /\ TasksAgree(c) /\ CountAgrees /\ uuid[c] \in Slot
    BY <1>1, <1>2, Working DEF Inv
<1>4. /\ uuid[c].lock = t /\ ~uuid[c].freed /\ handle[c] = "none" /\ c \notin subs /\ request[c] # 0
    BY <1>1, <1>2, <1>3 DEF ThreadAgrees
<1>5. w \in Slot /\ Alike(uuid[c], w) /\ w.open = uuid[c].open /\ w.protocol = uuid[c].protocol /\ w.stop = {1}
    BY <1>3 DEF Slot, Alike
<1> HIDE DEF w
<1>6. u \in Slot /\ Alike(w, u) /\ u.open = w.open /\ u.protocol = w.protocol /\ u.stop = w.stop
    BY <1>5, SlotOperations
<1> HIDE DEF u
<1>7. Task("pause", c, FALSE) \in TaskRecord /\ Task("pause", c, FALSE).func = "pause"
      /\ Task("pause", c, FALSE).c = c
    BY DEF Task, TaskRecord, Function
<1>8. /\ tasks \in Seq(TaskRecord)
      /\ \A f, d : /\ Absent(tasks, f, d) <=> ~("pause" = f /\ c = d)
                   /\ AtMostOne(tasks, f, d)
    BY <1>7, OneTask
<1> HIDE DEF tasks
<1>9. /\ uuid' \in [Conn -> Slot] /\ th' \in [Thread -> Place]
      /\ request' \in [Conn -> Nat] /\ parsed' \in [Conn -> Nat]
      /\ LoopKept(u, v) /\ th'[t].c = c
      /\ LoopGoesOn(t, c, u, v) \/ LoopEnds(t, c, u, v)
      /\ \A d \in Conn \ {c} : /\ uuid'[d] = uuid[d]
                               /\ request'[d] = request[d] /\ parsed'[d] = parsed[d]
      /\ \A s \in Thread \ {t} : th'[s] = th[s]
      /\ urgent' = urgent
      /\ Left(tasks)
    BY <1>1, <1>2, <1>6, <1>8, Turn
<1>10. PICK more : /\ Mild(more) /\ \A d \in Conn : Absent(more, "on_close", d)
                   /\ normal' = normal \o (tasks \o more)
    BY <1>9 DEF Left
<1>11. LoopEnds(t, c, u, v)
    BY <1>5, <1>6, <1>9 DEF LoopGoesOn
<1>12. /\ v.lock = t /\ ~v.freed /\ v.open = uuid[c].open /\ v.protocol = uuid[c].protocol /\ v.stop = {1}
       /\ v.socket = uuid[c].socket /\ v.buf = uuid[c].buf
       /\ th'[t].pc = "unlock" /\ parsed'[c] = parsed[c] /\ request'[c] = request[c]
    BY <1>2, <1>4, <1>5, <1>6, <1>9, <1>11 DEF LoopKept, LoopEnds, Alike
<1> HIDE DEF v
<1>13. /\ handle' \in [Conn -> {"none", "paused", "subscribed", "resuming"}] /\ handle'[c] = "paused"
       /\ \A d \in Conn \ {c} : handle'[d] = handle[d]
    BY <1>2, <1>3 DEF Typed
<1>14. /\ stop' \in Flags /\ stop'.paused = stop.paused + 1 /\ stop'.ticks = stop.ticks
       /\ stop'.requested = stop.requested /\ stop.paused \in Nat
  <2> DEFINE k == stop.paused + 1
  <2>1. k \in Nat /\ stop \in Flags /\ stop.paused \in Nat
    BY <1>3 DEF Typed, Flags
  <2>2. stop' = [stop EXCEPT !.paused = k]
    BY <1>2
  <2> HIDE DEF k
  <2>3. /\ stop' \in Flags /\ stop'.paused = k /\ stop'.ticks = stop.ticks
        /\ stop'.requested = stop.requested
    BY <2>1, <2>2 DEF Flags
  <2> QED
    BY <2>1, <2>3 DEF k
<1>15. SameElsewhere(c)
    BY <1>2, <1>9, <1>13 DEF SameElsewhere
<1>16. /\ tasks \o more \in Seq(TaskRecord)
       /\ \A f, d : /\ Absent(tasks \o more, f, d) <=> Absent(tasks, f, d) /\ Absent(more, f, d)
                    /\ AtMostOne(tasks, f, d) /\ Absent(more, f, d) => AtMostOne(tasks \o more, f, d)
    BY <1>8, <1>10, Joined DEF Mild
<1>17. normal' \in Seq(TaskRecord)
       /\ \A f, d : /\ Absent(normal', f, d) <=> Absent(normal, f, d) /\ Absent(tasks \o more, f, d)
                    /\ AtMostOne(normal, f, d) /\ Absent(tasks \o more, f, d) => AtMostOne(normal', f, d)
                    /\ Absent(normal, f, d) /\ AtMostOne(tasks \o more, f, d) => AtMostOne(normal', f, d)
    BY <1>3, <1>10, <1>16, Joined DEF Typed
<1>18. Typed'
    BY <1>2, <1>3, <1>9, <1>13, <1>14, <1>17 DEF Typed
<1>19. ThreadAgrees(t)'
    BY <1>9, <1>12, <1>13 DEF ThreadAgrees, Settled, v
<1>20. ConnectionAgrees(c)'
    BY <1>2, <1>3, <1>4, <1>12, <1>13 DEF ConnectionAgrees, Settled, v
<1>21. AnswersAgree(c)'
    BY <1>2, <1>3, <1>12 DEF AnswersAgree, v
<1>22. /\ \A s \in Thread : ThreadAgrees(s)'
       /\ \A d \in Conn : ConnectionAgrees(d)' /\ AnswersAgree(d)'
    BY <1>4, <1>9, <1>15, <1>19, <1>20, <1>21, ThreadStep
<1>23. ASSUME NEW d \in Conn PROVE TasksAgree(d)'
  <2>1. TasksAgree(d) /\ "pause" \in Single /\ "fiber" \in Single /\ "resume" \in Single
    BY DEF Inv, Single
  <2>2. \A f \in Single : Absent(more, f, d)
    BY <1>10 DEF Mild
  <2>3. CASE d = c
    <3>1. Absent(normal, "pause", c) /\ Absent(normal, "resume", c)
      BY <1>3, <1>4 DEF TasksAgree
    <3>2. \A f \in Single : AtMostOne(normal', f, c)
      <4>1. SUFFICES ASSUME NEW f \in Single PROVE AtMostOne(normal', f, c)
        OBVIOUS
      <4>2. CASE f = "pause"
        BY <1>8, <1>16, <1>17, <2>2, <2>3, <3>1, <4>2
      <4>3. CASE f # "pause"
        BY <1>3, <1>8, <1>16, <1>17, <2>2, <2>3, <4>3 DEF TasksAgree
      <4> QED
        BY <4>2, <4>3
    <3>3. /\ Absent(normal', "resume", c)
          /\ Absent(normal', "fiber", c) \/ fiber'[c] = "woken"
          /\ Absent(normal', "on_close", c) \/ v.protocol # "http1"
      BY <1>2, <1>3, <1>8, <1>10, <1>12, <1>16, <1>17, <2>1, <2>2, <2>3, <3>1 DEF TasksAgree
    <3>4. urgent' = <<>> \/ urgent'[1].c # c
      BY <1>3, <1>4, <1>9 DEF TasksAgree
    <3> QED
      BY <1>13, <2>3, <3>2, <3>3, <3>4 DEF TasksAgree, v
  <2>4. CASE d # c
    <3>1. \A f : f \in Single \/ f = "on_close" => Absent(tasks \o more, f, d)
      BY <1>8, <1>10, <1>16, <2>2, <2>4
    <3>2. \A f \in Single : AtMostOne(normal', f, d)
      BY <1>17, <2>1, <3>1 DEF TasksAgree
    <3>3. \A f : f \in Single \/ f = "on_close" => (Absent(normal, f, d) => Absent(normal', f, d))
      BY <1>17, <3>1
    <3>4. handle'[d] = handle[d] /\ fiber'[d] = fiber[d] /\ uuid'[d] = uuid[d] /\ urgent' = urgent
      BY <1>9, <1>15, <2>4 DEF SameElsewhere
    <3> QED
      BY <2>1, <3>2, <3>3, <3>4 DEF TasksAgree
  <2> QED
    BY <2>3, <2>4
<1>24. CountAgrees'
  <2>1. Paused' = Paused \cup {c} /\ c \notin Paused
    BY <1>4, <1>13 DEF Paused
  <2>2. IsFiniteSet(Paused') /\ Cardinality(Paused') = Cardinality(Paused) + 1
        /\ Cardinality(Paused) \in Nat
    BY <1>3, <2>1, FS_AddElement, FS_CardinalityType DEF CountAgrees
  <2> QED
    BY <1>3, <1>14, <2>2 DEF CountAgrees
<1>25. HandledInTime => HandledInTime'
  <2>1. SUFFICES ASSUME HandledInTime PROVE HandledInTime'
    OBVIOUS
  <2>2. v.protocol \in {"http1", "none"} /\ ~misused'
    BY <1>1, <1>2, <1>12, <2>1 DEF HandledInTime
  <2> QED
    BY <1>4, <1>9, <1>12, <1>15, <1>19, <1>20, <1>21, <2>1, <2>2, HandledStep DEF v
<1> QED
    BY <1>18, <1>22, <1>23, <1>24, <1>25 DEF Inv

-----------------------------------------------------------------------------
\* Paused requests: no thread reads requests of their connection.

LEMMA NobodyReads ==
    ASSUME Inv, NEW c \in Conn, th' = th, SameElsewhere(c), handle[c] # "none",
           uuid'[c].lock = uuid[c].lock, uuid'[c].freed = uuid[c].freed, Settled(c)'
    PROVE  \A s \in Thread : ThreadAgrees(s)'
<1>1. SUFFICES ASSUME NEW s \in Thread PROVE ThreadAgrees(s)'
    OBVIOUS
<1>2. ThreadAgrees(s) /\ th'[s] = th[s]
    BY DEF Inv
<1>3. CASE th[s].c = c
    BY <1>2, <1>3 DEF ThreadAgrees
<1>4. CASE th[s].c # c
  <2> QED
    BY <1>2, <1>4 DEF ThreadAgrees, Settled, SameElsewhere
<1> QED
    BY <1>3, <1>4

LEMMA SubscribeStep ==
    ASSUME Inv, NEW t \in Thread, NEW c \in Conn, http_pause_wrapper(t, c)
    PROVE  Inv' /\ (HandledInTime => HandledInTime')
<1>1. /\ Pops(t, "pause", c) /\ Popped(<<>>) /\ subs' = subs \cup {c}
      /\ handle' = [handle EXCEPT ![c] = "subscribed"]
      /\ uuid' = uuid /\ request' = request /\ answers' = answers /\ sent' = sent /\ parsed' = parsed
      /\ fiber' = fiber /\ store' = store /\ missed' = missed /\ misused' = misused /\ stop' = stop
      /\ th' = th
    BY DEF http_pause_wrapper, conns
<1>2. Typed /\ CountAgrees /\ ConnectionAgrees(c) /\ AnswersAgree(c) /\ TasksAgree(c)
    BY DEF Inv
<1>3. /\ ~Absent(normal, "pause", c) /\ urgent = <<>> /\ normal # <<>> /\ normal \in Seq(TaskRecord)
    BY <1>1, <1>2, PoppedNext
<1>4. handle[c] = "paused" /\ "pause" \in Single
    BY <1>2, <1>3 DEF TasksAgree, Single
<1>5. Rearranged(<<>>) /\ Absent(normal', "pause", c)
    BY <1>1, <1>2, <1>4, MildTask, MildPopped DEF TasksAgree
<1>6. /\ handle' \in [Conn -> {"none", "paused", "subscribed", "resuming"}] /\ handle'[c] = "subscribed"
      /\ \A d \in Conn \ {c} : handle'[d] = handle[d]
    BY <1>1, <1>2 DEF Typed
<1>7. SameElsewhere(c)
    BY <1>1, <1>6 DEF SameElsewhere
<1>8. Typed'
    BY <1>1, <1>2, <1>5, <1>6 DEF Typed, Rearranged
<1>9. Settled(c)'
    BY <1>6 DEF Settled
<1>10. \A s \in Thread : ThreadAgrees(s)'
    BY <1>1, <1>4, <1>7, <1>9, NobodyReads
<1>11. ConnectionAgrees(c)' /\ AnswersAgree(c)'
  <2>1. ConnectionAgrees(c)'
    BY <1>1, <1>2, <1>4, <1>6, <1>9 DEF ConnectionAgrees
  <2>2. AnswersAgree(c)'
    BY <1>1, <1>2 DEF AnswersAgree
  <2> QED
    BY <2>1, <2>2
<1>12. \A d \in Conn : ConnectionAgrees(d)' /\ AnswersAgree(d)'
    BY <1>7, <1>10, <1>11, OnlyAt
<1>13. ASSUME NEW d \in Conn PROVE TasksAgree(d)'
  <2>1. Absent(<<>>, "on_close", d) /\ uuid'[d] = uuid[d] /\ TasksAgree(d) /\ fiber'[d] = fiber[d]
    BY <1>1, MildTask DEF Inv
  <2>2. CASE d = c
    <3>1. \A f \in Single : /\ Absent(normal, f, d) => Absent(normal', f, d)
                            /\ AtMostOne(normal, f, d) => AtMostOne(normal', f, d)
      BY <1>5 DEF Rearranged
    <3>2. Absent(normal', "on_close", d) \/ uuid'[d].protocol # "http1"
      BY <1>5, <2>1 DEF Rearranged, TasksAgree
    <3>3. "fiber" \in Single /\ "resume" \in Single /\ Absent(normal, "resume", c) /\ urgent' = <<>>
      BY <1>3, <1>4, <1>5, <2>1, <2>2 DEF Single, TasksAgree, Rearranged
    <3> QED
      BY <1>5, <2>1, <2>2, <3>1, <3>2, <3>3 DEF TasksAgree
  <2>3. CASE d # c
    BY <1>5, <1>6, <2>1, <2>3, TasksKept DEF TasksAgree
  <2> QED
    BY <2>2, <2>3
<1>14. CountAgrees'
  <2>1. Paused' = Paused
    BY <1>4, <1>6 DEF Paused
  <2> QED
    BY <1>1, <1>2, <2>1 DEF CountAgrees
<1>15. HandledInTime => HandledInTime'
    BY <1>1, <1>4, <1>6 DEF HandledInTime
<1> QED
    BY <1>8, <1>10, <1>12, <1>13, <1>14, <1>15 DEF Inv

LEMMA WakeStep ==
    ASSUME Inv, NEW c \in Conn, fiber_wakes(c)
    PROVE  Inv' /\ (HandledInTime => HandledInTime')
<1> DEFINE x == Task("fiber", c, FALSE)
<1>1. /\ fiber[c] = "blocked" /\ fiber' = [fiber EXCEPT ![c] = "woken"]
      /\ normal' = normal \o <<x>> /\ urgent' = urgent
      /\ uuid' = uuid /\ request' = request /\ answers' = answers /\ sent' = sent /\ parsed' = parsed
      /\ handle' = handle /\ store' = store /\ subs' = subs /\ missed' = missed
      /\ misused' = misused /\ stop' = stop /\ th' = th
    BY DEF fiber_wakes, conns, Push
<1>2. Typed /\ CountAgrees /\ ConnectionAgrees(c) /\ AnswersAgree(c) /\ TasksAgree(c)
    BY DEF Inv
<1>3. x \in TaskRecord /\ x.func = "fiber" /\ x.c = c
    BY DEF Task, TaskRecord, Function
<1> HIDE DEF x
<1>4. /\ <<x>> \in Seq(TaskRecord) /\ normal \in Seq(TaskRecord)
      /\ \A f, d : /\ Absent(<<x>>, f, d) <=> ~(f = "fiber" /\ c = d)
                   /\ AtMostOne(<<x>>, f, d)
    BY <1>2, <1>3, OneTask DEF Typed
<1>5. /\ fiber' \in [Conn -> {"none", "blocked", "woken", "done"}] /\ fiber'[c] = "woken"
      /\ \A d \in Conn \ {c} : fiber'[d] = fiber[d]
    BY <1>1, <1>2 DEF Typed
<1>6. SameElsewhere(c)
    BY <1>1, <1>5 DEF SameElsewhere
<1>7. /\ normal' \in Seq(TaskRecord)
      /\ \A f \in Function : Absent(normal', f, c) <=> Absent(normal, f, c) /\ Absent(<<x>>, f, c)
      /\ \A d \in Conn \ {c} : TasksAgree(d)'
    BY <1>1, <1>4, <1>6, TasksElsewhere
<1>8. Typed'
    BY <1>1, <1>2, <1>5, <1>7 DEF Typed
<1>9. Settled(c) <=> Settled(c)'
    BY <1>1, <1>5 DEF Settled
<1>10. ASSUME NEW s \in Thread PROVE ThreadAgrees(s)'
  <2>1. ThreadAgrees(s)
    BY DEF Inv
  <2>2. CASE th[s].c = c
    BY <1>1, <1>9, <2>1, <2>2 DEF ThreadAgrees
  <2>3. CASE th[s].c # c
    BY <1>1, <1>5, <2>1, <2>3 DEF ThreadAgrees, Settled
  <2> QED
    BY <2>2, <2>3
<1>11. ConnectionAgrees(c)' /\ AnswersAgree(c)'
  <2>1. ConnectionAgrees(c)'
    BY <1>1, <1>2, <1>9 DEF ConnectionAgrees
  <2>2. AnswersAgree(c)'
    BY <1>1, <1>2 DEF AnswersAgree
  <2> QED
    BY <2>1, <2>2
<1>12. \A d \in Conn : ConnectionAgrees(d)' /\ AnswersAgree(d)'
    BY <1>6, <1>10, <1>11, OnlyAt
<1>13. TasksAgree(c)'
  <2>1. Absent(normal, "fiber", c)
    BY <1>1, <1>2 DEF TasksAgree
  <2>2. \A f \in Single : AtMostOne(normal', f, c)
    <3>1. SUFFICES ASSUME NEW f \in Single PROVE AtMostOne(normal', f, c)
      OBVIOUS
    <3>2. /\ AtMostOne(normal, f, c) /\ Absent(<<x>>, f, c) => AtMostOne(normal', f, c)
          /\ Absent(normal, f, c) /\ AtMostOne(<<x>>, f, c) => AtMostOne(normal', f, c)
      BY <1>1, <1>4, Joined
    <3>3. CASE f = "fiber"
      BY <1>4, <2>1, <3>2, <3>3
    <3>4. CASE f # "fiber"
      BY <1>2, <1>4, <3>2, <3>4 DEF TasksAgree
    <3> QED
      BY <3>3, <3>4
  <2>3. \A f \in {"pause", "resume", "on_close"} : Absent(normal', f, c) <=> Absent(normal, f, c)
    BY <1>4, <1>7 DEF Function
  <2> QED
    BY <1>1, <1>2, <1>5, <2>2, <2>3 DEF TasksAgree
<1>14. CountAgrees'
    BY <1>1, <1>2 DEF CountAgrees, Paused
<1>15. HandledInTime => HandledInTime'
    BY <1>1 DEF HandledInTime
<1> QED
    BY <1>7, <1>8, <1>10, <1>12, <1>13, <1>14, <1>15 DEF Inv

LEMMA EndStep ==
    ASSUME Inv, NEW t \in Thread, NEW c \in Conn, fiber_ends(t, c)
    PROVE  Inv' /\ (HandledInTime => HandledInTime')
<1> DEFINE q == Tail(normal)
<1>1. /\ Pops(t, "fiber", c) /\ fiber' = [fiber EXCEPT ![c] = "done"]
      /\ normal' = q
      /\ urgent' = IF c \in subs THEN <<Task("message", c, FALSE)>> ELSE <<>>
      /\ missed' = IF c \in subs THEN missed ELSE missed \cup {c}
      /\ uuid' = uuid /\ request' = request /\ answers' = answers /\ sent' = sent /\ parsed' = parsed
      /\ handle' = handle /\ store' = store /\ subs' = subs
      /\ misused' = misused /\ stop' = stop /\ th' = th
    BY DEF fiber_ends, conns
<1>2. Typed /\ CountAgrees /\ ConnectionAgrees(c) /\ AnswersAgree(c) /\ TasksAgree(c)
    BY DEF Inv
<1>3. /\ ~Absent(normal, "fiber", c) /\ urgent = <<>> /\ normal # <<>> /\ normal \in Seq(TaskRecord)
      /\ NextTask = Head(normal) /\ NextTask.func = "fiber" /\ NextTask.c = c
    BY <1>1, <1>2, PoppedNext
<1>4. fiber[c] = "woken" /\ "fiber" \in Single
    BY <1>2, <1>3 DEF TasksAgree, Single
<1>5. q \in Seq(TaskRecord) /\ Absent(q, "fiber", c)
    BY <1>2, <1>3, <1>4, Rest DEF TasksAgree
<1>6. /\ <<>> \in Seq(TaskRecord) /\ \A f, d : Absent(<<>>, f, d)
  <2>1. \A j : j \notin DOMAIN <<>>
    OBVIOUS
  <2> QED
    BY <2>1 DEF Absent
<1> HIDE DEF q
<1>7. q = normal \/ (normal # <<>> /\ q = Tail(normal))
    BY <1>3 DEF q
<1>8. normal' = q \o <<>>
    BY <1>1, <1>5
<1>9. /\ urgent' = <<>> \/ urgent' = <<Task("message", c, FALSE)>>
      /\ urgent' # <<>> => c \in subs /\ urgent'[1].c = c
    BY <1>1 DEF Task
<1>10. /\ fiber' \in [Conn -> {"none", "blocked", "woken", "done"}] /\ fiber'[c] = "done"
       /\ \A d \in Conn \ {c} : fiber'[d] = fiber[d]
    BY <1>1, <1>2 DEF Typed
<1>11. SameElsewhere(c)
    BY <1>1, <1>10 DEF SameElsewhere
<1>12. /\ normal' \in Seq(TaskRecord)
       /\ \A f \in Function : /\ Absent(normal, f, c) => Absent(q, f, c)
                              /\ AtMostOne(normal, f, c) => AtMostOne(q, f, c)
       /\ \A d \in Conn \ {c} : TasksAgree(d)'
    BY <1>5, <1>6, <1>7, <1>8, <1>9, <1>11, TasksElsewhere
<1>13. Typed'
  <2>1. missed' \subseteq Conn
    BY <1>1, <1>2 DEF Typed
  <2> QED
    BY <1>1, <1>2, <1>9, <1>10, <1>12, <2>1 DEF Typed
<1>14. Settled(c) <=> Settled(c)'
    BY <1>1, <1>4, <1>10 DEF Settled
<1>15. ASSUME NEW s \in Thread PROVE ThreadAgrees(s)'
  <2>1. ThreadAgrees(s)
    BY DEF Inv
  <2>2. CASE th[s].c = c
    BY <1>1, <1>4, <1>14, <2>1, <2>2 DEF ThreadAgrees
  <2>3. CASE th[s].c # c
    BY <1>1, <1>10, <2>1, <2>3 DEF ThreadAgrees, Settled
  <2> QED
    BY <2>2, <2>3
<1>16. ConnectionAgrees(c)' /\ AnswersAgree(c)'
  <2>1. ConnectionAgrees(c)'
    BY <1>1, <1>2, <1>4, <1>10, <1>14 DEF ConnectionAgrees
  <2>2. AnswersAgree(c)'
    BY <1>1, <1>2 DEF AnswersAgree
  <2> QED
    BY <2>1, <2>2
<1>17. \A d \in Conn : ConnectionAgrees(d)' /\ AnswersAgree(d)'
    BY <1>11, <1>15, <1>16, OnlyAt
<1>18. TasksAgree(c)'
  <2>1. \A f \in Single : AtMostOne(normal', f, c)
    BY <1>1, <1>2, <1>12 DEF TasksAgree, Single, Function
  <2>2. \A f \in {"pause", "resume", "on_close"} : Absent(normal, f, c) => Absent(normal', f, c)
    BY <1>1, <1>12 DEF Function
  <2>3. urgent' # <<>> => handle[c] = "subscribed"
    BY <1>2, <1>4, <1>9 DEF ConnectionAgrees
  <2> QED
    BY <1>1, <1>2, <1>5, <1>10, <2>1, <2>2, <2>3 DEF TasksAgree
<1>19. CountAgrees'
    BY <1>1, <1>2 DEF CountAgrees, Paused
<1>20. HandledInTime => HandledInTime'
    BY <1>1 DEF HandledInTime
<1> QED
    BY <1>12, <1>13, <1>15, <1>17, <1>18, <1>19, <1>20 DEF Inv

LEMMA MessageStep ==
    ASSUME Inv, NEW t \in Thread, NEW c \in Conn, http_resume(t, c)
    PROVE  Inv' /\ (HandledInTime => HandledInTime')
<1> DEFINE x == Task("resume", c, FALSE)
<1>1. /\ Pops(t, "message", c) /\ handle' = [handle EXCEPT ![c] = "resuming"]
      /\ Popped(<<x>>)
      /\ uuid' = uuid /\ request' = request /\ answers' = answers /\ sent' = sent /\ parsed' = parsed
      /\ fiber' = fiber /\ store' = store /\ subs' = subs /\ missed' = missed
      /\ misused' = misused /\ stop' = stop /\ th' = th
    BY DEF http_resume, conns
<1>2. Typed /\ CountAgrees /\ ConnectionAgrees(c) /\ AnswersAgree(c) /\ TasksAgree(c)
    BY DEF Inv
<1>3. urgent # <<>> /\ urgent = <<Task("message", c, FALSE)>>
  <2>1. CASE urgent = <<>>
    <3>1. normal # <<>> /\ normal \in Seq(TaskRecord) /\ Head(normal).func = "message"
      BY <1>1, <1>2, <2>1 DEF Pops, NextTask, Typed
    <3>2. Head(normal) \in TaskRecord
      BY <3>1
    <3> QED
      BY <3>1, <3>2 DEF TaskRecord, Function
  <2>2. CASE urgent # <<>>
    <3>1. PICK d \in Conn : urgent = <<Task("message", d, FALSE)>>
      BY <1>2, <2>2 DEF Typed
    <3>2. NextTask = Task("message", d, FALSE)
      BY <2>2, <3>1 DEF NextTask
    <3>3. d = c
      BY <1>1, <3>2 DEF Pops, Task
    <3> QED
      BY <2>2, <3>1, <3>3
  <2> QED
    BY <2>1, <2>2
<1>4. handle[c] = "subscribed" /\ fiber[c] = "done"
    BY <1>2, <1>3 DEF TasksAgree, Task
<1>5. urgent' = <<>> /\ normal' = normal \o <<x>>
    BY <1>1, <1>3 DEF Popped
<1>6. x \in TaskRecord /\ x.func = "resume" /\ x.c = c
    BY DEF Task, TaskRecord, Function
<1> HIDE DEF x
<1>7. /\ <<x>> \in Seq(TaskRecord) /\ normal \in Seq(TaskRecord)
      /\ \A f, d : /\ Absent(<<x>>, f, d) <=> ~(f = "resume" /\ c = d)
                   /\ AtMostOne(<<x>>, f, d)
    BY <1>2, <1>6, OneTask DEF Typed
<1>8. /\ handle' \in [Conn -> {"none", "paused", "subscribed", "resuming"}] /\ handle'[c] = "resuming"
      /\ \A d \in Conn \ {c} : handle'[d] = handle[d]
    BY <1>1, <1>2 DEF Typed
<1>9. SameElsewhere(c)
    BY <1>1, <1>8 DEF SameElsewhere
<1>10. /\ normal' \in Seq(TaskRecord)
       /\ \A f \in Function : Absent(normal', f, c) <=> Absent(normal, f, c) /\ Absent(<<x>>, f, c)
       /\ \A d \in Conn \ {c} : TasksAgree(d)'
    BY <1>5, <1>7, <1>9, TasksElsewhere
<1>11. Typed'
    BY <1>1, <1>2, <1>5, <1>8, <1>10 DEF Typed
<1>12. Settled(c)'
    BY <1>8 DEF Settled
<1>13. \A s \in Thread : ThreadAgrees(s)'
    BY <1>1, <1>4, <1>9, <1>12, NobodyReads
<1>14. ConnectionAgrees(c)' /\ AnswersAgree(c)'
  <2>1. ConnectionAgrees(c)'
    BY <1>1, <1>2, <1>4, <1>8, <1>12 DEF ConnectionAgrees
  <2>2. AnswersAgree(c)'
    BY <1>1, <1>2 DEF AnswersAgree
  <2> QED
    BY <2>1, <2>2
<1>15. \A d \in Conn : ConnectionAgrees(d)' /\ AnswersAgree(d)'
    BY <1>9, <1>13, <1>14, OnlyAt
<1>16. TasksAgree(c)'
  <2>1. Absent(normal, "resume", c) /\ Absent(normal, "pause", c)
    BY <1>2, <1>4 DEF TasksAgree
  <2>2. \A f \in Single : AtMostOne(normal', f, c)
    <3>1. SUFFICES ASSUME NEW f \in Single PROVE AtMostOne(normal', f, c)
      OBVIOUS
    <3>2. /\ AtMostOne(normal, f, c) /\ Absent(<<x>>, f, c) => AtMostOne(normal', f, c)
          /\ Absent(normal, f, c) /\ AtMostOne(<<x>>, f, c) => AtMostOne(normal', f, c)
      BY <1>5, <1>7, Joined
    <3>3. CASE f = "resume"
      BY <1>7, <2>1, <3>2, <3>3
    <3>4. CASE f # "resume"
      BY <1>2, <1>7, <3>2, <3>4 DEF TasksAgree
    <3> QED
      BY <3>3, <3>4
  <2>3. \A f \in {"pause", "fiber", "on_close"} : Absent(normal', f, c) <=> Absent(normal, f, c)
    BY <1>7, <1>10 DEF Function
  <2> QED
    BY <1>1, <1>2, <1>5, <1>8, <2>1, <2>2, <2>3 DEF TasksAgree
<1>17. CountAgrees'
  <2>1. Paused' = Paused
    BY <1>4, <1>8 DEF Paused
  <2> QED
    BY <1>1, <1>2, <2>1 DEF CountAgrees
<1>18. HandledInTime => HandledInTime'
    BY <1>1, <1>4, <1>8 DEF HandledInTime
<1> QED
    BY <1>10, <1>11, <1>13, <1>15, <1>16, <1>17, <1>18 DEF Inv

\* What is known of a connection whose continuation is popped.
LEMMA Resuming ==
    ASSUME Inv, NEW t \in Thread, NEW c \in Conn, Pops(t, "resume", c)
    PROVE  /\ Typed /\ CountAgrees /\ ConnectionAgrees(c) /\ AnswersAgree(c) /\ TasksAgree(c)
           /\ urgent = <<>> /\ handle[c] = "resuming" /\ fiber[c] = "done" /\ request[c] # 0
           /\ c \in Paused /\ IsFiniteSet(Paused \ {c}) /\ stop.paused \in Nat \ {0}
           /\ Cardinality(Paused \ {c}) <= stop.paused - 1
           /\ uuid[c] \in Slot
<1>1. /\ Typed /\ CountAgrees /\ ConnectionAgrees(c) /\ AnswersAgree(c) /\ TasksAgree(c)
      /\ uuid[c] \in Slot /\ stop.paused \in Nat
    BY DEF Inv, Typed, Flags
<1>2. urgent = <<>> /\ ~Absent(normal, "resume", c)
    BY <1>1, PoppedNext
<1>3. handle[c] = "resuming"
    BY <1>1, <1>2 DEF TasksAgree
<1>4. fiber[c] = "done" /\ request[c] # 0 /\ c \in Paused
    BY <1>1, <1>3 DEF ConnectionAgrees, Paused
<1>5. /\ IsFiniteSet(Paused \ {c}) /\ Cardinality(Paused \ {c}) = Cardinality(Paused) - 1
      /\ Cardinality(Paused) \in Nat /\ Cardinality(Paused \ {c}) \in Nat
    BY <1>1, <1>4, FS_RemoveElement, FS_CardinalityType DEF CountAgrees
<1>6. Cardinality(Paused) <= stop.paused
    BY <1>1 DEF CountAgrees
<1>7. stop.paused # 0 /\ Cardinality(Paused \ {c}) <= stop.paused - 1
    BY <1>1, <1>5, <1>6
<1> QED
    BY <1>1, <1>2, <1>3, <1>4, <1>5, <1>7

\* The request of c is over: its continuation is popped, the tasks of more are pushed.
LEMMA Resumption ==
    ASSUME Inv, NEW t \in Thread, NEW c \in Conn, Pops(t, "resume", c),
           NEW more, Mild(more), Popped(more), SameElsewhere(c),
           handle'[c] = "none",
           \A d \in Conn : Absent(more, "on_close", d) \/ (d = c /\ uuid'[c].protocol # "http1"),
           uuid'[c].protocol = "http1" => uuid[c].protocol = "http1",
           stop'.paused \in {stop.paused, stop.paused - 1},
           stop'.ticks = stop.ticks, stop'.requested = stop.requested
    PROVE  /\ normal' \in Seq(TaskRecord) /\ urgent' = urgent
           /\ \A d \in Conn : TasksAgree(d)'
           /\ CountAgrees'
<1>1. /\ Typed /\ CountAgrees /\ TasksAgree(c) /\ urgent = <<>> /\ handle[c] = "resuming"
      /\ fiber[c] = "done"
      /\ c \in Paused /\ IsFiniteSet(Paused \ {c}) /\ stop.paused \in Nat \ {0}
      /\ Cardinality(Paused \ {c}) <= stop.paused - 1
    BY Resuming
<1>2. Rearranged(more) /\ Absent(normal', "resume", c)
    BY <1>1, MildPopped DEF TasksAgree, Single
<1>3. Absent(normal', "pause", c) /\ Absent(normal', "fiber", c)
    BY <1>1, <1>2 DEF TasksAgree, Rearranged, Single
<1>4. ASSUME NEW d \in Conn PROVE TasksAgree(d)'
  <2>1. TasksAgree(d)
    BY DEF Inv
  <2>2. CASE d = c
    <3>1. \A f \in Single : AtMostOne(normal', f, c)
      BY <1>1, <1>2 DEF TasksAgree, Rearranged
    <3>2. Absent(normal', "on_close", c) \/ uuid'[c].protocol # "http1"
      BY <1>1, <1>2 DEF TasksAgree, Rearranged
    <3>3. urgent' = <<>>
      BY <1>1, <1>2 DEF Rearranged
    <3> QED
      BY <1>2, <1>3, <2>2, <3>1, <3>2, <3>3 DEF TasksAgree
  <2>3. CASE d # c
    <3>1. handle'[d] = handle[d] /\ fiber'[d] = fiber[d] /\ uuid'[d] = uuid[d]
      BY <2>3 DEF SameElsewhere
    <3>2. Absent(more, "on_close", d)
      BY <2>3
    <3> QED
      BY <1>2, <3>1, <3>2, TasksKept
  <2> QED
    BY <2>2, <2>3
<1>5. CountAgrees'
  <2>1. Paused' = Paused \ {c}
    BY DEF Paused, SameElsewhere
  <2>2. Cardinality(Paused \ {c}) <= stop'.paused
    <3>1. Cardinality(Paused \ {c}) \in Nat
      BY <1>1, FS_CardinalityType
    <3> QED
      BY <1>1, <3>1
  <2> QED
    BY <1>1, <2>1, <2>2 DEF CountAgrees
<1> QED
    BY <1>2, <1>4, <1>5 DEF Rearranged

LEMMA FallbackStep ==
    ASSUME Inv, NEW t \in Thread, NEW c \in Conn, http_resume_fallback_wrapper(t, c)
    PROVE  Inv' /\ (HandledInTime => HandledInTime')
<1>1. /\ Pops(t, "resume", c) /\ Popped(<<>>) /\ uuid[c].protocol = "none"
      /\ handle' = [handle EXCEPT ![c] = "none"]
      /\ uuid' = uuid /\ request' = request /\ answers' = answers /\ sent' = sent /\ parsed' = parsed
      /\ fiber' = fiber /\ store' = store /\ subs' = subs /\ missed' = missed
      /\ misused' = misused /\ stop' = stop /\ th' = th
    BY DEF http_resume_fallback_wrapper, conns
<1>2. /\ Typed /\ ConnectionAgrees(c) /\ AnswersAgree(c)
      /\ handle[c] = "resuming" /\ fiber[c] = "done"
    BY <1>1, Resuming
<1>3. /\ handle' \in [Conn -> {"none", "paused", "subscribed", "resuming"}] /\ handle'[c] = "none"
      /\ \A d \in Conn \ {c} : handle'[d] = handle[d]
    BY <1>1, <1>2 DEF Typed
<1>4. SameElsewhere(c)
    BY <1>1, <1>3 DEF SameElsewhere
<1>5. Mild(<<>>) /\ \A d : Absent(<<>>, "on_close", d)
    BY MildTask
<1>6. /\ normal' \in Seq(TaskRecord) /\ urgent' = urgent /\ \A d \in Conn : TasksAgree(d)'
      /\ CountAgrees'
    BY <1>1, <1>3, <1>4, <1>5, Resumption
<1>7. Typed'
    BY <1>1, <1>2, <1>3, <1>6 DEF Typed
<1>8. Settled(c)'
    BY <1>1 DEF Settled
<1>9. \A s \in Thread : ThreadAgrees(s)'
    BY <1>1, <1>2, <1>4, <1>8, NobodyReads
<1>10. ConnectionAgrees(c)' /\ AnswersAgree(c)'
  <2>1. ConnectionAgrees(c)'
    BY <1>1, <1>2, <1>3, <1>8 DEF ConnectionAgrees
  <2>2. AnswersAgree(c)'
    BY <1>1, <1>2 DEF AnswersAgree
  <2> QED
    BY <2>1, <2>2
<1>11. \A d \in Conn : ConnectionAgrees(d)' /\ AnswersAgree(d)'
    BY <1>4, <1>9, <1>10, OnlyAt
<1>12. HandledInTime => HandledInTime'
    BY <1>1, <1>3 DEF HandledInTime
<1> QED
    BY <1>6, <1>7, <1>9, <1>11, <1>12 DEF Inv

LEMMA ResumeStep ==
    ASSUME Inv, NEW t \in Thread, NEW c \in Conn, NEW how \in Resumed, http_resume_wrapper(t, c, how)
    PROVE  Inv' /\ (HandledInTime => HandledInTime')
<1> DEFINE u == Replied(uuid[c], how)
           tasks == RepliedTasks(c, uuid[c], how)
           v == IF http1_on_resume(u) THEN fio_suspend(u) ELSE u
           more == IF http1_on_resume(u) THEN tasks \o OnData(c, u) ELSE tasks
<1>1. /\ Pops(t, "resume", c) /\ Popped(more) /\ uuid[c].protocol # "none" /\ ~Busy(c)
      /\ misused' = (misused \/ uuid[c].freed)
      /\ subs' = subs \ {c} /\ store' = store \ {c}
      /\ fiber' = [fiber EXCEPT ![c] = "none"] /\ handle' = [handle EXCEPT ![c] = "none"]
      /\ answers' = Answered(c) /\ request' = [request EXCEPT ![c] = 0]
      /\ uuid' = [uuid EXCEPT ![c] = v]
      /\ stop' = stop \/ stop' = fio_resume
      /\ sent' = sent /\ parsed' = parsed /\ missed' = missed /\ th' = th
    BY DEF http_resume_wrapper
<1>2. /\ Typed /\ ConnectionAgrees(c) /\ AnswersAgree(c) /\ handle[c] = "resuming"
      /\ fiber[c] = "done" /\ request[c] # 0 /\ uuid[c] \in Slot /\ stop.paused \in Nat \ {0}
    BY <1>1, Resuming
<1>3. how \in {"respond", "websocket", "sse", "tcp"}
    BY RequestsAssumption
<1>4. /\ u \in Slot /\ Alike(uuid[c], u) /\ u.open = uuid[c].open
      /\ u.protocol = IF u.open /\ how # "respond" THEN how ELSE uuid[c].protocol
    BY <1>2, <1>3, Replies
<1>5. Mild(tasks) /\ \A d \in Conn : Absent(tasks, "on_close", d)
                                     \/ (d = c /\ uuid[c].open /\ how # "respond")
    BY <1>3, RepliesLeave
<1> HIDE DEF u, tasks
<1>6. /\ v \in Slot /\ Alike(uuid[c], v) /\ v.open = uuid[c].open /\ v.protocol = u.protocol
      /\ v.stop = u.stop
  <2>1. /\ fio_suspend(u) \in Slot /\ Alike(u, fio_suspend(u))
        /\ fio_suspend(u).open = u.open /\ fio_suspend(u).protocol = u.protocol
        /\ fio_suspend(u).stop = u.stop
    BY <1>4, SlotOperations
  <2> QED
    BY <1>4, <2>1 DEF Alike
<1>7. Mild(more) /\ \A d \in Conn : Absent(more, "on_close", d) \/ (d = c /\ v.protocol # "http1")
  <2>1. Mild(OnData(c, u)) /\ \A d \in Conn : Absent(OnData(c, u), "on_close", d)
    BY LeftBehind
  <2>2. /\ Mild(tasks \o OnData(c, u))
        /\ \A d : Absent(tasks \o OnData(c, u), "on_close", d)
                    <=> Absent(tasks, "on_close", d) /\ Absent(OnData(c, u), "on_close", d)
    BY <1>5, <2>1, MildJoined
  <2>3. uuid[c].open /\ how # "respond" => v.protocol # "http1"
    BY <1>3, <1>4, <1>6
  <2> HIDE DEF v
  <2>4. Mild(more) /\ \A d \in Conn : Absent(tasks, "on_close", d) => Absent(more, "on_close", d)
    BY <1>5, <2>1, <2>2
  <2> HIDE DEF more
  <2> QED
    BY <1>5, <2>3, <2>4
<1> HIDE DEF v, more
<1>8. uuid' \in [Conn -> Slot] /\ uuid'[c] = v /\ \A d \in Conn \ {c} : uuid'[d] = uuid[d]
    BY <1>1, <1>2, <1>6, SlotSet DEF Typed
<1>9. /\ answers' \in [Conn -> Seq(Nat)]
      /\ answers'[c] = [i \in 1 .. Len(answers'[c]) |-> i]
      /\ uuid[c].open => Len(answers'[c]) = parsed[c]
      /\ \A d \in Conn \ {c} : answers'[d] = answers[d]
    BY <1>1, <1>2, AnswerLeaves
<1>10. /\ handle' \in [Conn -> {"none", "paused", "subscribed", "resuming"}] /\ handle'[c] = "none"
       /\ fiber' \in [Conn -> {"none", "blocked", "woken", "done"}] /\ fiber'[c] = "none"
       /\ request' \in [Conn -> Nat] /\ request'[c] = 0
       /\ \A d \in Conn \ {c} : handle'[d] = handle[d] /\ fiber'[d] = fiber[d] /\ request'[d] = request[d]
    BY <1>1, <1>2 DEF Typed
<1>11. SameElsewhere(c)
    BY <1>1, <1>8, <1>9, <1>10 DEF SameElsewhere
<1>12. /\ stop' \in Flags /\ stop'.paused \in {stop.paused, stop.paused - 1}
       /\ stop'.ticks = stop.ticks /\ stop'.requested = stop.requested
  <2>1. CASE stop' = stop
    BY <1>2, <2>1 DEF Typed
  <2>2. CASE stop' = fio_resume
    <3> DEFINE k == stop.paused - 1
    <3>1. k \in Nat /\ stop \in Flags
      BY <1>2 DEF Typed
    <3>2. stop' = [stop EXCEPT !.paused = k]
      BY <2>2 DEF fio_resume
    <3> HIDE DEF k
    <3>3. stop' \in Flags /\ stop'.paused = k /\ stop'.ticks = stop.ticks /\ stop'.requested = stop.requested
      BY <3>1, <3>2 DEF Flags
    <3> QED
      BY <3>3 DEF k
  <2> QED
    BY <1>1, <2>1, <2>2
<1>13. v.protocol = "http1" => uuid[c].protocol = "http1"
    BY <1>3, <1>4, <1>6
<1>14. /\ normal' \in Seq(TaskRecord) /\ urgent' = urgent /\ \A d \in Conn : TasksAgree(d)'
       /\ CountAgrees'
    BY <1>1, <1>7, <1>8, <1>10, <1>11, <1>12, <1>13, Resumption
<1>15. Typed'
  <2>1. misused' \in BOOLEAN /\ subs' \subseteq Conn /\ store' \subseteq Conn
    BY <1>1, <1>2 DEF Typed
  <2> QED
    BY <1>1, <1>2, <1>8, <1>9, <1>10, <1>12, <1>14, <2>1 DEF Typed
<1>16. Settled(c)'
    BY <1>10 DEF Settled
<1>17. \A s \in Thread : ThreadAgrees(s)'
    BY <1>1, <1>2, <1>6, <1>8, <1>11, <1>16, NobodyReads DEF Alike
<1>18. ConnectionAgrees(c)' /\ AnswersAgree(c)'
  <2>1. v.open <=> v.protocol # "none"
    BY <1>2, <1>3, <1>4, <1>6 DEF ConnectionAgrees
  <2>2. v.freed => v.protocol # "http1"
    BY <1>2, <1>6, <1>13 DEF ConnectionAgrees, Alike
  <2>3. parsed[c] + v.buf + v.socket <= sent[c] /\ sent[c] <= REQUESTS[c]
    BY <1>2, <1>6 DEF ConnectionAgrees, Alike
  <2>4. ConnectionAgrees(c)'
    BY <1>1, <1>8, <1>10, <1>16, <2>1, <2>2, <2>3 DEF ConnectionAgrees
  <2>5. AnswersAgree(c)'
    BY <1>1, <1>6, <1>8, <1>9, <1>10 DEF AnswersAgree
  <2> QED
    BY <2>4, <2>5
<1>19. \A d \in Conn : ConnectionAgrees(d)' /\ AnswersAgree(d)'
    BY <1>11, <1>17, <1>18, OnlyAt
<1>20. HandledInTime => HandledInTime'
  <2>1. SUFFICES ASSUME HandledInTime PROVE HandledInTime'
    OBVIOUS
  <2>2. uuid[c].protocol = "http1" /\ uuid[c].lock = NULL
    BY <1>1, <1>2, <2>1 DEF HandledInTime, Busy
  <2>3. ~misused'
    BY <1>1, <1>2, <2>1, <2>2 DEF HandledInTime, ConnectionAgrees
  <2>4. ASSUME NEW s \in Thread, th[s].pc \in {"consume", "throttle", "app", "pause"}, "defer" \in App
        PROVE  uuid'[th[s].c].protocol \in {"http1", "none"}
    <3>1. th[s].c # c /\ th[s].c \in Conn
      BY <1>2, <2>4 DEF Inv, ThreadAgrees
    <3> QED
      BY <1>8, <2>1, <2>4, <3>1 DEF HandledInTime
  <2>5. \A d \in Conn : handle'[d] # "none" => uuid'[d].protocol \in {"http1", "none"}
    BY <1>8, <1>10, <2>1 DEF HandledInTime
  <2> QED
    BY <1>1, <2>1, <2>3, <2>4, <2>5 DEF HandledInTime
<1> QED
    BY <1>14, <1>15, <1>17, <1>19, <1>20 DEF Inv

-----------------------------------------------------------------------------
\* Graceful stop.

StopAction == fio_register_background_task \/ fio_deregister_background_task
              \/ fio_graceful_stop \/ graceful_timer

\* Only a stop that has nobody to wait for, or waited long enough, ends the reactor.
StopPatient == stop.active /\ ~stop'.active => Paused = {} \/ (stop.requested /\ stop.ticks = 1)

LEMMA Graceful ==
    ASSUME NEW s \in Flags
    PROVE  /\ GracefulStop(s) \in Flags /\ GracefulStop(s).paused = s.paused
           /\ GracefulStop(s).tasks = s.tasks
           /\ s.requested => GracefulStop(s).ticks = s.ticks /\ GracefulStop(s).requested
           /\ ~s.requested /\ GracefulStop(s).ticks # s.ticks => GracefulStop(s).requested
           /\ GracefulStop(s).requested \/ GracefulStop(s).requested = s.requested
           /\ s.active /\ ~GracefulStop(s).active => s.paused = 0
<1>1. CASE s.paused = 0 /\ s.tasks = 0
  <2> DEFINE r == [s EXCEPT !.active = FALSE]
  <2>1. GracefulStop(s) = r
    BY <1>1 DEF GracefulStop
  <2>2. r \in Flags /\ r.paused = s.paused /\ r.tasks = s.tasks /\ r.ticks = s.ticks
        /\ r.requested = s.requested
    BY DEF Flags
  <2> QED
    BY <1>1, <2>1, <2>2
<1>2. CASE ~(s.paused = 0 /\ s.tasks = 0) /\ s.requested
  <2>1. GracefulStop(s) = s
    BY <1>2 DEF GracefulStop
  <2> QED
    BY <1>2, <2>1
<1>3. CASE ~(s.paused = 0 /\ s.tasks = 0) /\ ~s.requested
  <2> DEFINE r == [s EXCEPT !.requested = TRUE, !.ticks = TICKS]
  <2>1. GracefulStop(s) = r
    BY <1>3 DEF GracefulStop
  <2>2. r \in Flags /\ r.paused = s.paused /\ r.tasks = s.tasks /\ r.requested /\ r.active = s.active
    <3>1. TICKS \in 0 .. TICKS
      BY RequestsAssumption
    <3> QED
      BY <3>1 DEF Flags
  <2> QED
    BY <1>3, <2>1, <2>2
<1> QED
    BY <1>1, <1>2, <1>3

LEMMA StopStep ==
    ASSUME Inv, StopAction
    PROVE  Inv' /\ (HandledInTime => HandledInTime') /\ StopPatient
<1>1. /\ uuid' = uuid /\ request' = request /\ answers' = answers /\ sent' = sent /\ parsed' = parsed
      /\ handle' = handle /\ fiber' = fiber /\ store' = store /\ subs' = subs /\ missed' = missed
      /\ misused' = misused /\ urgent' = urgent /\ normal' = normal /\ th' = th
    BY DEF StopAction, fio_register_background_task, fio_deregister_background_task,
           fio_graceful_stop, graceful_timer, conns, fibers
<1>2. Typed /\ CountAgrees /\ stop \in Flags
    BY DEF Inv, Typed
<1>3. stop.paused = 0 => Paused = {}
  <2>1. Cardinality(Paused) \in Nat
    BY <1>2, FS_CardinalityType DEF CountAgrees
  <2>2. stop.paused = 0 => Cardinality(Paused) = 0
    BY <1>2, <2>1 DEF CountAgrees
  <2> QED
    BY <1>2, <2>2, FS_EmptySet DEF CountAgrees
<1>4. /\ stop' \in Flags /\ stop'.paused = stop.paused
      /\ stop'.ticks > 0 => stop'.requested
      /\ StopPatient
  <2>1. CASE fio_register_background_task
    <3> DEFINE k == stop.tasks + 1
    <3>1. k \in 0 .. MAXTASKS /\ stop' = [stop EXCEPT !.tasks = k]
      BY <1>2, <2>1, RequestsAssumption DEF Flags, fio_register_background_task
    <3> HIDE DEF k
    <3>2. /\ stop' \in Flags /\ stop'.paused = stop.paused /\ stop'.ticks = stop.ticks
          /\ stop'.requested = stop.requested /\ stop'.active = stop.active
      BY <1>2, <3>1 DEF Flags
    <3> QED
      BY <1>2, <3>2 DEF CountAgrees, StopPatient
  <2>2. CASE fio_deregister_background_task
    <3> DEFINE k == stop.tasks - 1
    <3>1. k \in 0 .. MAXTASKS /\ stop' = [stop EXCEPT !.tasks = k]
      BY <1>2, <2>2, RequestsAssumption DEF Flags, fio_deregister_background_task
    <3> HIDE DEF k
    <3>2. /\ stop' \in Flags /\ stop'.paused = stop.paused /\ stop'.ticks = stop.ticks
          /\ stop'.requested = stop.requested /\ stop'.active = stop.active
      BY <1>2, <3>1 DEF Flags
    <3> QED
      BY <1>2, <3>2 DEF CountAgrees, StopPatient
  <2>3. CASE fio_graceful_stop
    <3>1. stop' = GracefulStop(stop)
      BY <2>3 DEF fio_graceful_stop
    <3>2. stop.requested \in BOOLEAN
      BY <1>2 DEF Flags
    <3> QED
      BY <1>2, <1>3, <3>1, <3>2, Graceful DEF CountAgrees, StopPatient
  <2>4. CASE graceful_timer
    <3> DEFINE s == GracefulStop(stop)
               k == s.ticks - 1
               a == s.active /\ stop.ticks > 1
    <3>1. stop.active /\ stop.ticks > 0 /\ stop' = [s EXCEPT !.ticks = k, !.active = a]
      BY <2>4 DEF graceful_timer
    <3>2. stop.requested /\ stop.ticks \in 0 .. TICKS
      BY <1>2, <3>1 DEF CountAgrees, Flags
    <3>3. s \in Flags /\ s.paused = stop.paused /\ s.ticks = stop.ticks /\ s.requested
          /\ (~s.active => stop.paused = 0)
      BY <1>2, <3>1, <3>2, Graceful
    <3>4. k \in 0 .. TICKS /\ a \in BOOLEAN
      BY <3>1, <3>2, <3>3, RequestsAssumption DEF Flags
    <3>5. a \/ ~s.active \/ stop.ticks = 1
      BY <3>1, <3>2, RequestsAssumption
    <3> HIDE DEF s, k, a
    <3>6. /\ stop' \in Flags /\ stop'.paused = s.paused /\ stop'.requested = s.requested
          /\ stop'.active = a
      BY <3>1, <3>3, <3>4 DEF Flags
    <3> QED
      BY <1>3, <3>2, <3>3, <3>5, <3>6 DEF StopPatient
  <2> QED
    BY <2>1, <2>2, <2>3, <2>4 DEF StopAction
<1>5. Typed'
  <2>1. stop' \in Flags
    BY <1>4
  <2> QED
    BY <1>1, <1>2, <2>1 DEF Typed
<1>6. CountAgrees'
    BY <1>1, <1>2, <1>4 DEF CountAgrees, Paused
<1>7. ASSUME NEW s \in Thread PROVE ThreadAgrees(s)'
    BY <1>1 DEF Inv, ThreadAgrees, Settled
<1>8. ASSUME NEW d \in Conn PROVE ConnectionAgrees(d)' /\ AnswersAgree(d)' /\ TasksAgree(d)'
  <2>1. ConnectionAgrees(d) /\ AnswersAgree(d) /\ TasksAgree(d)
    BY DEF Inv
  <2>2. ConnectionAgrees(d)'
    BY <1>1, <2>1 DEF ConnectionAgrees, Settled
  <2>3. AnswersAgree(d)'
    BY <1>1, <2>1 DEF AnswersAgree
  <2>4. TasksAgree(d)'
    BY <1>1, <2>1 DEF TasksAgree, Absent, AtMostOne
  <2> QED
    BY <2>2, <2>3, <2>4
<1>9. HandledInTime => HandledInTime'
    BY <1>1 DEF HandledInTime
<1> QED
    BY <1>4, <1>5, <1>6, <1>7, <1>8, <1>9 DEF Inv

-----------------------------------------------------------------------------
LEMMA Start == Init => Inv /\ HandledInTime
<1> SUFFICES ASSUME Init PROVE Inv /\ HandledInTime
    OBVIOUS
<1>1. \A c \in Conn : uuid[c] = [open |-> TRUE, protocol |-> "http1", lock |-> NULL, stop |-> {},
                                 scheduled |-> FALSE, armed |-> TRUE, socket |-> 0, buf |-> 0,
                                 pending |-> 0, ready |-> FALSE, freed |-> FALSE]
    BY DEF Init
<1>2. uuid \in [Conn -> Slot]
    BY DEF Init, Slot
<1>3. /\ \A c \in Conn : request[c] = 0 /\ answers[c] = <<>> /\ sent[c] = 0 /\ parsed[c] = 0
                         /\ handle[c] = "none" /\ fiber[c] = "none"
      /\ store = {} /\ subs = {} /\ missed = {} /\ misused = FALSE /\ urgent = <<>> /\ normal = <<>>
      /\ \A t \in Thread : th[t].pc = "idle"
    BY DEF Init, Idle
<1>4. stop \in Flags /\ stop.ticks = 0 /\ stop.paused = 0
    BY RequestsAssumption DEF Init, Flags
<1>5. /\ request \in [Conn -> Nat] /\ sent \in [Conn -> Nat] /\ parsed \in [Conn -> Nat]
      /\ handle \in [Conn -> {"none", "paused", "subscribed", "resuming"}]
      /\ fiber \in [Conn -> {"none", "blocked", "woken", "done"}]
    BY DEF Init
<1>6. answers \in [Conn -> Seq(Nat)]
  <2>1. <<>> \in Seq(Nat)
    OBVIOUS
  <2> QED
    BY <2>1 DEF Init
<1>7. th \in [Thread -> Place]
    BY RequestsAssumption DEF Init, Idle, Place
<1>8. Typed
  <2>1. normal \in Seq(TaskRecord)
    BY <1>3
  <2> QED
    BY <1>2, <1>3, <1>4, <1>5, <1>6, <1>7, <2>1 DEF Typed
<1>9. CountAgrees
  <2>1. Paused = {}
    BY <1>3 DEF Paused
  <2> QED
    BY <1>4, <2>1, FS_EmptySet DEF CountAgrees
<1>10. \A t \in Thread : ThreadAgrees(t)
    BY <1>3 DEF ThreadAgrees
<1>11. ASSUME NEW c \in Conn PROVE ConnectionAgrees(c) /\ AnswersAgree(c) /\ TasksAgree(c)
  <2>1. ConnectionAgrees(c)
    <3>1. 0 <= REQUESTS[c] /\ Settled(c)
      BY <1>3, RequestsAssumption DEF Settled
    <3> QED
      BY <1>1, <1>3, <3>1 DEF ConnectionAgrees
  <2>2. AnswersAgree(c)
    BY <1>3 DEF AnswersAgree
  <2>3. TasksAgree(c)
    <3>1. \A i : i \notin DOMAIN normal
      BY <1>3
    <3> QED
      BY <1>3, <3>1 DEF TasksAgree, Absent, AtMostOne
  <2> QED
    BY <2>1, <2>2, <2>3
<1>12. HandledInTime
    BY <1>3 DEF HandledInTime
<1> QED
    BY <1>8, <1>9, <1>10, <1>11, <1>12 DEF Inv

LEMMA Stutter ==
    ASSUME Inv, UNCHANGED vars
    PROVE  Inv' /\ (HandledInTime => HandledInTime') /\ StopPatient
<1>1. /\ uuid' = uuid /\ request' = request /\ answers' = answers /\ sent' = sent /\ parsed' = parsed
      /\ handle' = handle /\ fiber' = fiber /\ store' = store /\ subs' = subs /\ missed' = missed
      /\ misused' = misused /\ urgent' = urgent /\ normal' = normal /\ th' = th /\ stop' = stop
    BY DEF vars
<1>2. Typed'
    BY <1>1 DEF Inv, Typed
<1>3. CountAgrees'
    BY <1>1 DEF Inv, CountAgrees, Paused
<1>4. ASSUME NEW s \in Thread PROVE ThreadAgrees(s)'
    BY <1>1 DEF Inv, ThreadAgrees, Settled
<1>5. ASSUME NEW d \in Conn PROVE ConnectionAgrees(d)' /\ AnswersAgree(d)' /\ TasksAgree(d)'
  <2>1. ConnectionAgrees(d) /\ AnswersAgree(d) /\ TasksAgree(d)
    BY DEF Inv
  <2>2. ConnectionAgrees(d)'
    BY <1>1, <2>1 DEF ConnectionAgrees, Settled
  <2>3. AnswersAgree(d)'
    BY <1>1, <2>1 DEF AnswersAgree
  <2>4. TasksAgree(d)'
    BY <1>1, <2>1 DEF TasksAgree, Absent, AtMostOne
  <2> QED
    BY <2>2, <2>3, <2>4
<1>6. HandledInTime => HandledInTime'
    BY <1>1 DEF HandledInTime
<1>7. StopPatient
    BY <1>1 DEF StopPatient
<1> QED
    BY <1>2, <1>3, <1>4, <1>5, <1>6, <1>7 DEF Inv

\* Every step keeps the invariant, and only the steps of a stop end the reactor.
LEMMA Step ==
    ASSUME Inv, [Next]_vars
    PROVE  Inv' /\ (NoPauseAfterUpgrade /\ HandledInTime => HandledInTime') /\ StopPatient
<1>1. CASE UNCHANGED vars
    BY <1>1, Stutter
<1>2. CASE StopAction
    BY <1>2, StopStep
<1>3. ASSUME NEW t \in Thread, Perform(t)
      PROVE  Inv' /\ (HandledInTime => HandledInTime') /\ stop'.active = stop.active
  <2>1. PICK c \in Conn :
            \/ deferred_ping(t, c) \/ http1_on_ready(t, c)
            \/ deferred_on_data_Elsewhere(t, c) \/ http1_on_data(t, c)
            \/ http_pause_wrapper(t, c) \/ fiber_ends(t, c) \/ http_resume(t, c)
            \/ fio_io_task_postpone(t, c) \/ http_resume_fallback_wrapper(t, c)
            \/ (\E how \in Resumed : http_resume_wrapper(t, c, how))
            \/ deferred_on_close(t, c) \/ deferred_on_shutdown(t, c)
    BY <1>3 DEF Perform
  <2>2. CASE deferred_ping(t, c)
    BY <2>2, PingStep DEF deferred_ping
  <2>3. CASE http1_on_ready(t, c)
    BY <2>3, ReadyStep DEF http1_on_ready
  <2>4. CASE deferred_on_data_Elsewhere(t, c)
    BY <2>4, ElsewhereStep DEF deferred_on_data_Elsewhere
  <2>5. CASE http1_on_data(t, c)
    BY <2>5, DataStep DEF http1_on_data
  <2>6. CASE http_pause_wrapper(t, c)
    BY <2>6, SubscribeStep DEF http_pause_wrapper
  <2>7. CASE fiber_ends(t, c)
    BY <2>7, EndStep DEF fiber_ends
  <2>8. CASE http_resume(t, c)
    BY <2>8, MessageStep DEF http_resume
  <2>9. CASE fio_io_task_postpone(t, c)
    BY <2>9, PostponeStep DEF fio_io_task_postpone
  <2>10. CASE http_resume_fallback_wrapper(t, c)
    BY <2>10, FallbackStep DEF http_resume_fallback_wrapper
  <2>11. CASE \E how \in Resumed : http_resume_wrapper(t, c, how)
    <3>1. PICK how \in Resumed : http_resume_wrapper(t, c, how)
      BY <2>11
    <3>2. stop' = stop \/ stop' = fio_resume
      BY <3>1 DEF http_resume_wrapper
    <3>3. stop \in Flags
      BY DEF Inv, Typed
    <3>4. fio_resume.active = stop.active
      BY <3>3 DEF fio_resume, Flags
    <3> QED
      BY <3>1, <3>2, <3>4, ResumeStep
  <2>12. CASE deferred_on_close(t, c)
    BY <2>12, CloseStep DEF deferred_on_close
  <2>13. CASE deferred_on_shutdown(t, c)
    BY <2>13, ShutdownStep DEF deferred_on_shutdown
  <2> QED
    BY <2>1, <2>2, <2>3, <2>4, <2>5, <2>6, <2>7, <2>8, <2>9, <2>10, <2>11, <2>12, <2>13
<1>4. ASSUME NEW t \in Thread, HandleRequest(t)
      PROVE  Inv' /\ (NoPauseAfterUpgrade /\ HandledInTime => HandledInTime')
             /\ stop'.active = stop.active
  <2>1. CASE http1_consume_data(t)
    BY <2>1, ConsumeStep DEF http1_consume_data
  <2>2. CASE http1_throttle(t)
    BY <2>2, ThrottleStep DEF http1_throttle
  <2>3. CASE \E how \in App : on_rack_request(t, how)
    BY <2>3, RackStep DEF on_rack_request
  <2>4. CASE iodine_handle_request_in_GVL(t)
    BY <2>4, DeferStep DEF iodine_handle_request_in_GVL
  <2>5. CASE http_pause(t)
    <3>1. stop' = fio_pause
      BY <2>5 DEF http_pause
    <3>2. stop \in Flags
      BY DEF Inv, Typed
    <3>3. fio_pause.active = stop.active
      BY <3>2 DEF fio_pause, Flags
    <3> QED
      BY <2>5, <3>1, <3>3, PauseStep
  <2>6. CASE protocol_unlock(t)
    BY <2>6, UnlockStep DEF protocol_unlock
  <2>7. CASE deferred_on_data_rearm(t)
    BY <2>7, RearmStep DEF deferred_on_data_rearm
  <2> QED
    BY <1>4, <2>1, <2>2, <2>3, <2>4, <2>5, <2>6, <2>7 DEF HandleRequest
<1>5. ASSUME NEW c \in Conn,
             \/ client_send(c) \/ poll_read(c) \/ fio_force_close(c) \/ fio_review_timeout(c)
             \/ fio_flush_all(c) \/ deferred_on_ready(c) \/ fiber_wakes(c)
      PROVE  Inv' /\ (HandledInTime => HandledInTime') /\ stop'.active = stop.active
  <2>1. CASE client_send(c)
    BY <2>1, ClientStep DEF client_send
  <2>2. CASE fiber_wakes(c)
    BY <2>2, WakeStep DEF fiber_wakes
  <2>3. CASE \/ poll_read(c) \/ fio_force_close(c) \/ fio_review_timeout(c)
             \/ fio_flush_all(c) \/ deferred_on_ready(c)
    <3>1. Inv' /\ (HandledInTime => HandledInTime')
      BY <2>3, KernelStep
    <3>2. stop' = stop
      BY <2>3 DEF poll_read, fio_force_close, fio_review_timeout, fio_flush_all, deferred_on_ready
    <3> QED
      BY <3>1, <3>2
  <2> QED
    BY <1>5, <2>1, <2>2, <2>3
<1>6. CASE fio_worker_cleanup
    BY <1>6, CleanupStep DEF fio_worker_cleanup, StopPatient
<1>7. CASE Next
  <2>1. CASE \E t \in Thread : Perform(t) \/ HandleRequest(t)
    BY <1>3, <1>4, <2>1 DEF StopPatient
  <2>2. CASE \E c \in Conn :
                \/ client_send(c) \/ poll_read(c) \/ fio_force_close(c) \/ fio_review_timeout(c)
                \/ fio_flush_all(c) \/ deferred_on_ready(c) \/ fiber_wakes(c)
    BY <1>5, <2>2 DEF StopPatient
  <2> QED
    BY <1>2, <1>6, <1>7, <2>1, <2>2 DEF Next, StopAction
<1> QED
    BY <1>1, <1>7

LEMMA Always == Spec => []Inv
<1>1. Init => Inv
    BY Start
<1>2. Inv /\ [Next]_vars => Inv'
    BY Step
<1> QED
    BY <1>1, <1>2, PTL DEF Spec

LEMMA HandledAlways == ASSUME NoPauseAfterUpgrade PROVE Spec => [](Inv /\ HandledInTime)
<1>1. Init => Inv /\ HandledInTime
    BY Start
<1>2. (Inv /\ HandledInTime) /\ [Next]_vars => (Inv /\ HandledInTime)'
    BY Step
<1> QED
    BY <1>1, <1>2, PTL DEF Spec

-----------------------------------------------------------------------------
\* However requests are paused, throttled and resumed, whichever threads handle them
\* (http1_consume_data, http_pause, http_resume), each is answered once and in order.
THEOREM OrderSafety == Spec => []AnsweredInOrder
<1>1. Inv => AnsweredInOrder
    BY DEF Inv, AnswersAgree, AnsweredInOrder
<1> QED
    BY <1>1, Always, PTL

\* A graceful stop (fio_graceful_stop and its timer) ends the reactor while a request is
\* paused only after its last repetition: the count of paused requests never falls behind.
THEOREM StopSafety == Spec => StopWaitsForRequests
<1>1. Inv /\ [Next]_vars =>
          [stop.active /\ ~stop'.active => Paused = {} \/ (stop.requested /\ stop.ticks = 1)]_vars
    BY Step DEF StopPatient
<1> QED
    BY <1>1, Always, PTL DEF Spec, StopWaitsForRequests

\* No request is used after http1_on_close freed its protocol, by any thread, however the
\* connection is closed, upgraded or paused meanwhile, when the application does not both
\* upgrade to server-sent events and defer.
THEOREM RequestsSafety == ASSUME NoPauseAfterUpgrade PROVE Spec => []RequestsSound
<1>1. Inv => TypeOK
  <2>1. SUFFICES ASSUME Inv PROVE TypeOK
    OBVIOUS
  <2>2. Typed
    BY <2>1 DEF Inv
  <2>3. \A c \in Conn : parsed[c] <= sent[c] /\ sent[c] <= REQUESTS[c]
    <3>1. SUFFICES ASSUME NEW c \in Conn PROVE parsed[c] <= sent[c] /\ sent[c] <= REQUESTS[c]
      OBVIOUS
    <3>2. parsed[c] + uuid[c].buf + uuid[c].socket <= sent[c] /\ sent[c] <= REQUESTS[c]
      BY <2>1 DEF Inv, ConnectionAgrees
    <3>3. parsed[c] \in Nat /\ sent[c] \in Nat /\ uuid[c].buf \in Nat /\ uuid[c].socket \in Nat
      BY <2>2 DEF Typed, Slot
    <3> QED
      BY <3>2, <3>3
  <2>4. \A t \in Thread : th[t].c \in Conn \cup {NULL} /\ th[t].limit \in 0 .. PIPELINE
    BY <2>2 DEF Typed, Place
  <2> QED
    BY <2>2, <2>3, <2>4 DEF Typed, TypeOK, Slot, Flags
<1>2. Inv /\ HandledInTime => RequestOutlivesItsHandler
    BY DEF Inv, HandledInTime, ThreadAgrees, RequestOutlivesItsHandler
<1> QED
    BY <1>1, <1>2, HandledAlways, PTL DEF RequestsSound
=============================================================================
