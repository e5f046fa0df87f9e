---------------------------- MODULE SocketProofs ----------------------------
(***************************************************************************)
(* Theorems about the packet queue of one slot of the connection table,    *)
(* for any threads: that the queue stays linked, packets are released once *)
(* and reach the wire whole; that bytes reach the peer they were written   *)
(* for, until the counter of the uuids comes round; and, for one           *)
(* connection, that no packets wait for nothing.                           *)
(***************************************************************************)
EXTENDS Socket, FiniteSetTheorems, SequenceTheorems, TLAPS

Pcs == {"idle", "accepted", "write_lock", "write", "flush", "hook", "syscall", "attacked", "test",
        "fatal", "force_close", "return", "rearm", "mark", "event", "drop_lock", "drop",
        "before_close", "clear", "close_fd", "read_lock", "read_hooks", "hangup"}
\* where a thread holds sock_lock
Holding == {"write", "hook", "syscall", "drop", "read_hooks"}
Frame == [pc : Pcs, u : Nat, c : 0 .. MaxConn, p : Packet \cup {NULL},
          arg : {"now", "task", "all", NULL}]
Slot == [gen : Nat, open : BOOLEAN, close : 0 .. 2, internal : BOOLEAN,
         late : BOOLEAN, packet : Seq(Packet), last : Packet \cup {NULL}, count : Nat]

\* TypeOK without the bound of the count, which CountOK gives
Typed ==
    /\ fd \in Slot
    /\ lock \in Thread \cup {NULL}
    /\ left \in [Packet -> 0 .. Size]
    /\ ready \subseteq Nat /\ armed \in BOOLEAN
    /\ sock \in 0 .. MaxConn /\ conns \in 0 .. MaxConn /\ hups \subseteq Conn
    /\ opened \in [Conn -> Nat] /\ target \in [Packet -> 0 .. MaxConn]
    /\ wire \in [Conn -> Seq(Packet)] /\ freed \in [Packet -> Nat]
    /\ th \in [Thread -> Frame]

-----------------------------------------------------------------------------
(* The inductive invariant for any threads.                                *)

Waiting(p) == \E i \in DOMAIN fd.packet : fd.packet[i] = p
InHand(p) == \E t \in Thread : th[t].p = p
\* what was handed to fio_write2 and is no longer in a writer's hands
Entered == {p \in Packet : target[p] # 0 /\ ~InHand(p)}

\* a thread in a section that sock_lock protects holds it
ThreadsAgree ==
    \A t \in Thread :
        /\ th[t].pc \in Holding => lock = t
        /\ th[t].pc = "syscall" => fd.packet # <<>>
        /\ th[t].pc = "accepted" => th[t].c # 0
        /\ th[t].p # NULL <=> th[t].pc \in {"write_lock", "write"}

\* a packet is in one writer's hands, until then whole and nowhere else
HandsAgree ==
    /\ \A s, t \in Thread : th[s].p = th[t].p /\ th[s].p # NULL => s = t
    /\ \A p \in Packet : target[p] = 0 \/ InHand(p) =>
          ~Waiting(p) /\ left[p] = Size /\ freed[p] = 0
    /\ \A p \in Packet : InHand(p) => target[p] # 0

\* only the first packet may be half sent
QueueAgrees ==
    /\ QueueSound
    /\ \A i \in DOMAIN fd.packet : i > 1 => left[fd.packet[i]] = Size

\* packet_count is at least the length: force_close_drop leaves it as it was
CountOK == Len(fd.packet) <= fd.count /\ fd.count <= Cardinality(Entered)

Sent(c, p) == {i \in DOMAIN wire[c] : wire[c][i] = p}
Together ==
    \A c \in Conn : \A i, j \in DOMAIN wire[c] :
        wire[c][i] = wire[c][j] => \A k \in i .. j : wire[c][k] = wire[c][i]
\* what was sent of the first packet in the queue ends what was sent
HeadIsLast ==
    fd.packet # <<>> => \A c \in Conn : \A i \in DOMAIN wire[c] :
        wire[c][i] = Head(fd.packet) => \A k \in i .. Len(wire[c]) : wire[c][k] = Head(fd.packet)
WireAgrees ==
    /\ Together /\ HeadIsLast
    /\ \A c \in Conn : \A p \in Packet : Cardinality(Sent(c, p)) + left[p] <= Size

Released == Own = {} => FreedOnce
Remembered == Own = Packet => \A p \in Entered : freed[p] > 0 \/ Waiting(p)

Data == HandsAgree /\ QueueAgrees /\ CountOK /\ WireAgrees /\ Released /\ Remembered
Inv == Typed /\ ThreadsAgree /\ Data

LEMMA NullIsNothing == NULL \notin Packet /\ NULL \notin Thread
  BY SocketAssumption
LEMMA Constants ==
    /\ IsFiniteSet(Packet) /\ Own \subseteq Packet /\ Urgent \subseteq Packet
    /\ MaxConn \in Nat /\ SLOWLORIS \in Nat /\ Hooked \in BOOLEAN
    /\ Closer \subseteq Reactor \cup Caller
  BY SocketAssumption

-----------------------------------------------------------------------------
(* fio_packet_free, and the operations on the queue.                       *)

LEMMA PositionsFinite ==
    ASSUME NEW S, NEW q \in Seq(S), NEW x
    PROVE  /\ IsFiniteSet({i \in DOMAIN q : q[i] = x})
           /\ Cardinality({i \in DOMAIN q : q[i] = x}) \in Nat
<1>1. DOMAIN q = 1 .. Len(q) /\ Len(q) \in Nat
  OBVIOUS
<1>2. IsFiniteSet(1 .. Len(q))
  BY <1>1, FS_Interval
<1>3. IsFiniteSet({i \in DOMAIN q : q[i] = x})
  BY <1>1, <1>2, FS_Subset
<1> QED
  BY <1>3, FS_CardinalityType

\* The packets of the list are deallocated once more, the others are not.
LEMMA FreeIs ==
    ASSUME freed \in [Packet -> Nat], NEW ps \in Seq(Packet)
    PROVE  /\ fio_packet_free(ps) \in [Packet -> Nat]
           /\ \A p \in Packet : (\A i \in DOMAIN ps : ps[i] # p) => fio_packet_free(ps)[p] = freed[p]
           /\ \A p \in Packet : (\E i \in DOMAIN ps : ps[i] = p) => fio_packet_free(ps)[p] > freed[p]
           /\ (\A i, j \in DOMAIN ps : ps[i] = ps[j] => i = j) =>
                \A p \in Packet : (\E i \in DOMAIN ps : ps[i] = p) => fio_packet_free(ps)[p] = freed[p] + 1
<1> DEFINE at(p) == {i \in DOMAIN ps : ps[i] = p}
<1>1. \A p \in Packet : IsFiniteSet(at(p)) /\ Cardinality(at(p)) \in Nat
  BY PositionsFinite
<1>2. fio_packet_free(ps) = [p \in Packet |-> freed[p] + Cardinality(at(p))]
  BY DEF fio_packet_free
<1>3. \A p \in Packet : at(p) = {} => Cardinality(at(p)) = 0
  BY FS_EmptySet
<1>4. \A p \in Packet : at(p) # {} => Cardinality(at(p)) # 0
  BY <1>1, FS_EmptySet
<1>5. ASSUME \A i, j \in DOMAIN ps : ps[i] = ps[j] => i = j, NEW p \in Packet, NEW i \in DOMAIN ps, ps[i] = p
      PROVE  Cardinality(at(p)) = 1
  <2>1. at(p) = {i}
    BY <1>5
  <2> QED
    BY <2>1, FS_Singleton
<1> HIDE DEF at
<1>6. \A p \in Packet : (\A i \in DOMAIN ps : ps[i] # p) => at(p) = {}
  BY DEF at
<1>7. \A p \in Packet : (\E i \in DOMAIN ps : ps[i] = p) => at(p) # {}
  BY DEF at
<1>8. \A p \in Packet : fio_packet_free(ps)[p] = freed[p] + Cardinality(at(p))
  BY <1>2
<1>9. \A p \in Packet : freed[p] \in Nat
  OBVIOUS
<1> QED
  <2>1. fio_packet_free(ps) \in [Packet -> Nat]
    BY <1>1, <1>2
  <2>2. \A p \in Packet : (\A i \in DOMAIN ps : ps[i] # p) => fio_packet_free(ps)[p] = freed[p]
    BY <1>3, <1>6, <1>8, <1>9
  <2>3. \A p \in Packet : (\E i \in DOMAIN ps : ps[i] = p) => fio_packet_free(ps)[p] > freed[p]
    BY <1>1, <1>4, <1>7, <1>8, <1>9
  <2>4. (\A i, j \in DOMAIN ps : ps[i] = ps[j] => i = j) =>
                \A p \in Packet : (\E i \in DOMAIN ps : ps[i] = p) => fio_packet_free(ps)[p] = freed[p] + 1
    BY <1>5, <1>8
  <2> QED
    BY <2>1, <2>2, <2>3, <2>4

\* What a queue's field and head are after *packet_last = packet and its kind: the packet
\* comes in behind the first one, or is the first one.
Takes(q, p, f) ==
    /\ f.packet \in Seq(Packet) /\ Len(f.packet) = Len(q) + 1
    /\ \A i \in DOMAIN f.packet : f.packet[i] = p \/ \E j \in DOMAIN q : f.packet[i] = q[j]
    /\ \A j \in DOMAIN q : \E i \in DOMAIN f.packet : f.packet[i] = q[j]
    /\ \E i \in DOMAIN f.packet : f.packet[i] = p
    /\ \A i, j \in DOMAIN f.packet : f.packet[i] = f.packet[j] => i = j
    /\ f.packet # <<>>
    /\ q = <<>> => Head(f.packet) = p
    /\ q # <<>> => Head(f.packet) = Head(q)
    /\ \A i \in DOMAIN f.packet : i > 1 => f.packet[i] = p \/ \E j \in DOMAIN q : j > 1 /\ f.packet[i] = q[j]
    /\ f.last = f.packet[Len(f.packet)]

LEMMA QueuedIs ==
    ASSUME fd \in Slot, QueueSound, NEW p \in Packet, ~Waiting(p)
    PROVE  /\ Queued(p) \in Slot /\ Queued(p).count = fd.count + 1
           /\ Queued(p).gen = fd.gen /\ Queued(p).open = fd.open
           /\ Queued(p).close = fd.close /\ Queued(p).internal = fd.internal
           /\ Takes(fd.packet, p, Queued(p))
<1> DEFINE q == fd.packet
           n == Len(q)
<1>1. q \in Seq(Packet) /\ n \in Nat /\ DOMAIN q = 1 .. n
  BY DEF Slot
<1>2. \A i, j \in 1 .. n : q[i] = q[j] => i = j
  BY <1>1 DEF QueueSound, QueuedIsAlive
<1>3. \A i \in 1 .. n : q[i] # p /\ q[i] \in Packet
  BY <1>1 DEF Waiting
<1>4. fd.last = IF q = <<>> THEN NULL ELSE q[n]
  BY DEF QueueSound, TailKnown, Last
<1>5. CASE p \notin Urgent
  <2>1. Queued(p) = [fd EXCEPT !.packet = SubSeq(q, 1, Position(fd.last)) \o <<p>>, !.last = p, !.count = @ + 1]
    BY <1>5 DEF Queued, Appended
  <2>2. Position(fd.last) = n
    <3>1. CASE q = <<>>
      BY <3>1, <1>4 DEF Position
    <3>2. CASE q # <<>>
      <4>1. n \in 1 .. n /\ q[n] \in Packet /\ q[n] # NULL
        BY <3>2, <1>1, <1>3, NullIsNothing
      <4>2. \A i \in DOMAIN q : q[i] = q[n] => i = n
        BY <4>1, <1>1, <1>2
      <4>3. (CHOOSE i \in DOMAIN q : q[i] = q[n]) = n
        BY <4>1, <4>2, <1>1
      <4> QED
        BY <4>1, <4>3, <1>4, <3>2 DEF Position
    <3> QED
      BY <3>1, <3>2
  <2> DEFINE z == SubSeq(q, 1, n) \o <<p>>
  <2>3. z \in Seq(Packet) /\ Len(z) = n + 1 /\ (\A i \in 1 .. n : z[i] = q[i]) /\ z[n + 1] = p
    <3> DEFINE y == SubSeq(q, 1, n)
    <3>1. y \in Seq(Packet) /\ Len(y) = n /\ \A i \in 1 .. n : y[i] = q[i]
      BY <1>1
    <3> HIDE DEF y, z
    <3>2. z = y \o <<p>>
      BY DEF y, z
    <3> QED
      BY <3>1, <3>2, <1>1
  <2>3a. DOMAIN z = 1 .. n + 1
    BY <2>3
  <2> HIDE DEF z
  <2>4. Queued(p) = [fd EXCEPT !.packet = z, !.last = p, !.count = @ + 1]
    BY <2>1, <2>2 DEF z
  <2>5. Queued(p).packet = z /\ Queued(p).last = p
    BY <2>4 DEF Slot
  <2>6. Takes(q, p, Queued(p))
    <3>1. z # <<>> /\ Head(z) = z[1]
      BY <2>3, <1>1
    <3>2. q # <<>> => n >= 1 /\ Head(q) = q[1]
      BY <1>1
    <3>3. q = <<>> => n = 0
      OBVIOUS
    <3>4. \A i \in DOMAIN z : i = n + 1 \/ i \in 1 .. n
      BY <2>3a, <1>1
    <3>5. \A i, j \in DOMAIN z : z[i] = z[j] => i = j
      BY <3>4, <2>3, <1>2, <1>3, <1>1
    <3>6. \A j \in DOMAIN q : j \in DOMAIN z /\ z[j] = q[j]
      BY <2>3, <2>3a, <1>1
    <3>7. n + 1 \in DOMAIN z
      BY <2>3a, <1>1
    <3>8. \A i \in DOMAIN z : z[i] = p \/ (i \in DOMAIN q /\ z[i] = q[i])
      BY <3>4, <2>3, <1>1
    <3> QED
      BY <1>1, <2>3, <2>5, <3>1, <3>2, <3>3, <3>5, <3>6, <3>7, <3>8 DEF Takes
  <2>7. fd.count + 1 \in Nat /\ p \in Packet \cup {NULL}
    BY DEF Slot
  <2>8. Queued(p) \in Slot
    BY <2>3, <2>4, <2>7 DEF Slot
  <2> QED
    BY <2>4, <2>6, <2>8 DEF Slot
<1>6. CASE p \in Urgent
  <2> DEFINE pos == IF q = <<>> THEN 1 ELSE 2
             z == InsertAt(q, pos, p)
             l == IF pos > n THEN p ELSE fd.last
  <2>1. Queued(p) = [fd EXCEPT !.packet = z, !.count = @ + 1, !.last = l]
    BY <1>6 DEF Queued, Inserted, Slot
  <2>2. q = <<>> => n = 0
    OBVIOUS
  <2>3. q # <<>> => n >= 1 /\ Head(q) = q[1]
    BY <1>1
  <2>4. pos \in 1 .. n + 1
    BY <1>1, <2>2, <2>3
  <2>5. z = SubSeq(q, 1, pos - 1) \o <<p>> \o SubSeq(q, pos, n)
    BY DEF InsertAt
  <2> DEFINE y == SubSeq(q, 1, pos - 1)
             w == SubSeq(q, pos, n)
  <2>5a. y \in Seq(Packet) /\ Len(y) = pos - 1 /\ \A i \in 1 .. pos - 1 : y[i] = q[i]
    BY <1>1, <2>4
  <2>5b. w \in Seq(Packet) /\ Len(w) = n + 1 - pos /\ \A i \in 1 .. n + 1 - pos : w[i] = q[pos + i - 1]
    <3>1. pos \in Int /\ pos >= 1 /\ pos <= n + 1
      BY <1>1, <2>4
    <3> HIDE DEF pos
    <3>2. w \in Seq(Packet) /\ Len(w) = IF pos <= n THEN n - pos + 1 ELSE 0
      BY <1>1, <3>1, SubSeqProperties
    <3>3. \A i \in 1 .. n + 1 - pos : w[i] = q[pos + i - 1]
      BY <1>1, <3>1
    <3> QED
      BY <1>1, <3>1, <3>2, <3>3
  <2>5c. z = (y \o <<p>>) \o w /\ pos \in Nat
    BY <2>4, <2>5
  <2> HIDE DEF y, w, z, pos
  <2>5d. y \o <<p>> \in Seq(Packet) /\ Len(y \o <<p>>) = pos /\ (y \o <<p>>)[pos] = p
         /\ \A i \in 1 .. pos - 1 : (y \o <<p>>)[i] = q[i]
    BY <2>5a, <2>5c
  <2>5e. Len(y \o <<p>>) + Len(w) = n + 1
    <3>1. pos \in Nat /\ n \in Nat /\ Len(y \o <<p>>) = pos /\ Len(w) = n + 1 - pos
      BY <1>1, <2>5b, <2>5c, <2>5d
    <3> HIDE DEF n
    <3> QED
      BY <3>1
  <2>6. z \in Seq(Packet) /\ Len(z) = n + 1
    BY <2>5b, <2>5c, <2>5d, <2>5e, ConcatProperties
  <2>7. \A i \in 1 .. pos - 1 : z[i] = q[i]
    BY <1>1, <2>4, <2>5b, <2>5c, <2>5d, SMTT(30)
  <2>8. z[pos] = p
    BY <1>1, <2>4, <2>5b, <2>5c, <2>5d
  <2>9. \A i \in pos + 1 .. n + 1 : z[i] = q[i - 1]
    <3> SUFFICES ASSUME NEW i \in pos + 1 .. n + 1 PROVE z[i] = q[i - 1]
      OBVIOUS
    <3>1. i - pos \in 1 .. n + 1 - pos /\ pos + (i - pos) - 1 = i - 1
      BY <1>1, <2>5c
    <3>2. z[i] = w[i - pos]
      BY <1>1, <2>4, <2>5b, <2>5c, <2>5d, <3>1
    <3> QED
      BY <3>1, <3>2, <2>5b
  <2>10. DOMAIN z = 1 .. n + 1
    BY <2>6
  <2>11. Queued(p).packet = z /\ Queued(p).last = l
    BY <2>1 DEF Slot
  <2>12. pos \in Nat /\ (n = 0 => pos = 1) /\ (n >= 1 => pos = 2)
    BY <1>1, <2>2, <2>3 DEF pos
  <2>13. l \in Packet \cup {NULL}
    BY DEF Slot
  <2>14. \A i \in DOMAIN z : i = pos \/ (i \in 1 .. pos - 1 /\ i \in DOMAIN q) \/ (i \in pos + 1 .. n + 1 /\ i - 1 \in DOMAIN q)
    BY <2>10, <2>4, <1>1
  <2>15. \A i, j \in DOMAIN z : z[i] = z[j] => i = j
    <3> SUFFICES ASSUME NEW i \in DOMAIN z, NEW j \in DOMAIN z, z[i] = z[j] PROVE i = j
      OBVIOUS
    <3>1. i \in Int /\ j \in Int
      BY <2>10
    <3>2. CASE i = pos
      BY <3>2, <3>1, <2>14, <2>7, <2>8, <2>9, <1>3, <1>1
    <3>3. CASE j = pos
      BY <3>3, <3>1, <2>14, <2>7, <2>8, <2>9, <1>3, <1>1
    <3>4. CASE i \in 1 .. pos - 1 /\ i \in DOMAIN q
      <4>1. z[i] = q[i]
        BY <3>4, <2>7
      <4>2. CASE j \in 1 .. pos - 1 /\ j \in DOMAIN q
        BY <4>1, <4>2, <3>4, <2>7, <1>1, <1>2
      <4>3. CASE j \in pos + 1 .. n + 1 /\ j - 1 \in DOMAIN q
        <5>1. q[i] = q[j - 1]
          BY <4>1, <4>3, <2>9
        <5> QED
          BY <5>1, <4>3, <3>4, <1>1, <1>2, <2>12
      <4> QED
        BY <4>2, <4>3, <3>3, <2>14
    <3>5. CASE i \in pos + 1 .. n + 1 /\ i - 1 \in DOMAIN q
      <4>1. z[i] = q[i - 1]
        BY <3>5, <2>9
      <4>2. CASE j \in 1 .. pos - 1 /\ j \in DOMAIN q
        <5>1. q[i - 1] = q[j]
          BY <4>1, <4>2, <2>7
        <5> QED
          BY <5>1, <4>2, <3>5, <1>1, <1>2, <2>12
      <4>3. CASE j \in pos + 1 .. n + 1 /\ j - 1 \in DOMAIN q
        <5>1. q[i - 1] = q[j - 1]
          BY <4>1, <4>3, <2>9
        <5> QED
          BY <5>1, <4>3, <3>5, <1>1, <1>2, <2>12, <3>1
      <4> QED
        BY <4>2, <4>3, <3>3, <2>14
    <3> QED
      BY <3>2, <3>4, <3>5, <2>14
  <2>16. Takes(q, p, Queued(p))
    <3>1. z # <<>> /\ Head(z) = z[1]
      BY <2>6, <1>1
    <3>2. q = <<>> => Head(z) = p
      BY <3>1, <2>2, <2>8, <2>12
    <3>3. q # <<>> => Head(z) = Head(q)
      BY <3>1, <2>3, <2>7, <2>12
    <3>4. pos \in DOMAIN z
      BY <2>4, <2>10
    <3>5. \A i \in DOMAIN z : z[i] = p \/ \E j \in DOMAIN q : z[i] = q[j]
      BY <2>14, <2>7, <2>8, <2>9
    <3>6. \A j \in DOMAIN q : \E i \in DOMAIN z : z[i] = q[j]
      <4> SUFFICES ASSUME NEW j \in DOMAIN q PROVE \E i \in DOMAIN z : z[i] = q[j]
        OBVIOUS
      <4>1. CASE j < pos
        BY <4>1, <2>7, <2>10, <2>12, <1>1
      <4>2. CASE j >= pos
        <5>1. j + 1 \in pos + 1 .. n + 1 /\ j + 1 \in DOMAIN z /\ (j + 1) - 1 = j
          BY <4>2, <2>10, <2>12, <1>1
        <5> QED
          BY <5>1, <2>9
      <4> QED
        BY <4>1, <4>2, <1>1, <2>12
    <3>7. \A i \in DOMAIN z : i > 1 => z[i] = p \/ \E j \in DOMAIN q : j > 1 /\ z[i] = q[j]
      <4> SUFFICES ASSUME NEW i \in DOMAIN z, i > 1, z[i] # p PROVE \E j \in DOMAIN q : j > 1 /\ z[i] = q[j]
        OBVIOUS
      <4>1. i # pos /\ n >= 1 /\ pos = 2
        BY <2>8, <2>10, <2>12, <1>1
      <4>2. i \in pos + 1 .. n + 1 /\ i - 1 \in DOMAIN q /\ i - 1 > 1
        BY <4>1, <2>10, <2>14, <1>1
      <4> QED
        BY <4>2, <2>9
    <3>8. l = z[Len(z)]
      <4>1. CASE pos > n
        BY <4>1, <2>4, <2>6, <2>8, <2>12, <1>1
      <4>2. CASE ~(pos > n)
        <5>1. n >= 1 /\ n + 1 \in pos + 1 .. n + 1 /\ (n + 1) - 1 = n
          BY <4>2, <2>12, <1>1
        <5>2. z[n + 1] = q[n]
          BY <5>1, <2>9
        <5> QED
          BY <5>1, <5>2, <4>2, <2>2, <2>6, <1>4, <1>1
      <4> QED
        BY <4>1, <4>2
    <3> HIDE DEF l
    <3> QED
      BY <2>6, <2>11, <2>15, <3>1, <3>2, <3>3, <3>4, <3>5, <3>6, <3>7, <3>8, <2>8 DEF Takes
  <2>17. fd.count + 1 \in Nat
    BY DEF Slot
  <2> HIDE DEF l
  <2>18. Queued(p) \in Slot
    BY <2>1, <2>6, <2>13, <2>17 DEF Slot
  <2> QED
    BY <2>1, <2>16, <2>18 DEF Slot
<1> QED
  BY <1>5, <1>6

\* fio_sock_packet_rotate_unsafe: the queue without its first packet.
LEMMA RotateIs ==
    ASSUME fd \in Slot, QueueSound, fd.packet # <<>>, Len(fd.packet) <= fd.count,
           NEW f, f = fio_sock_packet_rotate_unsafe
    PROVE  /\ f \in Slot /\ f.packet = Tail(fd.packet)
           /\ f.gen = fd.gen /\ f.open = fd.open /\ f.close = fd.close /\ f.internal = fd.internal
           /\ Len(f.packet) <= f.count /\ f.count <= fd.count
           /\ f.last = IF f.packet = <<>> THEN NULL ELSE f.packet[Len(f.packet)]
<1> DEFINE q == fd.packet
           n == Len(q)
           z == Tail(q)
<1>1. q \in Seq(Packet) /\ n \in Nat /\ n >= 1 /\ DOMAIN q = 1 .. n /\ Head(q) = q[1]
  BY DEF Slot
<1>2. z \in Seq(Packet) /\ Len(z) = n - 1 /\ \A i \in 1 .. n - 1 : z[i] = q[i + 1]
  BY <1>1
<1>3. fd.last = q[n] /\ \A i, j \in 1 .. n : q[i] = q[j] => i = j
  BY <1>1 DEF QueueSound, QueuedIsAlive, TailKnown, Last
<1> DEFINE l == IF z = <<>> \/ fd.last = Head(q) THEN NULL ELSE fd.last
           k == IF z = <<>> THEN 0 ELSE fd.count - 1
<1>4. f = [fd EXCEPT !.packet = z, !.count = k, !.last = l]
  BY DEF fio_sock_packet_rotate_unsafe, Slot
<1>5. z = <<>> <=> n = 1
  <2> HIDE DEF z
  <2>1. z = <<>> <=> Len(z) = 0
    BY <1>2, EmptySeq
  <2> QED
    BY <2>1, <1>1, <1>2
<1>6. k \in Nat /\ Len(z) <= k /\ k <= fd.count
  <2>1. fd.count \in Nat /\ n <= fd.count
    BY DEF Slot
  <2> HIDE DEF z
  <2> QED
    BY <2>1, <1>1, <1>2, <1>5
<1>7. l = IF z = <<>> THEN NULL ELSE z[Len(z)]
  <2>1. CASE z = <<>>
    BY <2>1
  <2>2. CASE z # <<>>
    <3>1. n > 1 /\ n - 1 \in 1 .. n - 1 /\ (n - 1) + 1 = n
      BY <2>2, <1>1, <1>5
    <3>2. z[n - 1] = q[n]
      BY <3>1, <1>2
    <3>3. q[n] # q[1]
      BY <3>1, <1>3, <1>1
    <3> QED
      BY <2>2, <3>2, <3>3, <1>1, <1>2, <1>3
  <2> QED
    BY <2>1, <2>2
<1>8. l \in Packet \cup {NULL}
  BY DEF Slot
<1> HIDE DEF z, l, k
<1> QED
  BY <1>2, <1>4, <1>6, <1>7, <1>8 DEF Slot, z

-----------------------------------------------------------------------------
(* What becomes of the invariant when one thread moves on.                 *)

LEMMA EnteredFinite ==
    /\ IsFiniteSet(Entered) /\ Cardinality(Entered) \in Nat
    /\ Cardinality(Entered) <= Cardinality(Packet)
<1>1. Entered \subseteq Packet
  BY DEF Entered
<1> QED
  BY <1>1, Constants, FS_Subset, FS_CardinalityType

LEMMA Starts == Init => Inv
<1> SUFFICES ASSUME Init PROVE Inv
  OBVIOUS
<1>0. <<>> \in Seq(Packet) /\ Len(<<>>) = 0 /\ DOMAIN <<>> = {}
  OBVIOUS
<1>1. fd \in Slot /\ fd.packet = <<>> /\ fd.last = NULL /\ fd.count = 0
  BY <1>0 DEF Init, Cleared, Slot
<1>1a. /\ lock = NULL /\ left = [p \in Packet |-> Size] /\ ready = {} /\ armed = FALSE
       /\ sock = 0 /\ conns = 0 /\ hups = {} /\ opened = [c \in Conn |-> 0]
       /\ target = [p \in Packet |-> 0] /\ wire = [c \in Conn |-> <<>>]
       /\ freed = [p \in Packet |-> 0] /\ th = [t \in Thread |-> Idle]
  BY DEF Init
<1> USE <1>1a
<1>2. Typed
  <2>2. Idle \in Frame
    BY Constants DEF Idle, Frame, Pcs
  <2> QED
    <3>1. wire \in [Conn -> Seq(Packet)] /\ freed \in [Packet -> Nat] /\ th \in [Thread -> Frame]
      BY <1>0, <2>2
    <3>2. left \in [Packet -> 0 .. Size] /\ opened \in [Conn -> Nat] /\ target \in [Packet -> 0 .. MaxConn]
      BY Constants DEF Size
    <3>3. 0 \in 0 .. MaxConn
      BY Constants
    <3> QED
      BY <1>1, <3>1, <3>2, <3>3 DEF Typed
<1>3. ThreadsAgree
  BY DEF ThreadsAgree, Idle, Holding
<1>4. \A p \in Packet : ~InHand(p)
  BY NullIsNothing DEF InHand, Idle
<1>5. HandsAgree
  <2>1. \A p \in Packet : ~Waiting(p) /\ left[p] = Size /\ freed[p] = 0
    BY <1>0, <1>1 DEF Waiting
  <2>2. \A t \in Thread : th[t].p = NULL
    BY DEF Idle
  <2> QED
    BY <2>1, <2>2, <1>4 DEF HandsAgree
<1>6. QueueAgrees
  BY <1>0, <1>1 DEF QueueAgrees, QueueSound, TailKnown, QueuedIsAlive
<1>7. CountOK
  BY <1>0, <1>1, EnteredFinite DEF CountOK
<1>8. WireAgrees
  <2>1. \A c \in Conn : DOMAIN wire[c] = {}
    OBVIOUS
  <2>2. \A c \in Conn, p \in Packet : Cardinality(Sent(c, p)) = 0
    BY <2>1, FS_EmptySet DEF Sent
  <2>3. HeadIsLast
    BY <1>1 DEF HeadIsLast
  <2> QED
    BY <2>1, <2>2, <2>3 DEF WireAgrees, Together, Size
<1>9. Released /\ Remembered
  BY DEF Released, FreedOnce, Remembered, Entered
<1> QED
  BY <1>2, <1>3, <1>5, <1>6, <1>7, <1>8, <1>9 DEF Inv, Data

LEMMA DataKept ==
    ASSUME Data, UNCHANGED <<left, freed, target, wire>>, fd'.packet = fd.packet,
           fd'.last = fd.last, fd'.count = fd.count, \A s \in Thread : th'[s].p = th[s].p
    PROVE  Data'
<1>1. \A p : InHand(p)' <=> InHand(p)
  BY DEF InHand
<1>2. \A p : Waiting(p)' <=> Waiting(p)
  BY DEF Waiting
<1>3. Entered' = Entered
  BY <1>1 DEF Entered
<1>4. HandsAgree'
  BY <1>1, <1>2 DEF HandsAgree, Data
<1>5. QueueAgrees'
  BY DEF QueueAgrees, QueueSound, TailKnown, QueuedIsAlive, Data
<1>6. CountOK'
  BY <1>3 DEF CountOK, Data
<1>7. WireAgrees'
  BY DEF WireAgrees, Together, HeadIsLast, Sent, Data
<1>8. Released' /\ Remembered'
  BY <1>2, <1>3 DEF Released, FreedOnce, Remembered, Data
<1> QED
  BY <1>4, <1>5, <1>6, <1>7, <1>8 DEF Data

\* The whole queue is given up, as fio_clear_fd and fio_force_close do.
LEMMA DataDropped ==
    ASSUME Typed, Data, UNCHANGED <<left, target, wire>>, fd'.packet = <<>>, fd'.last = NULL,
           fd'.count \in Nat, fd'.count <= fd.count,
           freed' = fio_packet_free(fd.packet), \A s \in Thread : th'[s].p = th[s].p
    PROVE  Data' /\ freed' \in [Packet -> Nat]
<1>0. fd.packet \in Seq(Packet) /\ freed \in [Packet -> Nat]
  BY DEF Typed, Slot
<1>1. \A p : InHand(p)' <=> InHand(p)
  BY DEF InHand
<1>2. \A p : ~Waiting(p)'
  BY DEF Waiting
<1>3. Entered' = Entered
  BY <1>1 DEF Entered
<1>3a. \A i, j \in DOMAIN fd.packet : fd.packet[i] = fd.packet[j] => i = j
  BY DEF Data, QueueAgrees, QueueSound, QueuedIsAlive
<1>3b. \A p \in Packet : ~Waiting(p) => freed'[p] = freed[p]
  BY <1>0, FreeIs DEF Waiting
<1>3c. \A p \in Packet : Waiting(p) => freed'[p] = freed[p] + 1 /\ freed'[p] > freed[p]
  BY <1>0, <1>3a, FreeIs DEF Waiting
<1>3d. freed' \in [Packet -> Nat]
  BY <1>0, FreeIs
<1>4. HandsAgree'
  BY <1>1, <1>2, <1>3b DEF HandsAgree, Data
<1>5. QueueAgrees'
  BY DEF QueueAgrees, QueueSound, TailKnown, QueuedIsAlive
<1>6. CountOK'
  <2>1. Len(fd'.packet) = 0 /\ fd.count \in Nat
    BY DEF Typed, Slot
  <2>2. fd.count <= Cardinality(Entered)
    BY DEF CountOK, Data
  <2> QED
    BY <1>3, <2>1, <2>2, EnteredFinite DEF CountOK
<1>7. WireAgrees'
  <2>1. HeadIsLast'
    BY DEF HeadIsLast
  <2>2. Together' /\ (\A c, p : Sent(c, p)' = Sent(c, p))
    BY DEF Together, Sent, WireAgrees, Data
  <2> QED
    BY <2>1, <2>2 DEF WireAgrees, Data
<1>8. Released'
  <2> SUFFICES ASSUME Own = {}, NEW p \in Packet PROVE freed'[p] <= 1
    BY DEF Released, FreedOnce
  <2>1. CASE Waiting(p)
    <3>1. freed[p] = 0
      BY <2>1 DEF Waiting, Data, QueueAgrees, QueueSound, QueuedIsAlive
    <3> QED
      BY <2>1, <3>1, <1>3c
  <2>2. CASE ~Waiting(p)
    BY <2>2, <1>3b DEF Released, FreedOnce, Data
  <2> QED
    BY <2>1, <2>2
<1>9. Remembered'
  <2> SUFFICES ASSUME Own = Packet, NEW p \in Entered PROVE freed'[p] > 0
    BY <1>3 DEF Remembered
  <2>1. p \in Packet /\ freed[p] \in Nat
    BY <1>0 DEF Entered
  <2>2. freed[p] > 0 \/ Waiting(p)
    BY DEF Remembered, Data
  <2> QED
    BY <2>1, <2>2, <1>3b, <1>3c
<1> QED
  BY <1>3d, <1>4, <1>5, <1>6, <1>7, <1>8, <1>9 DEF Data

\* Thread t goes to x; the queue changes only when nobody else holds the lock.
LEMMA ThreadMoves ==
    ASSUME Typed, ThreadsAgree, NEW t \in Thread, NEW x \in Frame,
           th' = [th EXCEPT ![t] = x],
           \/ lock' = lock
           \/ lock = NULL /\ lock' = t
           \/ lock = t /\ lock' = NULL,
           x.pc \in Holding => lock' = t,
           x.pc = "syscall" => fd'.packet # <<>>,
           x.pc = "accepted" => x.c # 0,
           x.p # NULL <=> x.pc \in {"write_lock", "write"},
           fd'.packet = fd.packet \/ lock = NULL \/ lock = t
    PROVE  ThreadsAgree' /\ th' \in [Thread -> Frame] /\ th'[t] = x
           /\ \A s \in Thread : s # t => th'[s] = th[s]
<1>1. th \in [Thread -> Frame]
  BY DEF Typed
<1>2. th' \in [Thread -> Frame] /\ th'[t] = x /\ \A s \in Thread : s # t => th'[s] = th[s]
  BY <1>1
<1>3. ASSUME NEW s \in Thread
      PROVE  /\ th'[s].pc \in Holding => lock' = s
             /\ th'[s].pc = "syscall" => fd'.packet # <<>>
             /\ th'[s].pc = "accepted" => th'[s].c # 0
             /\ th'[s].p # NULL <=> th'[s].pc \in {"write_lock", "write"}
  <2>1. CASE s = t
    BY <2>1, <1>2
  <2>2. CASE s # t
    <3>1. th'[s] = th[s]
      BY <2>2, <1>2
    <3>2. s # NULL /\ t # NULL
      BY NullIsNothing
    <3>3. th[s].pc \in Holding => lock = s /\ lock' = s /\ fd'.packet = fd.packet
      BY <2>2, <3>2 DEF ThreadsAgree
    <3>4. th[s].pc = "syscall" => th[s].pc \in Holding
      BY DEF Holding
    <3> QED
      BY <3>1, <3>3, <3>4 DEF ThreadsAgree
  <2> QED
    BY <2>1, <2>2
<1> QED
  BY <1>2, <1>3 DEF ThreadsAgree

\* ... with the data as they are: all that is left to show is where the lock is.
LEMMA Passes ==
    ASSUME Inv, NEW t \in Thread, NEW x \in Frame,
           th' = [th EXCEPT ![t] = x], x.p = th[t].p,
           \/ lock' = lock
           \/ lock = NULL /\ lock' = t
           \/ lock = t /\ lock' = NULL,
           x.pc \in Holding => lock' = t,
           x.pc = "syscall" => fd'.packet # <<>>,
           x.pc = "accepted" => x.c # 0,
           x.p # NULL <=> x.pc \in {"write_lock", "write"},
           UNCHANGED <<left, freed, target, wire>>,
           fd' \in Slot, fd'.packet = fd.packet, fd'.last = fd.last, fd'.count = fd.count,
           ready' \subseteq Nat, armed' \in BOOLEAN, sock' \in 0 .. MaxConn, conns' \in 0 .. MaxConn,
           hups' \subseteq Conn, opened' \in [Conn -> Nat]
    PROVE  Inv'
<1>1. Typed /\ ThreadsAgree /\ Data
  BY DEF Inv
<1>2. ThreadsAgree' /\ th' \in [Thread -> Frame] /\ th'[t] = x
      /\ \A s \in Thread : s # t => th'[s] = th[s]
  BY <1>1, ThreadMoves
<1>3. \A s \in Thread : th'[s].p = th[s].p
  BY <1>2
<1>4. Data'
  BY <1>1, <1>3, DataKept
<1>5. Typed'
  <2>1. lock' \in Thread \cup {NULL}
    BY <1>1 DEF Typed
  <2> QED
    BY <1>1, <1>2, <2>1 DEF Typed
<1> QED
  BY <1>2, <1>4, <1>5 DEF Inv

LEMMA Clears ==
    ASSUME Inv, NEW t \in Thread, NEW x \in Frame,
           th' = [th EXCEPT ![t] = x], x.p = th[t].p,
           lock' = lock \/ (lock = t /\ lock' = NULL),
           lock = NULL \/ lock = t,
           x.pc \notin Holding, x.pc # "accepted", x.pc \notin {"write_lock", "write"}, x.p = NULL,
           UNCHANGED <<left, target, wire>>,
           fd' \in Slot, fd'.packet = <<>>, fd'.last = NULL, fd'.count <= fd.count,
           freed' = fio_packet_free(fd.packet),
           ready' \subseteq Nat, armed' \in BOOLEAN, sock' \in 0 .. MaxConn, conns' \in 0 .. MaxConn,
           hups' \subseteq Conn, opened' \in [Conn -> Nat]
    PROVE  Inv'
<1>1. Typed /\ ThreadsAgree /\ Data
  BY DEF Inv
<1>2. ThreadsAgree' /\ th' \in [Thread -> Frame] /\ th'[t] = x
      /\ \A s \in Thread : s # t => th'[s] = th[s]
  BY <1>1, ThreadMoves DEF Holding
<1>3. \A s \in Thread : th'[s].p = th[s].p
  BY <1>2
<1>4. fd'.count \in Nat
  BY DEF Slot
<1>5. Data' /\ freed' \in [Packet -> Nat]
  BY <1>1, <1>3, <1>4, DataDropped
<1>6. Typed'
  <2>1. lock' \in Thread \cup {NULL}
    BY <1>1 DEF Typed
  <2> QED
    BY <1>1, <1>2, <1>5, <2>1 DEF Typed
<1> QED
  BY <1>2, <1>5, <1>6 DEF Inv

-----------------------------------------------------------------------------
(* The steps that leave the queue, the wire and what is allocated alone.   *)

Still == UNCHANGED <<left, freed, target, wire>> /\ fd' \in Slot
         /\ fd'.packet = fd.packet /\ fd'.last = fd.last /\ fd'.count = fd.count
KernelOK == ready' \subseteq Nat /\ armed' \in BOOLEAN /\ sock' \in 0 .. MaxConn
            /\ conns' \in 0 .. MaxConn /\ hups' \subseteq Conn /\ opened' \in [Conn -> Nat]

LEMMA Goes ==
    ASSUME Inv, NEW t \in Thread, NEW pc \in Pcs, Goto(t, pc), Still, KernelOK,
           \/ lock' = lock
           \/ lock = NULL /\ lock' = t
           \/ lock = t /\ lock' = NULL,
           pc \in Holding => lock' = t, pc = "syscall" => fd'.packet # <<>>, pc # "accepted",
           th[t].pc \in {"write_lock", "write"} <=> pc \in {"write_lock", "write"}
    PROVE  Inv'
<1> DEFINE x == [th[t] EXCEPT !.pc = pc]
<1>1. th \in [Thread -> Frame] /\ (th[t].p # NULL <=> th[t].pc \in {"write_lock", "write"})
  BY DEF Inv, Typed, ThreadsAgree
<1>2. th[t] \in Frame
  BY <1>1
<1>3. x \in Frame /\ x.pc = pc /\ x.p = th[t].p
  BY <1>2 DEF Frame
<1>4. th' = [th EXCEPT ![t] = x]
  BY <1>1 DEF Goto
<1> HIDE DEF x
<1> QED
  BY <1>1, <1>3, <1>4, Passes DEF Still, KernelOK

LEMMA Finishes ==
    ASSUME Inv, NEW t \in Thread, Done(t), Still, KernelOK,
           lock' = lock \/ (lock = t /\ lock' = NULL),
           th[t].pc \notin {"write_lock", "write"}
    PROVE  Inv'
<1>1. th[t].p = NULL
  BY DEF Inv, ThreadsAgree
<1>2. Idle \in Frame /\ Idle.pc = "idle" /\ Idle.p = NULL
  BY Constants DEF Idle, Frame, Pcs
<1> QED
  BY <1>1, <1>2, Passes DEF Done, Still, KernelOK, Holding

\* a new call of an idle thread
LEMMA Begins ==
    ASSUME Inv, NEW t \in Thread, At(t, "idle"), NEW x \in Frame, th' = [th EXCEPT ![t] = x],
           x.p = NULL, x.pc \notin Holding \cup {"write_lock", "write"}, x.pc = "accepted" => x.c # 0,
           Still, KernelOK, lock' = lock
    PROVE  Inv'
<1>1. th[t].p = NULL
  BY DEF Inv, ThreadsAgree, At
<1>2. x.pc # "syscall"
  BY DEF Holding
<1> QED
  BY <1>1, <1>2, Passes DEF Still, KernelOK, Holding

LEMMA KernelKept ==
    ASSUME Inv PROVE UNCHANGED <<ready, armed, kernel>> => KernelOK
  BY DEF Inv, Typed, KernelOK, kernel

LEMMA StillKept ==
    ASSUME Inv PROVE /\ UNCHANGED <<fd, left, freed, target, wire>> => Still
                     /\ UNCHANGED <<slot, target>> => Still /\ lock' = lock
  BY DEF Inv, Typed, Still, slot

LEMMA AgainKeeps ==
    ASSUME Inv, NEW t \in Thread, Again(t), Still, KernelOK,
           lock' = lock \/ (lock = t /\ lock' = NULL),
           th[t].pc \notin {"write_lock", "write"}
    PROVE  Inv'
<1>1. CASE th[t].arg = "all"
  <2>1. Done(t)
    BY <1>1 DEF Again, Done, Inv, Typed
  <2> QED
    BY <2>1, Finishes
<1>2. CASE th[t].arg # "all"
  <2>1. Goto(t, "rearm")
    BY <1>2 DEF Again, Goto, Inv, Typed
  <2> QED
    BY <2>1, Goes DEF Pcs, Holding
<1> QED
  BY <1>1, <1>2

LEMMA FlushFrame ==
    ASSUME NEW a \in Pcs, NEW b \in Nat, NEW e \in {"now", "task", "all", NULL},
           NEW f, f = Idle
    PROVE  [f EXCEPT !.pc = a, !.u = b, !.arg = e] \in Frame /\ [f EXCEPT !.pc = a, !.u = b, !.arg = e].pc = a /\ [f EXCEPT !.pc = a, !.u = b, !.arg = e].p = NULL
<1>1. f \in Frame
  BY Constants DEF Idle, Frame, Pcs
<1>2. [f EXCEPT !.pc = a, !.u = b, !.arg = e] \in Frame
  BY <1>1 DEF Frame
<1>3. [f EXCEPT !.pc = a, !.u = b, !.arg = e].pc = a /\ [f EXCEPT !.pc = a, !.u = b, !.arg = e].p = NULL
  BY DEF Idle
<1> QED
  BY <1>2, <1>3

LEMMA KernelFrame ==
    ASSUME NEW a \in Pcs, NEW d \in 0 .. MaxConn,
           NEW f, f = Idle
    PROVE  [f EXCEPT !.pc = a, !.c = d] \in Frame /\ [f EXCEPT !.pc = a, !.c = d].pc = a /\ [f EXCEPT !.pc = a, !.c = d].p = NULL
<1>1. f \in Frame
  BY Constants DEF Idle, Frame, Pcs
<1>2. [f EXCEPT !.pc = a, !.c = d] \in Frame
  BY <1>1 DEF Frame
<1>3. [f EXCEPT !.pc = a, !.c = d].pc = a /\ [f EXCEPT !.pc = a, !.c = d].p = NULL
  BY DEF Idle
<1> QED
  BY <1>2, <1>3

\* the close mark of fio_close, fio_force_close, their hook and fio_poll
LEMMA MarkKeeps ==
    ASSUME Inv, NEW n \in 0 .. 2, fd' = [fd EXCEPT !.close = n], UNCHANGED <<left, freed, target, wire>>
    PROVE  Still
<1>1. fd \in Slot
  BY DEF Inv, Typed
<1>2. fd' \in Slot /\ fd'.packet = fd.packet /\ fd'.last = fd.last /\ fd'.count = fd.count
  BY <1>1 DEF Slot
<1> QED
  BY <1>2 DEF Still

LEMMA MarkedIs ==
    ASSUME fd \in Slot, NEW l \in BOOLEAN, fd' = Marked(l)
    PROVE  /\ fd' \in Slot /\ fd'.gen = fd.gen /\ fd'.open = fd.open /\ fd'.internal = fd.internal
           /\ fd'.packet = fd.packet /\ fd'.last = fd.last /\ fd'.count = fd.count
<1> DEFINE n == IF fd.close = 0 THEN l ELSE fd.late
<1>1. n \in BOOLEAN
  BY DEF Slot
<1>2. fd' = [fd EXCEPT !.close = 1, !.late = n]
  BY DEF Marked
<1> HIDE DEF n
<1>3. /\ fd'.gen = fd.gen /\ fd'.open = fd.open /\ fd'.internal = fd.internal
      /\ fd'.packet = fd.packet /\ fd'.last = fd.last /\ fd'.count = fd.count
      /\ fd'.close = 1 /\ fd'.late = n
  BY <1>2 DEF Slot
<1>4. fd' = [gen |-> fd.gen, open |-> fd.open, close |-> 1, internal |-> fd.internal, late |-> n,
             packet |-> fd.packet, last |-> fd.last, count |-> fd.count]
  BY <1>2 DEF Slot
<1> QED
  BY <1>1, <1>3, <1>4 DEF Slot

LEMMA MarkingKeeps ==
    ASSUME Typed, NEW t \in Thread, flush_fatal(t) \/ close_mark(t)
    PROVE  /\ Still /\ fd'.gen = fd.gen /\ fd'.open = fd.open /\ fd'.internal = fd.internal
<1>1. PICK l \in BOOLEAN : fd' = Marked(l)
  <2>1. Unseen \in BOOLEAN /\ (Unseen /\ ~uuid_is_valid(th[t].u)) \in BOOLEAN
    BY DEF Unseen
  <2> QED
    BY <2>1 DEF flush_fatal, close_mark
<1>2. fd \in Slot /\ UNCHANGED <<left, freed, target, wire>>
  BY DEF Typed, flush_fatal, close_mark
<1> QED
  BY <1>1, <1>2, MarkedIs DEF Still

LEMMA LocksKeep ==
    ASSUME Inv, NEW t \in Thread, NEW pc \in Pcs, NEW next \in Pcs, LockedBy(t, pc, next),
           <<pc, next>> \in {<<"write_lock", "write">>, <<"drop_lock", "drop">>, <<"read_lock", "read_hooks">>}
    PROVE  Inv'
<1>1. Still /\ KernelOK /\ lock = NULL /\ lock' = t /\ Goto(t, next) /\ th[t].pc = pc
  BY KernelKept, StillKept DEF LockedBy, At
<1> QED
  BY <1>1, Goes

LEMMA ReactorSteps ==
    ASSUME Inv, NEW t \in Thread,
           accept4(t) \/ deferred_on_ready(t) \/ fio_flush_all(t) \/ poll_write(t) \/ poll_hangup(t)
    PROVE  Inv'
<1>0. Typed /\ 0 \in Nat /\ 0 \in 0 .. MaxConn
  BY Constants DEF Inv
<1>1. CASE accept4(t)
  <2> DEFINE x == [Idle EXCEPT !.pc = "accepted", !.c = conns + 1]
  <2>1. conns + 1 \in 0 .. MaxConn /\ conns + 1 # 0
    <3>1. conns \in 0 .. MaxConn /\ conns < MaxConn /\ MaxConn \in Nat
      BY <1>0, <1>1, Constants DEF accept4, Typed
    <3> QED
      BY <3>1
  <2>2. x \in Frame /\ x.pc = "accepted" /\ x.p = NULL /\ x.c # 0
    <3>1. x.c = conns + 1
      BY DEF Idle
    <3>2. "accepted" \in Pcs
      BY DEF Pcs
    <3>3. conns + 1 \in 0 .. MaxConn
      BY <2>1
    <3>4. x \in Frame /\ x.pc = "accepted" /\ x.p = NULL
      BY <3>2, <3>3, KernelFrame, Zenon
    <3> HIDE DEF x
    <3> QED
      BY <2>1, <3>1, <3>4
  <2>3. th' = [th EXCEPT ![t] = x] /\ At(t, "idle")
    BY <1>1 DEF accept4
  <2>4. KernelOK /\ Still /\ lock' = lock
    BY <1>0, <1>1, <2>1, StillKept DEF accept4, KernelOK, Typed
  <2> HIDE DEF x
  <2> QED
    BY <2>2, <2>3, <2>4, Begins DEF Holding
<1>2. CASE deferred_on_ready(t)
  <2>1. PICK u \in ready : /\ ready' = ready \ {u}
                           /\ th' = [th EXCEPT ![t] = [Idle EXCEPT !.pc = "flush", !.u = u, !.arg = "task"]]
    BY <1>2 DEF deferred_on_ready
  <2> DEFINE x == [Idle EXCEPT !.pc = "flush", !.u = u, !.arg = "task"]
  <2>2. x \in Frame /\ x.pc = "flush" /\ x.p = NULL
    <3>1. u \in Nat /\ "flush" \in Pcs /\ "task" \in {"now", "task", "all", NULL}
      BY <1>0 DEF Typed, Pcs
    <3>2. \A f : f = Idle => LET y == [f EXCEPT !.pc = "flush", !.u = u, !.arg = "task"]
                           IN  y \in Frame /\ y.pc = "flush" /\ y.p = NULL
      BY <3>1, FlushFrame, ZenonT(60)
    <3> QED
      BY <3>2, Zenon
  <2>3. KernelOK /\ Still /\ lock' = lock /\ At(t, "idle")
    BY <1>0, <1>2, <2>1, StillKept DEF deferred_on_ready, KernelOK, Typed, kernel
  <2> HIDE DEF x
  <2> QED
    BY <2>1, <2>2, <2>3, Begins DEF Holding, x
<1>3. CASE fio_flush_all(t)
  <2> DEFINE x == [Idle EXCEPT !.pc = "flush", !.u = fd.gen, !.arg = "all"]
  <2>2. x \in Frame /\ x.pc = "flush" /\ x.p = NULL
    <3>1. fd.gen \in Nat /\ "flush" \in Pcs /\ "all" \in {"now", "task", "all", NULL}
      BY <1>0 DEF Typed, Slot, Pcs
    <3>2. \A f : f = Idle => LET y == [f EXCEPT !.pc = "flush", !.u = fd.gen, !.arg = "all"]
                           IN  y \in Frame /\ y.pc = "flush" /\ y.p = NULL
      BY <3>1, FlushFrame, ZenonT(60)
    <3> QED
      BY <3>2, Zenon
  <2>3. KernelOK /\ Still /\ lock' = lock /\ At(t, "idle") /\ th' = [th EXCEPT ![t] = x]
    BY <1>0, <1>3, StillKept, KernelKept DEF fio_flush_all
  <2> HIDE DEF x
  <2> QED
    BY <2>2, <2>3, Begins DEF Holding
<1>4. CASE poll_write(t)
  <2>1. KernelOK /\ Still /\ lock' = lock /\ th' = th
    BY <1>0, <1>4, StillKept DEF poll_write, KernelOK, kernel, Typed, Slot
  <2>2. th[t] \in Frame /\ th[t].pc = "idle" /\ th[t].p = NULL
    BY <1>0, <1>4 DEF poll_write, Typed, At, Inv, ThreadsAgree
  <2>3. th' = [th EXCEPT ![t] = th[t]]
    <3>1. th \in [Thread -> Frame]
      BY <1>0 DEF Typed
    <3> QED
      BY <2>1, <3>1
  <2> QED
    BY <2>1, <2>2, <2>3, Begins DEF Holding, At
<1>5. CASE poll_hangup(t)
  <2> DEFINE x == [Idle EXCEPT !.pc = "hangup", !.c = sock]
  <2>2. x \in Frame /\ x.pc = "hangup" /\ x.p = NULL
    <3>1. sock \in 0 .. MaxConn /\ "hangup" \in Pcs
      BY <1>0 DEF Typed, Pcs
    <3> QED
      BY <3>1, KernelFrame, Zenon
  <2>3. sock \in Conn
    <3>1. sock \in 0 .. MaxConn /\ sock # 0 /\ MaxConn \in Nat
      BY <1>0, <1>5, Constants DEF poll_hangup, Typed
    <3> QED
      BY <3>1 DEF Conn
  <2>4. KernelOK /\ Still /\ lock' = lock /\ At(t, "idle") /\ th' = [th EXCEPT ![t] = x]
    BY <1>0, <1>5, <2>3, StillKept DEF poll_hangup, KernelOK, Typed
  <2> HIDE DEF x
  <2> QED
    BY <2>2, <2>4, Begins DEF Holding
<1> QED
  BY <1>1, <1>2, <1>3, <1>4, <1>5

\* the call's uuid is the one that fio_accept returned
LEMMA CallHas ==
    ASSUME Typed, NEW t \in Thread, NEW a \in Pcs, NEW d \in Conn, Call(t, d, a)
    PROVE  \E x \in Frame : x.pc = a /\ x.u = opened[d] /\ x.p = NULL /\ th' = [th EXCEPT ![t] = x]
<1>1. PICK b : b = opened[d]
  OBVIOUS
<1>2. b \in Nat
  BY <1>1 DEF Typed
<1>3. d \in 0 .. MaxConn
  BY Constants DEF Conn
<1>4. PICK f : f = Idle
  OBVIOUS
<1> DEFINE x == [f EXCEPT !.pc = a, !.u = b, !.c = d]
<1>5. x \in Frame /\ x.pc = a /\ x.u = b /\ x.p = NULL
  <2>1. f \in Frame /\ f.p = NULL
    BY <1>4, Constants DEF Idle, Frame, Pcs
  <2>2. x \in Frame
    BY <1>2, <1>3, <2>1 DEF Frame
  <2>3. x.pc = a /\ x.u = b /\ x.p = NULL
    BY <2>1 DEF Frame
  <2> QED
    BY <2>2, <2>3
<1>6. th' = [th EXCEPT ![t] = x]
  BY <1>1, <1>4, Zenon DEF Call
<1> HIDE DEF x
<1> QED
  BY <1>1, <1>5, <1>6

LEMMA CallSteps ==
    ASSUME Inv, NEW t \in Thread, fio_close(t) \/ call_force_close(t) \/ fio_read(t)
    PROVE  Inv'
<1>1. Still /\ KernelOK /\ lock' = lock /\ At(t, "idle")
  BY StillKept, KernelKept DEF fio_close, call_force_close, fio_read
<1>2. PICK c \in Conn : \E pc \in {"mark", "force_close", "read_lock"} : Call(t, c, pc)
  BY DEF fio_close, call_force_close, fio_read
<1>3. PICK pc \in {"mark", "force_close", "read_lock"} : Call(t, c, pc)
  BY <1>2
<1>4. pc \in Pcs /\ pc \notin Holding \cup {"write_lock", "write"} /\ pc # "accepted"
  BY DEF Pcs, Holding
<1>5. PICK x \in Frame : x.pc = pc /\ x.p = NULL /\ th' = [th EXCEPT ![t] = x]
  BY <1>3, <1>4, CallHas DEF Inv
<1> QED
  BY <1>1, <1>4, <1>5, Begins

LEMMA FlushSteps ==
    ASSUME Inv, NEW t \in Thread,
           \/ fio_flush(t) \/ flush_rw_hook(t) \/ flush_failed(t)
           \/ flush_fatal(t) \/ flush_test(t) \/ flush_return(t) \/ on_ready_again(t)
    PROVE  Inv'
<1>0. Typed /\ ThreadsAgree
  BY DEF Inv
<1>1. CASE fio_flush(t)
  <2>1. Still /\ KernelOK /\ th[t].pc = "flush" /\ fd' = fd
    BY <1>1, StillKept, KernelKept DEF fio_flush, At
  <2>2. CASE Done(t) /\ lock' = lock
    BY <2>1, <2>2, Finishes
  <2>3. CASE Again(t) /\ lock' = lock
    BY <2>1, <2>3, AgainKeeps
  <2>4. CASE lock = NULL /\ lock' = t /\ Goto(t, IF fd.packet = <<>> THEN "hook" ELSE "syscall")
    BY <2>1, <2>4, Goes DEF Pcs, Holding
  <2> QED
    BY <1>1, <2>2, <2>3, <2>4 DEF fio_flush
<1>2. CASE flush_rw_hook(t)
  <2>1. Still /\ KernelOK /\ th[t].pc = "hook" /\ lock' = NULL /\ Done(t)
    BY <1>2, StillKept, KernelKept DEF flush_rw_hook, At
  <2>2. lock = t
    BY <1>0, <2>1 DEF ThreadsAgree, Holding
  <2> QED
    BY <2>1, <2>2, Finishes
<1>3. CASE flush_failed(t)
  <2>1. Still /\ KernelOK /\ th[t].pc = "syscall" /\ lock' = NULL
    BY <1>3, StillKept, KernelKept DEF flush_failed, At
  <2>2. lock = t
    BY <1>0, <2>1 DEF ThreadsAgree, Holding
  <2>3. Again(t) \/ Goto(t, "fatal") \/ Done(t)
    <3>1. \A o \in Outcome \ {"all", "part"} : o \in {"again", "fatal", "other"}
      BY SocketAssumption
    <3>2. PICK o \in IF sock = 0 THEN {"fatal"} ELSE Outcome \ {"all", "part"} :
            CASE o = "again" -> Again(t) [] o = "fatal" -> Goto(t, "fatal") [] o = "other" -> Done(t)
      BY <1>3 DEF flush_failed
    <3>3. o = "again" \/ o = "fatal" \/ o = "other"
      BY <3>1
    <3> QED
      BY <3>2, <3>3
  <2> QED
    BY <2>1, <2>2, <2>3, AgainKeeps, Goes, Finishes DEF Pcs, Holding
<1>4. CASE flush_fatal(t)
  <2>1. KernelOK /\ th[t].pc = "fatal" /\ lock' = lock /\ Goto(t, "force_close")
    BY <1>4, KernelKept DEF flush_fatal, At
  <2>2. Still
    BY <1>4, MarkingKeeps DEF Inv
  <2> QED
    BY <2>1, <2>2, Goes DEF Pcs, Holding
<1>5. CASE flush_test(t)
  <2>1. Still /\ KernelOK /\ th[t].pc = "test" /\ lock' = lock
        /\ (Goto(t, "force_close") \/ Goto(t, "return"))
    BY <1>5, StillKept, KernelKept DEF flush_test, At
  <2> QED
    BY <2>1, Goes DEF Pcs, Holding
<1>6. CASE flush_return(t)
  <2>1. Still /\ KernelOK /\ th[t].pc = "return" /\ lock' = lock /\ (Again(t) \/ Done(t))
    BY <1>6, StillKept, KernelKept DEF flush_return, At
  <2> QED
    BY <2>1, AgainKeeps, Finishes
<1>7. CASE on_ready_again(t)
  <2>1. Still /\ th[t].pc = "rearm" /\ lock' = lock /\ Done(t)
    BY <1>7, StillKept DEF on_ready_again, At
  <2>2. KernelOK
    <3>1. th[t].u \in Nat
      BY <1>0 DEF Typed, Frame
    <3>2. ready' \subseteq Nat /\ armed' \in BOOLEAN
      BY <1>0, <1>7, <3>1 DEF on_ready_again, Rearmed, Typed
    <3> QED
      BY <1>0, <1>7, <3>2 DEF on_ready_again, KernelOK, Typed, kernel
  <2> QED
    BY <2>1, <2>2, Finishes
<1> QED
  BY <1>1, <1>2, <1>3, <1>4, <1>5, <1>6, <1>7

LEMMA CloseSteps ==
    ASSUME Inv, NEW t \in Thread,
           \/ close_mark(t) \/ fio_force_event(t) \/ fio_force_close(t)
           \/ before_close(t) \/ close_fd(t) \/ read_hooks(t) \/ fio_force_close_in_poll(t)
    PROVE  Inv'
<1>0. Typed /\ ThreadsAgree
  BY DEF Inv
<1>1. CASE close_mark(t)
  <2>1. KernelOK /\ th[t].pc = "mark" /\ lock' = lock /\ Goto(t, "event")
    BY <1>1, KernelKept DEF close_mark, At
  <2>2. Still
    BY <1>1, MarkingKeeps DEF Inv
  <2> QED
    BY <2>1, <2>2, Goes DEF Pcs, Holding
<1>2. CASE fio_force_event(t)
  <2>1. Still /\ th[t].pc = "event" /\ lock' = lock /\ Done(t)
    BY <1>2, StillKept DEF fio_force_event, At
  <2>2. KernelOK
    <3>1. th[t].u \in Nat
      BY <1>0 DEF Typed, Frame
    <3> QED
      BY <1>0, <1>2, <3>1 DEF fio_force_event, KernelOK, Typed, kernel
  <2> QED
    BY <2>1, <2>2, Finishes
<1>3. CASE fio_force_close(t)
  <2>1. KernelOK /\ th[t].pc = "force_close" /\ lock' = lock
    BY <1>3, KernelKept DEF fio_force_close, At
  <2>2. Still
    <3>1. UNCHANGED <<left, freed, target, wire>>
      BY <1>3 DEF fio_force_close
    <3>2. fd \in Slot
      BY <1>0 DEF Typed
    <3>3. fd' = fd \/ fd' = [fd EXCEPT !.close = IF fd.close = 0 THEN 1 ELSE fd.close]
      BY <1>3, <3>2 DEF fio_force_close, Slot
    <3>4. (IF fd.close = 0 THEN 1 ELSE fd.close) \in 0 .. 2
      BY <3>2 DEF Slot
    <3> QED
      BY <3>1, <3>3, <3>4, MarkKeeps, StillKept
  <2>3. Goto(t, "drop_lock") \/ Done(t)
    BY <1>3 DEF fio_force_close
  <2> QED
    BY <2>1, <2>2, <2>3, Goes, Finishes DEF Pcs, Holding
<1>4. CASE before_close(t)
  <2>1. th[t].pc = "before_close" /\ lock' = lock /\ (Done(t) \/ Goto(t, "clear"))
    BY <1>4 DEF before_close, At
  <2>2. Still
    <3>1. UNCHANGED <<left, freed, target, wire>> /\ (fd' = fd \/ fd' = [fd EXCEPT !.close = 2])
      BY <1>4 DEF before_close
    <3> QED
      BY <3>1, MarkKeeps, StillKept
  <2>3. KernelOK
    BY <1>0, <1>4 DEF before_close, KernelOK, Typed, kernel
  <2> QED
    BY <2>1, <2>2, <2>3, Goes, Finishes DEF Pcs, Holding
<1>5. CASE close_fd(t)
  <2>1. th[t].pc = "close_fd" /\ lock' = lock /\ Done(t) /\ Still
    BY <1>5, StillKept DEF close_fd, At
  <2>2. KernelOK
    <3>1. 0 \in 0 .. MaxConn
      BY Constants
    <3> QED
      BY <1>0, <1>5, <3>1 DEF close_fd, KernelOK, Typed
  <2> QED
    BY <2>1, <2>2, Finishes
<1>6. CASE read_hooks(t)
  <2>1. Still /\ KernelOK /\ th[t].pc = "read_hooks" /\ lock' = NULL /\ (Done(t) \/ Goto(t, "force_close"))
    BY <1>6, StillKept, KernelKept DEF read_hooks, At
  <2>2. lock = t
    BY <1>0, <2>1 DEF ThreadsAgree, Holding
  <2> QED
    BY <2>1, <2>2, Goes, Finishes DEF Pcs, Holding
<1>7. CASE fio_force_close_in_poll(t)
  <2>1. KernelOK /\ lock' = lock /\ th[t].pc = "hangup"
    BY <1>7, KernelKept DEF fio_force_close_in_poll, At
  <2>2. Still
    BY <1>7, MarkKeeps DEF fio_force_close_in_poll
  <2> DEFINE x == [th[t] EXCEPT !.pc = "force_close", !.u = fd.gen]
  <2>3. th[t] \in Frame /\ fd.gen \in Nat /\ th[t].p = NULL
    BY <1>0, <2>1 DEF Typed, Slot, ThreadsAgree
  <2>4. x \in Frame /\ x.pc = "force_close" /\ x.p = NULL
    BY <2>3 DEF Frame, Pcs
  <2>5. th' = [th EXCEPT ![t] = x]
    BY <1>0, <1>7 DEF fio_force_close_in_poll, Typed
  <2> HIDE DEF x
  <2> QED
    BY <2>1, <2>2, <2>3, <2>4, <2>5, Passes DEF Still, KernelOK, Holding
<1> QED
  BY <1>1, <1>2, <1>3, <1>4, <1>5, <1>6, <1>7

-----------------------------------------------------------------------------
(* The steps that clear the slot.                                          *)

LEMMA ClearedIs ==
    ASSUME NEW n \in Nat, NEW o \in BOOLEAN
    PROVE  /\ Cleared(n, o) \in Slot /\ Cleared(n, o).packet = <<>> /\ Cleared(n, o).last = NULL
           /\ Cleared(n, o).count = 0 /\ Cleared(n, o).gen = n /\ Cleared(n, o).open = o
           /\ Cleared(n, o).close = 0 /\ Cleared(n, o).internal = o
<1>1. <<>> \in Seq(Packet) /\ 0 \in Nat /\ 0 \in 0 .. 2
  OBVIOUS
<1> QED
  BY <1>1 DEF Cleared, Slot

LEMMA ClearSteps ==
    ASSUME Inv, NEW t \in Thread,
           \/ fio_accept(t) \/ flush_attacked(t) \/ poll_clear(t)
           \/ force_close_clear(t) \/ force_close_drop(t)
    PROVE  Inv'
<1>0. Typed /\ ThreadsAgree /\ fd \in Slot /\ th[t] \in Frame /\ th \in [Thread -> Frame]
  BY DEF Inv, Typed
<1>1. ASSUME NEW o \in BOOLEAN, fio_clear_fd(o)
      PROVE  /\ lock = NULL /\ fd' \in Slot /\ fd'.packet = <<>> /\ fd'.last = NULL
             /\ fd'.count <= fd.count /\ freed' = fio_packet_free(fd.packet)
  <2>1. fd.gen + 1 \in Nat /\ fd.count \in Nat
    BY <1>0 DEF Slot
  <2>2. fd' = Cleared(fd.gen + 1, o) /\ lock = NULL /\ freed' = fio_packet_free(fd.packet)
    BY <1>1 DEF fio_clear_fd
  <2> HIDE <1>1
  <2>3. fd' \in Slot /\ fd'.packet = <<>> /\ fd'.last = NULL /\ fd'.count = 0
    BY <2>1, <2>2, ClearedIs
  <2> QED
    BY <2>1, <2>2, <2>3
<1>2. Idle \in Frame /\ Idle.pc = "idle" /\ Idle.p = NULL
  BY Constants DEF Idle, Frame, Pcs
<1>3. CASE fio_accept(t)
  <2>1. /\ fio_clear_fd(TRUE) /\ th' = [th EXCEPT ![t] = Idle] /\ lock' = lock
        /\ UNCHANGED <<left, target, wire, ready, sock, conns, hups>> /\ armed' \in BOOLEAN
        /\ th[t].p = NULL
    BY <1>0, <1>3 DEF fio_accept, Done, At, ThreadsAgree
  <2>2. opened' \in [Conn -> Nat]
    <3>1. opened' = [opened EXCEPT ![th[t].c] = fd.gen + 1] /\ fd.gen + 1 \in Nat
      BY <1>0, <1>3 DEF fio_accept, Slot
    <3> QED
      BY <1>0, <3>1 DEF Typed
  <2> QED
    BY <1>0, <1>1, <1>2, <2>1, <2>2, Clears DEF Typed, Holding
<1>4. CASE flush_attacked(t) \/ poll_clear(t)
  <2>1. /\ fio_clear_fd(FALSE) /\ th' = [th EXCEPT ![t] = Idle] /\ lock' = lock
        /\ UNCHANGED <<left, target, wire, ready, sock, conns, hups, armed, opened>>
        /\ th[t].p = NULL
    BY <1>0, <1>4 DEF flush_attacked, poll_clear, Done, At, ThreadsAgree, kernel
  <2> QED
    BY <1>0, <1>1, <1>2, <2>1, Clears DEF Typed, Holding
<1>5. CASE force_close_clear(t)
  <2> DEFINE x == [th[t] EXCEPT !.pc = "close_fd"]
  <2>1. /\ fio_clear_fd(FALSE) /\ th' = [th EXCEPT ![t] = x] /\ lock' = lock
        /\ UNCHANGED <<left, target, wire, ready, sock, conns, hups, armed, opened>>
        /\ th[t].p = NULL
    BY <1>0, <1>5 DEF force_close_clear, Goto, At, ThreadsAgree, kernel
  <2>2. x \in Frame /\ x.pc = "close_fd" /\ x.p = th[t].p
    BY <1>0 DEF Frame, Pcs
  <2> HIDE DEF x
  <2> QED
    BY <1>0, <1>1, <2>1, <2>2, Clears DEF Typed, Holding
<1>6. CASE force_close_drop(t)
  <2> DEFINE x == [th[t] EXCEPT !.pc = "before_close"]
  <2>1. /\ th' = [th EXCEPT ![t] = x] /\ lock' = NULL /\ freed' = fio_packet_free(fd.packet)
        /\ UNCHANGED <<left, target, wire, ready, sock, conns, hups, armed, opened>>
        /\ th[t].p = NULL
    BY <1>0, <1>6 DEF force_close_drop, Goto, At, ThreadsAgree, kernel
  <2>2. x \in Frame /\ x.pc = "before_close" /\ x.p = th[t].p
    BY <1>0 DEF Frame, Pcs
  <2>3. lock = t
    BY <1>0, <1>6 DEF force_close_drop, At, ThreadsAgree, Holding
  <2>4. fd' = [fd EXCEPT !.packet = <<>>, !.last = NULL] /\ <<>> \in Seq(Packet)
    BY <1>6 DEF force_close_drop
  <2>5. fd' \in Slot /\ fd'.packet = <<>> /\ fd'.last = NULL /\ fd'.count = fd.count /\ fd.count \in Nat
    BY <1>0, <2>4 DEF Slot
  <2>6. fd'.count <= fd.count
    BY <2>5
  <2> HIDE DEF x
  <2>7. x.pc \notin Holding \cup {"accepted", "write_lock", "write"}
    BY <2>2 DEF Holding
  <2>8. /\ ready' \subseteq Nat /\ armed' \in BOOLEAN /\ sock' \in 0 .. MaxConn /\ conns' \in 0 .. MaxConn
        /\ hups' \subseteq Conn /\ opened' \in [Conn -> Nat]
    BY <1>0, <2>1 DEF Typed
  <2> QED
    BY <2>1, <2>2, <2>3, <2>5, <2>6, <2>7, <2>8, Clears
<1> QED
  BY <1>3, <1>4, <1>5, <1>6

-----------------------------------------------------------------------------
(* A packet comes in.                                                      *)

LEMMA Fio_write2Step ==
    ASSUME Inv, NEW t \in Thread, fio_write2(t)
    PROVE  Inv'
<1>0. Typed /\ ThreadsAgree /\ Data /\ th[t].pc = "idle" /\ th[t].p = NULL /\ th \in [Thread -> Frame]
  BY DEF Inv, fio_write2, At, ThreadsAgree, Typed
<1>1. PICK c \in Conn, p \in Packet :
        /\ opened[c] # 0 /\ target[p] = 0 /\ target' = [target EXCEPT ![p] = c]
        /\ \/ /\ th' = [th EXCEPT ![t] = [pc |-> "write_lock", u |-> opened[c], c |-> c,
                                          p |-> p, arg |-> "now"]]
              /\ UNCHANGED freed
           \/ /\ freed' = fio_packet_free(IF p \in Own THEN <<p>> ELSE <<>>)
              /\ UNCHANGED th
  BY DEF fio_write2
<1>2. UNCHANGED <<fd, lock, left, wire, ready, armed, sock, conns, hups, opened>>
  BY DEF fio_write2, kernel
<1>3. c \in 0 .. MaxConn /\ c # 0
  BY Constants DEF Conn
<1>4. /\ target' \in [Packet -> 0 .. MaxConn] /\ target'[p] = c
      /\ \A q \in Packet : q # p => target'[q] = target[q]
  BY <1>0, <1>1, <1>3 DEF Typed
<1>5. ~InHand(p) /\ ~Waiting(p) /\ left[p] = Size /\ freed[p] = 0 /\ p # NULL
  BY <1>0, <1>1, NullIsNothing DEF Data, HandsAgree
<1>6. \A q : Waiting(q)' <=> Waiting(q)
  BY <1>2 DEF Waiting
<1>7. WireAgrees'
  BY <1>0, <1>2 DEF Data, WireAgrees, Together, HeadIsLast, Sent
<1>8. CASE freed' = freed /\ th' = [th EXCEPT ![t] = [pc |-> "write_lock", u |-> opened[c], c |-> c,
                                                      p |-> p, arg |-> "now"]]
  <2> DEFINE x == [pc |-> "write_lock", u |-> opened[c], c |-> c, p |-> p, arg |-> "now"]
  <2>1. x \in Frame /\ x.pc = "write_lock" /\ x.p = p
    BY <1>0, <1>3 DEF Frame, Pcs, Typed
  <2>2. th' = [th EXCEPT ![t] = x]
    BY <1>8
  <2> HIDE DEF x
  <2>3. ThreadsAgree' /\ th' \in [Thread -> Frame] /\ th'[t] = x /\ \A s \in Thread : s # t => th'[s] = th[s]
    BY <1>0, <1>2, <1>5, <2>1, <2>2, ThreadMoves DEF Holding
  <2>4. InHand(p)' /\ \A q \in Packet : q # p => (InHand(q)' <=> InHand(q))
    BY <1>0, <2>1, <2>3, NullIsNothing DEF InHand
  <2>5. Entered' = Entered
    BY <1>1, <1>4, <2>4 DEF Entered
  <2>6. HandsAgree'
    <3>1. \A s, r \in Thread : th'[s].p = th'[r].p /\ th'[s].p # NULL => s = r
      BY <1>0, <1>5, <2>1, <2>3 DEF InHand, Data, HandsAgree
    <3>2. ASSUME NEW q \in Packet, target'[q] = 0 \/ InHand(q)'
          PROVE  ~Waiting(q)' /\ left'[q] = Size /\ freed'[q] = 0
      <4>1. CASE q = p
        BY <4>1, <1>2, <1>5, <1>6, <1>8
      <4>2. CASE q # p
        BY <4>2, <3>2, <1>0, <1>2, <1>4, <1>6, <1>8, <2>4 DEF Data, HandsAgree
      <4> QED
        BY <4>1, <4>2
    <3>3. \A q \in Packet : InHand(q)' => target'[q] # 0
      BY <1>0, <1>3, <1>4, <2>4 DEF Data, HandsAgree
    <3> QED
      BY <3>1, <3>2, <3>3 DEF HandsAgree
  <2>7. QueueAgrees' /\ CountOK' /\ Released' /\ Remembered'
    BY <1>0, <1>2, <1>6, <1>8, <2>5
       DEF Data, QueueAgrees, QueueSound, TailKnown, QueuedIsAlive, CountOK, Released, FreedOnce, Remembered
  <2>8. Typed'
    BY <1>0, <1>2, <1>4, <1>8, <2>3 DEF Typed
  <2> QED
    BY <1>7, <2>3, <2>6, <2>7, <2>8 DEF Inv, Data
<1>9. CASE th' = th /\ freed' = fio_packet_free(IF p \in Own THEN <<p>> ELSE <<>>)
  <2> DEFINE ps == IF p \in Own THEN <<p>> ELSE <<>>
  <2>1. ps \in Seq(Packet) /\ (\A i \in DOMAIN ps : ps[i] = p) /\ (p \in Own => \E i \in DOMAIN ps : ps[i] = p)
        /\ (p \notin Own => DOMAIN ps = {})
    OBVIOUS
  <2>2. freed \in [Packet -> Nat]
    BY <1>0 DEF Typed
  <2> HIDE DEF ps
  <2>3. freed' = fio_packet_free(ps)
    BY <1>9 DEF ps
  <2>4. /\ freed' \in [Packet -> Nat] /\ \A q \in Packet : q # p => freed'[q] = freed[q]
        /\ p \in Own => freed'[p] > freed[p]
        /\ p \notin Own => freed'[p] = freed[p]
    BY <2>1, <2>2, <2>3, FreeIs
  <2>5. \A q : InHand(q)' <=> InHand(q)
    BY <1>9 DEF InHand
  <2>6. Entered' = Entered \cup {p}
    BY <1>3, <1>4, <1>5, <2>5 DEF Entered
  <2>7. Typed'
    BY <1>0, <1>2, <1>4, <1>9, <2>4 DEF Typed
  <2>8. ThreadsAgree'
    BY <1>0, <1>2, <1>9 DEF ThreadsAgree
  <2>9. HandsAgree'
    <3>1. ASSUME NEW q \in Packet, target'[q] = 0 \/ InHand(q)'
          PROVE  ~Waiting(q)' /\ left'[q] = Size /\ freed'[q] = 0
      <4>1. q # p
        BY <3>1, <1>3, <1>4, <1>5, <2>5
      <4> QED
        BY <3>1, <4>1, <1>0, <1>2, <1>4, <1>6, <2>4, <2>5 DEF Data, HandsAgree
    <3>2. \A q \in Packet : InHand(q)' => target'[q] # 0
      BY <1>0, <1>3, <1>4, <2>5 DEF Data, HandsAgree
    <3> QED
      BY <1>0, <1>9, <3>1, <3>2 DEF Data, HandsAgree
  <2>10. QueueAgrees'
    <3>1. \A i \in DOMAIN fd.packet : fd.packet[i] \in Packet /\ fd.packet[i] # p
      BY <1>0, <1>5 DEF Waiting, Typed, Slot
    <3> QED
      BY <1>0, <1>2, <2>4, <3>1 DEF Data, QueueAgrees, QueueSound, TailKnown, QueuedIsAlive
  <2>11. CountOK'
    <3>1. IsFiniteSet(Entered \cup {p}) /\ Entered \subseteq Entered \cup {p}
      BY EnteredFinite, FS_AddElement
    <3>2. Cardinality(Entered) <= Cardinality(Entered') /\ Cardinality(Entered') \in Nat
      BY <2>6, <3>1, FS_Subset, FS_CardinalityType
    <3>3. fd.count \in Nat
      BY <1>0 DEF Typed, Slot
    <3> QED
      BY <1>0, <1>2, <3>2, <3>3, EnteredFinite DEF Data, CountOK
  <2>12. Released'
    BY <1>0, <2>4 DEF Data, Released, FreedOnce
  <2>13. Remembered'
    <3> SUFFICES ASSUME Own = Packet, NEW q \in Entered' PROVE freed'[q] > 0 \/ Waiting(q)'
      BY DEF Remembered
    <3>1. CASE q = p
      BY <3>1, <1>5, <2>4
    <3>2. CASE q # p
      BY <3>2, <1>0, <1>6, <2>4, <2>6 DEF Data, Remembered, Entered
    <3> QED
      BY <3>1, <3>2
  <2> QED
    BY <1>7, <2>7, <2>8, <2>9, <2>10, <2>11, <2>12, <2>13 DEF Inv, Data
<1> QED
  BY <1>1, <1>8, <1>9

\* A writer's packet leaves its hands, for the queue or to be released.
LEMMA Leaves ==
    ASSUME Inv, NEW t \in Thread, th[t].pc = "write", NEW p, th[t].p = p,
           NEW x \in Frame, th' = [th EXCEPT ![t] = x], x.pc \in {"idle", "flush"}, x.p = NULL, lock' = NULL, target' = target
    PROVE  /\ lock = t /\ p \in Packet
           /\ ThreadsAgree' /\ th' \in [Thread -> Frame]
           /\ InHand(p) /\ ~InHand(p)'
           /\ \A q \in Packet : q # p => (InHand(q)' <=> InHand(q))
           /\ \A s, r \in Thread : th'[s].p = th'[r].p /\ th'[s].p # NULL => s = r
           /\ p \notin Entered /\ Entered' = Entered \cup {p}
           /\ Cardinality(Entered') = Cardinality(Entered) + 1
<1>0. Typed /\ ThreadsAgree /\ Data /\ HandsAgree /\ th \in [Thread -> Frame]
  BY DEF Inv, Typed, Data
<1>1. lock = t
  BY <1>0 DEF ThreadsAgree, Holding
<1>2. th[t].p # NULL /\ th[t] \in Frame
  BY <1>0 DEF ThreadsAgree
<1>3. p \in Packet
  BY <1>2 DEF Frame
<1>4. ThreadsAgree' /\ th' \in [Thread -> Frame] /\ th'[t] = x /\ \A s \in Thread : s # t => th'[s] = th[s]
  BY <1>0, <1>1, ThreadMoves DEF Holding
<1>5. InHand(p) /\ ~InHand(p)'
  <2>1. InHand(p)
    BY DEF InHand
  <2>2. \A s \in Thread : s # t => th[s].p # p
    BY <1>0, <1>2 DEF HandsAgree
  <2>3. ~InHand(p)'
    <3> SUFFICES ASSUME NEW s \in Thread, th'[s].p = p PROVE FALSE
      BY DEF InHand
    <3> QED
      BY <1>2, <1>4, <2>2
  <2> QED
    BY <2>1, <2>3
<1>6. \A q \in Packet : q # p => (InHand(q)' <=> InHand(q))
  <2>1. \A q \in Packet : q # NULL
    BY NullIsNothing
  <2> QED
    BY <1>4, <2>1 DEF InHand
<1>7. \A s, r \in Thread : th'[s].p = th'[r].p /\ th'[s].p # NULL => s = r
  BY <1>0, <1>4 DEF HandsAgree
<1>8. p \notin Entered /\ Entered' = Entered \cup {p}
  <2>1. target[p] # 0
    BY <1>0, <1>3, <1>5 DEF HandsAgree
  <2> QED
    BY <1>3, <1>5, <1>6, <2>1 DEF Entered
<1>9. Cardinality(Entered') = Cardinality(Entered) + 1
  BY <1>8, EnteredFinite, FS_AddElement
<1> QED
  BY <1>1, <1>3, <1>4, <1>5, <1>6, <1>7, <1>8, <1>9

\* of a packet that was not sent at all no piece is on the wire
LEMMA WholeIsNowhere ==
    ASSUME Typed, WireAgrees, NEW p \in Packet, left[p] = Size
    PROVE  \A c \in Conn : \A i \in DOMAIN wire[c] : wire[c][i] # p
<1> SUFFICES ASSUME NEW c \in Conn, NEW i \in DOMAIN wire[c], wire[c][i] = p PROVE FALSE
  OBVIOUS
<1>1. wire[c] \in Seq(Packet)
  BY DEF Typed
<1>2. Cardinality(Sent(c, p)) + left[p] <= Size
  BY DEF WireAgrees
<1>3. IsFiniteSet(Sent(c, p)) /\ Cardinality(Sent(c, p)) \in Nat
  BY <1>1, PositionsFinite DEF Sent
<1>4. Cardinality(Sent(c, p)) = 0
  BY <1>2, <1>3 DEF Size
<1>5. Sent(c, p) = {}
  BY <1>3, <1>4, FS_EmptySet
<1> QED
  BY <1>5 DEF Sent

LEMMA Write_packetStep ==
    ASSUME Inv, NEW t \in Thread, write_packet(t)
    PROVE  Inv'
<1>0. Typed /\ ThreadsAgree /\ Data /\ HandsAgree /\ fd \in Slot /\ QueueSound /\ th[t].pc = "write"
  BY DEF Inv, Data, QueueAgrees, Typed, write_packet, At
<1>1. PICK p : p = th[t].p
  OBVIOUS
<1>2. /\ fd' = Queued(p) /\ lock' = NULL
      /\ UNCHANGED <<left, freed, wire, ready, armed, sock, conns, hups, opened, target>>
  BY <1>1 DEF write_packet, kernel
<1>3. PICK x \in Frame : th' = [th EXCEPT ![t] = x] /\ x.pc \in {"idle", "flush"} /\ x.p = NULL
  <2>1. Idle \in Frame /\ Idle.pc = "idle" /\ Idle.p = NULL
    BY Constants DEF Idle, Frame, Pcs
  <2>2. th[t] \in Frame /\ th \in [Thread -> Frame]
    BY <1>0 DEF Typed
  <2> DEFINE y == [th[t] EXCEPT !.pc = "flush", !.p = NULL]
  <2>3. y \in Frame /\ y.pc = "flush" /\ y.p = NULL
    BY <2>2 DEF Frame, Pcs
  <2>4. th' = [th EXCEPT ![t] = Idle] \/ th' = [th EXCEPT ![t] = y]
    BY <2>2 DEF write_packet
  <2> HIDE DEF y
  <2> QED
    BY <2>1, <2>3, <2>4
<1>4. /\ lock = t /\ p \in Packet
      /\ ThreadsAgree' /\ th' \in [Thread -> Frame]
      /\ InHand(p) /\ ~InHand(p)'
      /\ \A q \in Packet : q # p => (InHand(q)' <=> InHand(q))
      /\ \A s, r \in Thread : th'[s].p = th'[r].p /\ th'[s].p # NULL => s = r
      /\ p \notin Entered /\ Entered' = Entered \cup {p}
      /\ Cardinality(Entered') = Cardinality(Entered) + 1
  BY <1>0, <1>1, <1>2, <1>3, Leaves
<1>5. ~Waiting(p) /\ left[p] = Size /\ freed[p] = 0 /\ target[p] # 0
  BY <1>0, <1>4 DEF HandsAgree
<1>6. fd' \in Slot /\ fd'.count = fd.count + 1 /\ Takes(fd.packet, p, fd')
  BY <1>0, <1>2, <1>4, <1>5, QueuedIs
<1>7. \A q : Waiting(q)' => q = p \/ Waiting(q)
  BY <1>6 DEF Takes, Waiting
<1>8. Waiting(p)' /\ \A q : Waiting(q) => Waiting(q)'
  BY <1>6 DEF Takes, Waiting
<1>9. HandsAgree'
  <2>1. ASSUME NEW q \in Packet, target'[q] = 0 \/ InHand(q)'
        PROVE  ~Waiting(q)' /\ left'[q] = Size /\ freed'[q] = 0
    <3>1. q # p
      BY <2>1, <1>2, <1>4, <1>5
    <3> QED
      BY <2>1, <3>1, <1>0, <1>2, <1>4, <1>7 DEF HandsAgree
  <2>2. \A q \in Packet : InHand(q)' => target'[q] # 0
    BY <1>0, <1>2, <1>4 DEF HandsAgree
  <2> QED
    BY <1>4, <2>1, <2>2 DEF HandsAgree
<1>10. QueueAgrees'
  <2>1. TailKnown'
    BY <1>6 DEF Takes, TailKnown, Last
  <2>2. \A j \in DOMAIN fd.packet : freed[fd.packet[j]] = 0 /\ left[fd.packet[j]] > 0
                                    /\ (j > 1 => left[fd.packet[j]] = Size)
    BY <1>0 DEF Data, QueueAgrees, QueueSound, QueuedIsAlive
  <2>3. \A i \in DOMAIN fd'.packet : freed'[fd'.packet[i]] = 0 /\ left'[fd'.packet[i]] > 0
                                    /\ (i > 1 => left'[fd'.packet[i]] = Size)
    BY <1>2, <1>5, <1>6, <2>2 DEF Takes, Size
  <2>4. \A i, j \in DOMAIN fd'.packet : fd'.packet[i] = fd'.packet[j] => i = j
    BY <1>6 DEF Takes
  <2> QED
    BY <2>1, <2>3, <2>4 DEF QueueAgrees, QueueSound, QueuedIsAlive
<1>11. CountOK'
  <2>1. fd.count \in Nat /\ Len(fd.packet) \in Nat
    BY <1>0 DEF Slot
  <2>2. Len(fd.packet) <= fd.count /\ fd.count <= Cardinality(Entered)
    BY <1>0 DEF Data, CountOK
  <2> QED
    BY <1>4, <1>6, <2>1, <2>2, EnteredFinite DEF CountOK, Takes
<1>12. WireAgrees'
  <2>1. \A c \in Conn : \A i \in DOMAIN wire[c] : wire[c][i] # p
    BY <1>0, <1>4, <1>5, WholeIsNowhere DEF Data
  <2>2. HeadIsLast'
    <3>1. CASE fd.packet = <<>>
      BY <1>2, <1>6, <2>1, <3>1 DEF HeadIsLast, Takes
    <3>2. CASE fd.packet # <<>>
      <4>1. Head(fd'.packet) = Head(fd.packet)
        BY <1>6, <3>2 DEF Takes
      <4> QED
        BY <1>0, <1>2, <3>2, <4>1 DEF Data, WireAgrees, HeadIsLast
    <3> QED
      BY <3>1, <3>2
  <2> QED
    BY <1>0, <1>2, <2>2 DEF Data, WireAgrees, Together, Sent
<1>13. Released'
  BY <1>0, <1>2 DEF Data, Released, FreedOnce
<1>14. Remembered'
  BY <1>0, <1>2, <1>4, <1>8 DEF Data, Remembered
<1>15. Typed'
  BY <1>0, <1>2, <1>4, <1>6 DEF Typed
<1> QED
  BY <1>4, <1>9, <1>10, <1>11, <1>12, <1>13, <1>14, <1>15 DEF Inv, Data

LEMMA Write_errorStep ==
    ASSUME Inv, NEW t \in Thread, write_error(t)
    PROVE  Inv'
<1>0. Typed /\ ThreadsAgree /\ Data /\ HandsAgree /\ fd \in Slot /\ freed \in [Packet -> Nat] /\ th[t].pc = "write"
  BY DEF Inv, Data, Typed, write_error, At
<1>1. PICK p : p = th[t].p
  OBVIOUS
<1> DEFINE ps == IF p \in Own THEN <<p, p>> ELSE <<p>>
<1>2. /\ freed' = fio_packet_free(ps) /\ lock' = NULL /\ th' = [th EXCEPT ![t] = Idle]
      /\ UNCHANGED <<fd, left, wire, ready, armed, sock, conns, hups, opened, target>>
  BY <1>1 DEF write_error, kernel, Done
<1>3. Idle \in Frame /\ Idle.pc = "idle" /\ Idle.p = NULL
  BY Constants DEF Idle, Frame, Pcs
<1>4. /\ lock = t /\ p \in Packet
      /\ ThreadsAgree' /\ th' \in [Thread -> Frame]
      /\ InHand(p) /\ ~InHand(p)'
      /\ \A q \in Packet : q # p => (InHand(q)' <=> InHand(q))
      /\ \A s, r \in Thread : th'[s].p = th'[r].p /\ th'[s].p # NULL => s = r
      /\ p \notin Entered /\ Entered' = Entered \cup {p}
      /\ Cardinality(Entered') = Cardinality(Entered) + 1
  BY <1>0, <1>1, <1>2, <1>3, Leaves
<1>5. ~Waiting(p) /\ freed[p] = 0 /\ target[p] # 0
  BY <1>0, <1>4 DEF HandsAgree
<1>6. /\ ps \in Seq(Packet) /\ \A i \in DOMAIN ps : ps[i] = p
      /\ \E i \in DOMAIN ps : ps[i] = p
      /\ p \notin Own => \A i, j \in DOMAIN ps : i = j
  <2>1. CASE p \in Own
    <3>1. ps = <<p, p>>
      BY <2>1
    <3>2. <<p, p>> \in Seq(Packet) /\ DOMAIN <<p, p>> = 1 .. 2 /\ <<p, p>>[1] = p /\ <<p, p>>[2] = p
      BY <1>4
    <3> HIDE DEF ps
    <3> QED
      BY <2>1, <3>1, <3>2
  <2>2. CASE p \notin Own
    BY <1>4, <2>2
  <2> QED
    BY <2>1, <2>2
<1> HIDE DEF ps
<1>7. /\ freed' \in [Packet -> Nat] /\ freed'[p] > 0
      /\ p \notin Own => freed'[p] = 1
      /\ \A q \in Packet : q # p => freed'[q] = freed[q]
  BY <1>0, <1>2, <1>4, <1>5, <1>6, FreeIs
<1>8. \A q : Waiting(q)' <=> Waiting(q)
  BY <1>2 DEF Waiting
<1>9. HandsAgree'
  <2>1. ASSUME NEW q \in Packet, target'[q] = 0 \/ InHand(q)'
        PROVE  ~Waiting(q)' /\ left'[q] = Size /\ freed'[q] = 0
    <3>1. q # p
      BY <2>1, <1>2, <1>4, <1>5
    <3> QED
      BY <2>1, <3>1, <1>0, <1>2, <1>4, <1>7, <1>8 DEF HandsAgree
  <2>2. \A q \in Packet : InHand(q)' => target'[q] # 0
    BY <1>0, <1>2, <1>4 DEF HandsAgree
  <2> QED
    BY <1>4, <2>1, <2>2 DEF HandsAgree
<1>10. QueueAgrees'
  <2>1. \A i \in DOMAIN fd.packet : fd.packet[i] \in Packet /\ fd.packet[i] # p
    BY <1>0, <1>5 DEF Waiting, Slot
  <2> QED
    BY <1>0, <1>2, <1>7, <2>1 DEF Data, QueueAgrees, QueueSound, TailKnown, QueuedIsAlive
<1>11. CountOK'
  <2>1. fd.count \in Nat
    BY <1>0 DEF Slot
  <2> QED
    BY <1>0, <1>2, <1>4, <2>1, EnteredFinite DEF Data, CountOK
<1>12. WireAgrees'
  BY <1>0, <1>2 DEF Data, WireAgrees, Together, HeadIsLast, Sent
<1>13. Released'
  BY <1>0, <1>4, <1>7 DEF Data, Released, FreedOnce
<1>14. Remembered'
  <2> SUFFICES ASSUME Own = Packet, NEW q \in Entered' PROVE freed'[q] > 0 \/ Waiting(q)'
    BY DEF Remembered
  <2>1. CASE q = p
    BY <2>1, <1>7
  <2>2. CASE q # p
    BY <2>2, <1>0, <1>4, <1>7, <1>8 DEF Data, Remembered, Entered
  <2> QED
    BY <2>1, <2>2
<1>15. Typed'
  BY <1>0, <1>2, <1>4, <1>7 DEF Typed
<1> QED
  BY <1>4, <1>9, <1>10, <1>11, <1>12, <1>13, <1>14, <1>15 DEF Inv, Data

-----------------------------------------------------------------------------
(* Pieces of the first packet are written.                                 *)

Grows(s, n, p, z) ==
    /\ z \in Seq(Packet) /\ Len(z) = Len(s) + n /\ DOMAIN z = 1 .. Len(s) + n /\ DOMAIN s = 1 .. Len(s)
    /\ \A i \in 1 .. Len(s) : z[i] = s[i]
    /\ \A i \in Len(s) + 1 .. Len(s) + n : z[i] = p
    /\ Cardinality({i \in DOMAIN z : z[i] = p}) = Cardinality({i \in DOMAIN s : s[i] = p}) + n
    /\ \A q : q # p => {i \in DOMAIN z : z[i] = q} = {i \in DOMAIN s : s[i] = q}

LEMMA AppendedIs ==
    ASSUME NEW s \in Seq(Packet), NEW n \in Nat, n >= 1, NEW p \in Packet,
           NEW z, z = s \o [i \in 1 .. n |-> p]
    PROVE  Grows(s, n, p, z)
<1> DEFINE y == [i \in 1 .. n |-> p]
<1>1. y \in Seq(Packet) /\ Len(y) = n /\ \A i \in 1 .. n : y[i] = p
  OBVIOUS
<1> HIDE DEF y
<1>2. z = s \o y
  BY DEF y
<1>3. z \in Seq(Packet) /\ Len(z) = Len(s) + n
  BY <1>1, <1>2
<1>4. DOMAIN z = 1 .. Len(s) + n /\ DOMAIN s = 1 .. Len(s) /\ Len(s) \in Nat
  BY <1>3
<1>5. \A i \in 1 .. Len(s) : z[i] = s[i]
  BY <1>1, <1>2
<1>6. \A i \in Len(s) + 1 .. Len(s) + n : z[i] = p
  <2> SUFFICES ASSUME NEW i \in Len(s) + 1 .. Len(s) + n PROVE z[i] = p
    OBVIOUS
  <2>1. i - Len(s) \in 1 .. n /\ i \in 1 .. Len(s) + Len(y) /\ i > Len(s)
    BY <1>1, <1>4
  <2>2. z[i] = y[i - Len(s)]
    BY <1>1, <1>2, <2>1, ConcatProperties
  <2> QED
    BY <1>1, <2>1, <2>2
<1> DEFINE A == {i \in DOMAIN s : s[i] = p}
           B == Len(s) + 1 .. Len(s) + n
<1>7. {i \in DOMAIN z : z[i] = p} = A \cup B
  <2> SUFFICES ASSUME NEW i PROVE i \in DOMAIN z /\ z[i] = p <=> i \in A \cup B
    OBVIOUS
  <2>1. i \in DOMAIN z <=> i \in DOMAIN s \/ i \in B
    BY <1>4
  <2> QED
    BY <1>4, <1>5, <1>6, <2>1
<1>8. A \cap B = {}
  BY <1>4
<1>9. IsFiniteSet(A) /\ Cardinality(A) \in Nat
  BY PositionsFinite
<1>10. IsFiniteSet(B) /\ Cardinality(B) = n
  <2>1. Len(s) + 1 \in Int /\ Len(s) + n \in Int
    BY <1>4
  <2>2. IsFiniteSet(B) /\ Cardinality(B) = IF Len(s) + 1 > Len(s) + n THEN 0 ELSE (Len(s) + n) - (Len(s) + 1) + 1
    BY <2>1, FS_Interval
  <2> QED
    BY <1>4, <2>2
<1>11. Cardinality(A \cup B) = Cardinality(A) + Cardinality(B) - Cardinality(A \cap B)
  BY <1>9, <1>10, FS_Union
<1>12. Cardinality(A \cup B) = Cardinality(A) + n
  <2>1. Cardinality(A \cap B) = 0
    BY <1>8, FS_EmptySet
  <2> HIDE DEF A, B
  <2> QED
    BY <1>9, <1>10, <1>11, <2>1
<1>13. \A q : q # p => {i \in DOMAIN z : z[i] = q} = {i \in DOMAIN s : s[i] = q}
  <2> SUFFICES ASSUME NEW q, q # p, NEW i PROVE (i \in DOMAIN z /\ z[i] = q) <=> (i \in DOMAIN s /\ s[i] = q)
    OBVIOUS
  <2>1. i \in DOMAIN z <=> i \in DOMAIN s \/ i \in B
    BY <1>4
  <2> QED
    BY <1>4, <1>5, <1>6, <2>1
<1> HIDE DEF A, B
<1> QED
  BY <1>3, <1>4, <1>5, <1>6, <1>7, <1>12, <1>13 DEF A, Grows

\* What the peer got stays in one piece.
LEMMA WrittenTogether ==
    ASSUME wire \in [Conn -> Seq(Packet)], left \in [Packet -> 0 .. Size], WireAgrees,
           fd.packet # <<>>, NEW p \in Packet, p = Head(fd.packet),
           NEW n \in Nat, n >= 1, n <= left[p], NEW c \in Conn,
           wire' = [wire EXCEPT ![c] = @ \o [i \in 1 .. n |-> p]],
           left' = [left EXCEPT ![p] = @ - n]
    PROVE  /\ wire' \in [Conn -> Seq(Packet)] /\ left' \in [Packet -> 0 .. Size]
           /\ Together'
           /\ \A d \in Conn, q \in Packet : Cardinality(Sent(d, q)') + left'[q] <= Size
           /\ \A d \in Conn : \A i \in DOMAIN wire'[d] :
                wire'[d][i] = p => \A k \in i .. Len(wire'[d]) : wire'[d][k] = p
           /\ \A d \in Conn, q \in Packet : q # p => Sent(d, q)' = Sent(d, q)
<1> DEFINE s == wire[c]
           z == wire'[c]
           L == Len(s)
<1>1. s \in Seq(Packet) /\ L \in Nat
  OBVIOUS
<1>2. z = s \o [i \in 1 .. n |-> p]
  OBVIOUS
<1>3. /\ z \in Seq(Packet) /\ Len(z) = L + n /\ DOMAIN z = 1 .. L + n /\ DOMAIN s = 1 .. L
      /\ \A i \in 1 .. L : z[i] = s[i]
      /\ \A i \in L + 1 .. L + n : z[i] = p
      /\ Cardinality({i \in DOMAIN z : z[i] = p}) = Cardinality({i \in DOMAIN s : s[i] = p}) + n
      /\ \A q : q # p => {i \in DOMAIN z : z[i] = q} = {i \in DOMAIN s : s[i] = q}
  <2>1. Grows(s, n, p, z)
    BY <1>1, <1>2, AppendedIs
  <2> QED
    BY <2>1 DEF Grows
<1>4. \A d \in Conn : d # c => wire'[d] = wire[d]
  OBVIOUS
<1>5. wire' \in [Conn -> Seq(Packet)]
  BY <1>3
<1>6. left[p] \in 0 .. Size /\ left'[p] = left[p] - n /\ (\A q \in Packet : q # p => left'[q] = left[q])
  OBVIOUS
<1>7. left' \in [Packet -> 0 .. Size]
  <2>1. left[p] - n \in 0 .. Size
    BY <1>6 DEF Size
  <2> QED
    BY <2>1
<1>8. \A d \in Conn, q \in Packet : q # p => Sent(d, q)' = Sent(d, q)
  BY <1>3, <1>4, SMTT(30) DEF Sent
<1>9. ASSUME NEW d \in Conn, NEW q \in Packet
      PROVE  Cardinality(Sent(d, q)') + left'[q] <= Size
  <2>0. Cardinality(Sent(d, q)) + left[q] <= Size /\ left[q] \in 0 .. Size
    BY DEF WireAgrees
  <2>1. wire[d] \in Seq(Packet)
    OBVIOUS
  <2>2. Cardinality(Sent(d, q)) \in Nat
    BY <2>1, PositionsFinite DEF Sent
  <2>3. CASE q # p
    BY <1>6, <1>8, <2>0, <2>3
  <2>4. CASE q = p /\ d # c
    <3>1. Sent(d, q)' = Sent(d, q)
      BY <1>4, <2>4 DEF Sent
    <3> QED
      BY <1>6, <2>0, <2>2, <2>4, <3>1 DEF Size
  <2>5. CASE q = p /\ d = c
    <3>1. Cardinality(Sent(d, q)') = Cardinality(Sent(d, q)) + n
      BY <1>3, <2>5 DEF Sent
    <3> QED
      BY <1>6, <2>0, <2>2, <2>5, <3>1 DEF Size
  <2> QED
    BY <2>3, <2>4, <2>5
<1>10. ASSUME NEW d \in Conn, NEW i \in DOMAIN wire'[d], wire'[d][i] = p, NEW k \in i .. Len(wire'[d])
       PROVE  wire'[d][k] = p
  <2>1. CASE d # c
    <3>1. wire'[d] = wire[d]
      BY <1>4, <2>1
    <3> QED
      BY <1>10, <3>1 DEF WireAgrees, HeadIsLast
  <2>2. CASE d = c
    <3>1. i \in Nat /\ k \in Nat /\ k <= L + n /\ i <= k /\ i >= 1 /\ z[i] = p
      BY <1>3, <1>10, <2>2
    <3>2. CASE k > L
      BY <1>1, <1>3, <2>2, <3>1, <3>2
    <3>3. CASE k <= L
      <4>1. i \in DOMAIN s /\ s[i] = p /\ k \in i .. Len(s)
        BY <1>1, <1>3, <3>1, <3>3
      <4>2. s[k] = p
        BY <4>1 DEF WireAgrees, HeadIsLast
      <4> QED
        BY <1>3, <2>2, <3>1, <3>3, <4>2
    <3> QED
      BY <1>1, <3>1, <3>2, <3>3
  <2> QED
    BY <2>1, <2>2
<1>11. ASSUME NEW d \in Conn, NEW i \in DOMAIN wire'[d], NEW j \in DOMAIN wire'[d],
              wire'[d][i] = wire'[d][j], NEW k \in i .. j
       PROVE  wire'[d][k] = wire'[d][i]
  <2>1. CASE d # c
    <3>1. wire'[d] = wire[d]
      BY <1>4, <2>1
    <3> QED
      BY <1>11, <3>1 DEF WireAgrees, Together
  <2>2. CASE d = c
    <3>1. i \in Nat /\ k \in Nat /\ j \in Nat /\ j <= L + n /\ i <= k /\ i >= 1 /\ k <= j /\ z[i] = z[j]
      BY <1>3, <1>11, <2>2
    <3>2. CASE j > L
      <4>1. z[i] = p
        BY <1>1, <1>3, <3>1, <3>2
      <4>2. k \in i .. Len(wire'[d])
        BY <1>1, <1>3, <2>2, <3>1
      <4> QED
        BY <1>10, <2>2, <4>1, <4>2
    <3>3. CASE j <= L
      <4>1. i \in DOMAIN s /\ j \in DOMAIN s /\ s[i] = s[j] /\ k \in i .. j
        BY <1>1, <1>3, <3>1, <3>3
      <4>2. s[k] = s[i]
        BY <4>1 DEF WireAgrees, Together
      <4> QED
        BY <1>1, <1>3, <2>2, <3>1, <3>3, <4>2
    <3> QED
      BY <1>1, <3>1, <3>2, <3>3
  <2> QED
    BY <2>1, <2>2
<1> QED
  BY <1>5, <1>7, <1>8, <1>9, <1>10, <1>11 DEF Together

LEMMA Flush_wroteStep ==
    ASSUME Inv, NEW t \in Thread, flush_wrote(t)
    PROVE  Inv'
<1>0. Typed /\ ThreadsAgree /\ Data /\ HandsAgree /\ QueueAgrees /\ QueueSound /\ WireAgrees /\ fd \in Slot
      /\ th[t].pc = "syscall" /\ left \in [Packet -> 0 .. Size] /\ freed \in [Packet -> Nat]
  BY DEF Inv, Data, QueueAgrees, Typed, flush_wrote, At
<1>1. fd.packet # <<>> /\ lock = t /\ th[t].p = NULL
  BY <1>0 DEF ThreadsAgree, Holding
<1>2. PICK p : p = Head(fd.packet)
  OBVIOUS
<1>3. PICK n \in 1 .. left[p] : Wrote(n) /\ Goto(t, IF Slowloris(n) THEN "attacked" ELSE "test")
  BY <1>2 DEF flush_wrote
<1>4. fd.packet \in Seq(Packet) /\ p = fd.packet[1] /\ p \in Packet /\ DOMAIN fd.packet = 1 .. Len(fd.packet)
      /\ 1 \in DOMAIN fd.packet
  BY <1>0, <1>1, <1>2 DEF Slot
<1>5. n \in Nat /\ n >= 1 /\ n <= left[p] /\ left[p] \in 0 .. Size
  BY <1>0, <1>3, <1>4
<1>6. sock \in Conn /\ lock' = NULL /\ UNCHANGED <<ready, armed, sock, conns, hups, opened, target>>
  <2>1. sock # 0 /\ lock' = NULL /\ UNCHANGED <<ready, armed, sock, conns, hups, opened, target>>
    BY DEF flush_wrote, kernel
  <2>2. sock \in 0 .. MaxConn /\ MaxConn \in Nat
    BY <1>0, Constants DEF Typed
  <2> QED
    BY <2>1, <2>2 DEF Conn
<1>7. /\ wire' = [wire EXCEPT ![sock] = @ \o [i \in 1 .. n |-> p]]
      /\ left' = [left EXCEPT ![p] = @ - n]
      /\ left[p] = n => fd' = fio_sock_packet_rotate_unsafe /\ freed' = fio_packet_free(<<p>>)
      /\ left[p] # n => fd' = fd /\ freed' = freed
  BY <1>2, <1>3 DEF Wrote
<1>8. /\ wire' \in [Conn -> Seq(Packet)] /\ left' \in [Packet -> 0 .. Size]
      /\ Together'
      /\ \A d \in Conn, q \in Packet : Cardinality(Sent(d, q)') + left'[q] <= Size
      /\ \A d \in Conn : \A i \in DOMAIN wire'[d] :
           wire'[d][i] = p => \A k \in i .. Len(wire'[d]) : wire'[d][k] = p
      /\ \A d \in Conn, q \in Packet : q # p => Sent(d, q)' = Sent(d, q)
  <2>1. wire \in [Conn -> Seq(Packet)]
    BY <1>0 DEF Typed
  <2> QED
    BY <1>0, <1>1, <1>2, <1>4, <1>5, <1>6, <1>7, <2>1, WrittenTogether
<1>9. left'[p] = left[p] - n /\ \A q \in Packet : q # p => left'[q] = left[q]
  BY <1>0, <1>4, <1>7
<1> DEFINE pc == IF Slowloris(n) THEN "attacked" ELSE "test"
           x == [th[t] EXCEPT !.pc = pc]
<1>10. x \in Frame /\ x.pc \in {"attacked", "test"} /\ x.p = NULL /\ th' = [th EXCEPT ![t] = x]
  <2>1. th \in [Thread -> Frame] /\ th[t] \in Frame
    BY <1>0 DEF Typed
  <2>2. pc \in {"attacked", "test"}
    OBVIOUS
  <2>3. Goto(t, pc)
    BY <1>3
  <2> HIDE DEF pc
  <2> QED
    BY <1>1, <2>1, <2>2, <2>3 DEF Frame, Pcs, Goto
<1> HIDE DEF x
<1>11. ThreadsAgree' /\ th' \in [Thread -> Frame] /\ \A s \in Thread : th'[s].p = th[s].p
  <2>1. x.pc \notin Holding \cup {"accepted", "write_lock", "write", "syscall"}
    BY <1>10 DEF Holding
  <2>2. ThreadsAgree' /\ th' \in [Thread -> Frame] /\ th'[t] = x /\ \A s \in Thread : s # t => th'[s] = th[s]
    BY <1>0, <1>1, <1>6, <1>10, <2>1, ThreadMoves
  <2> QED
    BY <1>1, <1>10, <2>2
<1>12. \A q : InHand(q)' <=> InHand(q)
  BY <1>11 DEF InHand
<1>13. Entered' = Entered
  BY <1>6, <1>12 DEF Entered
<1>14. Waiting(p) /\ freed[p] = 0 /\ ~InHand(p) /\ target[p] # 0
  <2>1. Waiting(p)
    BY <1>4 DEF Waiting
  <2>2. freed[p] = 0
    BY <1>0, <1>4 DEF QueueSound, QueuedIsAlive
  <2> QED
    BY <1>0, <1>4, <2>1, <2>2 DEF HandsAgree
<1>15. CASE left[p] = n
  <2> DEFINE q == fd.packet
             f == fio_sock_packet_rotate_unsafe
  <2>1. Len(q) <= fd.count /\ fd.count <= Cardinality(Entered)
    BY <1>0 DEF Data, CountOK
  <2>2. /\ fd' \in Slot /\ fd'.packet = Tail(q)
        /\ Len(fd'.packet) <= fd'.count /\ fd'.count <= fd.count
        /\ fd'.last = IF fd'.packet = <<>> THEN NULL ELSE fd'.packet[Len(fd'.packet)]
    BY <1>0, <1>1, <1>7, <1>15, <2>1, RotateIs
  <2>3. DOMAIN fd'.packet = 1 .. Len(q) - 1
        /\ \A i \in DOMAIN fd'.packet : fd'.packet[i] = q[i + 1] /\ i + 1 \in DOMAIN q /\ i + 1 > 1
    BY <1>1, <1>4, <2>2
  <2>4. \A i, j \in DOMAIN q : q[i] = q[j] => i = j
    BY <1>0 DEF QueueSound, QueuedIsAlive
  <2>5. \A i \in DOMAIN fd'.packet : fd'.packet[i] \in Packet /\ fd'.packet[i] # p
    <3> SUFFICES ASSUME NEW i \in DOMAIN fd'.packet PROVE fd'.packet[i] \in Packet /\ fd'.packet[i] # p
      OBVIOUS
    <3>1. fd'.packet[i] = q[i + 1] /\ i + 1 \in DOMAIN q /\ i + 1 # 1 /\ q[i + 1] \in Packet
      BY <1>4, <2>3
    <3> QED
      BY <1>4, <2>4, <3>1
  <2>6. freed' \in [Packet -> Nat] /\ freed'[p] = 1 /\ \A r \in Packet : r # p => freed'[r] = freed[r]
    <3>1. <<p>> \in Seq(Packet) /\ DOMAIN <<p>> = 1 .. 1 /\ <<p>>[1] = p
      BY <1>4
    <3>2. freed' = fio_packet_free(<<p>>)
      BY <1>7, <1>15
    <3> QED
      <4> DEFINE ps == <<p>>
      <4>1. /\ ps \in Seq(Packet) /\ (\A i, j \in DOMAIN ps : ps[i] = ps[j] => i = j)
            /\ (\A r \in Packet : r # p => \A i \in DOMAIN ps : ps[i] # r)
            /\ \E i \in DOMAIN ps : ps[i] = p
        BY <3>1
      <4> HIDE DEF ps
      <4>2. freed' = fio_packet_free(ps)
        BY <3>2 DEF ps
      <4>3. freed' \in [Packet -> Nat] /\ freed'[p] = freed[p] + 1 /\ \A r \in Packet : r # p => freed'[r] = freed[r]
        BY <1>0, <1>4, <4>1, <4>2, FreeIs, ZenonT(60)
      <4> QED
        BY <1>14, <4>3
  <2>7. \A r \in Packet : Waiting(r)' => Waiting(r)
    BY <2>3 DEF Waiting
  <2>8. \A r \in Packet : Waiting(r) => r = p \/ Waiting(r)'
    <3> SUFFICES ASSUME NEW r \in Packet, NEW i \in DOMAIN q, q[i] = r, r # p PROVE Waiting(r)'
      BY DEF Waiting
    <3>1. i - 1 \in DOMAIN fd'.packet /\ (i - 1) + 1 = i
      BY <1>4, <2>3
    <3> QED
      BY <2>3, <3>1 DEF Waiting
  <2>9. HandsAgree'
    <3>1. ASSUME NEW r \in Packet, target'[r] = 0 \/ InHand(r)'
          PROVE  ~Waiting(r)' /\ left'[r] = Size /\ freed'[r] = 0
      <4>1. r # p
        BY <1>6, <1>12, <1>14, <3>1
      <4> QED
        BY <1>0, <1>6, <1>9, <1>12, <2>6, <2>7, <3>1, <4>1 DEF HandsAgree
    <3>2. \A r \in Packet : InHand(r)' => target'[r] # 0
      BY <1>0, <1>6, <1>12 DEF HandsAgree
    <3>3. \A s, r \in Thread : th'[s].p = th'[r].p /\ th'[s].p # NULL => s = r
      BY <1>0, <1>11 DEF HandsAgree
    <3> QED
      BY <3>1, <3>2, <3>3 DEF HandsAgree
  <2>10. \A i \in DOMAIN fd'.packet : freed'[fd'.packet[i]] = 0 /\ left'[fd'.packet[i]] = Size
    <3> SUFFICES ASSUME NEW i \in DOMAIN fd'.packet
                 PROVE  freed'[fd'.packet[i]] = 0 /\ left'[fd'.packet[i]] = Size
      OBVIOUS
    <3>1. fd'.packet[i] \in Packet /\ fd'.packet[i] # p
      BY <2>5
    <3>2. freed[q[i + 1]] = 0 /\ left[q[i + 1]] = Size
      BY <1>0, <2>3 DEF QueueAgrees, QueueSound, QueuedIsAlive
    <3> QED
      BY <1>9, <2>3, <2>6, <3>1, <3>2
  <2>11. QueueAgrees'
    <3>1. \A i, j \in DOMAIN fd'.packet : fd'.packet[i] = fd'.packet[j] => i = j
      <4> SUFFICES ASSUME NEW i \in DOMAIN fd'.packet, NEW j \in DOMAIN fd'.packet, fd'.packet[i] = fd'.packet[j]
                   PROVE  i = j
        OBVIOUS
      <4>1. i + 1 = j + 1
        BY <2>3, <2>4
      <4> QED
        BY <2>3, <4>1
    <3>2. TailKnown'
      BY <2>2 DEF TailKnown, Last
    <3> QED
      BY <2>10, <3>1, <3>2 DEF QueueAgrees, QueueSound, QueuedIsAlive, Size
  <2>12. CountOK'
    <3>1. fd'.count \in Nat /\ fd.count \in Nat
      BY <1>0, <2>2 DEF Slot
    <3> QED
      BY <1>13, <2>1, <2>2, <3>1, EnteredFinite DEF CountOK
  <2>13. WireAgrees'
    <3>1. HeadIsLast'
      <4> SUFFICES ASSUME fd'.packet # <<>>, NEW c \in Conn, NEW i \in DOMAIN wire'[c],
                          wire'[c][i] = Head(fd'.packet)
                   PROVE  FALSE
        BY DEF HeadIsLast
      <4>1. PICK r : r = Head(fd'.packet)
        OBVIOUS
      <4>2. 1 \in DOMAIN fd'.packet /\ r = fd'.packet[1]
        BY <2>2, <4>1 DEF Slot
      <4>3. r \in Packet /\ r # p /\ left'[r] = Size
        BY <2>5, <2>10, <4>2
      <4>4. Cardinality(Sent(c, r)') + left'[r] <= Size /\ i \in Sent(c, r)'
        BY <1>8, <4>1, <4>3 DEF Sent
      <4>5. wire'[c] \in Seq(Packet)
        BY <1>8
      <4>6. IsFiniteSet(Sent(c, r)') /\ Cardinality(Sent(c, r)') \in Nat
        <5>1. Sent(c, r)' = {k \in DOMAIN wire'[c] : wire'[c][k] = r}
          BY DEF Sent
        <5> QED
          BY <4>5, <5>1, PositionsFinite, ZenonT(60)
      <4>7. Cardinality(Sent(c, r)') = 0
        BY <4>3, <4>4, <4>6 DEF Size
      <4> QED
        BY <4>4, <4>6, <4>7, FS_EmptySet
    <3> QED
      BY <1>8, <3>1 DEF WireAgrees
  <2>14. Released'
    BY <1>0, <2>6 DEF Data, Released, FreedOnce
  <2>15. Remembered'
    <3> SUFFICES ASSUME Own = Packet, NEW r \in Entered PROVE freed'[r] > 0 \/ Waiting(r)'
      BY <1>13 DEF Remembered
    <3>1. r \in Packet
      BY DEF Entered
    <3>2. freed[r] > 0 \/ Waiting(r)
      BY <1>0 DEF Data, Remembered
    <3> QED
      BY <2>6, <2>8, <3>1, <3>2
  <2>16. Typed'
    BY <1>0, <1>6, <1>8, <1>11, <2>2, <2>6 DEF Typed
  <2> QED
    BY <1>11, <2>9, <2>11, <2>12, <2>13, <2>14, <2>15, <2>16 DEF Inv, Data
<1>16. CASE left[p] # n
  <2>1. fd' = fd /\ freed' = freed
    BY <1>7, <1>16
  <2>2. left'[p] > 0
    BY <1>5, <1>9, <1>16
  <2>3. \A r : Waiting(r)' <=> Waiting(r)
    BY <2>1 DEF Waiting
  <2>4. HandsAgree'
    <3>1. ASSUME NEW r \in Packet, target'[r] = 0 \/ InHand(r)'
          PROVE  ~Waiting(r)' /\ left'[r] = Size /\ freed'[r] = 0
      <4>1. r # p
        BY <1>6, <1>12, <1>14, <3>1
      <4> QED
        BY <1>0, <1>6, <1>9, <1>12, <2>1, <2>3, <3>1, <4>1 DEF HandsAgree
    <3>2. \A r \in Packet : InHand(r)' => target'[r] # 0
      BY <1>0, <1>6, <1>12 DEF HandsAgree
    <3>3. \A s, r \in Thread : th'[s].p = th'[r].p /\ th'[s].p # NULL => s = r
      BY <1>0, <1>11 DEF HandsAgree
    <3> QED
      BY <3>1, <3>2, <3>3 DEF HandsAgree
  <2>5. QueueAgrees'
    <3>1. \A i \in DOMAIN fd.packet : fd.packet[i] \in Packet /\ (i > 1 => fd.packet[i] # p)
      <4> SUFFICES ASSUME NEW i \in DOMAIN fd.packet
                   PROVE  fd.packet[i] \in Packet /\ (i > 1 => fd.packet[i] # p)
        OBVIOUS
      <4>1. fd.packet[i] = p => i = 1
        BY <1>0, <1>4 DEF QueueSound, QueuedIsAlive
      <4>2. fd.packet[i] \in Packet
        BY <1>4
      <4> QED
        BY <4>1, <4>2, <1>4
    <3>2. TailKnown'
      BY <1>0, <2>1 DEF QueueSound, TailKnown
    <3>3. \A i \in DOMAIN fd.packet : freed[fd.packet[i]] = 0 /\ left'[fd.packet[i]] > 0
                                      /\ (i > 1 => left'[fd.packet[i]] = Size)
      BY <1>0, <1>9, <2>2, <3>1 DEF QueueAgrees, QueueSound, QueuedIsAlive
    <3> QED
      BY <1>0, <2>1, <3>2, <3>3 DEF QueueAgrees, QueueSound, QueuedIsAlive
  <2>6. CountOK' /\ Released' /\ Remembered'
    BY <1>0, <1>13, <2>1, <2>3 DEF Data, CountOK, Released, FreedOnce, Remembered
  <2>7. WireAgrees'
    BY <1>2, <1>8, <2>1 DEF WireAgrees, HeadIsLast
  <2>8. Typed'
    BY <1>0, <1>6, <1>8, <1>11, <2>1 DEF Typed
  <2> QED
    BY <1>11, <2>4, <2>5, <2>6, <2>7, <2>8 DEF Inv, Data
<1> QED
  BY <1>15, <1>16

-----------------------------------------------------------------------------
LEMMA NextKeepsInv == Inv /\ [Next]_vars => Inv'
<1> SUFFICES ASSUME Inv, [Next]_vars PROVE Inv'
  OBVIOUS
<1>1. CASE UNCHANGED vars
  BY <1>1 DEF vars, Inv, Typed, ThreadsAgree, Data, HandsAgree, QueueAgrees, QueueSound, TailKnown,
              QueuedIsAlive, CountOK, Entered, WireAgrees, Together, HeadIsLast, Sent, Released,
              FreedOnce, Remembered, Waiting, InHand
<1>2. ASSUME NEW t \in Thread, Resume(t) \/ Serve(t) \/ Start(t) \/ fio_flush_all(t) PROVE Inv'
  <2>1. CASE accept4(t) \/ deferred_on_ready(t) \/ fio_flush_all(t) \/ poll_write(t) \/ poll_hangup(t)
    BY <2>1, ReactorSteps
  <2>2. CASE fio_close(t) \/ call_force_close(t) \/ fio_read(t)
    BY <2>2, CallSteps
  <2>3. CASE \/ fio_flush(t) \/ flush_rw_hook(t) \/ flush_failed(t)
             \/ flush_fatal(t) \/ flush_test(t) \/ flush_return(t) \/ on_ready_again(t)
    BY <2>3, FlushSteps
  <2>4. CASE \/ close_mark(t) \/ fio_force_event(t) \/ fio_force_close(t)
             \/ before_close(t) \/ close_fd(t) \/ read_hooks(t) \/ fio_force_close_in_poll(t)
    BY <2>4, CloseSteps
  <2>5. CASE \/ fio_accept(t) \/ flush_attacked(t) \/ poll_clear(t)
             \/ force_close_clear(t) \/ force_close_drop(t)
    BY <2>5, ClearSteps
  <2>6. CASE write_lock(t)
    BY <2>6, LocksKeep DEF write_lock, Pcs
  <2>7. CASE force_close_lock(t)
    BY <2>7, LocksKeep DEF force_close_lock, Pcs
  <2>8. CASE read_lock(t)
    BY <2>8, LocksKeep DEF read_lock, Pcs
  <2>9. CASE fio_write2(t)
    BY <2>9, Fio_write2Step
  <2>10. CASE write_packet(t)
    BY <2>10, Write_packetStep
  <2>11. CASE write_error(t)
    BY <2>11, Write_errorStep
  <2>12. CASE flush_wrote(t)
    BY <2>12, Flush_wroteStep
  <2> QED
    BY <1>2, <2>1, <2>2, <2>3, <2>4, <2>5, <2>6, <2>7, <2>8, <2>9, <2>10, <2>11, <2>12
       DEF Resume, Serve, Start, Runs, Overtaken, Flush, Close
<1> QED
  BY <1>1, <1>2 DEF Next

LEMMA InvHolds == Spec => []Inv
<1>1. Inv /\ [Next]_vars => Inv'
  BY NextKeepsInv
<1> QED
  BY <1>1, Starts, PTL DEF Spec

\* What is parted are connections.
Parted == parted \subseteq Conn

LEMMA PartedStep == Inv /\ Parted /\ [Next]_vars => Parted'
<1> SUFFICES ASSUME Inv, Parted, [Next]_vars PROVE Parted'
  OBVIOUS
<1>1. CASE UNCHANGED vars
  BY <1>1 DEF Parted, vars
<1>2. ASSUME NEW t \in Thread, Resume(t) \/ Serve(t) \/ Start(t) \/ fio_flush_all(t) PROVE Parted'
  <2>1. CASE flush_attacked(t)
    <3>1. sock \in 0 .. MaxConn /\ MaxConn \in Nat
      BY Constants DEF Inv, Typed
    <3> QED
      BY <2>1, <3>1 DEF flush_attacked, Parted, Conn
  <2>2. CASE close_fd(t)
    BY <2>2 DEF close_fd, Struck, Parted
  <2>3. CASE fio_accept(t) \/ accept4(t) \/ poll_hangup(t)
    BY <2>3 DEF fio_accept, accept4, poll_hangup, Parted
  <2>4. CASE \/ fio_close(t) \/ call_force_close(t) \/ fio_read(t) \/ fio_write2(t)
             \/ deferred_on_ready(t) \/ fio_flush_all(t) \/ poll_write(t)
    BY <2>4 DEF fio_close, call_force_close, fio_read, fio_write2, deferred_on_ready, fio_flush_all,
                poll_write, Parted, kernel
  <2>5. CASE \/ fio_flush(t) \/ flush_rw_hook(t) \/ flush_wrote(t) \/ flush_failed(t)
             \/ flush_fatal(t) \/ flush_test(t) \/ flush_return(t) \/ on_ready_again(t)
    BY <2>5 DEF fio_flush, flush_rw_hook, flush_wrote, flush_failed, flush_fatal, flush_test,
                flush_return, on_ready_again, Parted, kernel
  <2>6. CASE \/ close_mark(t) \/ fio_force_event(t) \/ fio_force_close(t) \/ force_close_lock(t)
             \/ force_close_drop(t) \/ before_close(t) \/ force_close_clear(t)
    BY <2>6 DEF close_mark, fio_force_event, fio_force_close, force_close_lock, LockedBy,
                force_close_drop, before_close, force_close_clear, Parted, kernel
  <2>7. CASE \/ write_lock(t) \/ write_packet(t) \/ read_lock(t) \/ read_hooks(t)
             \/ fio_force_close_in_poll(t) \/ write_error(t) \/ poll_clear(t)
    BY <2>7 DEF write_lock, write_packet, read_lock, read_hooks, LockedBy, fio_force_close_in_poll,
                write_error, poll_clear, Parted, kernel
  <2> QED
    BY <1>2, <2>1, <2>2, <2>3, <2>4, <2>5, <2>6, <2>7
       DEF Resume, Serve, Start, Runs, Overtaken, Flush, Close
<1> QED
  BY <1>1, <1>2 DEF Next

LEMMA PartedHolds == Spec => []Parted
<1>1. Init => Parted
  BY DEF Init, Parted
<1> QED
  BY <1>1, PartedStep, InvHolds, PTL DEF Spec

LEMMA InvTypes == Inv /\ Parted => TypeOK
<1> SUFFICES ASSUME Inv, Parted PROVE TypeOK
  OBVIOUS
<1>1. Typed /\ fd \in Slot /\ fd.count <= Cardinality(Entered)
  BY DEF Inv, Typed, Data, CountOK
<1>2. Cardinality(Packet) \in Nat
  BY Constants, FS_CardinalityType
<1>3. fd.count \in 0 .. Cardinality(Packet)
  <2>1. fd.count \in Nat
    BY <1>1 DEF Slot
  <2> QED
    BY <1>1, <1>2, <2>1, EnteredFinite
<1>4. fd \in [gen : Nat, open : BOOLEAN, close : 0 .. 2, internal : BOOLEAN,
              late : BOOLEAN, packet : Seq(Packet), last : Packet \cup {NULL}, count : 0 .. Cardinality(Packet)]
  BY <1>1, <1>3 DEF Slot
<1> QED
  BY <1>1, <1>4 DEF TypeOK, Typed, Parted

LEMMA InvNotTorn == Inv => NotTorn
<1> SUFFICES ASSUME Inv PROVE NotTorn
  OBVIOUS
<1>1. Together
  BY DEF Inv, Data, WireAgrees
<1>2. ASSUME NEW c \in Conn, NEW p \in Packet PROVE Cardinality(Sent(c, p)) <= Size
  <2>1. Cardinality(Sent(c, p)) + left[p] <= Size
    BY DEF Inv, Data, WireAgrees
  <2>2. wire[c] \in Seq(Packet) /\ left[p] \in 0 .. Size
    BY DEF Inv, Typed
  <2>3. Cardinality(Sent(c, p)) \in Nat
    BY <2>2, PositionsFinite DEF Sent
  <2> QED
    BY <2>1, <2>2, <2>3 DEF Size
<1> QED
  BY <1>1, <1>2 DEF NotTorn, Together, Sent

\* Whatever the threads do, in any number and with any calls: every variable has
\* its type, packet_last designates the end of the queue, what is queued is there
\* once and was not deallocated, and the peer gets whole packets.
THEOREM QueueSafety == Spec => [](TypeOK /\ QueueSound /\ NotTorn)
<1>1. Inv /\ Parted => TypeOK /\ QueueSound /\ NotTorn
  BY InvTypes, InvNotTorn DEF Inv, Data, QueueAgrees
<1> QED
  BY <1>1, InvHolds, PartedHolds, PTL

\* ... and when no packet has its own dealloc (fio_write2 leaves after.dealloc
\* at 0 for all but the packets of Own), each is deallocated at most once.
THEOREM PacketSafety ==
    ASSUME Own = {}
    PROVE  Spec => []PacketsSound
<1>1. Inv => PacketsSound
  BY InvNotTorn DEF Inv, Data, QueueAgrees, Released, PacketsSound
<1> QED
  BY <1>1, InvHolds, PTL

\* With a dealloc of its own each packet is queued or was deallocated once the
\* calls have returned: fio_write2 forgets none on any of its paths.
THEOREM NoneForgotten ==
    ASSUME Own = Packet
    PROVE  Spec => []NothingForgotten
<1>1. Inv => NothingForgotten
  <2> SUFFICES ASSUME Inv, AtRest, NEW p \in Packet, target[p] # 0
               PROVE  freed[p] > 0 \/ Waiting(p)
    BY DEF NothingForgotten, Waiting
  <2>1. ~InHand(p)
    BY NullIsNothing DEF AtRest, At, Inv, ThreadsAgree, InHand
  <2> QED
    BY <2>1 DEF Inv, Data, Remembered, Entered
<1> QED
  BY <1>1, InvHolds, PTL

-----------------------------------------------------------------------------
(* Which connection the slot, the socket and the packets are of, for any    *)
(* threads, as long as the counter has not come round.                      *)

NoWrap == fd.gen < WRAP

\* the slot is the last accepted connection's or nobody's, and so is the socket,
\* unless they were parted or a thread is about to bring them together
SlotAgrees ==
    /\ fd.internal = fd.open
    /\ \A c \in Conn : opened[c] <= fd.gen /\ (opened[c] # 0 => c <= conns)
    /\ \A c \in Conn : opened[c] = fd.gen /\ fd.gen # 0 => sock = c \/ c \in parted
    /\ ~fd.open /\ sock # 0 =>
          sock \in parted \/ \E t \in Thread : \/ th[t].pc = "close_fd"
                                               \/ th[t].pc = "accepted" /\ th[t].c = sock
\* fio_accept between accept4 and the clearing of the slot
AcceptorAgrees(t) ==
    th[t].pc = "accepted" =>
        /\ th[t].c \in Conn /\ th[t].c <= conns /\ opened[th[t].c] = 0
        /\ sock = th[t].c \/ th[t].c \in parted
AcceptorsAgree ==
    /\ \A t \in Thread : AcceptorAgrees(t)
    /\ \A s, t \in Thread :
          th[s].pc = "accepted" /\ th[t].pc = "accepted" /\ th[s].c = th[t].c => s = t
\* fio_write2 holds the uuid of the connection it was called for
WriterAgrees(t) ==
    th[t].pc \in {"write_lock", "write"} =>
        th[t].u # 0 /\ target[th[t].p] \in Conn /\ opened[target[th[t].p]] = th[t].u
\* what is queued was written to the connection whose slot it is
TargetsAgree ==
    /\ \A t \in Thread : WriterAgrees(t)
    /\ \A i \in DOMAIN fd.packet :
          fd.gen # 0 /\ target[fd.packet[i]] \in Conn /\ opened[target[fd.packet[i]]] = fd.gen
    /\ SentToItsConnection
PeersInv == Parted /\ SlotAgrees /\ AcceptorsAgree /\ TargetsAgree

\* A step that leaves the connections, what they were written and what was sent alone.
Quiet(t) ==
    /\ \A s \in Thread : s # t => th'[s] = th[s]
    /\ th[t].pc \notin {"accepted", "close_fd"} /\ th'[t].pc \notin {"accepted", "write_lock"}
    /\ th'[t].pc = "write" => th[t].pc = "write_lock" /\ th'[t].u = th[t].u /\ th'[t].p = th[t].p
    /\ fd'.gen = fd.gen /\ fd'.open = fd.open /\ fd'.internal = fd.internal
    /\ fd'.packet = fd.packet \/ fd'.packet = <<>>
    /\ UNCHANGED <<wire, target, sock, conns, opened, parted>>

LEMMA QuietKeeps == ASSUME PeersInv, NEW t \in Thread, Quiet(t) PROVE PeersInv'
<1>1. SlotAgrees'
  <2>1. \A s \in Thread : th[s].pc \in {"accepted", "close_fd"} => th'[s] = th[s]
    BY DEF Quiet
  <2> QED
    BY <2>1 DEF Quiet, PeersInv, SlotAgrees
<1>2. AcceptorsAgree'
  <2>1. \A s \in Thread : th'[s].pc = "accepted" => th'[s] = th[s]
    BY DEF Quiet
  <2>2. UNCHANGED <<opened, conns, sock, parted>>
    BY DEF Quiet
  <2> QED
    BY <2>1, <2>2 DEF PeersInv, AcceptorsAgree, AcceptorAgrees
<1>3. TargetsAgree'
  <2>1. \A s \in Thread : th'[s].pc \in {"write_lock", "write"} =>
            th[s].pc \in {"write_lock", "write"} /\ th'[s].u = th[s].u /\ th'[s].p = th[s].p
    BY DEF Quiet
  <2>2. fd'.gen = fd.gen /\ (fd'.packet = fd.packet \/ fd'.packet = <<>>)
        /\ UNCHANGED <<opened, target, wire, parted>>
    BY DEF Quiet
  <2> QED
    BY <2>1, <2>2 DEF PeersInv, TargetsAgree, WriterAgrees, SentToItsConnection
<1> QED
  BY <1>1, <1>2, <1>3 DEF PeersInv, Parted, Quiet

\* where thread t is after a step
LEMMA GotoIs ==
    ASSUME th \in [Thread -> Frame], NEW t \in Thread, NEW pc, Goto(t, pc)
    PROVE  /\ th'[t].pc = pc /\ th'[t].u = th[t].u /\ th'[t].p = th[t].p
           /\ \A s \in Thread : s # t => th'[s] = th[s]
<1>1. th[t] \in Frame
  OBVIOUS
<1>2. th'[t] = [th[t] EXCEPT !.pc = pc] /\ \A s \in Thread : s # t => th'[s] = th[s]
  BY DEF Goto
<1> QED
  BY <1>1, <1>2 DEF Frame

LEMMA DoneIs ==
    ASSUME th \in [Thread -> Frame], NEW t \in Thread, Done(t)
    PROVE  th'[t].pc = "idle" /\ \A s \in Thread : s # t => th'[s] = th[s]
  BY DEF Done, Idle

LEMMA AgainIs ==
    ASSUME th \in [Thread -> Frame], NEW t \in Thread, Again(t)
    PROVE  th'[t].pc \in {"idle", "rearm"} /\ \A s \in Thread : s # t => th'[s] = th[s]
<1>1. Done(t) \/ Goto(t, "rearm")
  BY DEF Again, Done, Goto
<1> QED
  BY <1>1, GotoIs, DoneIs

LEMMA CallIs ==
    ASSUME th \in [Thread -> Frame], NEW t \in Thread, NEW c, NEW pc, Call(t, c, pc)
    PROVE  th'[t].pc = pc /\ \A s \in Thread : s # t => th'[s] = th[s]
<1>1. \A u : [Idle EXCEPT !.pc = pc, !.u = u, !.c = c].pc = pc
  BY DEF Idle
<1> QED
  BY <1>1 DEF Call

\* the slot, the connections and what they were sent are left alone
Untouched ==
    /\ fd'.gen = fd.gen /\ fd'.open = fd.open /\ fd'.internal = fd.internal
    /\ fd'.packet = fd.packet \/ fd'.packet = <<>>
    /\ UNCHANGED <<wire, target, sock, conns, opened, parted>>

LEMMA QuietMove ==
    ASSUME NEW t \in Thread, Untouched, \A s \in Thread : s # t => th'[s] = th[s],
           th[t].pc \notin {"accepted", "close_fd"}, th'[t].pc \notin {"accepted", "write_lock", "write"}
    PROVE  Quiet(t)
  BY DEF Quiet, Untouched

LEMMA QuietFlush ==
    ASSUME Inv, NEW t \in Thread,
           \/ deferred_on_ready(t) \/ fio_flush_all(t) \/ poll_write(t) \/ poll_hangup(t)
           \/ fio_flush(t) \/ flush_rw_hook(t) \/ flush_failed(t) \/ flush_fatal(t)
           \/ flush_test(t) \/ flush_return(t) \/ on_ready_again(t)
    PROVE  Quiet(t)
<1>0. th \in [Thread -> Frame] /\ Typed
  BY DEF Inv, Typed
<1>1. CASE deferred_on_ready(t) \/ fio_flush_all(t) \/ poll_write(t) \/ poll_hangup(t)
  BY <1>0, <1>1 DEF deferred_on_ready, fio_flush_all, poll_write, poll_hangup, At, Idle, Quiet, slot, kernel
<1>2. CASE fio_flush(t)
  <2>1. Untouched /\ th[t].pc = "flush"
    BY <1>2 DEF fio_flush, At, Untouched, kernel
  <2>2. Done(t) \/ Again(t) \/ Goto(t, "hook") \/ Goto(t, "syscall")
    BY <1>2 DEF fio_flush
  <2> QED
    BY <1>0, <2>1, <2>2, DoneIs, AgainIs, GotoIs, QuietMove
<1>3. CASE flush_rw_hook(t)
  BY <1>0, <1>3, DoneIs, QuietMove DEF flush_rw_hook, At, Untouched, kernel
<1>4. CASE flush_failed(t)
  <2>1. Untouched /\ th[t].pc = "syscall"
    BY <1>4 DEF flush_failed, At, Untouched, kernel
  <2>2. PICK o \in IF sock = 0 THEN {"fatal"} ELSE Outcome \ {"all", "part"} :
            CASE o = "again" -> Again(t) [] o = "fatal" -> Goto(t, "fatal") [] o = "other" -> Done(t)
    BY <1>4 DEF flush_failed
  <2>3. o = "again" \/ o = "fatal" \/ o = "other"
    BY SocketAssumption
  <2>4. Again(t) \/ Goto(t, "fatal") \/ Done(t)
    BY <2>2, <2>3
  <2> QED
    BY <1>0, <2>1, <2>4, DoneIs, AgainIs, GotoIs, QuietMove
<1>5. CASE flush_fatal(t)
  <2>1. fd'.gen = fd.gen /\ fd'.open = fd.open /\ fd'.internal = fd.internal /\ fd'.packet = fd.packet
    BY <1>0, <1>5, MarkingKeeps DEF Still
  <2> QED
    BY <1>0, <1>5, <2>1, GotoIs, QuietMove DEF flush_fatal, At, Untouched, kernel
<1>6. CASE flush_test(t) \/ flush_return(t) \/ on_ready_again(t)
  <2>1. Untouched /\ th[t].pc \in {"test", "return", "rearm"}
    BY <1>6 DEF flush_test, flush_return, on_ready_again, At, Untouched, slot, kernel
  <2>2. Done(t) \/ Again(t) \/ Goto(t, "force_close") \/ Goto(t, "return")
    BY <1>6 DEF flush_test, flush_return, on_ready_again
  <2> QED
    BY <1>0, <2>1, <2>2, DoneIs, AgainIs, GotoIs, QuietMove
<1> QED
  BY <1>1, <1>2, <1>3, <1>4, <1>5, <1>6

LEMMA QuietCalls ==
    ASSUME Inv, NEW t \in Thread,
           \/ fio_close(t) \/ call_force_close(t) \/ fio_read(t)
           \/ write_lock(t) \/ read_lock(t) \/ force_close_lock(t) \/ write_error(t)
    PROVE  Quiet(t)
<1>0. th \in [Thread -> Frame]
  BY DEF Inv, Typed
<1>1. CASE fio_close(t) \/ call_force_close(t) \/ fio_read(t)
  <2>1. Untouched /\ th[t].pc = "idle"
    BY <1>1 DEF fio_close, call_force_close, fio_read, At, Untouched, slot, kernel
  <2>2. \E c \in Conn, pc \in {"mark", "force_close", "read_lock"} : Call(t, c, pc)
    BY <1>1 DEF fio_close, call_force_close, fio_read
  <2>3. th'[t].pc \in {"mark", "force_close", "read_lock"} /\ \A s \in Thread : s # t => th'[s] = th[s]
    BY <1>0, <2>2, CallIs
  <2> QED
    BY <2>1, <2>3, QuietMove
<1>2. CASE write_lock(t)
  <2>1. /\ UNCHANGED <<fd, wire, target, sock, conns, opened, parted>>
        /\ th[t].pc = "write_lock" /\ Goto(t, "write")
    BY <1>2 DEF write_lock, LockedBy, At, kernel
  <2> QED
    BY <1>0, <2>1, GotoIs DEF Quiet
<1>3. CASE read_lock(t) \/ force_close_lock(t)
  <2>1. Untouched /\ th[t].pc \in {"read_lock", "drop_lock"} /\ (Goto(t, "read_hooks") \/ Goto(t, "drop"))
    BY <1>3 DEF read_lock, force_close_lock, LockedBy, At, Untouched, kernel
  <2> QED
    BY <1>0, <2>1, GotoIs, QuietMove
<1>4. CASE write_error(t)
  BY <1>0, <1>4, DoneIs, QuietMove DEF write_error, At, Untouched, kernel
<1> QED
  BY <1>1, <1>2, <1>3, <1>4

LEMMA QuietClose ==
    ASSUME Inv, NEW t \in Thread,
           \/ close_mark(t) \/ fio_force_event(t) \/ fio_force_close(t) \/ force_close_drop(t)
           \/ before_close(t) \/ read_hooks(t) \/ fio_force_close_in_poll(t)
    PROVE  Quiet(t)
<1>0. th \in [Thread -> Frame] /\ Typed /\ fd \in Slot
  BY DEF Inv, Typed
<1>1. CASE close_mark(t)
  <2>1. fd'.gen = fd.gen /\ fd'.open = fd.open /\ fd'.internal = fd.internal /\ fd'.packet = fd.packet
    BY <1>0, <1>1, MarkingKeeps DEF Still
  <2> QED
    BY <1>0, <1>1, <2>1, GotoIs, QuietMove DEF close_mark, At, Untouched, kernel
<1>2. CASE fio_force_event(t) \/ read_hooks(t)
  <2>1. Untouched /\ th[t].pc \in {"event", "read_hooks"} /\ (Done(t) \/ Goto(t, "force_close"))
    BY <1>2 DEF fio_force_event, read_hooks, At, Untouched, slot, kernel
  <2> QED
    BY <1>0, <2>1, GotoIs, DoneIs, QuietMove
<1>3. CASE fio_force_close(t) \/ before_close(t)
  <2>1. th[t].pc \in {"force_close", "before_close"} /\ (Done(t) \/ Goto(t, "drop_lock") \/ Goto(t, "clear"))
    BY <1>3 DEF fio_force_close, before_close, At
  <2>2. UNCHANGED <<wire, target, sock, conns, opened, parted>> /\ (fd' = fd \/ \E n : fd' = [fd EXCEPT !.close = n])
    BY <1>3 DEF fio_force_close, before_close, kernel
  <2>3. Untouched
    BY <1>0, <2>2 DEF Untouched, Slot
  <2> QED
    BY <1>0, <2>1, <2>3, GotoIs, DoneIs, QuietMove
<1>4. CASE force_close_drop(t)
  BY <1>0, <1>4, GotoIs, QuietMove DEF force_close_drop, At, Untouched, Slot, kernel
<1>5. CASE fio_force_close_in_poll(t)
  <2>1. Untouched /\ th[t].pc = "hangup"
    BY <1>0, <1>5 DEF fio_force_close_in_poll, At, Untouched, Slot, kernel
  <2>2. th'[t].pc = "force_close" /\ \A s \in Thread : s # t => th'[s] = th[s]
    <3>1. [th[t] EXCEPT !.pc = "force_close", !.u = fd.gen].pc = "force_close"
      BY <1>0 DEF Frame
    <3>2. th'[t] = [th[t] EXCEPT !.pc = "force_close", !.u = fd.gen] /\ \A s \in Thread : s # t => th'[s] = th[s]
      BY <1>0, <1>5 DEF fio_force_close_in_poll
    <3> QED
      BY <3>1, <3>2
  <2> QED
    BY <2>1, <2>2, QuietMove
<1> QED
  BY <1>1, <1>2, <1>3, <1>4, <1>5

\* The kernel hands out the descriptor.
LEMMA PeersAccept4 ==
    ASSUME Inv, PeersInv, NEW t \in Thread, accept4(t)
    PROVE  PeersInv'
<1>0. th \in [Thread -> Frame] /\ sock \in 0 .. MaxConn /\ conns \in Nat /\ MaxConn \in Nat /\ fd.gen \in Nat
      /\ opened \in [Conn -> Nat]
  BY Constants DEF Inv, Typed, Slot
<1>1. /\ th[t].pc = "idle" /\ sock = 0 /\ conns < MaxConn /\ conns' = conns + 1 /\ sock' = conns + 1
      /\ UNCHANGED <<fd, wire, target, opened, parted>>
  BY DEF accept4, At, slot
<1>2. th'[t].pc = "accepted" /\ th'[t].c = conns + 1 /\ \A s \in Thread : s # t => th'[s] = th[s]
  BY <1>0 DEF accept4, Idle
<1>3. conns + 1 \in Conn /\ opened[conns + 1] = 0
  <2>1. conns + 1 \in Conn
    BY <1>0, <1>1 DEF Conn
  <2>2. opened[conns + 1] # 0 => conns + 1 <= conns
    BY <2>1 DEF PeersInv, SlotAgrees
  <2> QED
    BY <1>0, <2>1, <2>2
<1>4. SlotAgrees'
  <2>1. ASSUME NEW c \in Conn PROVE opened[c] <= fd.gen /\ (opened[c] # 0 => c <= conns + 1)
    <3>1. c \in Nat /\ opened[c] <= fd.gen /\ (opened[c] # 0 => c <= conns)
      BY DEF PeersInv, SlotAgrees, Conn
    <3> QED
      BY <1>0, <3>1
  <2>2. ASSUME NEW c \in Conn, opened[c] = fd.gen, fd.gen # 0 PROVE c \in parted
    <3>1. sock = c \/ c \in parted
      BY <2>2 DEF PeersInv, SlotAgrees
    <3> QED
      BY <1>1, <3>1 DEF Conn
  <2>3. fd.internal = fd.open
    BY DEF PeersInv, SlotAgrees
  <2> QED
    BY <1>1, <1>2, <2>1, <2>2, <2>3 DEF SlotAgrees
<1>5. AcceptorsAgree'
  <2>1. ASSUME NEW s \in Thread, s # t, th[s].pc = "accepted"
        PROVE  /\ th[s].c \in Conn /\ th[s].c \in Nat /\ th[s].c <= conns /\ opened[th[s].c] = 0
               /\ th[s].c \in parted
    <3>1. th[s].c \in Conn /\ th[s].c <= conns /\ opened[th[s].c] = 0 /\ (sock = th[s].c \/ th[s].c \in parted)
      BY <2>1 DEF PeersInv, AcceptorsAgree, AcceptorAgrees
    <3> QED
      BY <1>1, <3>1 DEF Conn
  <2>2. AcceptorAgrees(t)'
    BY <1>1, <1>2, <1>3, <1>0 DEF AcceptorAgrees
  <2>3. ASSUME NEW s \in Thread PROVE AcceptorAgrees(s)'
    <3>1. CASE s = t
      BY <2>2, <3>1
    <3>2. CASE s # t
      <4>1. th[s].pc = "accepted" => th[s].c <= conns + 1
        BY <1>0, <2>1, <3>2
      <4> QED
        BY <1>1, <1>2, <2>1, <3>2, <4>1 DEF AcceptorAgrees
    <3> QED
      BY <3>1, <3>2
  <2>4. ASSUME NEW s \in Thread, NEW u \in Thread, th'[s].pc = "accepted", th'[u].pc = "accepted", th'[s].c = th'[u].c
        PROVE  s = u
    <3>1. conns + 1 > conns
      BY <1>0
    <3>2. CASE s # t /\ u # t
      BY <1>2, <2>4, <3>2 DEF PeersInv, AcceptorsAgree
    <3>3. CASE s = t /\ u # t
      BY <1>0, <1>2, <2>1, <2>4, <3>3
    <3>4. CASE s # t /\ u = t
      BY <1>0, <1>2, <2>1, <2>4, <3>4
    <3> QED
      BY <3>2, <3>3, <3>4
  <2> QED
    BY <2>3, <2>4 DEF AcceptorsAgree
<1>6. TargetsAgree'
  <2>1. \A s \in Thread : th'[s].pc \in {"write_lock", "write"} => th'[s] = th[s]
    BY <1>2
  <2> QED
    BY <1>1, <2>1 DEF PeersInv, TargetsAgree, WriterAgrees, SentToItsConnection
<1> QED
  BY <1>1, <1>4, <1>5, <1>6 DEF PeersInv, Parted

\* The slot is cleared, by fio_accept for the connection it accepted.
LEMMA PeersAccept ==
    ASSUME Inv, PeersInv, NEW t \in Thread, fio_accept(t)
    PROVE  PeersInv'
<1>0. th \in [Thread -> Frame] /\ fd.gen \in Nat /\ fd.gen + 1 \in Nat /\ opened \in [Conn -> Nat]
  BY DEF Inv, Typed, Slot
<1> DEFINE c == th[t].c
           n == fd.gen + 1
<1>1. c \in Conn /\ c <= conns /\ opened[c] = 0 /\ (sock = c \/ c \in parted) /\ th[t].pc = "accepted"
  BY DEF fio_accept, At, PeersInv, AcceptorsAgree, AcceptorAgrees
<1>2. /\ fd'.gen = n /\ fd'.open = TRUE /\ fd'.internal = TRUE /\ fd'.packet = <<>>
      /\ opened' = [opened EXCEPT ![c] = n]
      /\ UNCHANGED <<sock, conns, parted, target, wire>>
  <2>1. fd' = Cleared(n, TRUE)
    BY DEF fio_accept, fio_clear_fd
  <2> QED
    BY <1>0, <2>1, ClearedIs DEF fio_accept
<1>3. th'[t].pc = "idle" /\ \A s \in Thread : s # t => th'[s] = th[s]
  BY <1>0, DoneIs DEF fio_accept
<1>4. opened'[c] = n /\ \A d \in Conn : d # c => opened'[d] = opened[d]
  BY <1>0, <1>1, <1>2
<1>5. \A d \in Conn : opened[d] \in Nat /\ opened[d] <= fd.gen /\ opened[d] < n /\ (opened[d] # 0 => d <= conns)
  BY <1>0 DEF PeersInv, SlotAgrees
<1> HIDE DEF c, n
<1>6. SlotAgrees'
  <2>1. n \in Nat /\ n <= n
    BY <1>0 DEF n
  <2>2. ASSUME NEW d \in Conn
        PROVE  /\ opened'[d] <= n /\ (opened'[d] # 0 => d <= conns)
               /\ opened'[d] = n => sock = d \/ d \in parted
    <3>1. CASE d = c
      BY <1>1, <1>4, <2>1, <3>1
    <3>2. CASE d # c
      BY <1>4, <1>5, <2>1, <3>2
    <3> QED
      BY <3>1, <3>2
  <2> QED
    BY <1>2, <2>2 DEF SlotAgrees
<1>7. AcceptorsAgree'
  <2>1. ASSUME NEW s \in Thread, th'[s].pc = "accepted"
        PROVE  th'[s] = th[s] /\ th[s].c \in Conn /\ opened'[th[s].c] = 0
    <3>1. s # t /\ th'[s] = th[s]
      BY <1>3, <2>1
    <3>2. th[s].c \in Conn /\ opened[th[s].c] = 0
      BY <2>1, <3>1 DEF PeersInv, AcceptorsAgree, AcceptorAgrees
    <3>3. th[s].c # c
      BY <1>1, <2>1, <3>1 DEF PeersInv, AcceptorsAgree, c
    <3> QED
      BY <1>4, <3>1, <3>2, <3>3
  <2> QED
    BY <1>2, <2>1 DEF PeersInv, AcceptorsAgree, AcceptorAgrees
<1>8. TargetsAgree'
  <2>1. ASSUME NEW s \in Thread PROVE WriterAgrees(s)'
    <3>1. SUFFICES ASSUME th'[s].pc \in {"write_lock", "write"} PROVE th'[s].u # 0 /\ target[th'[s].p] \in Conn /\ opened'[target[th'[s].p]] = th'[s].u
      BY <1>2 DEF WriterAgrees
    <3>2. th'[s] = th[s]
      BY <1>3, <3>1
    <3>3. th[s].u # 0 /\ target[th[s].p] \in Conn /\ opened[target[th[s].p]] = th[s].u
      BY <3>1, <3>2 DEF PeersInv, TargetsAgree, WriterAgrees
    <3>4. target[th[s].p] # c
      BY <1>1, <3>3
    <3> QED
      BY <1>4, <3>2, <3>3, <3>4
  <2> QED
    BY <1>2, <2>1 DEF PeersInv, TargetsAgree, SentToItsConnection
<1> QED
  BY <1>2, <1>6, <1>7, <1>8 DEF PeersInv, Parted

\* ... and by those that give the slot up.
LEMMA PeersClear ==
    ASSUME Inv, PeersInv, NEW t \in Thread, flush_attacked(t) \/ poll_clear(t) \/ force_close_clear(t)
    PROVE  PeersInv'
<1>0. th \in [Thread -> Frame] /\ fd.gen \in Nat /\ fd.gen + 1 \in Nat /\ opened \in [Conn -> Nat]
      /\ sock \in 0 .. MaxConn /\ MaxConn \in Nat
  BY Constants DEF Inv, Typed, Slot
<1>1. /\ fd'.gen = fd.gen + 1 /\ fd'.open = FALSE /\ fd'.internal = FALSE /\ fd'.packet = <<>>
      /\ UNCHANGED <<sock, conns, opened, target, wire>> /\ parted \subseteq parted'
      /\ th[t].pc \in {"attacked", "hangup", "clear"}
  <2>1. fd' = Cleared(fd.gen + 1, FALSE)
    BY DEF flush_attacked, poll_clear, force_close_clear, fio_clear_fd
  <2> QED
    BY <1>0, <2>1, ClearedIs DEF flush_attacked, poll_clear, force_close_clear, At, kernel
<1>2. th'[t].pc \in {"idle", "close_fd"} /\ \A s \in Thread : s # t => th'[s] = th[s]
  BY <1>0, DoneIs, GotoIs DEF flush_attacked, poll_clear, force_close_clear
<1>3. sock # 0 => sock \in parted' \/ \E s \in Thread : th'[s].pc = "close_fd" \/ (th'[s].pc = "accepted" /\ th'[s].c = sock)
  <2>1. CASE flush_attacked(t)
    BY <2>1 DEF flush_attacked
  <2>2. CASE force_close_clear(t)
    BY <1>0, <2>2, GotoIs DEF force_close_clear
  <2>3. CASE poll_clear(t)
    <3>1. ~fd.open
      BY <2>3 DEF poll_clear, PeersInv, SlotAgrees
    <3>2. \A s \in Thread : th[s].pc \in {"close_fd", "accepted"} => th'[s] = th[s]
      BY <1>1, <1>2
    <3> QED
      BY <1>1, <3>1, <3>2 DEF PeersInv, SlotAgrees
  <2> QED
    BY <2>1, <2>2, <2>3
<1>4. SlotAgrees'
  <2>1. \A c \in Conn : opened[c] <= fd.gen + 1 /\ opened[c] # fd.gen + 1 /\ (opened[c] # 0 => c <= conns)
    <3>1. \A c \in Conn : opened[c] <= fd.gen /\ (opened[c] # 0 => c <= conns)
      BY DEF PeersInv, SlotAgrees
    <3> QED
      BY <1>0, <3>1
  <2> QED
    BY <1>1, <1>3, <2>1 DEF SlotAgrees
<1>5. AcceptorsAgree'
  <2>1. \A s \in Thread : th'[s].pc = "accepted" => th'[s] = th[s]
    BY <1>2
  <2> QED
    BY <1>1, <2>1 DEF PeersInv, AcceptorsAgree, AcceptorAgrees
<1>6. TargetsAgree'
  <2>1. \A s \in Thread : th'[s].pc \in {"write_lock", "write"} => th'[s] = th[s]
    BY <1>2
  <2> QED
    BY <1>1, <2>1 DEF PeersInv, TargetsAgree, WriterAgrees, SentToItsConnection
<1>7. Parted'
  <2>1. parted \subseteq Conn
    BY DEF PeersInv, Parted
  <2>2. CASE flush_attacked(t)
    <3>1. sock # 0 => sock \in Conn
      BY <1>0 DEF Conn
    <3>2. parted' = parted \cup ({sock} \ {0})
      BY <2>2 DEF flush_attacked
    <3> QED
      BY <2>1, <3>1, <3>2 DEF Parted
  <2>3. CASE poll_clear(t) \/ force_close_clear(t)
    BY <2>1, <2>3 DEF poll_clear, force_close_clear, kernel, Parted
  <2> QED
    BY <2>2, <2>3
<1> QED
  BY <1>4, <1>5, <1>6, <1>7 DEF PeersInv

\* close(2): whoever has the socket by now is parted from its slot.
LEMMA PeersCloseFd ==
    ASSUME Inv, PeersInv, NEW t \in Thread, close_fd(t)
    PROVE  PeersInv'
<1>0. th \in [Thread -> Frame]
  BY DEF Inv, Typed
<1>1. sock' = 0 /\ parted' = parted \cup Struck /\ UNCHANGED <<fd, wire, target, conns, opened>> /\ th[t].pc = "close_fd"
  BY DEF close_fd, At, slot
<1>2. th'[t].pc = "idle" /\ \A s \in Thread : s # t => th'[s] = th[s]
  BY <1>0, DoneIs DEF close_fd
<1>3. SlotAgrees'
  <2>1. ASSUME NEW c \in Conn, opened[c] = fd.gen, fd.gen # 0 PROVE c \in parted'
    <3>1. sock = c \/ c \in parted
      BY <2>1 DEF PeersInv, SlotAgrees
    <3> QED
      BY <1>1, <2>1, <3>1 DEF Struck
  <2> QED
    BY <1>1, <2>1 DEF PeersInv, SlotAgrees
<1>4. AcceptorsAgree'
  <2>1. \A s \in Thread : th'[s].pc = "accepted" => th'[s] = th[s]
    BY <1>2
  <2>2. ASSUME NEW s \in Thread, th[s].pc = "accepted" PROVE th[s].c \in parted'
    <3>1. th[s].c \in Conn /\ opened[th[s].c] = 0 /\ (sock = th[s].c \/ th[s].c \in parted)
      BY <2>2 DEF PeersInv, AcceptorsAgree, AcceptorAgrees
    <3> QED
      BY <1>1, <3>1 DEF Struck
  <2> QED
    BY <1>1, <2>1, <2>2 DEF PeersInv, AcceptorsAgree, AcceptorAgrees
<1>5. TargetsAgree'
  <2>1. \A s \in Thread : th'[s].pc \in {"write_lock", "write"} => th'[s] = th[s]
    BY <1>2
  <2> QED
    BY <1>1, <2>1 DEF PeersInv, TargetsAgree, WriterAgrees, SentToItsConnection
<1>6. Parted'
  BY <1>1 DEF PeersInv, Parted, Struck
<1> QED
  BY <1>3, <1>4, <1>5, <1>6 DEF PeersInv

\* A packet is meant for a connection that was accepted.
LEMMA PeersWrite2 ==
    ASSUME Inv, PeersInv, NEW t \in Thread, fio_write2(t)
    PROVE  PeersInv'
<1>0. th \in [Thread -> Frame] /\ target \in [Packet -> 0 .. MaxConn] /\ wire \in [Conn -> Seq(Packet)]
      /\ th[t].pc = "idle" /\ fd \in Slot
  BY DEF Inv, Typed, fio_write2, At
<1>1. PICK c \in Conn, p \in Packet :
        /\ opened[c] # 0 /\ target[p] = 0 /\ target' = [target EXCEPT ![p] = c]
        /\ \/ th' = th
           \/ th' = [th EXCEPT ![t] = [pc |-> "write_lock", u |-> opened[c], c |-> c, p |-> p, arg |-> "now"]]
  BY DEF fio_write2
<1>2. UNCHANGED <<fd, wire, sock, conns, opened, parted>>
  BY DEF fio_write2, kernel
<1>3. target'[p] = c /\ \A q \in Packet : q # p => target'[q] = target[q]
  BY <1>0, <1>1
<1>4. \A s \in Thread : s # t => th'[s] = th[s]
  BY <1>0, <1>1
<1>5. th'[t] = th[t] \/ (th'[t].pc = "write_lock" /\ th'[t].u = opened[c] /\ th'[t].p = p)
  BY <1>0, <1>1
<1>6. SlotAgrees' /\ AcceptorsAgree'
  <2>1. \A s \in Thread : th[s].pc \in {"accepted", "close_fd"} => th'[s] = th[s]
    BY <1>0, <1>4
  <2>2. \A s \in Thread : th'[s].pc = "accepted" => th'[s] = th[s]
    BY <1>0, <1>4, <1>5
  <2> QED
    BY <1>2, <2>1, <2>2 DEF PeersInv, SlotAgrees, AcceptorsAgree, AcceptorAgrees
<1>7. ~Waiting(p) /\ ~InHand(p)
  <2>1. ~Waiting(p)
    BY <1>1 DEF Inv, Data, HandsAgree
  <2>2. ASSUME NEW s \in Thread, th[s].p = p PROVE FALSE
    <3>1. th[s].p # NULL
      BY <2>2, NullIsNothing
    <3>2. th[s].pc \in {"write_lock", "write"}
      BY <3>1 DEF Inv, ThreadsAgree
    <3>3. target[p] \in Conn
      BY <2>2, <3>2 DEF PeersInv, TargetsAgree, WriterAgrees
    <3> QED
      BY <1>1, <3>3 DEF Conn
  <2> QED
    BY <2>1, <2>2 DEF InHand
<1>8. TargetsAgree'
  <2>1. ASSUME NEW s \in Thread PROVE WriterAgrees(s)'
    <3>1. CASE th'[s] = th[s]
      <4>1. th[s].pc \in {"write_lock", "write"} => th[s].p \in Packet /\ th[s].p # p
        <5>1. th[s] \in Frame
          BY <1>0
        <5> QED
          BY <1>7, <5>1 DEF Inv, ThreadsAgree, Frame, InHand
      <4> QED
        BY <1>2, <1>3, <3>1, <4>1 DEF PeersInv, TargetsAgree, WriterAgrees
    <3>2. CASE th'[s] # th[s]
      BY <1>1, <1>2, <1>3, <1>4, <1>5, <3>2 DEF WriterAgrees
    <3> QED
      BY <3>1, <3>2
  <2>2. \A i \in DOMAIN fd.packet : fd.packet[i] \in Packet /\ fd.packet[i] # p
    BY <1>0, <1>7 DEF Slot, Waiting
  <2>3. ASSUME NEW d \in Conn, NEW i \in DOMAIN wire[d] PROVE target'[wire[d][i]] = target[wire[d][i]]
    <3>1. wire[d][i] \in Packet
      BY <1>0
    <3>2. target[wire[d][i]] \in Conn
      BY DEF PeersInv, TargetsAgree, SentToItsConnection, Parted
    <3>3. wire[d][i] # p
      BY <1>1, <3>2 DEF Conn
    <3> QED
      BY <1>3, <3>1, <3>3
  <2>4. SentToItsConnection'
    BY <1>2, <2>3 DEF PeersInv, TargetsAgree, SentToItsConnection
  <2> QED
    BY <1>2, <1>3, <2>1, <2>2, <2>4 DEF PeersInv, TargetsAgree
<1> QED
  BY <1>2, <1>6, <1>8 DEF PeersInv, Parted

\* The uuid is looked at under the lock: the packet is queued for its connection.
LEMMA PeersWrite_packet ==
    ASSUME Inv, PeersInv, NoWrap, NEW t \in Thread, write_packet(t)
    PROVE  PeersInv'
<1>0. /\ th \in [Thread -> Frame] /\ fd \in Slot /\ fd.gen \in Nat /\ th[t].pc = "write" /\ th[t] \in Frame
      /\ th[t].u \in Nat /\ HandsAgree /\ QueueSound
  BY DEF Inv, Typed, Data, QueueAgrees, write_packet, At, Frame, Slot
<1>1. PICK p : p = th[t].p
  OBVIOUS
<1>2. fd' = Queued(p) /\ UNCHANGED <<wire, sock, conns, opened, parted, target>>
  BY <1>1 DEF write_packet, kernel
<1>3. p \in Packet
  BY <1>0, <1>1 DEF Inv, ThreadsAgree, Frame
<1>4. ~Waiting(p)
  BY <1>0, <1>1, <1>3 DEF HandsAgree, InHand
<1>5. Takes(fd.packet, p, fd') /\ fd'.gen = fd.gen /\ fd'.open = fd.open /\ fd'.internal = fd.internal
  BY <1>0, <1>2, <1>3, <1>4, QueuedIs
<1>6. th[t].u # 0 /\ target[p] \in Conn /\ opened[target[p]] = th[t].u
  BY <1>0, <1>1 DEF PeersInv, TargetsAgree, WriterAgrees
<1>7. th[t].u = fd.gen
  <2>1. th[t].u <= fd.gen
    BY <1>6 DEF PeersInv, SlotAgrees
  <2>2. th[t].u % 256 = fd.gen % 256
    BY DEF write_packet, uuid_is_valid, WRAP
  <2>3. fd.gen < 256
    BY DEF NoWrap, WRAP
  <2>4. th[t].u % 256 = th[t].u /\ fd.gen % 256 = fd.gen
    BY <1>0, <2>1, <2>3
  <2> QED
    BY <2>2, <2>4
<1>8. th'[t].pc \in {"idle", "flush"} /\ \A s \in Thread : s # t => th'[s] = th[s]
  <2>1. [th[t] EXCEPT !.pc = "flush", !.p = NULL].pc = "flush" /\ Idle.pc = "idle"
    BY <1>0 DEF Frame, Idle
  <2>2. th' = [th EXCEPT ![t] = Idle] \/ th' = [th EXCEPT ![t] = [th[t] EXCEPT !.pc = "flush", !.p = NULL]]
    BY <1>0 DEF write_packet
  <2> QED
    BY <1>0, <2>1, <2>2
<1>9. SlotAgrees' /\ AcceptorsAgree'
  <2>1. \A s \in Thread : th[s].pc \in {"accepted", "close_fd"} => th'[s] = th[s]
    BY <1>0, <1>8
  <2>2. \A s \in Thread : th'[s].pc = "accepted" => th'[s] = th[s]
    BY <1>8
  <2> QED
    BY <1>2, <1>5, <2>1, <2>2 DEF PeersInv, SlotAgrees, AcceptorsAgree, AcceptorAgrees
<1>10. TargetsAgree'
  <2>1. \A s \in Thread : th'[s].pc \in {"write_lock", "write"} => th'[s] = th[s]
    BY <1>8
  <2>2. \A i \in DOMAIN fd'.packet : fd'.packet[i] = p \/ \E j \in DOMAIN fd.packet : fd'.packet[i] = fd.packet[j]
    BY <1>5 DEF Takes
  <2>3. \A i \in DOMAIN fd'.packet : fd.gen # 0 /\ target[fd'.packet[i]] \in Conn /\ opened[target[fd'.packet[i]]] = fd.gen
    BY <1>6, <1>7, <2>2 DEF PeersInv, TargetsAgree
  <2> QED
    BY <1>2, <1>5, <2>1, <2>3 DEF PeersInv, TargetsAgree, WriterAgrees, SentToItsConnection
<1> QED
  BY <1>2, <1>9, <1>10 DEF PeersInv, Parted

\* write(2) reaches the connection whose packets are queued, unless they were parted.
LEMMA PeersWrote ==
    ASSUME Inv, PeersInv, NEW t \in Thread, flush_wrote(t)
    PROVE  PeersInv'
<1>0. /\ th \in [Thread -> Frame] /\ fd \in Slot /\ th[t].pc = "syscall" /\ Typed /\ QueueSound
      /\ fd.packet # <<>> /\ wire \in [Conn -> Seq(Packet)]
  BY DEF Inv, Typed, Data, QueueAgrees, ThreadsAgree, flush_wrote, At
<1>1. PICK p : p = Head(fd.packet)
  OBVIOUS
<1>2. PICK n \in 1 .. left[p] : Wrote(n) /\ Goto(t, IF Slowloris(n) THEN "attacked" ELSE "test")
  BY <1>1 DEF flush_wrote
<1>3. fd.packet \in Seq(Packet) /\ p = fd.packet[1] /\ p \in Packet /\ 1 \in DOMAIN fd.packet
      /\ DOMAIN fd.packet = 1 .. Len(fd.packet)
  BY <1>0, <1>1 DEF Slot
<1>4. n \in Nat /\ n >= 1
  <2>1. left[p] \in 0 .. Size
    BY <1>0, <1>3 DEF Typed
  <2> QED
    BY <1>2, <2>1
<1>5. sock \in Conn /\ UNCHANGED <<sock, conns, opened, parted, target>>
  <2>1. sock # 0 /\ UNCHANGED <<sock, conns, opened, parted, target>>
    BY DEF flush_wrote, kernel
  <2>2. sock \in 0 .. MaxConn /\ MaxConn \in Nat
    BY <1>0, Constants DEF Typed
  <2> QED
    BY <2>1, <2>2 DEF Conn
<1>6. target[p] \in {sock} \cup parted
  <2>1. fd.gen # 0 /\ target[p] \in Conn /\ opened[target[p]] = fd.gen
    BY <1>3 DEF PeersInv, TargetsAgree
  <2> QED
    BY <2>1 DEF PeersInv, SlotAgrees
<1>7. wire' = [wire EXCEPT ![sock] = @ \o [i \in 1 .. n |-> p]]
  BY <1>1, <1>2 DEF Wrote
<1>8. /\ fd'.gen = fd.gen /\ fd'.open = fd.open /\ fd'.internal = fd.internal
      /\ fd'.packet = fd.packet \/ fd'.packet = Tail(fd.packet)
  <2>1. fd' = fd \/ fd' = fio_sock_packet_rotate_unsafe
    BY <1>2 DEF Wrote
  <2>2. Len(fd.packet) <= fd.count
    BY DEF Inv, Data, CountOK
  <2>3. CASE fd' = fio_sock_packet_rotate_unsafe
    BY <1>0, <2>2, <2>3, RotateIs
  <2> QED
    BY <2>1, <2>3
<1>9. th'[t].pc \in {"attacked", "test"} /\ \A s \in Thread : s # t => th'[s] = th[s]
  <2>1. Goto(t, "attacked") \/ Goto(t, "test")
    BY <1>2
  <2> QED
    BY <1>0, <2>1, GotoIs
<1>10. SlotAgrees' /\ AcceptorsAgree'
  <2>1. \A s \in Thread : th[s].pc \in {"accepted", "close_fd"} => th'[s] = th[s]
    BY <1>0, <1>9
  <2>2. \A s \in Thread : th'[s].pc = "accepted" => th'[s] = th[s]
    BY <1>9
  <2> QED
    BY <1>5, <1>8, <2>1, <2>2 DEF PeersInv, SlotAgrees, AcceptorsAgree, AcceptorAgrees
<1>11. SentToItsConnection'
  <2>1. ASSUME NEW d \in Conn, NEW i \in DOMAIN wire'[d] PROVE target[wire'[d][i]] \in {d} \cup parted
    <3>1. CASE d # sock
      <4>1. wire'[d] = wire[d]
        BY <1>0, <1>7, <3>1
      <4> QED
        BY <2>1, <4>1 DEF PeersInv, TargetsAgree, SentToItsConnection
    <3>2. CASE d = sock
      <4>1. PICK s \in Seq(Packet) : s = wire[d]
        BY <1>0
      <4>2. PICK z : z = wire'[d]
        OBVIOUS
      <4>3. z = s \o [k \in 1 .. n |-> p]
        BY <1>0, <1>5, <1>7, <3>2, <4>1, <4>2
      <4>4. Grows(s, n, p, z)
        BY <1>3, <1>4, <4>3, AppendedIs
      <4>5. z[i] = p \/ (i \in DOMAIN s /\ z[i] = s[i])
        BY <1>4, <2>1, <4>1, <4>2, <4>4 DEF Grows
      <4> QED
        BY <1>6, <3>2, <4>1, <4>2, <4>5 DEF PeersInv, TargetsAgree, SentToItsConnection
    <3> QED
      BY <3>1, <3>2
  <2> QED
    BY <1>5, <2>1 DEF SentToItsConnection
<1>12. TargetsAgree'
  <2>1. \A s \in Thread : th'[s].pc \in {"write_lock", "write"} => th'[s] = th[s]
    BY <1>9
  <2>2. \A i \in DOMAIN fd'.packet : \E j \in DOMAIN fd.packet : fd'.packet[i] = fd.packet[j]
    <3>1. CASE fd'.packet = fd.packet
      BY <3>1
    <3>2. CASE fd'.packet = Tail(fd.packet)
      <4>1. \A i \in DOMAIN fd'.packet : i + 1 \in DOMAIN fd.packet /\ fd'.packet[i] = fd.packet[i + 1]
        BY <1>0, <1>3, <3>2
      <4> QED
        BY <4>1
    <3> QED
      BY <1>8, <3>1, <3>2
  <2> QED
    BY <1>5, <1>8, <1>11, <2>1, <2>2 DEF PeersInv, TargetsAgree, WriterAgrees
<1> QED
  BY <1>5, <1>10, <1>12 DEF PeersInv, Parted

LEMMA PeersStep == Inv /\ PeersInv /\ NoWrap /\ [Next]_vars => PeersInv'
<1> SUFFICES ASSUME Inv, PeersInv, NoWrap, [Next]_vars PROVE PeersInv'
  OBVIOUS
<1>1. CASE UNCHANGED vars
  BY <1>1 DEF vars, PeersInv, Parted, SlotAgrees, AcceptorsAgree, AcceptorAgrees, TargetsAgree,
              WriterAgrees, SentToItsConnection
<1>2. ASSUME NEW t \in Thread, Resume(t) \/ Serve(t) \/ Start(t) \/ fio_flush_all(t) PROVE PeersInv'
  <2>1. CASE \/ deferred_on_ready(t) \/ fio_flush_all(t) \/ poll_write(t) \/ poll_hangup(t)
             \/ fio_flush(t) \/ flush_rw_hook(t) \/ flush_failed(t) \/ flush_fatal(t)
             \/ flush_test(t) \/ flush_return(t) \/ on_ready_again(t)
    BY <2>1, QuietFlush, QuietKeeps
  <2>2. CASE \/ fio_close(t) \/ call_force_close(t) \/ fio_read(t)
             \/ write_lock(t) \/ read_lock(t) \/ force_close_lock(t) \/ write_error(t)
    BY <2>2, QuietCalls, QuietKeeps
  <2>3. CASE \/ close_mark(t) \/ fio_force_event(t) \/ fio_force_close(t) \/ force_close_drop(t)
             \/ before_close(t) \/ read_hooks(t) \/ fio_force_close_in_poll(t)
    BY <2>3, QuietClose, QuietKeeps
  <2>4. CASE accept4(t)
    BY <2>4, PeersAccept4
  <2>5. CASE fio_accept(t)
    BY <2>5, PeersAccept
  <2>6. CASE flush_attacked(t) \/ poll_clear(t) \/ force_close_clear(t)
    BY <2>6, PeersClear
  <2>7. CASE close_fd(t)
    BY <2>7, PeersCloseFd
  <2>8. CASE fio_write2(t)
    BY <2>8, PeersWrite2
  <2>9. CASE write_packet(t)
    BY <2>9, PeersWrite_packet
  <2>10. CASE flush_wrote(t)
    BY <2>10, PeersWrote
  <2> QED
    BY <1>2, <2>1, <2>2, <2>3, <2>4, <2>5, <2>6, <2>7, <2>8, <2>9, <2>10
       DEF Resume, Serve, Start, Runs, Overtaken, Flush, Close
<1> QED
  BY <1>1, <1>2 DEF Next

LEMMA PeersInitially == Init => PeersInv
<1> SUFFICES ASSUME Init PROVE PeersInv
  OBVIOUS
<1>1. /\ fd.gen = 0 /\ fd.open = FALSE /\ fd.internal = FALSE /\ fd.packet = <<>>
      /\ conns = 0 /\ sock = 0 /\ parted = {} /\ \A c \in Conn : opened[c] = 0 /\ wire[c] = <<>>
  BY DEF Init, Cleared
<1>2. \A t \in Thread : th[t].pc = "idle"
  BY DEF Init, Idle
<1>3. Parted /\ SlotAgrees
  <2>1. fd.internal = fd.open /\ Parted
    BY <1>1 DEF Parted
  <2>2. \A c \in Conn : opened[c] <= fd.gen /\ (opened[c] # 0 => c <= conns)
    BY <1>1
  <2>3. fd.gen = 0 /\ sock = 0
    BY <1>1
  <2> QED
    BY <2>1, <2>2, <2>3 DEF SlotAgrees
<1>4. AcceptorsAgree
  BY <1>2 DEF AcceptorsAgree, AcceptorAgrees
<1>5. TargetsAgree
  <2>1. DOMAIN fd.packet = {} /\ \A c \in Conn : DOMAIN wire[c] = {}
    BY <1>1
  <2> QED
    BY <1>2, <2>1 DEF TargetsAgree, WriterAgrees, SentToItsConnection
<1> QED
  BY <1>3, <1>4, <1>5 DEF PeersInv

\* Whatever the threads do, in any number and with any calls, and whenever the IO thread
\* flushes: until the counter of the uuids has come round, data reaches the connection it
\* was written to and no other, and no socket is left without a slot, but for connections
\* whose socket close(2) took from under the slot or that the slowloris test detached.
\* (uuid_is_valid is looked at before the lock is taken and, in fio_write2, again under it.)
THEOREM PeersSafety == Spec /\ []NoWrap => []BytesReachTheirPeer
<1>1. Inv /\ PeersInv => BytesReachTheirPeer
  <2> SUFFICES ASSUME Inv, PeersInv PROVE BytesReachTheirPeer
    OBVIOUS
  <2>1. TypeOK
    BY InvTypes DEF PeersInv
  <2>2. SentToItsConnection
    BY DEF PeersInv, TargetsAgree
  <2>3. NoOrphanSocket
    <3>1. AtRest => \A t \in Thread : th[t].pc = "idle"
      BY DEF AtRest, At
    <3> QED
      BY <3>1 DEF PeersInv, SlotAgrees, NoOrphanSocket
  <2> QED
    BY <2>1, <2>2, <2>3 DEF BytesReachTheirPeer
<1>2. Inv /\ PeersInv /\ NoWrap /\ [Next]_vars => PeersInv'
  BY PeersStep
<1>3. Spec /\ []NoWrap => []PeersInv
  BY <1>2, PeersInitially, InvHolds, PTL DEF Spec
<1> QED
  BY <1>1, <1>3, InvHolds, PTL

-----------------------------------------------------------------------------
(* Packets that wait, while threads come between any two steps: one        *)
(* connection, so that the descriptor is not given to another.             *)

OneConnection == MaxConn = 1
\* write(2) fails as fio_flush expects it to, or for good
KnownErrors == "other" \notin Outcome

\* A thread at x will flush the queue, schedule that, or drop the queue.  The IO
\* thread's flush (arg "all") schedules nothing.
Comes(x) ==
    \/ x.pc \in {"hangup", "fatal", "force_close", "drop_lock", "drop", "attacked"}
    \/ x.pc \in {"flush", "syscall", "test", "return", "rearm"} /\ x.arg # "all"

Opening ==
    /\ fd.internal = fd.open
    /\ fd.open => sock = 1 /\ opened[1] = fd.gen
    /\ opened[1] # 0 => conns = 1
    /\ opened[1] = 0 => /\ ~fd.open /\ fd.packet = <<>> /\ ready = {} /\ ~armed
                        /\ \A t \in Thread : th[t].pc \in {"idle", "accepted", "hangup"}
    /\ \A t \in Thread : th[t].pc = "accepted" => opened[1] = 0 /\ sock = 1 /\ conns = 1 /\ th[t].c = 1
    /\ \A s, t \in Thread : th[s].pc = "accepted" /\ th[t].pc = "accepted" => s = t

OneUuid ==
    fd.open => /\ \A u \in ready : u = fd.gen
               /\ \A t \in Thread : /\ th[t].pc # "close_fd"
                                    /\ th[t].pc \in {"idle", "hangup"} \/ th[t].u = fd.gen

WritersFlush == \A t \in Thread : th[t].pc \in {"write_lock", "write"} => th[t].arg # "all"

Awaited ==
    fd.open /\ fd.packet # <<>> => armed \/ fd.gen \in ready \/ \E t \in Thread : Comes(th[t])

Flows == Opening /\ OneUuid /\ WritersFlush /\ Awaited

\* Thread t goes to x, with the connection as it was.
LEMMA Moved ==
    ASSUME Typed, Flows, NEW t \in Thread, NEW x \in Frame, th' = [th EXCEPT ![t] = x],
           x.pc # "accepted", x.pc \in {"write_lock", "write"} => x.arg # "all",
           fd'.open = fd.open, fd'.internal = fd.internal, fd'.gen = fd.gen,
           UNCHANGED <<sock, conns, opened>>,
           opened[1] = 0 => fd'.packet = fd.packet /\ ready' = ready /\ (armed' => armed) /\ x.pc \in {"idle", "hangup"},
           fd.open => /\ x.pc # "close_fd" /\ (x.pc \in {"idle", "hangup"} \/ x.u = fd.gen)
                      /\ \A u \in ready' : u \in ready \/ u = fd.gen,
           fd.open /\ fd'.packet # <<>> =>
               \/ armed' \/ fd.gen \in ready' \/ Comes(x)
               \/ /\ fd.packet # <<>> /\ ~Comes(th[t])
                  /\ armed => armed'
                  /\ fd.gen \in ready => fd.gen \in ready'
    PROVE  Flows'
<1>1. th \in [Thread -> Frame]
  BY DEF Typed
<1>2. th'[t] = x /\ \A s \in Thread : s # t => th'[s] = th[s]
  BY <1>1
<1>3. Opening'
  <2>1. \A s \in Thread : th'[s].pc = "accepted" => th[s].pc = "accepted" /\ th'[s] = th[s]
    BY <1>2
  <2>2. ASSUME opened[1] = 0, NEW s \in Thread PROVE th'[s].pc \in {"idle", "accepted", "hangup"}
    BY <1>2, <2>2 DEF Flows, Opening
  <2>3. \A s \in Thread : th'[s].pc = "accepted" => opened'[1] = 0 /\ sock' = 1 /\ conns' = 1 /\ th'[s].c = 1
    BY <2>1 DEF Flows, Opening
  <2>4. \A s, u \in Thread : th'[s].pc = "accepted" /\ th'[u].pc = "accepted" => s = u
    BY <2>1 DEF Flows, Opening
  <2>5. fd'.internal = fd'.open /\ (fd'.open => sock' = 1 /\ opened'[1] = fd'.gen)
    BY DEF Flows, Opening
  <2>6. opened'[1] # 0 => conns' = 1
    BY DEF Flows, Opening
  <2>7. opened'[1] = 0 => /\ ~fd'.open /\ fd'.packet = <<>> /\ ready' = {} /\ ~armed'
                         /\ \A s \in Thread : th'[s].pc \in {"idle", "accepted", "hangup"}
    BY <2>2 DEF Flows, Opening
  <2> QED
    BY <2>3, <2>4, <2>5, <2>6, <2>7 DEF Opening
<1>4. OneUuid'
  <2> SUFFICES ASSUME fd.open
               PROVE  /\ \A u \in ready' : u = fd.gen
                      /\ \A s \in Thread : /\ th'[s].pc # "close_fd"
                                           /\ th'[s].pc \in {"idle", "hangup"} \/ th'[s].u = fd.gen
    BY DEF OneUuid
  <2> QED
    BY <1>2 DEF Flows, OneUuid
<1>5. WritersFlush'
  BY <1>2 DEF Flows, WritersFlush
<1>6. Awaited'
  <2> SUFFICES ASSUME fd.open, fd'.packet # <<>>
               PROVE  armed' \/ fd.gen \in ready' \/ \E s \in Thread : Comes(th'[s])
    BY DEF Awaited
  <2>1. CASE Comes(x)
    BY <1>2, <2>1
  <2>2. CASE fd.packet # <<>> /\ ~Comes(th[t]) /\ (armed => armed') /\ (fd.gen \in ready => fd.gen \in ready')
    <3>1. armed \/ fd.gen \in ready \/ \E s \in Thread : Comes(th[s])
      BY <2>2 DEF Flows, Awaited
    <3>2. ASSUME NEW s \in Thread, Comes(th[s]) PROVE th'[s] = th[s]
      BY <1>2, <2>2, <3>2
    <3> QED
      BY <2>2, <3>1, <3>2
  <2> QED
    BY <2>1, <2>2
<1> QED
  BY <1>3, <1>4, <1>5, <1>6 DEF Flows

\* ... and the queue, or what is scheduled, loses nothing.
LEMMA MovedOn ==
    ASSUME Typed, Flows, NEW t \in Thread, NEW pc \in Pcs \ {"accepted", "write_lock", "close_fd"},
           Goto(t, pc), th[t].pc \notin {"idle", "accepted", "hangup"},
           pc = "write" => th[t].pc = "write_lock",
           fd'.open = fd.open, fd'.internal = fd.internal, fd'.gen = fd.gen,
           fd.packet = <<>> => fd'.packet = <<>>,
           UNCHANGED <<sock, conns, opened, ready>>, armed => armed',
           fd.open /\ fd'.packet # <<>> /\ Comes(th[t]) => Comes([th[t] EXCEPT !.pc = pc])
    PROVE  Flows'
<1> DEFINE x == [th[t] EXCEPT !.pc = pc]
<1>1. th \in [Thread -> Frame] /\ th[t] \in Frame
  BY DEF Typed
<1>2. x \in Frame /\ x.pc = pc /\ x.u = th[t].u /\ x.arg = th[t].arg
  BY <1>1 DEF Frame
<1>3. th' = [th EXCEPT ![t] = x]
  BY <1>1 DEF Goto
<1>4. opened[1] # 0
  BY DEF Flows, Opening
<1>5. fd.open => x.u = fd.gen
  BY <1>2 DEF Flows, OneUuid
<1>6. x.pc \in {"write_lock", "write"} => x.arg # "all"
  BY <1>2 DEF Flows, WritersFlush
<1>7. fd.open /\ fd'.packet # <<>> =>
         Comes(x) \/ (fd.packet # <<>> /\ ~Comes(th[t]) /\ (armed => armed') /\ (fd.gen \in ready => fd.gen \in ready'))
  OBVIOUS
<1> HIDE DEF x
<1> QED
  BY <1>2, <1>3, <1>4, <1>5, <1>6, <1>7, Moved

\* Thread t returns: the queue is empty, or somebody else comes, or something is scheduled.
LEMMA MovedAway ==
    ASSUME Typed, Flows, NEW t \in Thread, Done(t),
           fd'.open = fd.open, fd'.internal = fd.internal, fd'.gen = fd.gen, fd'.packet = fd.packet,
           UNCHANGED <<sock, conns, opened>>, armed => armed', ready \subseteq ready',
           ready' \subseteq ready \cup {th[t].u}, 
           th[t].pc \notin {"idle", "accepted", "hangup"},
           fd.open /\ fd.packet # <<>> /\ Comes(th[t]) => armed' \/ fd.gen \in ready'
    PROVE  Flows'
<1>1. Idle \in Frame /\ Idle.pc = "idle"
  BY Constants DEF Idle, Frame, Pcs
<1>2. opened[1] # 0
  BY DEF Flows, Opening
<1>3. fd.open => \A u \in ready' : u \in ready \/ u = fd.gen
  BY DEF Flows, OneUuid
<1> QED
  BY <1>1, <1>2, <1>3, Moved DEF Done

\* An idle thread begins a call.
LEMMA MovedIn ==
    ASSUME Typed, Flows, NEW t \in Thread, At(t, "idle"), NEW x \in Frame, th' = [th EXCEPT ![t] = x],
           x.pc \notin {"accepted", "close_fd"}, x.pc = "write_lock" => x.arg # "all", x.pc # "write",
           UNCHANGED <<fd, sock, conns, opened>>,
           opened[1] = 0 => ready' = ready /\ (armed' => armed) /\ x.pc \in {"idle", "hangup"},
           fd.open => x.pc \in {"idle", "hangup"} \/ x.u = fd.gen,
           ready' \subseteq ready \cup {fd.gen},
           Comes(x) \/ fd.gen \in ready' \/ (armed' = armed /\ ready' = ready)
    PROVE  Flows'
<1>1. ~Comes(th[t])
  BY DEF At, Comes
<1>2. fd'.open = fd.open /\ fd'.internal = fd.internal /\ fd'.gen = fd.gen /\ fd'.packet = fd.packet
  OBVIOUS
<1>3. x.pc \in {"write_lock", "write"} => x.arg # "all"
  OBVIOUS
<1>4. opened[1] = 0 => fd'.packet = fd.packet /\ ready' = ready /\ (armed' => armed) /\ x.pc \in {"idle", "hangup"}
  BY <1>2
<1>5. fd.open => /\ x.pc # "close_fd" /\ (x.pc \in {"idle", "hangup"} \/ x.u = fd.gen)
                 /\ \A u \in ready' : u \in ready \/ u = fd.gen
  OBVIOUS
<1>6. fd.open /\ fd'.packet # <<>> =>
        \/ armed' \/ fd.gen \in ready' \/ Comes(x)
        \/ fd.packet # <<>> /\ ~Comes(th[t]) /\ (armed => armed') /\ (fd.gen \in ready => fd.gen \in ready')
  BY <1>1, <1>2
<1>7. x.pc # "accepted"
  OBVIOUS
<1> QED
  BY <1>2, <1>3, <1>4, <1>5, <1>6, <1>7, Moved

\* The slot is cleared.
LEMMA Shut ==
    ASSUME Typed, Flows, NEW t \in Thread, NEW x \in Frame, th' = [th EXCEPT ![t] = x],
           fio_clear_fd(FALSE), UNCHANGED <<sock, conns, opened, ready, armed>>,
           x.pc \in {"idle", "close_fd"}, opened[1] = 0 => x.pc = "idle"
    PROVE  Flows'
<1>1. th'[t] = x /\ \A s \in Thread : s # t => th'[s] = th[s]
  BY DEF Typed
<1>2. ~fd'.open /\ fd'.internal = fd'.open /\ fd'.packet = <<>>
  BY DEF fio_clear_fd, Cleared
<1>3. Opening'
  <2>1. \A s \in Thread : th'[s].pc = "accepted" => th[s].pc = "accepted" /\ th'[s] = th[s]
    BY <1>1
  <2>2. ASSUME opened[1] = 0, NEW s \in Thread PROVE th'[s].pc \in {"idle", "accepted", "hangup"}
    BY <1>1, <2>2 DEF Flows, Opening
  <2>3. \A s \in Thread : th'[s].pc = "accepted" => opened'[1] = 0 /\ sock' = 1 /\ conns' = 1 /\ th'[s].c = 1
    BY <2>1 DEF Flows, Opening
  <2>4. \A s, u \in Thread : th'[s].pc = "accepted" /\ th'[u].pc = "accepted" => s = u
    BY <2>1 DEF Flows, Opening
  <2>5. opened'[1] # 0 => conns' = 1
    BY DEF Flows, Opening
  <2>6. opened'[1] = 0 => /\ ready' = {} /\ ~armed'
                         /\ \A s \in Thread : th'[s].pc \in {"idle", "accepted", "hangup"}
    BY <2>2 DEF Flows, Opening
  <2> QED
    BY <1>2, <2>3, <2>4, <2>5, <2>6 DEF Opening
<1>4. OneUuid' /\ Awaited'
  BY <1>2 DEF OneUuid, Awaited
<1>5. WritersFlush'
  BY <1>1 DEF Flows, WritersFlush
<1> QED
  BY <1>3, <1>4, <1>5 DEF Flows

LEMMA Unmoved ==
    ASSUME Flows, UNCHANGED <<fd, ready, armed, sock, conns, opened, th>>
    PROVE  Flows'
  BY DEF Flows, Opening, OneUuid, WritersFlush, Awaited

\* What fio_accept returned is the uuid of the one connection.
LEMMA TheUuid ==
    ASSUME OneConnection, Typed, Flows, NEW c \in Conn, opened[c] # 0
    PROVE  opened[c] \in Nat /\ opened[1] # 0 /\ (fd.open => opened[c] = fd.gen)
<1>1. c = 1
  BY DEF OneConnection, Conn
<1> QED
  BY <1>1 DEF Typed, Flows, Opening

\* ... and a call that found it open has it still.
LEMMA StillValid ==
    ASSUME Typed, Flows, NEW t \in Thread, th[t].pc \notin {"idle", "accepted", "hangup"}
    PROVE  opened[1] # 0 /\ (fd.open => th[t].u = fd.gen /\ uuid_is_valid(th[t].u) /\ sock # 0)
<1>1. fd.open => sock = 1
  BY DEF Flows, Opening
<1> QED
  BY <1>1 DEF Flows, Opening, OneUuid, uuid_is_valid

LEMMA FlowsAccept ==
    ASSUME OneConnection, Typed, Flows, NEW t \in Thread, accept4(t) \/ fio_accept(t)
    PROVE  Flows'
<1>0. th \in [Thread -> Frame] /\ opened \in [Conn -> Nat] /\ 1 \in Conn /\ fd.gen \in Nat
  BY DEF Typed, Slot, OneConnection, Conn
<1>1. CASE accept4(t)
  <2> DEFINE x == [Idle EXCEPT !.pc = "accepted", !.c = conns + 1]
  <2>1. conns = 0 /\ th[t].pc = "idle"
    BY <1>1 DEF accept4, At, OneConnection, Typed
  <2>2. x.pc = "accepted" /\ x.c = 1
    BY <2>1 DEF Idle
  <2>3. th' = [th EXCEPT ![t] = x] /\ sock' = 1 /\ conns' = 1 /\ UNCHANGED <<fd, ready, armed, opened>>
    BY <1>1, <2>1 DEF accept4, slot
  <2> HIDE DEF x
  <2>4. th'[t] = x /\ \A s \in Thread : s # t => th'[s] = th[s]
    BY <1>0, <2>3
  <2>5. opened[1] = 0 /\ ~fd.open /\ \A s \in Thread : th[s].pc # "accepted"
    BY <2>1 DEF Flows, Opening
  <2>6. Opening'
    <3>1. \A s \in Thread : th'[s].pc = "accepted" => s = t
      BY <2>4, <2>5
    <3>2. \A s \in Thread : th'[s].pc \in {"idle", "accepted", "hangup"}
      BY <2>2, <2>4, <2>5 DEF Flows, Opening
    <3> QED
      BY <2>2, <2>3, <2>4, <2>5, <3>1, <3>2 DEF Flows, Opening
  <2>7. OneUuid' /\ Awaited'
    BY <2>3, <2>5 DEF OneUuid, Awaited
  <2>8. WritersFlush'
    BY <2>2, <2>4 DEF Flows, WritersFlush
  <2> QED
    BY <2>6, <2>7, <2>8 DEF Flows
<1>2. CASE fio_accept(t)
  <2>1. th[t].pc = "accepted" /\ fd' = Cleared(fd.gen + 1, TRUE) /\ armed' = (sock # 0)
        /\ opened' = [opened EXCEPT ![th[t].c] = fd.gen + 1]
        /\ th' = [th EXCEPT ![t] = Idle] /\ UNCHANGED <<ready, sock, conns>>
    BY <1>2 DEF fio_accept, fio_clear_fd, At, Done
  <2>2. opened[1] = 0 /\ sock = 1 /\ conns = 1 /\ th[t].c = 1 /\ ready = {}
    BY <2>1 DEF Flows, Opening
  <2>3. opened'[1] = fd.gen + 1 /\ fd.gen + 1 # 0
    BY <1>0, <2>1, <2>2
  <2>4. fd'.open /\ fd'.internal /\ fd'.packet = <<>> /\ fd'.gen = fd.gen + 1
    BY <2>1 DEF Cleared
  <2>5. th'[t] = Idle /\ Idle.pc = "idle" /\ \A s \in Thread : s # t => th'[s] = th[s]
    BY <1>0, <2>1 DEF Idle
  <2>6. ASSUME NEW s \in Thread PROVE th'[s].pc \in {"idle", "hangup"}
    <3>1. s # t => th[s].pc \in {"idle", "accepted", "hangup"} /\ th[s].pc # "accepted"
      BY <2>1, <2>2 DEF Flows, Opening
    <3> QED
      BY <2>5, <3>1
  <2>7. Opening'
    BY <2>1, <2>2, <2>3, <2>4, <2>6 DEF Opening
  <2>8. OneUuid' /\ Awaited' /\ WritersFlush'
    BY <2>1, <2>2, <2>4, <2>6 DEF OneUuid, Awaited, WritersFlush
  <2> QED
    BY <2>7, <2>8 DEF Flows
<1> QED
  BY <1>1, <1>2

LEMMA FlowsCall ==
    ASSUME OneConnection, Typed, Flows, NEW t \in Thread, fio_close(t) \/ call_force_close(t) \/ fio_read(t)
    PROVE  Flows'
<1>1. /\ At(t, "idle") /\ UNCHANGED <<slot, ready, armed, kernel, target>>
      /\ \E c \in Conn, pc \in {"mark", "force_close", "read_lock"} : opened[c] # 0 /\ Call(t, c, pc)
  BY DEF fio_close, call_force_close, fio_read
<1>2. PICK c \in Conn, pc \in {"mark", "force_close", "read_lock"} : opened[c] # 0 /\ Call(t, c, pc)
  BY <1>1
<1>3. pc \in Pcs
  BY DEF Pcs
<1>4. PICK x \in Frame : x.pc = pc /\ x.u = opened[c] /\ th' = [th EXCEPT ![t] = x]
  BY <1>2, <1>3, CallHas
<1>5. UNCHANGED <<fd, sock, conns, opened, ready, armed>>
  BY <1>1 DEF slot, kernel
<1>6. opened[1] # 0 /\ (fd.open => x.u = fd.gen)
  BY <1>2, <1>4, TheUuid
<1> QED
  BY <1>1, <1>4, <1>5, <1>6, MovedIn

LEMMA FlowsServe ==
    ASSUME Typed, Flows, NEW t \in Thread,
           deferred_on_ready(t) \/ poll_write(t) \/ poll_hangup(t) \/ fio_flush_all(t)
    PROVE  Flows'
<1>0. th \in [Thread -> Frame] /\ fd.gen \in Nat /\ ready \subseteq Nat
  BY DEF Typed, Slot
<1>1. CASE deferred_on_ready(t)
  <2>1. PICK u \in ready : /\ ready' = ready \ {u}
                           /\ th' = [th EXCEPT ![t] = [Idle EXCEPT !.pc = "flush", !.u = u, !.arg = "task"]]
    BY <1>1 DEF deferred_on_ready
  <2> DEFINE x == [Idle EXCEPT !.pc = "flush", !.u = u, !.arg = "task"]
  <2>2. x \in Frame
    <3>1. u \in Nat /\ "flush" \in Pcs /\ "task" \in {"now", "task", "all", NULL}
      BY <1>0 DEF Pcs
    <3>2. \A f : f = Idle => [f EXCEPT !.pc = "flush", !.u = u, !.arg = "task"] \in Frame
      BY <3>1, FlushFrame, ZenonT(60)
    <3> QED
      BY <3>2, Zenon
  <2>3. x.pc = "flush" /\ x.arg = "task" /\ x.u = u
    BY DEF Idle
  <2>4. th' = [th EXCEPT ![t] = x] /\ At(t, "idle") /\ UNCHANGED <<fd, sock, conns, opened, armed>>
    BY <1>1, <2>1 DEF deferred_on_ready, slot, kernel
  <2> HIDE DEF x
  <2>5. opened[1] # 0 /\ (fd.open => u = fd.gen)
    BY DEF Flows, Opening, OneUuid
  <2>6. Comes(x)
    BY <2>3, NullIsNothing DEF Comes
  <2> QED
    BY <2>1, <2>2, <2>3, <2>4, <2>5, <2>6, MovedIn
<1>2. CASE poll_write(t)
  <2>1. th[t].pc = "idle" /\ armed /\ ready' = ready \cup {fd.gen} /\ UNCHANGED <<fd, sock, conns, opened, th>>
    BY <1>2 DEF poll_write, slot, kernel, At
  <2>2. opened[1] # 0
    BY <2>1 DEF Flows, Opening
  <2>3. th' = [th EXCEPT ![t] = th[t]] /\ th[t] \in Frame
    BY <1>0, <2>1
  <2> QED
    BY <2>1, <2>2, <2>3, MovedIn DEF At
<1>3. CASE poll_hangup(t)
  <2> DEFINE x == [Idle EXCEPT !.pc = "hangup", !.c = sock]
  <2>1. x \in Frame /\ x.pc = "hangup"
    <3>1. sock \in 0 .. MaxConn /\ "hangup" \in Pcs
      BY DEF Typed, Pcs
    <3> QED
      BY <3>1, KernelFrame, Zenon
  <2>2. th' = [th EXCEPT ![t] = x] /\ At(t, "idle") /\ ~armed' /\ UNCHANGED <<fd, sock, conns, opened, ready>>
    BY <1>3 DEF poll_hangup, slot
  <2> HIDE DEF x
  <2>3. Comes(x)
    BY <2>1 DEF Comes
  <2> QED
    BY <2>1, <2>2, <2>3, MovedIn
<1>4. CASE fio_flush_all(t)
  <2> DEFINE x == [Idle EXCEPT !.pc = "flush", !.u = fd.gen, !.arg = "all"]
  <2>1. x \in Frame
    <3>1. fd.gen \in Nat /\ "flush" \in Pcs /\ "all" \in {"now", "task", "all", NULL}
      BY <1>0 DEF Pcs
    <3>2. \A f : f = Idle => [f EXCEPT !.pc = "flush", !.u = fd.gen, !.arg = "all"] \in Frame
      BY <3>1, FlushFrame, ZenonT(60)
    <3> QED
      BY <3>2, Zenon
  <2>2. x.pc = "flush" /\ x.u = fd.gen
    BY DEF Idle
  <2>3. th' = [th EXCEPT ![t] = x] /\ At(t, "idle") /\ (fd.open \/ fd.packet # <<>>)
        /\ UNCHANGED <<fd, sock, conns, opened, ready, armed>>
    BY <1>4 DEF fio_flush_all, slot, kernel
  <2> HIDE DEF x
  <2>4. opened[1] # 0
    BY <2>3 DEF Flows, Opening
  <2> QED
    BY <2>1, <2>2, <2>3, <2>4, MovedIn
<1> QED
  BY <1>1, <1>2, <1>3, <1>4

LEMMA FlowsFlush ==
    ASSUME KnownErrors, Inv, Flows, NEW t \in Thread,
           fio_flush(t) \/ flush_rw_hook(t) \/ flush_wrote(t) \/ flush_failed(t) \/ flush_return(t)
    PROVE  Flows'
<1>0. Typed /\ th[t] \in Frame /\ th \in [Thread -> Frame] /\ fd \in Slot
  BY DEF Inv, Typed
<1>1. th[t].pc \in {"flush", "hook", "syscall", "return"}
  BY DEF fio_flush, flush_rw_hook, flush_wrote, flush_failed, flush_return, At
<1>2. opened[1] # 0 /\ (fd.open => th[t].u = fd.gen /\ uuid_is_valid(th[t].u) /\ sock # 0)
  BY <1>0, <1>1, StillValid
<1>3. UNCHANGED <<sock, conns, opened, ready, armed>>
  BY DEF fio_flush, flush_rw_hook, flush_wrote, flush_failed, flush_return, slot, kernel
<1>4. ASSUME Again(t), UNCHANGED fd PROVE Flows'
  <2>1. CASE th[t].arg = "all" /\ Done(t)
    <3>1. ~Comes(th[t])
      BY <1>1, <2>1 DEF Comes
    <3> QED
      BY <1>0, <1>1, <1>3, <1>4, <2>1, <3>1, MovedAway
  <2>2. CASE th[t].arg # "all" /\ Goto(t, "rearm")
    <3>1. Comes([th[t] EXCEPT !.pc = "rearm"])
      BY <1>0, <2>2 DEF Comes, Frame
    <3> QED
      BY <1>0, <1>1, <1>3, <1>4, <2>2, <3>1, MovedOn DEF Pcs
  <2> QED
    BY <1>0, <1>4, <2>1, <2>2 DEF Again, Done, Goto
<1>5. CASE fio_flush(t)
  <2>1. UNCHANGED fd /\ th[t].pc = "flush"
    BY <1>5 DEF fio_flush, At
  <2>2. CASE ~uuid_is_valid(th[t].u) /\ Done(t)
    BY <1>0, <1>1, <1>2, <1>3, <2>1, <2>2, MovedAway
  <2>3. CASE Again(t)
    BY <1>4, <2>1, <2>3
  <2>4. CASE fd.packet = <<>> /\ Goto(t, "hook")
    BY <1>0, <1>1, <1>3, <2>1, <2>4, MovedOn DEF Pcs
  <2>5. CASE fd.packet # <<>> /\ Goto(t, "syscall")
    <3>1. Comes(th[t]) => Comes([th[t] EXCEPT !.pc = "syscall"])
      BY <1>0, <2>1 DEF Comes, Frame
    <3> QED
      BY <1>0, <1>1, <1>3, <2>1, <2>5, <3>1, MovedOn DEF Pcs
  <2> QED
    BY <1>5, <2>2, <2>3, <2>4, <2>5 DEF fio_flush
<1>6. CASE flush_rw_hook(t)
  <2>1. UNCHANGED fd /\ Done(t) /\ ~Comes(th[t])
    BY <1>6 DEF flush_rw_hook, At, Comes
  <2> QED
    BY <1>0, <1>1, <1>3, <2>1, MovedAway
<1>7. CASE flush_wrote(t)
  <2>1. PICK n \in 1 .. left[Head(fd.packet)] : Wrote(n) /\ Goto(t, IF Slowloris(n) THEN "attacked" ELSE "test")
    BY <1>7 DEF flush_wrote
  <2>2. PICK pc \in {"attacked", "test"} : Goto(t, pc)
    BY <2>1
  <2>3. th[t].pc = "syscall"
    BY <1>7 DEF flush_wrote, At
  <2>4. UNCHANGED fd \/ fd' = fio_sock_packet_rotate_unsafe
    BY <2>1 DEF Wrote
  <2>5. fd'.open = fd.open /\ fd'.internal = fd.internal /\ fd'.gen = fd.gen
    BY <1>0, <2>4 DEF fio_sock_packet_rotate_unsafe, Slot
  <2>6. Comes(th[t]) => Comes([th[t] EXCEPT !.pc = pc])
    BY <1>0, <2>3 DEF Comes, Frame
  <2>7. pc \in Pcs \ {"accepted", "write_lock", "write", "close_fd"}
    BY DEF Pcs
  <2>8. fd.packet # <<>>
    BY <2>3 DEF Inv, ThreadsAgree
  <2> QED
    BY <1>0, <1>1, <1>3, <2>2, <2>5, <2>6, <2>7, <2>8, MovedOn
<1>8. CASE flush_failed(t)
  <2>1. th[t].pc = "syscall" /\ UNCHANGED fd
    BY <1>8 DEF flush_failed, At
  <2>2. Again(t) \/ Goto(t, "fatal")
    <3>1. PICK o \in IF sock = 0 THEN {"fatal"} ELSE Outcome \ {"all", "part"} :
              CASE o = "again" -> Again(t) [] o = "fatal" -> Goto(t, "fatal") [] o = "other" -> Done(t)
      BY <1>8 DEF flush_failed
    <3>2. o = "again" \/ o = "fatal"
      BY <3>1, SocketAssumption DEF KnownErrors
    <3> QED
      BY <3>1, <3>2
  <2>3. Comes([th[t] EXCEPT !.pc = "fatal"])
    BY <1>0 DEF Comes, Frame
  <2>4. CASE Goto(t, "fatal")
    BY <1>0, <1>1, <1>3, <2>1, <2>3, <2>4, MovedOn DEF Pcs
  <2> QED
    BY <1>4, <2>1, <2>2, <2>4
<1>9. CASE flush_return(t)
  <2>1. UNCHANGED fd /\ (Again(t) \/ (Done(t) /\ ~(fd.open /\ fd.packet # <<>>)))
    BY <1>9 DEF flush_return, slot
  <2>2. CASE Done(t) /\ ~(fd.open /\ fd.packet # <<>>)
    BY <1>0, <1>1, <1>3, <2>1, <2>2, MovedAway
  <2> QED
    BY <1>4, <2>1, <2>2
<1> QED
  BY <1>5, <1>6, <1>7, <1>8, <1>9

LEMMA FlowsClose ==
    ASSUME OneConnection, Typed, Flows, NEW t \in Thread,
           \/ flush_fatal(t) \/ flush_test(t) \/ on_ready_again(t) \/ close_mark(t) \/ fio_force_event(t)
           \/ fio_force_close(t) \/ force_close_drop(t) \/ before_close(t) \/ close_fd(t) \/ read_hooks(t)
           \/ fio_force_close_in_poll(t)
    PROVE  Flows'
<1>0. th[t] \in Frame /\ th \in [Thread -> Frame] /\ fd \in Slot
  BY DEF Typed
<1>1. th[t].pc \notin {"idle", "accepted", "hangup"} => 
          opened[1] # 0 /\ (fd.open => th[t].u = fd.gen /\ uuid_is_valid(th[t].u) /\ sock # 0)
  BY StillValid
<1>2. \A pc \in Pcs : [th[t] EXCEPT !.pc = pc].pc = pc /\ [th[t] EXCEPT !.pc = pc].arg = th[t].arg
  BY <1>0 DEF Frame
<1>3. \A n : LET f == [fd EXCEPT !.close = n]
             IN  f.open = fd.open /\ f.internal = fd.internal /\ f.gen = fd.gen /\ f.packet = fd.packet
  BY <1>0 DEF Slot
<1>4. CASE flush_fatal(t)
  <2>1. th[t].pc = "fatal" /\ Goto(t, "force_close") /\ UNCHANGED <<sock, conns, opened, ready, armed>>
    BY <1>4 DEF flush_fatal, At, kernel
  <2>3. fd'.open = fd.open /\ fd'.internal = fd.internal /\ fd'.gen = fd.gen /\ fd'.packet = fd.packet
    BY <1>4, MarkingKeeps DEF Still
  <2>2. Comes([th[t] EXCEPT !.pc = "force_close"])
    BY <1>2 DEF Comes, Pcs
  <2> QED
    BY <2>1, <2>2, <2>3, MovedOn DEF Pcs
<1>5. CASE flush_test(t)
  <2>1. PICK pc \in {"force_close", "return"} : Goto(t, pc)
    BY <1>5 DEF flush_test
  <2>2. th[t].pc = "test" /\ UNCHANGED <<fd, sock, conns, opened, ready, armed>>
    BY <1>5 DEF flush_test, At, slot, kernel
  <2>3. Comes(th[t]) => Comes([th[t] EXCEPT !.pc = pc])
    BY <1>2, <2>2 DEF Comes, Pcs
  <2> QED
    BY <2>1, <2>2, <2>3, MovedOn DEF Pcs
<1>6. CASE on_ready_again(t)
  <2>1. th[t].pc = "rearm" /\ Rearmed(t) /\ Done(t) /\ UNCHANGED <<fd, sock, conns, opened>>
    BY <1>6 DEF on_ready_again, At, slot, kernel
  <2>2. /\ armed => armed'
        /\ ready \subseteq ready' /\ ready' \subseteq ready \cup {th[t].u}
        /\ fd.open => armed' \/ fd.gen \in ready'
    <3>1. CASE th[t].arg = "now"
      <4>1. ready' = ready \cup {th[t].u} /\ armed' = armed
        BY <2>1, <3>1 DEF Rearmed
      <4> QED
        BY <1>1, <2>1, <4>1
    <3>2. CASE th[t].arg # "now"
      <4>1. armed' = (armed \/ sock # 0) /\ ready' = ready
        BY <2>1, <3>2 DEF Rearmed
      <4> QED
        BY <1>1, <2>1, <4>1
    <3> QED
      BY <3>1, <3>2
  <2> QED
    BY <2>1, <2>2, MovedAway
<1>7. CASE close_mark(t)
  <2>1. th[t].pc = "mark" /\ Goto(t, "event") /\ UNCHANGED <<sock, conns, opened, ready, armed>>
    BY <1>7 DEF close_mark, At, kernel
  <2>3. fd'.open = fd.open /\ fd'.internal = fd.internal /\ fd'.gen = fd.gen /\ fd'.packet = fd.packet
    BY <1>7, MarkingKeeps DEF Still
  <2>2. ~Comes(th[t])
    BY <2>1 DEF Comes
  <2> QED
    BY <2>1, <2>2, <2>3, MovedOn DEF Pcs
<1>8. CASE fio_force_event(t)
  <2>1. th[t].pc = "event" /\ Done(t) /\ UNCHANGED <<fd, sock, conns, opened, armed>>
        /\ (ready' = ready \/ ready' = ready \cup {th[t].u})
    BY <1>8 DEF fio_force_event, At, slot, kernel
  <2>2. ~Comes(th[t])
    BY <2>1 DEF Comes
  <2> QED
    BY <2>1, <2>2, MovedAway
<1>9. CASE fio_force_close(t)
  <2>1. th[t].pc = "force_close" /\ UNCHANGED <<sock, conns, opened, ready, armed>>
    BY <1>9 DEF fio_force_close, At, kernel
  <2>2. CASE uuid_is_valid(th[t].u)
    <3>1. Goto(t, "drop_lock") /\ \E n : fd' = [fd EXCEPT !.close = n]
      BY <1>9, <2>2 DEF fio_force_close
    <3>2. Comes([th[t] EXCEPT !.pc = "drop_lock"])
      BY <1>2 DEF Comes, Pcs
    <3> QED
      BY <1>3, <2>1, <3>1, <3>2, MovedOn DEF Pcs
  <2>3. CASE ~uuid_is_valid(th[t].u)
    <3>1. Done(t) /\ UNCHANGED fd /\ ~fd.open
      BY <1>1, <1>9, <2>1, <2>3 DEF fio_force_close
    <3> QED
      BY <2>1, <3>1, MovedAway
  <2> QED
    BY <2>2, <2>3
<1>10. CASE force_close_drop(t)
  <2>1. th[t].pc = "drop" /\ Goto(t, "before_close") /\ fd' = [fd EXCEPT !.packet = <<>>, !.last = NULL]
        /\ UNCHANGED <<sock, conns, opened, ready, armed>>
    BY <1>10 DEF force_close_drop, At, kernel
  <2>2. fd'.open = fd.open /\ fd'.internal = fd.internal /\ fd'.gen = fd.gen /\ fd'.packet = <<>>
    BY <1>0, <2>1 DEF Slot
  <2> QED
    BY <2>1, <2>2, MovedOn DEF Pcs
<1>11. CASE before_close(t)
  <2>1. th[t].pc = "before_close" /\ ~Comes(th[t]) /\ UNCHANGED <<sock, conns, opened, ready>>
    BY <1>11 DEF before_close, At, kernel, Comes
  <2>2. CASE fd' = [fd EXCEPT !.close = 2] /\ armed' = (armed \/ sock # 0) /\ Done(t)
    <3>1. (armed => armed') /\ ready \subseteq ready' /\ ready' \subseteq ready \cup {th[t].u}
      BY <2>1, <2>2
    <3> QED
      BY <1>3, <2>1, <2>2, <3>1, MovedAway
  <2>3. CASE Goto(t, "clear") /\ UNCHANGED <<fd, armed>>
    BY <2>1, <2>3, MovedOn DEF Pcs
  <2> QED
    BY <1>11, <2>2, <2>3 DEF before_close
<1>12. CASE close_fd(t)
  <2>1. th[t].pc = "close_fd" /\ Done(t) /\ UNCHANGED <<fd, conns, opened, ready>> /\ ~armed'
    BY <1>12 DEF close_fd, At, slot
  <2>2. ~fd.open /\ opened[1] # 0
    BY <1>1, <2>1 DEF Flows, OneUuid
  <2>3. th'[t].pc = "idle" /\ \A s \in Thread : s # t => th'[s] = th[s]
    BY <1>0, <2>1 DEF Done, Idle
  <2>4. \A s \in Thread : th'[s].pc # "accepted"
    BY <2>2, <2>3 DEF Flows, Opening
  <2>5. Opening'
    BY <2>1, <2>2, <2>4 DEF Flows, Opening
  <2>6. OneUuid' /\ Awaited'
    BY <2>1, <2>2 DEF OneUuid, Awaited
  <2>7. WritersFlush'
    BY <2>3 DEF Flows, WritersFlush
  <2> QED
    BY <2>5, <2>6, <2>7 DEF Flows
<1>13. CASE read_hooks(t)
  <2>1. th[t].pc = "read_hooks" /\ (Done(t) \/ Goto(t, "force_close"))
        /\ UNCHANGED <<fd, sock, conns, opened, ready, armed>>
    BY <1>13 DEF read_hooks, At, kernel
  <2>2. ~Comes(th[t])
    BY <2>1 DEF Comes
  <2>3. CASE Done(t)
    BY <2>1, <2>2, <2>3, MovedAway
  <2>4. CASE Goto(t, "force_close")
    BY <2>1, <2>2, <2>4, MovedOn DEF Pcs
  <2> QED
    BY <2>1, <2>3, <2>4
<1>14. CASE fio_force_close_in_poll(t)
  <2> DEFINE x == [th[t] EXCEPT !.pc = "force_close", !.u = fd.gen]
  <2>1. x \in Frame /\ x.pc = "force_close" /\ x.u = fd.gen
    BY <1>0 DEF Frame, Pcs, Slot
  <2>2. th' = [th EXCEPT ![t] = x]
    BY <1>0, <1>14 DEF fio_force_close_in_poll
  <2>3. th[t].pc = "hangup" /\ fd.internal /\ fd' = [fd EXCEPT !.close = 2]
        /\ UNCHANGED <<sock, conns, opened, ready, armed>>
    BY <1>14 DEF fio_force_close_in_poll, At, kernel
  <2>4. opened[1] # 0
    BY <2>3 DEF Flows, Opening
  <2> HIDE DEF x
  <2>5. Comes(x)
    BY <2>1 DEF Comes
  <2> QED
    BY <1>3, <2>1, <2>2, <2>3, <2>4, <2>5, Moved
<1> QED
  BY <1>4, <1>5, <1>6, <1>7, <1>8, <1>9, <1>10, <1>11, <1>12, <1>13, <1>14

LEMMA FlowsClear ==
    ASSUME Typed, Flows, NEW t \in Thread, flush_attacked(t) \/ poll_clear(t) \/ force_close_clear(t)
    PROVE  Flows'
<1>0. th[t] \in Frame /\ th \in [Thread -> Frame]
  BY DEF Typed
<1>1. fio_clear_fd(FALSE) /\ UNCHANGED <<sock, conns, opened, ready, armed>>
  BY DEF flush_attacked, poll_clear, force_close_clear, kernel
<1>2. CASE Done(t)
  <2>1. Idle \in Frame /\ Idle.pc = "idle"
    BY Constants DEF Idle, Frame, Pcs
  <2> QED
    BY <1>1, <1>2, <2>1, Shut DEF Done
<1>3. CASE th[t].pc = "clear" /\ Goto(t, "close_fd")
  <2> DEFINE x == [th[t] EXCEPT !.pc = "close_fd"]
  <2>1. x \in Frame /\ x.pc = "close_fd"
    BY <1>0 DEF Frame, Pcs
  <2>2. th' = [th EXCEPT ![t] = x]
    BY <1>0, <1>3 DEF Goto
  <2>3. opened[1] # 0
    BY <1>3, StillValid
  <2> HIDE DEF x
  <2> QED
    BY <1>1, <2>1, <2>2, <2>3, Shut
<1> QED
  BY <1>2, <1>3 DEF flush_attacked, poll_clear, force_close_clear, At

LEMMA FlowsLocked ==
    ASSUME Typed, Flows, NEW t \in Thread, write_lock(t) \/ read_lock(t) \/ force_close_lock(t)
    PROVE  Flows'
<1>0. th[t] \in Frame
  BY DEF Typed
<1>1. UNCHANGED <<fd, sock, conns, opened, ready, armed>>
  BY DEF write_lock, read_lock, force_close_lock, LockedBy, kernel
<1>2. CASE write_lock(t)
  <2>1. th[t].pc = "write_lock" /\ Goto(t, "write") /\ ~Comes(th[t])
    BY <1>2 DEF write_lock, LockedBy, At, Comes
  <2> QED
    BY <1>1, <2>1, MovedOn DEF Pcs
<1>3. CASE read_lock(t)
  <2>1. th[t].pc = "read_lock" /\ Goto(t, "read_hooks") /\ ~Comes(th[t])
    BY <1>3 DEF read_lock, LockedBy, At, Comes
  <2> QED
    BY <1>1, <2>1, MovedOn DEF Pcs
<1>4. CASE force_close_lock(t)
  <2>1. th[t].pc = "drop_lock" /\ Goto(t, "drop")
    BY <1>4 DEF force_close_lock, LockedBy, At
  <2>2. Comes([th[t] EXCEPT !.pc = "drop"])
    BY <1>0 DEF Comes, Frame
  <2> QED
    BY <1>1, <2>1, <2>2, MovedOn DEF Pcs
<1> QED
  BY <1>2, <1>3, <1>4

LEMMA FlowsWrite ==
    ASSUME OneConnection, Typed, Flows, NEW t \in Thread, fio_write2(t) \/ write_packet(t) \/ write_error(t)
    PROVE  Flows'
<1>0. th[t] \in Frame /\ th \in [Thread -> Frame] /\ fd \in Slot /\ opened \in [Conn -> Nat]
  BY DEF Typed
<1>1. UNCHANGED <<sock, conns, opened, ready, armed>>
  BY DEF fio_write2, write_packet, write_error, kernel
<1>2. CASE fio_write2(t)
  <2>1. UNCHANGED fd /\ At(t, "idle")
    BY <1>2 DEF fio_write2
  <2>2. CASE th' = th
    BY <1>1, <2>1, <2>2, Unmoved
  <2>3. CASE th' # th
    <3>1. PICK c \in Conn, p \in Packet :
              /\ opened[c] # 0
              /\ th' = [th EXCEPT ![t] = [pc |-> "write_lock", u |-> opened[c], c |-> c, p |-> p, arg |-> "now"]]
      BY <1>2, <2>3 DEF fio_write2
    <3> DEFINE x == [pc |-> "write_lock", u |-> opened[c], c |-> c, p |-> p, arg |-> "now"]
    <3>2. x \in Frame
      BY <1>0, Constants DEF Frame, Pcs, Conn
    <3>3. x.pc = "write_lock" /\ x.arg = "now" /\ x.u = opened[c] /\ th' = [th EXCEPT ![t] = x]
      BY <3>1
    <3> HIDE DEF x
    <3>4. opened[1] # 0 /\ (fd.open => x.u = fd.gen)
      BY <3>1, <3>3, TheUuid
    <3> QED
      BY <1>1, <2>1, <3>2, <3>3, <3>4, MovedIn
  <2> QED
    BY <2>2, <2>3
<1>3. CASE write_packet(t)
  <2>1. th[t].pc = "write" /\ ~Comes(th[t]) /\ th[t].arg # "all"
    BY <1>3 DEF write_packet, At, Comes, Flows, WritersFlush
  <2>2. opened[1] # 0 /\ (fd.open => th[t].u = fd.gen)
    BY <2>1, StillValid
  <2>3. fd'.open = fd.open /\ fd'.internal = fd.internal /\ fd'.gen = fd.gen
    BY <1>0, <1>3 DEF write_packet, Queued, Inserted, Appended, Slot
  <2>4. CASE fd.packet = <<>>
    <3> DEFINE x == [th[t] EXCEPT !.pc = "flush", !.p = NULL]
    <3>1. x \in Frame /\ x.pc = "flush" /\ x.u = th[t].u /\ x.arg = th[t].arg
      BY <1>0 DEF Frame, Pcs
    <3>2. th' = [th EXCEPT ![t] = x]
      BY <1>0, <1>3, <2>4 DEF write_packet
    <3> HIDE DEF x
    <3>3. Comes(x)
      BY <2>1, <3>1 DEF Comes
    <3> QED
      BY <1>1, <2>2, <2>3, <3>1, <3>2, <3>3, Moved
  <2>5. CASE fd.packet # <<>>
    <3>1. Idle \in Frame /\ Idle.pc = "idle"
      BY Constants DEF Idle, Frame, Pcs
    <3>2. th' = [th EXCEPT ![t] = Idle]
      BY <1>0, <1>3, <2>5 DEF write_packet
    <3> QED
      BY <1>1, <2>1, <2>2, <2>3, <2>5, <3>1, <3>2, Moved
  <2> QED
    BY <2>4, <2>5
<1>4. CASE write_error(t)
  <2>1. th[t].pc = "write" /\ Done(t) /\ UNCHANGED fd /\ ~Comes(th[t])
    BY <1>4 DEF write_error, At, Comes
  <2> QED
    BY <1>1, <2>1, MovedAway
<1> QED
  BY <1>2, <1>3, <1>4

LEMMA FlowsInitially == ASSUME OneConnection PROVE Init => Flows
<1> SUFFICES ASSUME Init PROVE Flows
  OBVIOUS
<1>1. \A t \in Thread : th[t].pc = "idle"
  BY DEF Init, Idle
<1>2. 1 \in Conn
  BY DEF Conn, OneConnection
<1>3. ~fd.open /\ ~fd.internal /\ fd.packet = <<>> /\ fd.internal = fd.open
  BY DEF Init, Cleared
<1>4. opened[1] = 0 /\ ready = {} /\ ~armed
  BY <1>2 DEF Init
<1> QED
  BY <1>1, <1>3, <1>4 DEF Flows, Opening, OneUuid, WritersFlush, Awaited

LEMMA FlowsStep ==
    ASSUME OneConnection, KnownErrors
    PROVE  Inv /\ Flows /\ [Next]_vars => Flows'
<1> SUFFICES ASSUME Inv, Flows, [Next]_vars PROVE Flows'
  OBVIOUS
<1>1. CASE UNCHANGED vars
  BY <1>1, Unmoved DEF vars
<1>2. ASSUME NEW t \in Thread, Resume(t) \/ Serve(t) \/ Start(t) \/ fio_flush_all(t) PROVE Flows'
  <2>0. Typed
    BY DEF Inv
  <2>1. CASE accept4(t) \/ fio_accept(t)
    BY <2>0, <2>1, FlowsAccept
  <2>2. CASE fio_close(t) \/ call_force_close(t) \/ fio_read(t)
    BY <2>0, <2>2, FlowsCall
  <2>3. CASE deferred_on_ready(t) \/ poll_write(t) \/ poll_hangup(t) \/ fio_flush_all(t)
    BY <2>0, <2>3, FlowsServe
  <2>4. CASE fio_flush(t) \/ flush_rw_hook(t) \/ flush_wrote(t) \/ flush_failed(t) \/ flush_return(t)
    BY <2>4, FlowsFlush
  <2>5. CASE \/ flush_fatal(t) \/ flush_test(t) \/ on_ready_again(t) \/ close_mark(t) \/ fio_force_event(t)
             \/ fio_force_close(t) \/ force_close_drop(t) \/ before_close(t) \/ close_fd(t) \/ read_hooks(t)
             \/ fio_force_close_in_poll(t)
    BY <2>0, <2>5, FlowsClose
  <2>6. CASE flush_attacked(t) \/ poll_clear(t) \/ force_close_clear(t)
    BY <2>0, <2>6, FlowsClear
  <2>7. CASE write_lock(t) \/ read_lock(t) \/ force_close_lock(t)
    BY <2>0, <2>7, FlowsLocked
  <2>8. CASE fio_write2(t) \/ write_packet(t) \/ write_error(t)
    BY <2>0, <2>8, FlowsWrite
  <2> QED
    BY <1>2, <2>1, <2>2, <2>3, <2>4, <2>5, <2>6, <2>7, <2>8
       DEF Resume, Serve, Start, Runs, Overtaken, Flush, Close
<1> QED
  BY <1>1, <1>2 DEF Next

\* No wake-up is lost: while writers, reactor threads and the IO thread write, flush and
\* close one connection, packets that wait when the calls have returned wait for an event
\* or for a deferred_on_ready task, although fio_flush gives up when it finds the lock
\* taken, and fio_write2 flushes only what it put into an empty queue.
THEOREM NothingStalls ==
    ASSUME OneConnection, KnownErrors
    PROVE  Spec => []NoStalledPackets
<1>1. Flows => NoStalledPackets
  <2> SUFFICES ASSUME Flows, AtRest, fd.open, fd.packet # <<>> PROVE armed \/ fd.gen \in ready
    BY DEF NoStalledPackets
  <2>1. \A t \in Thread : ~Comes(th[t])
    BY DEF AtRest, At, Comes
  <2> QED
    BY <2>1 DEF Flows, Awaited
<1>2. Inv /\ Flows /\ [Next]_vars => Flows'
  BY FlowsStep
<1>3. Init => Flows
  BY FlowsInitially
<1>4. Spec => []Flows
  BY <1>2, <1>3, InvHolds, PTL DEF Spec
<1> QED
  BY <1>1, <1>4, PTL
=============================================================================
