--------------------------- MODULE TaskQueueProofs ---------------------------
(***************************************************************************)
(* Theorems about the task queue, for any set of tasks, any size of a ring *)
(* and any number of rings: rings are neither leaked nor used once they    *)
(* are released, and the chain of rings implements the FIFO queue that     *)
(* fio_defer and fio_defer_perform are promised (TaskFIFO).                *)
(***************************************************************************)
EXTENDS TaskQueue, FiniteSetTheorems, WellFoundedInduction, SequenceTheorems, TLAPS

Entry == Task \cup {NULL}
Last == Cardinality(Address)

\* A ring that holds tasks or may: `state` tells on which side `write` is of `read`.
InUse(b) == (b.state = 0 /\ b.read <= b.write) \/ (b.state = 1 /\ b.write <= b.read)

\* c is the chain of rings from the reader to the writer.  Only a ring that is
\* alone may be empty, and the static ring is on the chain or parked.
Linked(c) ==
    /\ c \in Seq(Address) /\ c # <<>>
    /\ c[1] = reader /\ c[Len(c)] = writer
    /\ \A i, j \in 1 .. Len(c) : c[i] = c[j] => i = j
    /\ \A i \in 1 .. Len(c) - 1 : block[c[i]].next = c[i + 1]
    /\ block[c[Len(c)]].next = NULL
    /\ allocated = {c[i] : i \in 1 .. Len(c)} \ {static_queue}
    /\ (\A i \in 1 .. Len(c) : c[i] # static_queue) =>
           block[static_queue].state = 2 /\ block[static_queue].next = NULL
    /\ \A i \in 1 .. Len(c) : InUse(block[c[i]])
    /\ Len(c) > 1 => \A i \in 1 .. Len(c) : ~Empty(block[c[i]])

\* u[i] is what the first i rings of c hold.
Held(c, u) ==
    /\ u \in [1 .. Len(c) -> Seq(Entry)]
    /\ u[1] = RingContents(block[c[1]])
    /\ \A i \in 1 .. Len(c) - 1 : u[i + 1] = u[i] \o RingContents(block[c[i + 1]])

Inv == TypeOK /\ \E c \in Seq(Address) : Linked(c) /\ \E u \in [1 .. Len(c) -> Seq(Entry)] : Held(c, u)

ContentsAgree ==
    \A c \in Seq(Address) : TypeOK /\ Linked(c) =>
        \A u \in [1 .. Len(c) -> Seq(Entry)] : Held(c, u) => Contents = u[Len(c)]

\* A queue of one empty ring.
AloneAndEmpty ==
    /\ TypeOK /\ reader = writer /\ allocated = {reader} \ {static_queue}
    /\ InUse(block[reader]) /\ Empty(block[reader]) /\ block[reader].next = NULL
    /\ reader # static_queue => block[static_queue].state = 2 /\ block[static_queue].next = NULL

-----------------------------------------------------------------------------
\* Every inhabited set of naturals has a least element.
LEMMA Least ==
    ASSUME NEW S \in SUBSET Nat, S # {}
    PROVE  \E m \in S : \A n \in S : m <= n
<1> DEFINE upTo == {0 .. n : n \in S}
<1>1. upTo \subseteq FiniteSubsetsOf(Nat) /\ upTo # {}
  <2>1. \A n \in S : IsFiniteSet(0 .. n) /\ 0 .. n \in SUBSET Nat
    BY FS_Interval
  <2> QED
    BY <2>1 DEF FiniteSubsetsOf
<1>2. PICK x \in upTo : \A y \in upTo : ~(<<y, x>> \in StrictSubsetOrdering(Nat))
  <2> HIDE DEF upTo
  <2> QED
    BY <1>1, FS_StrictSubsetOrderingWellFounded, WFMin
<1>3. PICK m \in S : x = 0 .. m
    OBVIOUS
<1>4. ASSUME NEW n \in S PROVE m <= n
  <2>1. SUFFICES ASSUME n < m PROVE FALSE
    OBVIOUS
  <2>2. 0 .. n \subseteq 0 .. m /\ m \in 0 .. m /\ m \notin 0 .. n
    BY <2>1
  <2>3. <<0 .. n, x>> \in StrictSubsetOrdering(Nat)
    BY <2>2, <1>3 DEF StrictSubsetOrdering
  <2> QED
    BY <2>3, <1>2
<1> QED
    BY <1>4

-----------------------------------------------------------------------------
\* One ring.

LEMMA Updated ==
    ASSUME NEW b \in Block, NEW ts \in [Slot -> Entry], NEW i \in Slot, NEW s \in 0 .. 2
    PROVE  /\ [b EXCEPT !.tasks = ts, !.write = i, !.state = s] \in Block
           /\ [b EXCEPT !.read = i, !.state = s] \in Block
    BY DEF Block, Entry

LEMMA Relinked ==
    ASSUME NEW b \in Block, NEW n \in Address \cup {NULL}
    PROVE  LET w == [b EXCEPT !.next = n] IN
           /\ w \in Block /\ w.next = n /\ w.tasks = b.tasks
           /\ w.read = b.read /\ w.write = b.write /\ w.state = b.state
    BY DEF Block

LEMMA ParkedShape ==
    ASSUME NEW b \in Block
    PROVE  ParkStatic(b) \in Block /\ ParkStatic(b).state = 2 /\ ParkStatic(b).next = NULL
<1> DEFINE w == [b EXCEPT !.state = 2]
<1>1. w \in Block /\ w.state = 2
    BY DEF Block
<1>2. ParkStatic(b) = [w EXCEPT !.next = NULL]
    BY DEF ParkStatic
<1> HIDE DEF w
<1> QED
    BY <1>1, <1>2, Relinked

LEMMA ResetShape ==
    ASSUME NEW b \in Block
    PROVE  /\ Reset(b) \in Block /\ Reset(b).state = 0 /\ Reset(b).read = 0 /\ Reset(b).write = 0
           /\ Reset(b).next = b.next
<1>1. 0 \in Slot
    BY BlockCountAssumption DEF Slot
<1> DEFINE w == [b EXCEPT !.write = 0]
           r == [w EXCEPT !.read = 0]
<1>2. w \in Block /\ w.write = 0 /\ w.next = b.next
    BY <1>1 DEF Block
<1>3. Reset(b) = [r EXCEPT !.state = 0]
    BY DEF Reset
<1> HIDE DEF w
<1>4. r \in Block /\ r.read = 0 /\ r.write = 0 /\ r.next = b.next
    BY <1>1, <1>2 DEF Block
<1> HIDE DEF r
<1>5. [r EXCEPT !.state = 0] \in Block
    BY <1>4 DEF Block
<1>6. /\ [r EXCEPT !.state = 0].state = 0 /\ [r EXCEPT !.state = 0].read = 0
      /\ [r EXCEPT !.state = 0].write = 0 /\ [r EXCEPT !.state = 0].next = b.next
    BY <1>4 DEF Block
<1> QED
    BY <1>3, <1>5, <1>6

LEMMA RingShape ==
    ASSUME NEW b \in Block, InUse(b)
    PROVE  /\ Count(b) \in 0 .. BLOCK_COUNT
           /\ RingContents(b) \in Seq(Entry) /\ Len(RingContents(b)) = Count(b)
           /\ Count(b) = 0 <=> Empty(b)
           /\ Count(b) = BLOCK_COUNT <=> Full(b)
           /\ \A i \in 1 .. Count(b) :
                 RingContents(b)[i] = b.tasks[Nth(b, i)]
<1>1. /\ b.read \in 0 .. BLOCK_COUNT - 1 /\ b.write \in 0 .. BLOCK_COUNT - 1
      /\ b.tasks \in [0 .. BLOCK_COUNT - 1 -> Entry] /\ BLOCK_COUNT \in Nat \ {0}
    BY BlockCountAssumption DEF Block, Slot, Entry
<1>2. /\ Count(b) \in 0 .. BLOCK_COUNT
      /\ Count(b) = 0 <=> Empty(b)
      /\ Count(b) = BLOCK_COUNT <=> Full(b)
    BY <1>1 DEF Count, Empty, Full, InUse
<1>3. \A i \in 1 .. Count(b) : Nth(b, i) \in 0 .. BLOCK_COUNT - 1
    BY <1>1, <1>2 DEF Nth
<1>4. \A i \in 1 .. Count(b) : b.tasks[Nth(b, i)] \in Entry
    BY <1>1, <1>3
<1>5. [i \in 1 .. Count(b) |-> b.tasks[Nth(b, i)]] \in Seq(Entry)
    BY <1>2, <1>4
<1> QED
    BY <1>2, <1>4, <1>5 DEF RingContents

\* What a ring holds does not depend on what it is linked to.
LEMMA RingOf ==
    ASSUME NEW a, NEW b, a.tasks = b.tasks, a.read = b.read, a.write = b.write, a.state = b.state
    PROVE  RingContents(a) = RingContents(b) /\ (Empty(a) <=> Empty(b)) /\ (InUse(a) <=> InUse(b))
    BY DEF RingContents, Count, Nth, Empty, InUse

LEMMA Placed ==
    ASSUME NEW b \in Block, InUse(b), ~Full(b), NEW t \in Task
    PROVE  /\ Place(b, t) \in Block /\ InUse(Place(b, t)) /\ Place(b, t).next = b.next
           /\ ~Empty(Place(b, t))
           /\ RingContents(Place(b, t)) = Append(RingContents(b), t)
<1> DEFINE p == Place(b, t)
<1>1. /\ b.read \in 0 .. BLOCK_COUNT - 1 /\ b.write \in 0 .. BLOCK_COUNT - 1
      /\ b.tasks \in [0 .. BLOCK_COUNT - 1 -> Entry] /\ BLOCK_COUNT \in Nat \ {0}
      /\ b.state \in 0 .. 2 /\ b.next \in Address \cup {NULL}
    BY BlockCountAssumption DEF Block, Slot, Entry
<1>2. /\ p.tasks = [b.tasks EXCEPT ![b.write] = t] /\ p.read = b.read /\ p.next = b.next
      /\ p.write = Wrapped(b.write + 1)
      /\ p.state = IF b.write + 1 = BLOCK_COUNT THEN 1 ELSE b.state
    BY DEF Place, Block
<1>3. p \in Block
  <2>1. /\ [b.tasks EXCEPT ![b.write] = t] \in [Slot -> Entry] /\ Wrapped(b.write + 1) \in Slot
        /\ (IF b.write + 1 = BLOCK_COUNT THEN 1 ELSE b.state) \in 0 .. 2
    BY <1>1 DEF Wrapped, Slot, Entry
  <2> QED
    BY <2>1, Updated DEF Place
<1> HIDE DEF p
<1>4. InUse(p) /\ ~Empty(p) /\ Count(p) = Count(b) + 1
  <2>1. CASE b.state = 0 /\ b.read <= b.write /\ b.write + 1 = BLOCK_COUNT
    <3>1. p.write = 0 /\ p.state = 1
      BY <2>1, <1>2 DEF Wrapped
    <3> QED
      BY <3>1, <2>1, <1>1, <1>2 DEF InUse, Empty, Count
  <2>2. CASE b.state = 0 /\ b.read <= b.write /\ b.write + 1 # BLOCK_COUNT
    <3>1. p.write = b.write + 1 /\ p.state = 0
      BY <2>2, <1>2 DEF Wrapped
    <3> QED
      BY <3>1, <2>2, <1>1, <1>2 DEF InUse, Empty, Count
  <2>3. CASE b.state = 1 /\ b.write <= b.read
    <3>1. b.write < b.read /\ b.write + 1 # BLOCK_COUNT
      BY <2>3, <1>1 DEF Full
    <3>2. p.write = b.write + 1 /\ p.state = 1
      BY <3>1, <2>3, <1>2 DEF Wrapped
    <3>3. InUse(p) /\ ~Empty(p)
      BY <3>1, <3>2, <1>1, <1>2 DEF InUse, Empty
    <3>4. Count(b) = b.write + BLOCK_COUNT - b.read
      BY <3>1, <2>3, <1>1 DEF Empty, Count
    <3>5. Count(p) = (b.write + 1) + BLOCK_COUNT - b.read
      BY <3>1, <3>2, <1>1, <1>2 DEF Empty, Count
    <3> QED
      BY <3>3, <3>4, <3>5, <1>1
  <2> QED
    BY <2>1, <2>2, <2>3 DEF InUse
<1>5. /\ RingContents(p) \in Seq(Entry) /\ Len(RingContents(p)) = Count(b) + 1
      /\ \A i \in 1 .. Count(b) + 1 :
            RingContents(p)[i] = p.tasks[Nth(b, i)]
  <2>1. \A i \in 1 .. Count(b) + 1 : Nth(p, i) = Nth(b, i)
    BY <1>2 DEF Nth
  <2> QED
    BY <2>1, <1>3, <1>4, RingShape
<1>6. /\ RingContents(b) \in Seq(Entry) /\ Len(RingContents(b)) = Count(b)
      /\ Count(b) \in 0 .. BLOCK_COUNT - 1
      /\ \A i \in 1 .. Count(b) :
            RingContents(b)[i] = b.tasks[Nth(b, i)]
    BY <1>1, RingShape
<1>7. /\ Append(RingContents(b), t) \in Seq(Entry)
      /\ Len(Append(RingContents(b), t)) = Count(b) + 1
      /\ \A i \in 1 .. Count(b) + 1 :
            Append(RingContents(b), t)[i] = IF i <= Count(b) THEN RingContents(b)[i] ELSE t
    BY <1>6 DEF Entry
<1>8. ASSUME NEW i \in 1 .. Count(b) + 1
      PROVE  RingContents(p)[i] = Append(RingContents(b), t)[i]
  <2> DEFINE k == Nth(b, i)
  <2>1. k \in 0 .. BLOCK_COUNT - 1 /\ (k = b.write <=> i = Count(b) + 1)
    <3>1. CASE b.state = 0 /\ b.read <= b.write
      <4>1. Count(b) = b.write - b.read
        BY <3>1, <1>1 DEF Count, Empty
      <4> QED
        BY <4>1, <3>1, <1>1 DEF Nth
    <3>2. CASE b.state = 1 /\ b.write <= b.read
      <4>1. Count(b) = b.write + BLOCK_COUNT - b.read /\ b.write < b.read
        BY <3>2, <1>1 DEF Count, Empty, Full
      <4>2. i \in 1 .. b.write + BLOCK_COUNT - b.read + 1
        BY <4>1
      <4>3. CASE b.read + i - 1 < BLOCK_COUNT
        <5>1. k = b.read + i - 1
          BY <4>3 DEF Nth
        <5> QED
          BY <5>1, <4>1, <4>2, <4>3, <1>1
      <4>4. CASE ~(b.read + i - 1 < BLOCK_COUNT)
        <5>1. k = b.read + i - 1 - BLOCK_COUNT
          BY <4>4 DEF Nth
        <5>2. i \in Nat
          BY <1>1, <4>2
        <5>3. k = b.write <=> i = b.write + BLOCK_COUNT - b.read + 1
          BY <5>1, <5>2, <1>1
        <5>4. k \in 0 .. BLOCK_COUNT - 1
          BY <5>1, <5>2, <4>1, <4>2, <4>4, <1>1
        <5> QED
          BY <5>3, <5>4, <4>1
      <4> QED
        BY <4>3, <4>4
    <3> QED
      BY <3>1, <3>2 DEF InUse
  <2>2. RingContents(p)[i] = p.tasks[k]
    BY <1>5
  <2>3. i <= Count(b) => RingContents(b)[i] = b.tasks[k]
    BY <1>6
  <2> HIDE DEF k
  <2> QED
    BY <2>1, <2>2, <2>3, <1>1, <1>2, <1>6, <1>7
<1>9. RingContents(p) = Append(RingContents(b), t)
    BY <1>5, <1>7, <1>8, SeqEqual
<1> QED
    BY <1>2, <1>3, <1>4, <1>9 DEF p

LEMMA Taken ==
    ASSUME NEW b \in Block, InUse(b), ~Empty(b)
    PROVE  /\ Take(b) \in Block /\ InUse(Take(b)) /\ Take(b).next = b.next
           /\ RingContents(b) # <<>> /\ Head(RingContents(b)) = b.tasks[b.read]
           /\ RingContents(Take(b)) = Tail(RingContents(b))
           /\ Take(b).write = Take(b).read <=> Empty(Take(b))
<1> DEFINE p == Take(b)
<1>1. /\ b.read \in 0 .. BLOCK_COUNT - 1 /\ b.write \in 0 .. BLOCK_COUNT - 1
      /\ b.tasks \in [0 .. BLOCK_COUNT - 1 -> Entry] /\ BLOCK_COUNT \in Nat \ {0}
      /\ b.state \in 0 .. 2 /\ b.next \in Address \cup {NULL}
    BY BlockCountAssumption DEF Block, Slot, Entry
<1>2. /\ p.tasks = b.tasks /\ p.write = b.write /\ p.next = b.next
      /\ p.read = Wrapped(b.read + 1)
      /\ p.state = IF b.read + 1 = BLOCK_COUNT THEN 0 ELSE b.state
    BY DEF Take, Block
<1>3. p \in Block
  <2>1. Wrapped(b.read + 1) \in Slot /\ (IF b.read + 1 = BLOCK_COUNT THEN 0 ELSE b.state) \in 0 .. 2
    BY <1>1 DEF Wrapped, Slot
  <2> QED
    BY <2>1, <1>1, Updated DEF Take, Slot
<1> HIDE DEF p
<1>4. InUse(p) /\ Count(p) = Count(b) - 1 /\ (p.write = p.read <=> Empty(p))
  <2>1. CASE b.read + 1 = BLOCK_COUNT
    <3>1. p.read = 0 /\ p.state = 0 /\ p.write = b.write /\ b.read = BLOCK_COUNT - 1
      BY <2>1, <1>1, <1>2 DEF Wrapped
    <3>2. InUse(p) /\ (p.write = p.read <=> Empty(p))
      BY <3>1, <1>1 DEF InUse, Empty
    <3>3. Count(p) = b.write
      BY <3>1, <1>1 DEF Count, Empty
    <3>4. Count(b) = b.write + 1
      BY <3>1, <1>1 DEF Count, Empty, InUse
    <3> QED
      BY <3>2, <3>3, <3>4, <1>1
  <2>2. CASE b.read + 1 # BLOCK_COUNT
    <3>1. p.read = b.read + 1 /\ p.state = b.state /\ p.write = b.write
      BY <2>2, <1>1, <1>2 DEF Wrapped
    <3>2. InUse(p) /\ (p.write = p.read <=> Empty(p))
      BY <3>1, <1>1 DEF InUse, Empty
    <3>3. Count(p) = Count(b) - 1
      BY <3>1, <1>1 DEF Count, Empty, InUse
    <3> QED
      BY <3>2, <3>3
  <2> QED
    BY <2>1, <2>2
<1>5. /\ RingContents(b) \in Seq(Entry) /\ Len(RingContents(b)) = Count(b)
      /\ Count(b) \in 1 .. BLOCK_COUNT
      /\ \A i \in 1 .. Count(b) :
            RingContents(b)[i] = b.tasks[Nth(b, i)]
    BY <1>1, RingShape
<1>6. /\ RingContents(p) \in Seq(Entry) /\ Len(RingContents(p)) = Count(b) - 1
      /\ \A i \in 1 .. Count(b) - 1 :
            RingContents(p)[i] = b.tasks[Nth(p, i)]
    BY <1>2, <1>3, <1>4, RingShape
<1>7. RingContents(b) # <<>> /\ Head(RingContents(b)) = b.tasks[b.read]
  <2>1. 1 \in 1 .. Count(b) /\ Nth(b, 1) = b.read
    BY <1>1, <1>5 DEF Nth
  <2>2. RingContents(b) # <<>> /\ Head(RingContents(b)) = RingContents(b)[1]
    BY <1>5
  <2> QED
    BY <2>1, <2>2, <1>5
<1>8. /\ Tail(RingContents(b)) \in Seq(Entry)
      /\ Len(Tail(RingContents(b))) = Count(b) - 1
      /\ \A i \in 1 .. Count(b) - 1 : Tail(RingContents(b))[i] = RingContents(b)[i + 1]
    BY <1>5, <1>7
<1>9. ASSUME NEW i \in 1 .. Count(b) - 1
      PROVE  RingContents(p)[i] = Tail(RingContents(b))[i]
  <2>1. i + 1 \in 1 .. Count(b) /\ i \in Nat
    BY <1>5
  <2>2. Tail(RingContents(b))[i] = b.tasks[Nth(b, i + 1)]
    BY <2>1, <1>5, <1>8
  <2>3. Nth(p, i) = Nth(b, i + 1)
    <3>1. i \in 1 .. BLOCK_COUNT - 1
      BY <1>1, <1>5
    <3>2. CASE b.read + 1 = BLOCK_COUNT
      <4>1. p.read = 0
        BY <3>2, <1>2 DEF Wrapped
      <4> QED
        BY <4>1, <3>1, <3>2, <1>1 DEF Nth
    <3>3. CASE b.read + 1 # BLOCK_COUNT
      <4>1. p.read = b.read + 1
        BY <3>3, <1>2 DEF Wrapped
      <4> QED
        BY <4>1, <3>1, <1>1 DEF Nth
    <3> QED
      BY <3>2, <3>3
  <2> QED
    BY <2>2, <2>3, <1>6
<1>10. RingContents(p) = Tail(RingContents(b))
    BY <1>5, <1>6, <1>8, <1>9, SeqEqual
<1> QED
    BY <1>2, <1>3, <1>4, <1>7, <1>10 DEF p

-----------------------------------------------------------------------------
\* The chain of rings.

LEMMA HeadTailOfConcat ==
    ASSUME NEW p \in Seq(Entry), NEW q \in Seq(Entry), p # <<>>
    PROVE  p \o q # <<>> /\ Head(p \o q) = Head(p) /\ Tail(p \o q) = Tail(p) \o q
<1>1. /\ p \o q \in Seq(Entry) /\ Len(p \o q) = Len(p) + Len(q)
      /\ \A i \in 1 .. Len(p) + Len(q) : (p \o q)[i] = IF i <= Len(p) THEN p[i] ELSE q[i - Len(p)]
    BY ConcatProperties
<1>2. Len(p) \in Nat \ {0} /\ Len(q) \in Nat
    OBVIOUS
<1>3. p \o q # <<>> /\ Head(p \o q) = Head(p)
    BY <1>1, <1>2
<1>4. /\ Tail(p) \in Seq(Entry) /\ Len(Tail(p)) = Len(p) - 1
      /\ \A i \in 1 .. Len(p) - 1 : Tail(p)[i] = p[i + 1]
    BY <1>2
<1>5. /\ Tail(p \o q) \in Seq(Entry) /\ Len(Tail(p \o q)) = Len(p) + Len(q) - 1
      /\ \A i \in 1 .. Len(p) + Len(q) - 1 : Tail(p \o q)[i] = (p \o q)[i + 1]
    BY <1>1, <1>3, HeadTailProperties
<1>6. /\ Tail(p) \o q \in Seq(Entry) /\ Len(Tail(p) \o q) = Len(p) + Len(q) - 1
      /\ \A i \in 1 .. Len(p) + Len(q) - 1 :
            (Tail(p) \o q)[i] = IF i <= Len(p) - 1 THEN Tail(p)[i] ELSE q[i - (Len(p) - 1)]
    BY <1>2, <1>4, ConcatProperties
<1>7. ASSUME NEW i \in 1 .. Len(p) + Len(q) - 1
      PROVE  Tail(p \o q)[i] = (Tail(p) \o q)[i]
  <2>1. i + 1 \in 1 .. Len(p) + Len(q) /\ (i + 1 <= Len(p) <=> i <= Len(p) - 1)
        /\ (i <= Len(p) - 1 => i \in 1 .. Len(p) - 1)
        /\ (i + 1) - Len(p) = i - (Len(p) - 1)
    BY <1>2
  <2>2. Tail(p \o q)[i] = (p \o q)[i + 1]
    BY <1>5
  <2>3. (p \o q)[i + 1] = IF i + 1 <= Len(p) THEN p[i + 1] ELSE q[(i + 1) - Len(p)]
    BY <2>1, <1>1
  <2>4. (Tail(p) \o q)[i] = IF i <= Len(p) - 1 THEN Tail(p)[i] ELSE q[i - (Len(p) - 1)]
    BY <1>6
  <2> QED
    BY <2>1, <2>2, <2>3, <2>4, <1>4
<1>8. Tail(p \o q) = Tail(p) \o q
    BY <1>5, <1>6, <1>7, SeqEqual
<1> QED
    BY <1>3, <1>8

LEMMA Appended ==
    ASSUME NEW p \in Seq(Entry), NEW q \in Seq(Entry), NEW x \in Entry
    PROVE  Append(p \o q, x) = p \o Append(q, x)
<1>1. <<x>> \in Seq(Entry)
    OBVIOUS
<1>2. p \o q \in Seq(Entry) /\ Append(p \o q, x) = (p \o q) \o <<x>> /\ Append(q, x) = q \o <<x>>
    BY ConcatProperties, AppendIsConcat
<1> QED
    BY <1>1, <1>2, ConcatAssociative

LEMMA LastIsNat == IsFiniteSet(Address) /\ Last \in Nat
    BY BlockAddresses, FS_AddElement, FS_CardinalityType DEF Last, Address

\* Chain is the chain, and NULL past its end.
LEMMA ChainIs ==
    ASSUME NEW c \in Seq(Address), Linked(c)
    PROVE  /\ Len(c) \in 1 .. Last
           /\ \A n \in 0 .. Last : Chain[n] = IF n < Len(c) THEN c[n + 1] ELSE NULL
<1> DEFINE L == Len(c)
           g == [n \in 0 .. Last |-> IF n < L THEN c[n + 1] ELSE NULL]
<1>1. /\ L \in Nat \ {0} /\ c \in [1 .. L -> Address]
      /\ c[1] = reader /\ block[c[L]].next = NULL
      /\ \A i \in 1 .. L - 1 : block[c[i]].next = c[i + 1]
      /\ \A i \in 1 .. L : c[i] # NULL
    BY BlockAddresses DEF Linked, Address
<1>2. L <= Last
  <2>1. c \in Injection(1 .. L, Address)
    BY <1>1 DEF Injection, IsInjective, Linked
  <2>2. Cardinality(1 .. L) <= Last
    BY <2>1, LastIsNat, FS_Injection DEF Last
  <2>3. Cardinality(1 .. L) = L
    BY <1>1, FS_Interval
  <2> QED
    BY <2>2, <2>3
<1> HIDE DEF L
<1>3. Last \in Nat
    BY LastIsNat
<1>4. g = [n \in 0 .. Last |-> IF n = 0 THEN reader
                               ELSE IF g[n - 1] = NULL THEN NULL ELSE block[g[n - 1]].next]
  <2>1. ASSUME NEW n \in 0 .. Last
        PROVE  g[n] = IF n = 0 THEN reader ELSE IF g[n - 1] = NULL THEN NULL ELSE block[g[n - 1]].next
    <3>1. CASE n = 0
      BY <3>1, <1>1
    <3>2. CASE n # 0 /\ n < L
      <4>1. g[n] = c[n + 1] /\ g[n - 1] = c[n] /\ n \in 1 .. L - 1
        BY <3>2, <1>1, <1>3
      <4> QED
        BY <4>1, <3>2, <1>1
    <3>3. CASE n = L
      <4>1. g[n] = NULL /\ g[n - 1] = c[n] /\ n \in 1 .. L
        BY <3>3, <1>1, <1>3
      <4> QED
        BY <4>1, <3>3, <1>1
    <3>4. CASE n > L
      <4>1. g[n] = NULL /\ g[n - 1] = NULL
        BY <3>4, <1>1, <1>3
      <4> QED
        BY <4>1, <3>4, <1>1
    <3> QED
      BY <3>1, <3>2, <3>3, <3>4, <1>1
  <2> HIDE DEF g
  <2>2. g = [n \in 0 .. Last |-> g[n]]
    BY DEF g
  <2> QED
    BY <2>1, <2>2
<1>5. Chain = [n \in 0 .. Last |-> IF n = 0 THEN reader
                                   ELSE IF Chain[n - 1] = NULL THEN NULL ELSE block[Chain[n - 1]].next]
  <2> HIDE DEF g
  <2> QED
    BY <1>4 DEF Chain, Last
<1> DEFINE differ == {n \in 0 .. Last : Chain[n] # g[n]}
<1>6. differ = {}
  <2>1. SUFFICES ASSUME differ # {} PROVE FALSE
    OBVIOUS
  <2>2. PICK m \in differ : \A n \in differ : m <= n
    <3>1. differ \in SUBSET Nat
      BY <1>3
    <3> HIDE DEF differ
    <3> QED
      BY <2>1, <3>1, Least
  <2> HIDE DEF g
  <2>3. m \in 0 .. Last /\ Chain[m] # g[m]
    OBVIOUS
  <2>4. CASE m = 0
    BY <2>3, <2>4, <1>4, <1>5
  <2>5. CASE m # 0
    <3>1. m - 1 \in 0 .. Last /\ m - 1 < m
      BY <2>3, <2>5, <1>3
    <3>2. Chain[m - 1] = g[m - 1]
      BY <3>1, <2>2, <2>3
    <3>3. g[m] = IF g[m - 1] = NULL THEN NULL ELSE block[g[m - 1]].next
      BY <2>3, <2>5, <1>4
    <3>4. Chain[m] = IF Chain[m - 1] = NULL THEN NULL ELSE block[Chain[m - 1]].next
      BY <2>3, <2>5, <1>5
    <3> QED
      BY ONLY <3>2, <3>3, <3>4, <2>3
  <2> QED
    BY <2>4, <2>5
<1> QED
  <2>1. \A n \in 0 .. Last : Chain[n] = g[n]
    BY <1>6
  <2> QED
    BY <2>1, <1>1, <1>2, <1>3 DEF L

\* What the queue holds is what is accumulated along the chain.
LEMMA ContentsIs ==
    ASSUME TypeOK, NEW c \in Seq(Address), Linked(c), NEW u \in [1 .. Len(c) -> Seq(Entry)], Held(c, u)
    PROVE  Contents = u[Len(c)]
<1> DEFINE L == Len(c)
           g == [n \in 0 .. Last |-> IF n < L THEN u[n + 1] ELSE u[L]]
           ring(n) == IF Chain[n] = NULL THEN <<>> ELSE RingContents(block[Chain[n]])
<1>1. /\ L \in 1 .. Last /\ Last \in Nat
      /\ \A n \in 0 .. Last : Chain[n] = IF n < L THEN c[n + 1] ELSE NULL
    BY ChainIs, LastIsNat
<1>2. /\ u[1] = RingContents(block[c[1]])
      /\ \A i \in 1 .. L - 1 : u[i + 1] = u[i] \o RingContents(block[c[i + 1]])
      /\ \A i \in 1 .. L : u[i] \in Seq(Entry)
    BY DEF Held
<1>3. \A i \in 1 .. L : c[i] # NULL /\ RingContents(block[c[i]]) \in Seq(Entry)
  <2>1. TAKE i \in 1 .. L
  <2>2. c[i] \in Address /\ block[c[i]] \in Block /\ InUse(block[c[i]])
    BY DEF Linked, TypeOK
  <2> QED
    BY <2>2, RingShape, BlockAddresses DEF Address
<1> HIDE DEF L
<1>4. /\ \A n \in 0 .. Last : n < L => ring(n) = RingContents(block[c[n + 1]])
      /\ \A n \in 0 .. Last : ~(n < L) => ring(n) = <<>>
    BY <1>1, <1>3
<1> HIDE DEF ring
<1>5. g = [n \in 0 .. Last |-> (IF n = 0 THEN <<>> ELSE g[n - 1]) \o ring(n)]
  <2>1. ASSUME NEW n \in 0 .. Last
        PROVE  g[n] = (IF n = 0 THEN <<>> ELSE g[n - 1]) \o ring(n)
    <3>1. CASE n = 0
      <4>1. g[n] = u[1] /\ ring(n) = RingContents(block[c[1]])
        BY <3>1, <1>1, <1>4
      <4>2. <<>> \o u[1] = u[1]
        BY <1>1, <1>2, ConcatEmptySeq
      <4> QED
        BY <4>1, <4>2, <3>1, <1>2
    <3>2. CASE n # 0 /\ n < L
      <4>1. g[n] = u[n + 1] /\ g[n - 1] = u[n] /\ n \in 1 .. L - 1
        BY <3>2, <1>1
      <4> QED
        BY <4>1, <3>2, <1>2, <1>4
    <3>3. CASE n = L
      <4>1. g[n] = u[L] /\ g[n - 1] = u[L] /\ n # 0 /\ ring(n) = <<>> /\ u[L] \in Seq(Entry)
        BY <3>3, <1>1, <1>2, <1>4
      <4> QED
        BY <4>1, ConcatEmptySeq
    <3>4. CASE n > L
      <4>1. g[n] = u[L] /\ g[n - 1] = u[L] /\ n # 0 /\ ring(n) = <<>> /\ u[L] \in Seq(Entry)
        BY <3>4, <1>1, <1>2, <1>4
      <4> QED
        BY <4>1, ConcatEmptySeq
    <3> HIDE DEF g
    <3>5. n = 0 \/ (n # 0 /\ n < L) \/ n = L \/ n > L
      BY <1>1
    <3> QED
      BY <3>1, <3>2, <3>3, <3>4, <3>5
  <2> HIDE DEF g
  <2>2. g = [n \in 0 .. Last |-> g[n]]
    BY DEF g
  <2> QED
    BY <2>1, <2>2
<1>6. Upto = [n \in 0 .. Last |-> (IF n = 0 THEN <<>> ELSE Upto[n - 1]) \o ring(n)]
  <2> HIDE DEF g
  <2> QED
    BY <1>5 DEF Upto, Last, ring
<1> DEFINE differ == {n \in 0 .. Last : Upto[n] # g[n]}
<1>7. differ = {}
  <2>1. SUFFICES ASSUME differ # {} PROVE FALSE
    OBVIOUS
  <2>2. PICK m \in differ : \A n \in differ : m <= n
    <3>1. differ \in SUBSET Nat
      BY <1>1
    <3> HIDE DEF differ
    <3> QED
      BY <2>1, <3>1, Least
  <2> HIDE DEF g
  <2>3. m \in 0 .. Last /\ Upto[m] # g[m]
    OBVIOUS
  <2>4. CASE m = 0
    BY <2>3, <2>4, <1>5, <1>6
  <2>5. CASE m # 0
    <3>1. m - 1 \in 0 .. Last /\ m - 1 < m
      BY <2>3, <2>5, <1>1
    <3>2. Upto[m - 1] = g[m - 1]
      BY <3>1, <2>2, <2>3
    <3> QED
      BY <3>2, <2>3, <2>5, <1>5, <1>6
  <2> QED
    BY <2>4, <2>5
<1> QED
  <2>1. Upto[Last] = g[Last]
    <3> HIDE DEF g
    <3> QED
      BY <1>1, <1>7
  <2>2. g[Last] = u[L]
    BY <1>1
  <2> QED
    BY <2>1, <2>2 DEF Contents, Last, L

LEMMA ContentsAlways == ContentsAgree
    BY ContentsIs DEF ContentsAgree

LEMMA ContentsAfter == ContentsAgree'
    BY ContentsAlways, PTL

LEMMA EmptyAlways == AloneAndEmpty => Inv /\ Contents = <<>>
<1> SUFFICES ASSUME AloneAndEmpty PROVE Inv /\ Contents = <<>>
    OBVIOUS
<1> DEFINE c == <<reader>>
           u == [i \in 1 .. 1 |-> <<>>]
<1>1. TypeOK /\ reader \in Address /\ block[reader] \in Block
    BY DEF AloneAndEmpty, TypeOK
<1>2. c \in Seq(Address) /\ Len(c) = 1 /\ c[1] = reader
    BY <1>1
<1>3. RingContents(block[reader]) = <<>>
    BY <1>1, RingShape DEF AloneAndEmpty
<1> HIDE DEF c
<1>4. Linked(c)
  <2>1. 1 .. Len(c) = {1} /\ 1 .. Len(c) - 1 = {} /\ ~(Len(c) > 1) /\ c # <<>>
    BY <1>2
  <2>2. {c[i] : i \in 1 .. Len(c)} = {reader}
    BY <2>1, <1>2
  <2> QED
    BY <1>2, <2>1, <2>2 DEF Linked, AloneAndEmpty
<1>5. u \in [1 .. Len(c) -> Seq(Entry)] /\ Held(c, u) /\ u[Len(c)] = <<>>
    BY <1>2, <1>3 DEF Held
<1> HIDE DEF u
<1> QED
    BY <1>1, <1>2, <1>4, <1>5, ContentsAlways DEF Inv, ContentsAgree

LEMMA EmptyAfter == (AloneAndEmpty => Inv /\ Contents = <<>>)'
    BY EmptyAlways, PTL

LEMMA InvInit == Init => Inv /\ Contents = <<>>
<1> SUFFICES ASSUME Init PROVE AloneAndEmpty
    BY EmptyAlways
<1>1. EmptyBlock \in Block
    BY BlockCountAssumption DEF EmptyBlock, Block, Slot
<1>2. TypeOK
    BY <1>1 DEF Init, TypeOK, Address
<1> QED
    BY <1>2 DEF Init, AloneAndEmpty, TypeOK, EmptyBlock, InUse, Empty

LEMMA BlocksAreSound == Inv => BlocksSound
<1> SUFFICES ASSUME Inv PROVE NoLeakNoDangling
    BY DEF Inv, BlocksSound
<1>1. PICK c \in Seq(Address) : Linked(c)
    BY DEF Inv
<1>2. /\ Len(c) \in 1 .. Last /\ Last \in Nat
      /\ \A n \in 0 .. Last : Chain[n] = IF n < Len(c) THEN c[n + 1] ELSE NULL
    BY <1>1, ChainIs, LastIsNat
<1>3. \A i \in 1 .. Len(c) : c[i] # NULL
    BY <1>1, BlockAddresses DEF Address
<1>4. ASSUME NEW i \in 1 .. Len(c) PROVE c[i] \in Reachable
  <2>1. i - 1 \in 0 .. Last /\ Chain[i - 1] = c[i]
    BY <1>2
  <2> QED
    BY <2>1, <1>3 DEF Reachable, Last
<1>5. ASSUME NEW a \in Reachable PROVE \E i \in 1 .. Len(c) : a = c[i]
  <2>1. PICK n \in 0 .. Last : a = Chain[n] /\ a # NULL
    BY DEF Reachable, Last
  <2>2. n + 1 \in 1 .. Len(c) /\ a = c[n + 1]
    BY <2>1, <1>2
  <2> QED
    BY <2>2
<1>6. Reachable = {c[i] : i \in 1 .. Len(c)}
    BY <1>4, <1>5
<1> QED
    BY <1>1, <1>6 DEF NoLeakNoDangling, Linked

-----------------------------------------------------------------------------
\* One operation.

LEMMA Shared ==
    ASSUME TypeOK, NEW c \in Seq(Address), Linked(c)
    PROVE  /\ Len(c) \in Nat \ {0} /\ Len(c) \in 1 .. Len(c) /\ 1 \in 1 .. Len(c)
           /\ \A i \in 1 .. Len(c) :
                 /\ c[i] \in Address /\ c[i] # NULL /\ block[c[i]] \in Block /\ InUse(block[c[i]])
                 /\ RingContents(block[c[i]]) \in Seq(Entry)
<1>1. Len(c) \in Nat \ {0}
    BY DEF Linked
<1>2. ASSUME NEW i \in 1 .. Len(c)
      PROVE  /\ c[i] \in Address /\ c[i] # NULL /\ block[c[i]] \in Block /\ InUse(block[c[i]])
             /\ RingContents(block[c[i]]) \in Seq(Entry)
  <2>1. c[i] \in Address /\ block[c[i]] \in Block /\ InUse(block[c[i]])
    BY DEF Linked, TypeOK
  <2> QED
    BY <2>1, RingShape, BlockAddresses DEF Address
<1> QED
    BY <1>1, <1>2

LEMMA PushHere ==
    ASSUME TypeOK, NEW c \in Seq(Address), Linked(c),
           NEW u \in [1 .. Len(c) -> Seq(Entry)], Held(c, u),
           NEW t \in Task, ~Full(block[writer]),
           block' = [block EXCEPT ![writer] = Place(@, t)],
           UNCHANGED <<reader, writer, allocated, ret>>
    PROVE  Inv' /\ Contents' = Append(u[Len(c)], t)
<1> DEFINE L == Len(c)
           b == block[writer]
           v == [u EXCEPT ![L] = Append(@, t)]
<1>1. /\ L \in Nat \ {0} /\ L \in 1 .. L /\ 1 \in 1 .. L /\ c[L] = writer /\ c[1] = reader
      /\ b \in Block /\ InUse(b) /\ b.next = NULL
      /\ \A i \in 1 .. L : /\ c[i] \in Address /\ block[c[i]] \in Block /\ InUse(block[c[i]])
                           /\ RingContents(block[c[i]]) \in Seq(Entry)
    BY Shared DEF Linked
<1>2. /\ Place(b, t) \in Block /\ InUse(Place(b, t)) /\ Place(b, t).next = NULL
      /\ ~Empty(Place(b, t))
      /\ RingContents(Place(b, t)) = Append(RingContents(b), t)
    BY <1>1, Placed
<1>3. /\ block' \in [Address -> Block] /\ block'[c[L]] = Place(b, t)
      /\ \A a \in Address : a # c[L] => block'[a] = block[a]
    BY <1>1, <1>2 DEF TypeOK
<1> HIDE DEF b
<1>4. TypeOK'
    BY <1>3 DEF TypeOK
<1>5. \A i \in 1 .. L : i # L => c[i] # c[L] /\ block'[c[i]] = block[c[i]]
    BY <1>1, <1>3 DEF Linked
<1>6. Linked(c)'
  <2>1. \A i \in 1 .. L : InUse(block'[c[i]])
    BY <1>1, <1>2, <1>3, <1>5
  <2>2. L > 1 => \A i \in 1 .. L : ~Empty(block'[c[i]])
    BY <1>1, <1>2, <1>3, <1>5 DEF Linked
  <2>3. \A i \in 1 .. L - 1 : block'[c[i]].next = c[i + 1]
    BY <1>1, <1>5 DEF Linked
  <2>4. (\A i \in 1 .. L : c[i] # static_queue) =>
            block'[static_queue].state = 2 /\ block'[static_queue].next = NULL
    BY <1>1, <1>3 DEF Linked, Address
  <2> QED
    BY <1>1, <1>2, <1>3, <2>1, <2>2, <2>3, <2>4 DEF Linked
<1>7. /\ v \in [1 .. L -> Seq(Entry)] /\ v[L] = Append(u[L], t)
      /\ \A i \in 1 .. L : i # L => v[i] = u[i]
    BY <1>1 DEF Entry
<1> HIDE DEF v
<1>8. Held(c, v)'
  <2>1. v[1] = RingContents(block'[c[1]])
    <3>1. CASE L = 1
      BY <3>1, <1>1, <1>2, <1>3, <1>7 DEF Held, b
    <3>2. CASE L # 1
      BY <3>2, <1>1, <1>5, <1>7 DEF Held
    <3> QED
      BY <3>1, <3>2
  <2>2. ASSUME NEW i \in 1 .. L - 1
        PROVE  v[i + 1] = v[i] \o RingContents(block'[c[i + 1]])
    <3>1. i \in 1 .. L /\ i # L /\ i + 1 \in 1 .. L /\ v[i] = u[i]
      <4>1. L \in Nat \ {0}
        BY <1>1
      <4>2. i \in 1 .. L /\ i # L /\ i + 1 \in 1 .. L
        BY ONLY <4>1, i \in 1 .. L - 1
      <4> QED
        BY <4>2, <1>7
    <3>2. CASE i + 1 = L
      <4>1. u[L] = u[i] \o RingContents(b)
        BY <3>1, <3>2, <1>1 DEF Held, b
      <4>2. u[i] \in Seq(Entry) /\ RingContents(b) \in Seq(Entry) /\ t \in Entry
        BY <3>1, <1>1 DEF Entry, b
      <4>3. Append(u[i] \o RingContents(b), t) = u[i] \o Append(RingContents(b), t)
        BY ONLY <4>2, Appended
      <4> QED
        BY <3>1, <3>2, <4>1, <4>3, <1>2, <1>3, <1>7
    <3>3. CASE i + 1 # L
      BY <3>1, <3>3, <1>5, <1>7 DEF Held
    <3> QED
      BY <3>2, <3>3
  <2> QED
    BY <1>7, <2>1, <2>2 DEF Held
<1> QED
    BY <1>4, <1>6, <1>7, <1>8, ContentsAfter DEF Inv, ContentsAgree

LEMMA PushOn ==
    ASSUME TypeOK, NEW c \in Seq(Address), Linked(c),
           NEW u \in [1 .. Len(c) -> Seq(Entry)], Held(c, u),
           NEW t \in Task, Full(block[writer]), NEW n \in NextWriter,
           writer' = n, allocated' = allocated \cup ({n} \ {static_queue}),
           block' = [block EXCEPT ![writer].next = n,
                                  ![n] = Place([Reset(@) EXCEPT !.next = NULL], t)],
           UNCHANGED <<reader, ret>>
    PROVE  Inv' /\ Contents' = Append(u[Len(c)], t)
<1> DEFINE L == Len(c)
           fresh == [Reset(block[n]) EXCEPT !.next = NULL]
           left == [block EXCEPT ![writer] = [@ EXCEPT !.next = n]]
           d == Append(c, n)
           v == [i \in 1 .. L + 1 |-> IF i <= L THEN u[i] ELSE Append(u[L], t)]
<1>1. /\ L \in Nat \ {0} /\ L \in 1 .. L /\ 1 \in 1 .. L /\ c[L] = writer /\ c[1] = reader
      /\ \A i \in 1 .. L : /\ c[i] \in Address /\ c[i] # NULL /\ block[c[i]] \in Block
                           /\ InUse(block[c[i]]) /\ RingContents(block[c[i]]) \in Seq(Entry)
    BY Shared DEF Linked
<1>2. n \in Address /\ \A i \in 1 .. L : c[i] # n
  <2>1. CASE block[static_queue].state = 2
    <3>1. n = static_queue
      BY <2>1 DEF NextWriter
    <3> QED
      BY <3>1, <2>1, <1>1 DEF InUse, Address
  <2>2. CASE block[static_queue].state # 2
    BY <2>2, <1>1, BlockAddresses DEF NextWriter, Linked, Address
  <2> QED
    BY <2>1, <2>2
<1>3. fresh \in Block /\ InUse(fresh) /\ Empty(fresh) /\ ~Full(fresh) /\ fresh.next = NULL
  <2>1. block[n] \in Block /\ 0 \in Slot
    BY <1>2, BlockCountAssumption DEF TypeOK, Slot
  <2>2. /\ Reset(block[n]) \in Block /\ Reset(block[n]).state = 0
        /\ Reset(block[n]).read = 0 /\ Reset(block[n]).write = 0
    BY <2>1, ResetShape
  <2>3. fresh \in Block /\ fresh.next = NULL /\ fresh.state = 0 /\ fresh.read = 0 /\ fresh.write = 0
    BY <2>2, Relinked
  <2> QED
    BY <2>3 DEF InUse, Empty, Full
<1> HIDE DEF fresh
<1>4. /\ Place(fresh, t) \in Block /\ InUse(Place(fresh, t)) /\ Place(fresh, t).next = NULL
      /\ ~Empty(Place(fresh, t)) /\ RingContents(Place(fresh, t)) = <<t>>
  <2>1. RingContents(fresh) = <<>>
    BY <1>3, RingShape
  <2>2. Append(<<>>, t) = <<t>>
    OBVIOUS
  <2> QED
    BY <2>1, <2>2, <1>3, Placed
<1>5. /\ left \in [Address -> Block] /\ \A a \in Address : a # writer => left[a] = block[a]
      /\ left[writer].next = n /\ left[writer].tasks = block[writer].tasks
      /\ left[writer].read = block[writer].read /\ left[writer].write = block[writer].write
      /\ left[writer].state = block[writer].state
  <2> DEFINE w == [block[writer] EXCEPT !.next = n]
  <2>1. block[writer] \in Block /\ writer \in Address /\ block \in [Address -> Block]
    BY <1>1 DEF TypeOK
  <2>2. /\ w \in Block /\ w.next = n /\ w.tasks = block[writer].tasks
        /\ w.read = block[writer].read /\ w.write = block[writer].write
        /\ w.state = block[writer].state
    BY <2>1, <1>2, Relinked
  <2>3. left = [block EXCEPT ![writer] = w]
    OBVIOUS
  <2> HIDE DEF w, left
  <2> QED
    BY <2>1, <2>2, <2>3
<1>6. block' = [left EXCEPT ![n] = Place(fresh, t)]
  <2>1. n # writer /\ writer \in Address
    BY <1>1, <1>2
  <2>2. left[n] = block[n]
    BY <2>1, <1>2, <1>5
  <2> QED
    BY <2>2 DEF fresh, left
<1> HIDE DEF left
<1>7. /\ block' \in [Address -> Block] /\ block'[n] = Place(fresh, t)
      /\ \A a \in Address : a # n => block'[a] = left[a]
  <2> DEFINE b == Place(fresh, t)
  <2>1. b \in Block /\ n \in Address /\ left \in [Address -> Block] /\ block' = [left EXCEPT ![n] = b]
    BY <1>2, <1>4, <1>5, <1>6
  <2> HIDE DEF b
  <2>2. /\ block' \in [Address -> Block] /\ block'[n] = b
        /\ \A a \in Address : a # n => block'[a] = left[a]
    BY ONLY <2>1
  <2> QED
    BY <2>2 DEF b
<1>8. TypeOK'
    BY <1>2, <1>7 DEF TypeOK, NextWriter, Address
<1>9. \A i \in 1 .. L :
         /\ RingContents(block'[c[i]]) = RingContents(block[c[i]])
         /\ InUse(block'[c[i]]) /\ ~Empty(block'[c[i]])
  <2>1. TAKE i \in 1 .. L
  <2>2. c[i] \in Address /\ block'[c[i]] = left[c[i]] /\ InUse(block[c[i]])
    BY <1>1, <1>2, <1>7
  <2>3. ~Empty(block[c[i]])
    <3>1. CASE L > 1
      BY <3>1 DEF Linked
    <3>2. CASE ~(L > 1)
      <4>1. i = L
        BY <3>2, <1>1
      <4> QED
        BY <4>1, <1>1 DEF Full, Empty
    <3> QED
      BY <3>1, <3>2
  <2>4. CASE c[i] = writer
    BY <2>2, <2>3, <2>4, <1>5, RingOf
  <2>5. CASE c[i] # writer
    BY <2>2, <2>3, <2>5, <1>5
  <2> QED
    BY <2>4, <2>5
<1>10. \A i \in 1 .. L - 1 : block'[c[i]].next = c[i + 1]
  <2>1. TAKE i \in 1 .. L - 1
  <2>2. i \in 1 .. L /\ i # L
    BY <1>1
  <2>3. c[i] # writer
    BY <2>2, <1>1 DEF Linked
  <2>4. block'[c[i]] = block[c[i]]
    BY <2>2, <2>3, <1>1, <1>2, <1>5, <1>7
  <2> QED
    BY <2>4 DEF Linked
<1>11. block'[c[L]].next = n
    BY <1>1, <1>2, <1>5, <1>7
<1>12. /\ d \in Seq(Address) /\ Len(d) = L + 1 /\ d[L + 1] = n /\ d # <<>>
       /\ \A i \in 1 .. L : d[i] = c[i]
    BY <1>1, <1>2
<1> HIDE DEF d
<1>13. Linked(d)'
  <2>1. d[1] = reader'
    BY <1>1, <1>12
  <2>2. \A i, j \in 1 .. L + 1 : d[i] = d[j] => i = j
    <3>1. \A i, j \in 1 .. L : c[i] = c[j] => i = j
      BY DEF Linked
    <3>2. \A i \in 1 .. L + 1 : i = L + 1 \/ i \in 1 .. L
      BY <1>1
    <3> QED
      BY <3>1, <3>2, <1>2, <1>12
  <2>3. \A i \in 1 .. L : block'[d[i]].next = d[i + 1]
    <3>1. TAKE i \in 1 .. L
    <3>2. CASE i = L
      BY <3>2, <1>1, <1>11, <1>12
    <3>3. CASE i # L
      <4>1. i \in 1 .. L - 1 /\ i + 1 \in 1 .. L
        BY <3>3, <1>1
      <4> QED
        BY <4>1, <1>10, <1>12
    <3> QED
      BY <3>2, <3>3
  <2>4. \A i \in 1 .. L + 1 : InUse(block'[d[i]]) /\ ~Empty(block'[d[i]])
    <3>1. TAKE i \in 1 .. L + 1
    <3>2. CASE i = L + 1
      BY <3>2, <1>4, <1>7, <1>12
    <3>3. CASE i # L + 1
      <4>1. i \in 1 .. L
        BY <3>3, <1>1
      <4> QED
        BY <4>1, <1>9, <1>12
    <3> QED
      BY <3>2, <3>3
  <2>5. allocated' = {d[i] : i \in 1 .. L + 1} \ {static_queue}
    <3>1. {d[i] : i \in 1 .. L + 1} = {c[i] : i \in 1 .. L} \cup {n}
      <4>1. \A i \in 1 .. L + 1 : i = L + 1 \/ i \in 1 .. L
        BY <1>1
      <4>2. \A i \in 1 .. L : i \in 1 .. L + 1
        BY <1>1
      <4>3. L + 1 \in 1 .. L + 1
        BY <1>1
      <4> QED
        BY <4>1, <4>2, <4>3, <1>12
    <3> QED
      BY <3>1 DEF Linked
  <2>6. (\A i \in 1 .. L + 1 : d[i] # static_queue) =>
            block'[static_queue].state = 2 /\ block'[static_queue].next = NULL
    <3>1. SUFFICES ASSUME \A i \in 1 .. L + 1 : d[i] # static_queue
                   PROVE  block'[static_queue].state = 2 /\ block'[static_queue].next = NULL
      OBVIOUS
    <3>2. n # static_queue /\ \A i \in 1 .. L : c[i] # static_queue
      BY <3>1, <1>1, <1>12
    <3>3. block'[static_queue] = block[static_queue]
      BY <3>2, <1>1, <1>5, <1>7 DEF Address
    <3> QED
      BY <3>2, <3>3 DEF Linked
  <2>7. d[L + 1] = writer' /\ block'[d[L + 1]].next = NULL
    BY <1>4, <1>7, <1>12
  <2>8. Len(d) - 1 = L
    BY <1>1, <1>12
  <2> QED
    BY <1>12, <2>1, <2>2, <2>3, <2>4, <2>5, <2>6, <2>7, <2>8 DEF Linked
<1>14. /\ v \in [1 .. L + 1 -> Seq(Entry)] /\ v[L + 1] = Append(u[L], t)
       /\ \A i \in 1 .. L : v[i] = u[i]
  <2>1. t \in Entry /\ u[L] \in Seq(Entry)
    BY <1>1 DEF Entry
  <2>2. Append(u[L], t) \in Seq(Entry)
    BY <2>1
  <2> QED
    BY <2>2, <1>1
<1> HIDE DEF v
<1>15. Held(d, v)'
  <2>1. v[1] = RingContents(block'[d[1]])
    BY <1>1, <1>9, <1>12, <1>14 DEF Held
  <2>2. ASSUME NEW i \in 1 .. L
        PROVE  v[i + 1] = v[i] \o RingContents(block'[d[i + 1]])
    <3>1. CASE i = L
      <4>1. t \in Entry /\ u[L] \in Seq(Entry)
        BY <1>1 DEF Entry
      <4>2. Append(u[L], t) = u[L] \o <<t>>
        BY <4>1, AppendIsConcat
      <4>3. v[i + 1] = Append(u[L], t) /\ v[i] = u[L]
        BY <3>1, <1>1, <1>14
      <4>4. d[i + 1] = n
        BY <3>1, <1>12
      <4>5. RingContents(block'[n]) = <<t>>
        BY <1>4, <1>7
      <4> QED
        BY <4>2, <4>3, <4>4, <4>5
    <3>2. CASE i # L
      <4>1. i \in 1 .. L - 1 /\ i + 1 \in 1 .. L
        BY <3>2, <1>1
      <4> QED
        BY <4>1, <1>9, <1>12, <1>14 DEF Held
    <3> QED
      BY <3>1, <3>2
  <2>3. Len(d) - 1 = L
    BY <1>1, <1>12
  <2> QED
    BY <1>12, <1>14, <2>1, <2>2, <2>3 DEF Held
<1> QED
    BY <1>8, <1>12, <1>13, <1>14, <1>15, ContentsAfter DEF Inv, ContentsAgree

\* The oldest task of the queue is the oldest of its first ring.
LEMMA Oldest ==
    ASSUME TypeOK, NEW c \in Seq(Address), Linked(c),
           NEW u \in [1 .. Len(c) -> Seq(Entry)], Held(c, u), u[1] # <<>>
    PROVE  \A i \in 1 .. Len(c) : u[i] # <<>> /\ Head(u[i]) = Head(u[1])
<1> DEFINE L == Len(c)
           wrong == {i \in 1 .. L : ~(u[i] # <<>> /\ Head(u[i]) = Head(u[1]))}
<1>1. /\ L \in Nat \ {0}
      /\ \A i \in 1 .. L : u[i] \in Seq(Entry) /\ RingContents(block[c[i]]) \in Seq(Entry)
      /\ \A i \in 1 .. L - 1 : u[i + 1] = u[i] \o RingContents(block[c[i + 1]])
    BY Shared DEF Held
<1> HIDE DEF L
<1>2. SUFFICES ASSUME wrong # {} PROVE FALSE
    BY DEF L
<1>3. PICK m \in wrong : \A n \in wrong : m <= n
  <2>1. wrong \in SUBSET Nat
    BY <1>1
  <2> HIDE DEF wrong
  <2> QED
    BY <1>2, <2>1, Least
<1>4. m \in 1 .. L /\ m # 1 /\ ~(u[m] # <<>> /\ Head(u[m]) = Head(u[1]))
    OBVIOUS
<1>5. m - 1 \in 1 .. L - 1 /\ m - 1 \in 1 .. L /\ (m - 1) + 1 = m /\ ~(m <= m - 1)
    BY <1>1, <1>4
<1>6. u[m - 1] # <<>> /\ Head(u[m - 1]) = Head(u[1])
    BY <1>3, <1>5
<1>7. u[m] = u[m - 1] \o RingContents(block[c[m]])
    BY <1>1, <1>5
<1>8. u[m - 1] \in Seq(Entry) /\ RingContents(block[c[m]]) \in Seq(Entry)
    BY <1>1, <1>4, <1>5
<1>9. u[m] # <<>> /\ Head(u[m]) = Head(u[m - 1])
  <2> DEFINE p == u[m - 1]
             q == RingContents(block[c[m]])
  <2>1. p \in Seq(Entry) /\ q \in Seq(Entry) /\ p # <<>> /\ u[m] = p \o q
    BY <1>6, <1>7, <1>8
  <2> HIDE DEF p, q
  <2>2. p \o q # <<>> /\ Head(p \o q) = Head(p)
    BY <2>1, HeadTailOfConcat
  <2> QED
    BY <2>1, <2>2 DEF p
<1> QED
    BY <1>4, <1>6, <1>9

\* A pop that leaves tasks in the reader's ring.
LEMMA PopHere ==
    ASSUME TypeOK, NEW c \in Seq(Address), Linked(c),
           NEW u \in [1 .. Len(c) -> Seq(Entry)], Held(c, u), u[1] # <<>>,
           ~Empty(block[reader]), ~Empty(Take(block[reader])),
           block' = [block EXCEPT ![reader] = Take(block[reader])],
           UNCHANGED <<reader, writer, allocated>>, ret' \in [task : Task \cup {NULL}, pop : 0 .. 1]
    PROVE  Inv' /\ Contents' = Tail(u[Len(c)])
<1> DEFINE L == Len(c)
           b == block[reader]
           v == [i \in 1 .. L |-> Tail(u[i])]
<1>1. /\ L \in Nat \ {0} /\ L \in 1 .. L /\ 1 \in 1 .. L /\ c[L] = writer /\ c[1] = reader
      /\ b \in Block /\ InUse(b)
      /\ \A i \in 1 .. L : /\ c[i] \in Address /\ block[c[i]] \in Block /\ InUse(block[c[i]])
                           /\ RingContents(block[c[i]]) \in Seq(Entry)
    BY Shared DEF Linked
<1>2. /\ Take(b) \in Block /\ InUse(Take(b)) /\ Take(b).next = b.next /\ ~Empty(Take(b))
      /\ RingContents(Take(b)) = Tail(RingContents(b))
    BY <1>1, Taken
<1>3. /\ block' \in [Address -> Block] /\ block'[c[1]] = Take(b)
      /\ \A a \in Address : a # c[1] => block'[a] = block[a]
    BY <1>1, <1>2 DEF TypeOK
<1> HIDE DEF b
<1>4. TypeOK'
    BY <1>3 DEF TypeOK
<1>5. \A i \in 1 .. L : i # 1 => c[i] # c[1] /\ block'[c[i]] = block[c[i]]
    BY <1>1, <1>3 DEF Linked
<1>6. \A i \in 1 .. L : block'[c[i]].next = block[c[i]].next /\ InUse(block'[c[i]])
    BY <1>1, <1>2, <1>3, <1>5 DEF b
<1>7. Linked(c)'
  <2>1. L > 1 => \A i \in 1 .. L : ~Empty(block'[c[i]])
    BY <1>1, <1>2, <1>3, <1>5 DEF Linked
  <2>2. \A i \in 1 .. L - 1 : i \in 1 .. L
    BY <1>1
  <2>3. \A i \in 1 .. L - 1 : block'[c[i]].next = c[i + 1]
    BY <1>6, <2>2 DEF Linked
  <2>4. (\A i \in 1 .. L : c[i] # static_queue) =>
            block'[static_queue].state = 2 /\ block'[static_queue].next = NULL
    BY <1>1, <1>3 DEF Linked, Address
  <2> QED
    BY <1>1, <1>6, <2>1, <2>3, <2>4 DEF Linked
<1>8. \A i \in 1 .. L : u[i] \in Seq(Entry) /\ u[i] # <<>> /\ Tail(u[i]) \in Seq(Entry)
  <2>1. TAKE i \in 1 .. L
  <2>2. u[i] \in Seq(Entry) /\ u[i] # <<>>
    BY Oldest
  <2> QED
    BY <2>2, HeadTailProperties
<1>9. Held(c, v)'
  <2>1. v[1] = RingContents(block'[c[1]])
    BY <1>1, <1>2, <1>3 DEF Held, b
  <2>2. ASSUME NEW i \in 1 .. L - 1
        PROVE  v[i + 1] = v[i] \o RingContents(block'[c[i + 1]])
    <3>1. i \in 1 .. L /\ i + 1 \in 1 .. L /\ i + 1 # 1
      BY <1>1
    <3>2. u[i + 1] = u[i] \o RingContents(block[c[i + 1]])
      BY DEF Held
    <3>3. RingContents(block'[c[i + 1]]) = RingContents(block[c[i + 1]])
      BY <3>1, <1>5
    <3>4. Tail(u[i] \o RingContents(block[c[i + 1]])) = Tail(u[i]) \o RingContents(block[c[i + 1]])
      BY <3>1, <1>1, <1>8, HeadTailOfConcat
    <3> QED
      BY <3>1, <3>2, <3>3, <3>4
  <2>3. v \in [1 .. L -> Seq(Entry)]
    BY <1>8
  <2> HIDE DEF v
  <2> QED
    BY <2>1, <2>2, <2>3 DEF Held
<1>10. v \in [1 .. L -> Seq(Entry)] /\ v[L] = Tail(u[L])
    BY <1>1, <1>8
<1> HIDE DEF v
<1> QED
    BY <1>4, <1>7, <1>9, <1>10, ContentsAfter DEF Inv, ContentsAgree

\* A pop that empties the reader's ring and goes on to the next.
LEMMA PopOn ==
    ASSUME TypeOK, NEW c \in Seq(Address), Linked(c),
           NEW u \in [1 .. Len(c) -> Seq(Entry)], Held(c, u), u[1] # <<>>,
           ~Empty(block[reader]), Empty(Take(block[reader])), block[reader].next # NULL,
           reader' = block[reader].next, allocated' = allocated \ {reader},
           block' = [block EXCEPT ![reader] = IF reader = static_queue
                                              THEN ParkStatic(Take(block[reader])) ELSE EmptyBlock],
           writer' = writer, ret' \in [task : Task \cup {NULL}, pop : 0 .. 1]
    PROVE  Inv' /\ Contents' = Tail(u[Len(c)])
<1> DEFINE L == Len(c)
           b == block[reader]
           d == Tail(c)
           v == [i \in 1 .. L - 1 |-> Tail(u[i + 1])]
<1>1. /\ L \in Nat \ {0} /\ L \in 1 .. L /\ 1 \in 1 .. L /\ c[L] = writer /\ c[1] = reader
      /\ b \in Block /\ InUse(b)
      /\ \A i \in 1 .. L : /\ c[i] \in Address /\ block[c[i]] \in Block /\ InUse(block[c[i]])
                           /\ RingContents(block[c[i]]) \in Seq(Entry)
    BY Shared DEF Linked
<1>2. L - 1 \in Nat \ {0} /\ L > 1 /\ b.next = c[2] /\ 2 \in 1 .. L
  <2>1. L # 1
    BY <1>1 DEF Linked
  <2>2. L \in Nat \ {0}
    BY <1>1
  <2>3. 1 \in 1 .. L - 1 /\ 1 + 1 = 2 /\ L > 1 /\ L - 1 \in Nat \ {0} /\ 2 \in 1 .. L
    <3> HIDE DEF L
    <3> QED
      BY <2>1, <2>2
  <2>4. block[c[1]].next = c[1 + 1]
    BY <2>3 DEF Linked
  <2> QED
    BY <2>3, <2>4, <1>1
<1>3. /\ Take(b) \in Block /\ Tail(RingContents(b)) = <<>>
      /\ RingContents(b) \in Seq(Entry) /\ RingContents(b) # <<>>
  <2>1. Take(b) \in Block /\ InUse(Take(b)) /\ RingContents(b) # <<>>
        /\ RingContents(Take(b)) = Tail(RingContents(b))
    BY <1>1, Taken
  <2>2. RingContents(Take(b)) = <<>>
    BY <2>1, RingShape
  <2> QED
    BY <2>1, <2>2, <1>1, RingShape
<1>4. ParkStatic(Take(b)) \in Block /\ ParkStatic(Take(b)).state = 2 /\ ParkStatic(Take(b)).next = NULL
    BY <1>3, ParkedShape
<1>5. EmptyBlock \in Block
    BY BlockCountAssumption DEF EmptyBlock, Block, Slot
<1>6. /\ block' \in [Address -> Block]
      /\ c[1] = static_queue => block'[c[1]].state = 2 /\ block'[c[1]].next = NULL
      /\ \A a \in Address : a # c[1] => block'[a] = block[a]
    BY <1>1, <1>4, <1>5 DEF TypeOK
<1> HIDE DEF b
<1>7. TypeOK'
  <2>1. reader' \in Address
    BY <1>1, <1>2 DEF b
  <2> QED
    BY <2>1, <1>6 DEF TypeOK
<1>8. \A i \in 1 .. L : i # 1 => c[i] # c[1] /\ block'[c[i]] = block[c[i]]
    BY <1>1, <1>6 DEF Linked
<1>9. /\ d \in Seq(Address) /\ Len(d) = L - 1 /\ d # <<>>
      /\ \A i \in 1 .. L - 1 : i + 1 \in 1 .. L /\ i + 1 # 1 /\ d[i] = c[i + 1]
  <2>1. c \in Seq(Address) /\ c # <<>>
    BY <1>1
  <2>2. /\ d \in Seq(Address) /\ Len(d) = L - 1 /\ \A i \in 1 .. Len(d) : d[i] = c[i + 1]
    BY <2>1, HeadTailProperties
  <2> QED
    BY <2>2, <1>1, <1>2
<1> HIDE DEF d
<1>10. Linked(d)'
  <2>1. d[1] = reader' /\ d[L - 1] = writer'
    BY <1>1, <1>2, <1>9 DEF b
  <2>2. \A i, j \in 1 .. L - 1 : d[i] = d[j] => i = j
    <3>1. TAKE i, j \in 1 .. L - 1
    <3>2. i + 1 \in 1 .. L /\ j + 1 \in 1 .. L /\ d[i] = c[i + 1] /\ d[j] = c[j + 1]
      BY <1>9
    <3>3. c[i + 1] = c[j + 1] => i + 1 = j + 1
      BY <3>2 DEF Linked
    <3>4. i \in Int /\ j \in Int
      OBVIOUS
    <3> QED
      BY <3>2, <3>3, <3>4
  <2>3. \A i \in 1 .. (L - 1) - 1 : block'[d[i]].next = d[i + 1]
    <3>1. TAKE i \in 1 .. (L - 1) - 1
    <3>2. i \in 1 .. L - 1 /\ i + 1 \in 1 .. L - 1
      BY <1>2
    <3>3. block[c[i + 1]].next = c[(i + 1) + 1]
      BY <3>2 DEF Linked
    <3> QED
      BY <3>2, <3>3, <1>8, <1>9
  <2>4. \A i \in 1 .. L - 1 : InUse(block'[d[i]]) /\ ~Empty(block'[d[i]])
    <3>1. TAKE i \in 1 .. L - 1
    <3>2. i + 1 \in 1 .. L /\ block'[d[i]] = block[c[i + 1]]
      BY <1>8, <1>9
    <3>3. InUse(block[c[i + 1]]) /\ ~Empty(block[c[i + 1]])
      BY <3>2, <1>2 DEF Linked
    <3> QED
      BY <3>2, <3>3
  <2>5. allocated' = {d[i] : i \in 1 .. L - 1} \ {static_queue}
    <3>1. {d[i] : i \in 1 .. L - 1} = {c[i] : i \in 1 .. L} \ {c[1]}
      <4>1. ASSUME NEW i \in 1 .. L, i # 1 PROVE i - 1 \in 1 .. L - 1 /\ d[i - 1] = c[i]
        <5>1. i - 1 \in 1 .. L - 1 /\ (i - 1) + 1 = i
          BY <4>1, <1>1
        <5> QED
          BY <5>1, <1>9
      <4>2. {d[i] : i \in 1 .. L - 1} \subseteq {c[i] : i \in 1 .. L} \ {c[1]}
        <5>1. ASSUME NEW i \in 1 .. L - 1 PROVE d[i] \in {c[j] : j \in 1 .. L} \ {c[1]}
          <6>1. i + 1 \in 1 .. L /\ i + 1 # 1 /\ d[i] = c[i + 1]
            BY <1>9
          <6>2. c[i + 1] # c[1]
            BY <6>1, <1>8
          <6> QED
            BY <6>1, <6>2
        <5> QED
          BY <5>1
      <4>3. {c[i] : i \in 1 .. L} \ {c[1]} \subseteq {d[i] : i \in 1 .. L - 1}
        <5>1. SUFFICES ASSUME NEW i \in 1 .. L, c[i] # c[1] PROVE \E j \in 1 .. L - 1 : c[i] = d[j]
          OBVIOUS
        <5>2. i # 1
          BY <5>1
        <5> QED
          BY <5>2, <4>1
      <4> QED
        BY <4>2, <4>3
    <3>2. allocated' = allocated \ {c[1]} /\ allocated = {c[i] : i \in 1 .. L} \ {static_queue}
      BY <1>1 DEF Linked
    <3> QED
      BY <3>1, <3>2
  <2>6. (\A i \in 1 .. L - 1 : d[i] # static_queue) =>
            block'[static_queue].state = 2 /\ block'[static_queue].next = NULL
    <3>1. SUFFICES ASSUME \A i \in 1 .. L - 1 : d[i] # static_queue
                   PROVE  block'[static_queue].state = 2 /\ block'[static_queue].next = NULL
      OBVIOUS
    <3>2. CASE c[1] = static_queue
      BY <3>2, <1>6
    <3>3. CASE c[1] # static_queue
      <4>1. ASSUME NEW i \in 1 .. L PROVE c[i] # static_queue
        <5>1. CASE i = 1
          BY <5>1, <3>3
        <5>2. CASE i # 1
          <6>1. i - 1 \in 1 .. L - 1 /\ (i - 1) + 1 = i
            BY <5>2, <1>1
          <6> QED
            BY <6>1, <3>1, <1>9
        <5> QED
          BY <5>1, <5>2
      <4>2. block'[static_queue] = block[static_queue]
        BY <3>3, <1>6 DEF Address
      <4> QED
        BY <4>1, <4>2 DEF Linked
    <3> QED
      BY <3>2, <3>3
  <2>7. block'[d[L - 1]].next = NULL
    BY <1>1, <1>2, <1>8, <1>9 DEF Linked
  <2> QED
    BY <1>9, <2>1, <2>2, <2>3, <2>4, <2>5, <2>6, <2>7 DEF Linked
<1>11. \A i \in 1 .. L : u[i] \in Seq(Entry) /\ u[i] # <<>> /\ Tail(u[i]) \in Seq(Entry)
  <2>1. TAKE i \in 1 .. L
  <2>2. u[i] \in Seq(Entry) /\ u[i] # <<>>
    BY Oldest
  <2> QED
    BY <2>2, HeadTailProperties
<1>12. Held(d, v)'
  <2>1. v[1] = RingContents(block'[d[1]])
    <3>1. u[2] = RingContents(b) \o RingContents(block[c[2]])
      <4>1. 1 \in 1 .. L - 1 /\ 1 + 1 = 2
        BY <1>2
      <4>2. u[1] = RingContents(b)
        BY <1>1 DEF Held, b
      <4>3. u[1 + 1] = u[1] \o RingContents(block[c[1 + 1]])
        BY <4>1 DEF Held
      <4> QED
        BY <4>1, <4>2, <4>3
    <3>2. RingContents(block[c[2]]) \in Seq(Entry)
      BY <1>1, <1>2
    <3>3. Tail(u[2]) = Tail(RingContents(b)) \o RingContents(block[c[2]])
      BY <3>1, <3>2, <1>3, HeadTailOfConcat
    <3>4. Tail(u[2]) = RingContents(block[c[2]])
      BY <3>2, <3>3, <1>3, ConcatEmptySeq
    <3>5. block'[d[1]] = block[c[2]]
      <4>1. 1 \in 1 .. L - 1 /\ 2 \in 1 .. L /\ d[1] = c[2]
        BY <1>1, <1>2, <1>9
      <4> QED
        BY <4>1, <1>8
    <3>6. v[1] = Tail(u[2])
      BY <1>2
    <3> QED
      BY <3>4, <3>5, <3>6
  <2>2. ASSUME NEW i \in 1 .. (L - 1) - 1
        PROVE  v[i + 1] = v[i] \o RingContents(block'[d[i + 1]])
    <3>1. i \in 1 .. L - 1 /\ i + 1 \in 1 .. L - 1 /\ (i + 1) + 1 \in 1 .. L /\ i + 1 \in 1 .. L
      BY <1>2
    <3>2. u[(i + 1) + 1] = u[i + 1] \o RingContents(block[c[(i + 1) + 1]])
      BY <3>1 DEF Held
    <3>3. RingContents(block'[d[i + 1]]) = RingContents(block[c[(i + 1) + 1]])
      <4>1. d[i + 1] = c[(i + 1) + 1] /\ (i + 1) + 1 # 1
        BY <3>1, <1>9
      <4> QED
        BY <4>1, <3>1, <1>8
    <3>4. Tail(u[(i + 1) + 1]) = Tail(u[i + 1]) \o RingContents(block[c[(i + 1) + 1]])
      <4>1. /\ u[i + 1] \in Seq(Entry) /\ u[i + 1] # <<>>
            /\ RingContents(block[c[(i + 1) + 1]]) \in Seq(Entry)
        BY <3>1, <1>1, <1>11
      <4> QED
        BY <4>1, <3>2, HeadTailOfConcat
    <3>5. v[i] = Tail(u[i + 1]) /\ v[i + 1] = Tail(u[(i + 1) + 1])
      BY <3>1
    <3> QED
      BY <3>3, <3>4, <3>5
  <2>3. v \in [1 .. L - 1 -> Seq(Entry)]
    BY <1>9, <1>11
  <2> HIDE DEF v
  <2> QED
    BY <1>9, <2>1, <2>2, <2>3 DEF Held
<1>13. v \in [1 .. L - 1 -> Seq(Entry)] /\ v[L - 1] = Tail(u[L])
  <2>1. L - 1 \in 1 .. L - 1 /\ (L - 1) + 1 = L
    BY <1>1, <1>2
  <2>2. v \in [1 .. L - 1 -> Seq(Entry)]
    BY <1>9, <1>11
  <2> QED
    BY <2>1, <2>2
<1> HIDE DEF v
<1> QED
    BY <1>7, <1>9, <1>10, <1>12, <1>13, ContentsAfter DEF Inv, ContentsAgree

\* A pop that empties the last ring.
LEMMA PopLast ==
    ASSUME TypeOK, NEW c \in Seq(Address), Linked(c),
           NEW u \in [1 .. Len(c) -> Seq(Entry)], Held(c, u),
           ~Empty(block[reader]), Empty(Take(block[reader])), block[reader].next = NULL,
           ret' \in [task : Task \cup {NULL}, pop : 0 .. 1],
           \/ /\ reader # static_queue /\ block[static_queue].state = 2
              /\ reader' = static_queue /\ writer' = static_queue
              /\ block' = [block EXCEPT ![reader] = EmptyBlock, ![static_queue] = Reset(@)]
              /\ allocated' = allocated \ {reader}
           \/ /\ reader = static_queue \/ block[static_queue].state # 2
              /\ block' = [block EXCEPT ![reader] = Reset(Take(block[reader]))]
              /\ UNCHANGED <<reader, writer, allocated>>
    PROVE  Inv' /\ Contents' = <<>> /\ Tail(u[Len(c)]) = <<>>
<1> DEFINE L == Len(c)
           b == block[reader]
<1>1. /\ L \in Nat \ {0} /\ 1 \in 1 .. L /\ c[1] = reader /\ c[L] = writer
      /\ b \in Block /\ InUse(b)
      /\ \A i \in 1 .. L : c[i] \in Address /\ c[i] # NULL
    BY Shared DEF Linked
<1>2. L = 1
  <2>1. SUFFICES ASSUME L # 1 PROVE FALSE
    OBVIOUS
  <2>2. 1 \in 1 .. L - 1 /\ 1 + 1 \in 1 .. L
    <3>1. L \in Nat \ {0}
      BY <1>1
    <3> HIDE DEF L
    <3> QED
      BY <2>1, <3>1
  <2>3. b.next = c[1 + 1]
    BY <2>2, <1>1 DEF Linked
  <2> QED
    BY <2>2, <2>3, <1>1
<1>3. Take(b) \in Block /\ Take(b).next = NULL /\ RingContents(Take(b)) = Tail(RingContents(b))
      /\ InUse(Take(b))
    BY <1>1, Taken
<1>4. Tail(u[L]) = <<>>
  <2>1. RingContents(Take(b)) = <<>>
    BY <1>3, RingShape
  <2> QED
    BY <2>1, <1>1, <1>2, <1>3 DEF Held
<1>5. allocated = {reader} \ {static_queue}
  <2>1. {c[i] : i \in 1 .. L} = {reader}
    <3>1. \A i \in 1 .. L : i = 1
      BY <1>2
    <3> QED
      BY <3>1, <1>1
  <2> QED
    BY <2>1 DEF Linked
<1>6. reader # static_queue => block[static_queue].state = 2 /\ block[static_queue].next = NULL
  <2>1. SUFFICES ASSUME reader # static_queue
                 PROVE  block[static_queue].state = 2 /\ block[static_queue].next = NULL
    OBVIOUS
  <2>2. \A i \in 1 .. L : c[i] # static_queue
    BY <2>1, <1>1, <1>2
  <2> QED
    BY <2>2 DEF Linked
<1>7. reader \in Address /\ static_queue \in Address /\ block \in [Address -> Block] /\ EmptyBlock \in Block
    BY BlockCountAssumption DEF TypeOK, Address, EmptyBlock, Block, Slot
<1> HIDE DEF L, b
<1>8. AloneAndEmpty'
  <2>1. CASE /\ reader # static_queue /\ reader' = static_queue /\ writer' = static_queue
             /\ block' = [block EXCEPT ![reader] = EmptyBlock, ![static_queue] = Reset(@)]
             /\ allocated' = allocated \ {reader}
    <3> DEFINE left == [block EXCEPT ![reader] = EmptyBlock]
               s == Reset(block[static_queue])
    <3>1. /\ s \in Block /\ s.state = 0 /\ s.read = 0 /\ s.write = 0 /\ s.next = NULL
      BY <2>1, <1>6, <1>7, ResetShape
    <3>2. left \in [Address -> Block] /\ left[static_queue] = block[static_queue]
      BY <2>1, <1>7
    <3>3. block' = [left EXCEPT ![static_queue] = s]
      BY <2>1, <3>2
    <3> HIDE DEF s, left
    <3>4. block' \in [Address -> Block] /\ block'[static_queue] = s
      BY <3>1, <3>2, <3>3, <1>7
    <3>5. allocated' = {}
      BY <2>1, <1>5
    <3>6. TypeOK'
      BY <2>1, <3>4, <3>5, <1>7 DEF TypeOK
    <3> QED
      BY <2>1, <3>1, <3>4, <3>5, <3>6 DEF AloneAndEmpty, InUse, Empty
  <2>2. CASE /\ reader = static_queue \/ block[static_queue].state # 2
             /\ block' = [block EXCEPT ![reader] = Reset(Take(block[reader]))]
             /\ UNCHANGED <<reader, writer, allocated>>
    <3> DEFINE s == Reset(Take(b))
    <3>1. /\ s \in Block /\ s.state = 0 /\ s.read = 0 /\ s.write = 0 /\ s.next = NULL
      BY <1>3, ResetShape
    <3>2. reader = static_queue
      BY <2>2, <1>6
    <3>3. block' = [block EXCEPT ![reader] = s]
      BY <2>2 DEF b
    <3> HIDE DEF s
    <3>4. block' \in [Address -> Block] /\ block'[reader] = s
      BY <3>1, <3>3, <1>7
    <3>5. TypeOK'
      BY <2>2, <3>4 DEF TypeOK
    <3>6. reader' = writer' /\ reader' = reader /\ allocated' = allocated
      BY <2>2, <1>1, <1>2
    <3> QED
      BY <3>1, <3>2, <3>4, <3>5, <3>6, <1>5 DEF AloneAndEmpty, InUse, Empty
  <2> QED
    BY <2>1, <2>2
<1> QED
    BY <1>4, <1>8, EmptyAfter DEF L

LEMMA PushStep ==
    ASSUME Inv, NEW t \in Task, fio_defer_push_task_fn(t)
    PROVE  Inv' /\ Contents' = Append(Contents, t) /\ UNCHANGED ret
<1>1. PICK c \in Seq(Address) : Linked(c) /\ \E u \in [1 .. Len(c) -> Seq(Entry)] : Held(c, u)
    BY DEF Inv
<1>2. PICK u \in [1 .. Len(c) -> Seq(Entry)] : Held(c, u)
    BY <1>1
<1>3. TypeOK /\ Contents = u[Len(c)]
    BY <1>1, <1>2, ContentsIs DEF Inv
<1>4. CASE ~Full(block[writer])
    BY <1>1, <1>2, <1>3, <1>4, PushHere DEF fio_defer_push_task_fn
<1>5. CASE Full(block[writer])
    BY <1>1, <1>2, <1>3, <1>5, PushOn DEF fio_defer_push_task_fn
<1> QED
    BY <1>4, <1>5 DEF fio_defer_push_task_fn

\* Of a state that differs in `ret` only.
LEMMA SameRings ==
    ASSUME Inv, UNCHANGED <<block, reader, writer, allocated>>,
           ret' \in [task : Task \cup {NULL}, pop : 0 .. 1]
    PROVE  Inv' /\ Contents' = Contents
<1>1. PICK c \in Seq(Address) : Linked(c) /\ \E u \in [1 .. Len(c) -> Seq(Entry)] : Held(c, u)
    BY DEF Inv
<1>2. PICK u \in [1 .. Len(c) -> Seq(Entry)] : Held(c, u)
    BY <1>1
<1>3. TypeOK /\ TypeOK'
    BY DEF Inv, TypeOK
<1>4. Linked(c)' /\ Held(c, u)'
    BY <1>1, <1>2 DEF Linked, Held
<1>5. Contents = u[Len(c)]
    BY <1>1, <1>2, <1>3, ContentsIs
<1>6. Contents' = u[Len(c)]
    BY <1>3, <1>4, ContentsAfter DEF ContentsAgree
<1> QED
    BY <1>3, <1>4, <1>5, <1>6 DEF Inv

LEMMA PopStep ==
    ASSUME Inv, fio_defer_pop_task
    PROVE  /\ Inv'
           /\ \/ Contents = <<>> /\ Return(NULL) /\ Contents' = Contents
              \/ Contents # <<>> /\ Return(Head(Contents)) /\ Contents' = Tail(Contents)
<1>1. PICK c \in Seq(Address) : Linked(c) /\ \E u \in [1 .. Len(c) -> Seq(Entry)] : Held(c, u)
    BY DEF Inv
<1>2. PICK u \in [1 .. Len(c) -> Seq(Entry)] : Held(c, u)
    BY <1>1
<1>3. TypeOK /\ Contents = u[Len(c)] /\ u[1] = RingContents(block[reader])
  <2>1. c[1] = reader
    BY <1>1 DEF Linked
  <2> QED
    BY <2>1, <1>1, <1>2, ContentsIs DEF Inv, Held
<1>4. block[reader] \in Block /\ InUse(block[reader]) /\ Len(c) \in 1 .. Len(c)
  <2>1. 1 \in 1 .. Len(c) /\ Len(c) \in 1 .. Len(c) /\ c[1] = reader
    BY <1>1, <1>3, Shared DEF Linked
  <2> QED
    BY <2>1, <1>1, <1>3 DEF Linked, TypeOK
<1>5. ASSUME NEW t \in Entry, Return(t)
      PROVE  ret' \in [task : Task \cup {NULL}, pop : 0 .. 1]
    BY <1>3, <1>5 DEF Return, TypeOK, Entry
<1>6. CASE Empty(block[reader])
  <2>1. UNCHANGED <<block, reader, writer, allocated>> /\ Return(NULL)
    BY <1>6 DEF fio_defer_pop_task
  <2>2. Inv' /\ Contents' = Contents
    BY <2>1, <1>5, SameRings DEF Entry
  <2>3. Contents = <<>>
    <3>1. Len(c) = 1
      <4>1. 1 \in 1 .. Len(c) /\ c[1] = reader /\ Len(c) \in Nat \ {0}
        BY <1>1, <1>3, Shared DEF Linked
      <4>2. ~(Len(c) > 1)
        BY <4>1, <1>1, <1>6 DEF Linked
      <4> DEFINE L == Len(c)
      <4>3. L \in Nat \ {0} /\ ~(L > 1)
        BY <4>1, <4>2
      <4> HIDE DEF L
      <4>4. L = 1
        BY <4>3
      <4> QED
        BY <4>4 DEF L
    <3>2. RingContents(block[reader]) = <<>>
      BY <1>4, <1>6, RingShape
    <3> QED
      BY <3>1, <3>2, <1>3
  <2> QED
    BY <2>1, <2>2, <2>3
<1>7. CASE ~Empty(block[reader])
  <2>1. /\ u[1] # <<>> /\ Head(u[1]) = block[reader].tasks[block[reader].read]
        /\ block[reader].tasks[block[reader].read] \in Entry
        /\ Take(block[reader]).next = block[reader].next
        /\ Take(block[reader]).write = Take(block[reader]).read <=> Empty(Take(block[reader]))
    BY <1>3, <1>4, <1>7, Taken DEF Block, Entry
  <2>2. Contents # <<>> /\ Head(Contents) = Head(u[1])
    BY <2>1, <1>1, <1>2, <1>3, <1>4, Oldest
  <2>3. Return(Head(Contents)) /\ ret' \in [task : Task \cup {NULL}, pop : 0 .. 1]
    BY <2>1, <2>2, <1>5, <1>7 DEF fio_defer_pop_task
  <2>4. CASE Empty(Take(block[reader])) /\ block[reader].next # NULL
    <3>1. /\ reader' = block[reader].next /\ allocated' = allocated \ {reader} /\ writer' = writer
          /\ block' = [block EXCEPT ![reader] = IF reader = static_queue
                                                THEN ParkStatic(Take(block[reader])) ELSE EmptyBlock]
      BY <2>1, <2>4, <1>7 DEF fio_defer_pop_task, Released
    <3>2. Inv' /\ Contents' = Tail(u[Len(c)])
      BY <2>1, <2>3, <2>4, <3>1, <1>1, <1>2, <1>3, <1>7, PopOn
    <3> QED
      BY <3>2, <2>2, <2>3, <1>3
  <2>5. CASE Empty(Take(block[reader])) /\ block[reader].next = NULL
    <3>1. \/ /\ reader # static_queue /\ block[static_queue].state = 2
             /\ reader' = static_queue /\ writer' = static_queue
             /\ block' = [block EXCEPT ![reader] = EmptyBlock, ![static_queue] = Reset(@)]
             /\ allocated' = allocated \ {reader}
          \/ /\ reader = static_queue \/ block[static_queue].state # 2
             /\ block' = [block EXCEPT ![reader] = Reset(Take(block[reader]))]
             /\ UNCHANGED <<reader, writer, allocated>>
      BY <2>1, <2>5, <1>7 DEF fio_defer_pop_task, Released
    <3>2. Inv' /\ Contents' = <<>> /\ Tail(u[Len(c)]) = <<>>
      BY <2>3, <2>5, <3>1, <1>1, <1>2, <1>3, <1>7, PopLast
    <3> QED
      BY <3>2, <2>2, <2>3, <1>3
  <2>6. CASE ~Empty(Take(block[reader]))
    <3>1. /\ block' = [block EXCEPT ![reader] = Take(block[reader])]
          /\ UNCHANGED <<reader, writer, allocated>>
      BY <2>1, <2>6, <1>7 DEF fio_defer_pop_task
    <3>2. Inv' /\ Contents' = Tail(u[Len(c)])
      BY <2>1, <2>3, <2>6, <3>1, <1>1, <1>2, <1>3, <1>7, PopHere
    <3> QED
      BY <3>2, <2>2, <2>3, <1>3
  <2> QED
    BY <2>4, <2>5, <2>6
<1> QED
    BY <1>6, <1>7

LEMMA ClearStep ==
    ASSUME Inv, fio_defer_clear_tasks_for_queue
    PROVE  Inv' /\ Contents' = <<>> /\ UNCHANGED ret
<1>1. EmptyBlock \in Block /\ EmptyBlock.state = 0 /\ EmptyBlock.read = EmptyBlock.write
      /\ EmptyBlock.read = 0 /\ EmptyBlock.next = NULL
    BY BlockCountAssumption DEF EmptyBlock, Block, Slot
<1>2. /\ static_queue \in Address /\ reader' = static_queue /\ writer' = static_queue
      /\ allocated' = {} /\ block' = [a \in Address |-> EmptyBlock] /\ ret' = ret
    BY DEF fio_defer_clear_tasks_for_queue, Address
<1> HIDE DEF EmptyBlock
<1>3. block' \in [Address -> Block] /\ block'[reader'] = EmptyBlock
    BY <1>1, <1>2
<1>4. TypeOK'
    BY <1>2, <1>3 DEF Inv, TypeOK
<1>5. InUse(EmptyBlock) /\ Empty(EmptyBlock)
    BY <1>1 DEF InUse, Empty
<1>6. /\ reader' = writer' /\ allocated' = {reader'} \ {static_queue}
      /\ ~(reader' # static_queue)
    BY <1>2
<1>7. AloneAndEmpty'
  <2> DEFINE r == block'[reader']
  <2>1. InUse(r) /\ Empty(r) /\ r.next = NULL
    BY <1>1, <1>3, <1>5
  <2> QED
    BY <2>1, <1>4, <1>6 DEF AloneAndEmpty
<1> QED
    BY <1>2, <1>7, EmptyAfter

-----------------------------------------------------------------------------
\* Every step keeps the invariant and is a step of the FIFO queue.
LEMMA Step == Inv /\ [Next]_vars => Inv' /\ [FIFO!Next]_FIFO!vars
<1> SUFFICES ASSUME Inv, [Next]_vars PROVE Inv' /\ [FIFO!Next]_FIFO!vars
    OBVIOUS
<1>1. ASSUME NEW t \in Task, fio_defer_push_task_fn(t) PROVE Inv' /\ FIFO!Next
    BY <1>1, PushStep DEF FIFO!Next, FIFO!Push
<1>2. CASE fio_defer_pop_task
    BY <1>2, PopStep DEF FIFO!Next, FIFO!Pop, FIFO!Answer, Return
<1>3. CASE fio_defer_clear_tasks_for_queue
    BY <1>3, ClearStep DEF FIFO!Next, FIFO!Clear
<1>4. CASE UNCHANGED vars
  <2>1. UNCHANGED <<block, reader, writer, allocated>> /\ ret' = ret
    BY <1>4 DEF vars
  <2>2. ret' \in [task : Task \cup {NULL}, pop : 0 .. 1]
    BY <2>1 DEF Inv, TypeOK
  <2> QED
    BY <2>1, <2>2, SameRings DEF FIFO!vars
<1> QED
    BY <1>1, <1>2, <1>3, <1>4 DEF Next

\* The rings of a queue (fio_defer_push_task_fn, fio_defer_pop_task), for every ring
\* size: those that are allocated are those the reader can reach.
THEOREM BlocksSafety == Spec => []BlocksSound
<1>1. Init => Inv
    BY InvInit
<1>2. Inv /\ [Next]_vars => Inv'
    BY Step
<1> QED
    BY <1>1, <1>2, BlocksAreSound, PTL DEF Spec

\* Tasks leave the chain of rings once each and in the order they came in, across the
\* wrapping of the indices, the switches of ring and the return to the static one.
THEOREM Refinement == Spec => ImplementsFIFO
<1>1. Init => Inv /\ FIFO!Init
    BY InvInit DEF Init, FIFO!Init
<1>2. Inv /\ [Next]_vars => Inv' /\ [FIFO!Next]_FIFO!vars
    BY Step
<1> QED
    BY <1>1, <1>2, PTL DEF Spec, ImplementsFIFO, FIFO!Spec
=============================================================================
