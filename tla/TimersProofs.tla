---------------------------- MODULE TimersProofs ----------------------------
(***************************************************************************)
(* Theorems about the timers, for any set of timers, any instants and      *)
(* intervals and any probe limit: the list stays ordered whichever way     *)
(* fio_timer_add_order takes, every timer is in one place, and its task    *)
(* runs as often as it was asked to.                                       *)
(***************************************************************************)
EXTENDS Timers, FiniteSetTheorems, WellFoundedInduction, SequenceTheorems, TLAPS

\* What is left to run: a timer's repetitions count down from what was asked, the
\* one a thread is running being counted on both sides.
CountsDown ==
    \A t \in Timer :
        /\ t \notin called \ refused => asked[t] = 0 /\ runs[t] = 0 /\ finished[t] = 0
        /\ asked[t] = 0 => timer[t].repetitions = 0
        /\ t \in called \ refused /\ finished[t] = 0 /\ asked[t] # 0 =>
              /\ timer[t].repetitions # 0
              /\ runs[t] + timer[t].repetitions = asked[t] + (IF t \in running THEN 1 ELSE 0)

Inv == TypeOK /\ refused \subseteq called /\ Ordered /\ OnePlace /\ RunsAsAsked /\ CountsDown

\* Every inhabited set of naturals has a least element, and a greatest one when it is
\* bounded.
LEMMA Least ==
    ASSUME NEW S \in SUBSET Nat, S # {}
    PROVE  \E m \in S : \A n \in S : m <= n
<1> DEFINE upTo == {0 .. n : n \in S}
<1>1. upTo \subseteq FiniteSubsetsOf(Nat) /\ upTo # {}
  <2>1. \A n \in S : IsFiniteSet(0 .. n) /\ 0 .. n \in SUBSET Nat
    BY FS_Interval
  <2> QED
    BY <2>1 DEF FiniteSubsetsOf
<1>2. PICK x \in upTo : \A y \in upTo : ~(<<y, x>> \in StrictSubsetOrdering(Nat))
  <2> HIDE DEF upTo
  <2> QED
    BY <1>1, FS_StrictSubsetOrderingWellFounded, WFMin
<1>3. PICK m \in S : x = 0 .. m
    OBVIOUS
<1>4. ASSUME NEW n \in S PROVE m <= n
  <2>1. SUFFICES ASSUME n < m PROVE FALSE
    OBVIOUS
  <2>2. 0 .. n \subseteq 0 .. m /\ m \in 0 .. m /\ m \notin 0 .. n
    BY <2>1
  <2>3. <<0 .. n, x>> \in StrictSubsetOrdering(Nat)
    BY <2>2, <1>3 DEF StrictSubsetOrdering
  <2> QED
    BY <2>3, <1>2
<1> QED
    BY <1>4

LEMMA Greatest ==
    ASSUME NEW S \in SUBSET Nat, S # {}, NEW top \in Nat, \A n \in S : n <= top
    PROVE  \E m \in S : \A n \in S : n <= m
<1> DEFINE below == {top - n : n \in S}
<1>1. below \in SUBSET Nat /\ below # {}
  <2>1. \A n \in S : top - n \in Nat
    OBVIOUS
  <2> QED
    BY <2>1
<1>2. PICK b \in below : \A c \in below : b <= c
  <2> HIDE DEF below
  <2> QED
    BY <1>1, Least
<1>3. PICK m \in S : b = top - m
    OBVIOUS
<1>4. \A n \in S : top - n \in below
    OBVIOUS
<1>5. ASSUME NEW n \in S PROVE n <= m
  <2>1. n \in Nat /\ m \in Nat
    OBVIOUS
  <2>2. top - m <= top - n
    BY <1>2, <1>3, <1>4
  <2> QED
    BY ONLY <2>1, <2>2, top \in Nat
<1> QED
    BY <1>5

-----------------------------------------------------------------------------
\* The list.

\* fio_timer_add_order's shortcuts agree on one thing: what is before the place is
\* due no later, what is behind it no earlier.
LEMMA PlaceFits ==
    ASSUME TypeOK, Ordered, NEW d \in Nat
    PROVE  /\ Place(d) \in 1 .. Len(timers) + 1
           /\ \A k \in DOMAIN timers :
                 /\ k < Place(d) => timer[timers[k]].due <= d
                 /\ k >= Place(d) => d <= timer[timers[k]].due
<1> DEFINE dueAt(i)  == timer[timers[i]].due
           last      == Len(timers)
           probed    == {i \in ProbeWindow : dueAt(i) <= d}
           notBefore == {i \in DOMAIN timers : d <= dueAt(i)}
           Fits(p)   == /\ p \in 1 .. last + 1
                        /\ \A k \in DOMAIN timers : (k < p => dueAt(k) <= d) /\ (k >= p => d <= dueAt(k))
<1>1. /\ DOMAIN timers = 1 .. last /\ last \in Nat
      /\ \A k \in 1 .. last : dueAt(k) \in Nat
      /\ \A j, k \in 1 .. last : j <= k => dueAt(j) <= dueAt(k)
  <2>1. DOMAIN timers = 1 .. last /\ last \in Nat /\ \A k \in 1 .. last : timers[k] \in Timer
    BY DEF TypeOK
  <2>2. \A k \in 1 .. last : dueAt(k) \in Nat
    BY <2>1 DEF TypeOK
  <2>3. \A j, k \in 1 .. last : j <= k => dueAt(j) <= dueAt(k)
    BY <2>1 DEF Ordered
  <2> QED
    BY <2>1, <2>2, <2>3
<1>2. timers = <<>> <=> last = 0
    BY DEF TypeOK
<1>3. Place(d) = IF timers = <<>> \/ d >= dueAt(last) THEN last + 1
                 ELSE IF d <= dueAt(1) THEN 1
                 ELSE IF probed # {} THEN (CHOOSE i \in probed : \A j \in probed : j <= i) + 1
                 ELSE CHOOSE i \in notBefore : \A j \in notBefore : i <= j
    BY DEF Place
<1> HIDE DEF dueAt, last
<1>4. CASE timers = <<>> \/ d >= dueAt(last)
  <2>1. Place(d) = last + 1
    BY <1>3, <1>4
  <2>2. \A k \in 1 .. last : dueAt(k) <= d
    <3>1. SUFFICES ASSUME NEW k \in 1 .. last PROVE dueAt(k) <= d
      OBVIOUS
    <3>2. last \in 1 .. last /\ k <= last /\ dueAt(last) <= d
      BY <1>1, <1>2, <1>4
    <3>3. dueAt(k) <= dueAt(last)
      BY <1>1, <3>2
    <3> QED
      BY <1>1, <3>2, <3>3
  <2> QED
    BY <2>1, <2>2, <1>1 DEF dueAt, last
<1>5. CASE ~(timers = <<>> \/ d >= dueAt(last)) /\ d <= dueAt(1)
  <2>1. Place(d) = 1 /\ last > 0
    BY <1>1, <1>2, <1>3, <1>5
  <2>2. \A k \in 1 .. last : dueAt(1) <= dueAt(k)
    BY <1>1, <2>1
  <2>3. \A k \in 1 .. last : d <= dueAt(k)
    BY <1>1, <1>5, <2>1, <2>2
  <2> QED
    BY <2>1, <2>3, <1>1 DEF dueAt, last
<1>6. CASE ~(timers = <<>> \/ d >= dueAt(last)) /\ ~(d <= dueAt(1)) /\ probed # {}
  <2>1. probed \in SUBSET Nat /\ \A n \in probed : n <= last
    BY <1>1 DEF ProbeWindow
  <2>2. \E m \in probed : \A n \in probed : n <= m
    BY <2>1, <1>1, <1>6, Greatest
  <2> DEFINE m == CHOOSE i \in probed : \A j \in probed : j <= i
  <2>3. m \in probed /\ \A n \in probed : n <= m
    BY <2>2
  <2>4. Place(d) = m + 1
    BY <1>3, <1>6
  <2> HIDE DEF m
  <2>5. m \in 1 .. last /\ m + PROBE_LIMIT > last /\ dueAt(m) <= d
    BY <2>3, <1>1 DEF ProbeWindow, last
  <2>6. \A k \in 1 .. last : k < m + 1 => dueAt(k) <= d
    BY <2>5, <1>1
  <2>7. \A k \in 1 .. last : k >= m + 1 => d <= dueAt(k)
    <3>1. SUFFICES ASSUME NEW k \in 1 .. last, k >= m + 1 PROVE d <= dueAt(k)
      OBVIOUS
    <3>2. k \in ProbeWindow
      BY <3>1, <2>5, <1>1, TimersAssumption DEF ProbeWindow, last
    <3>3. k \notin probed
      BY <3>1, <2>3, <2>5
    <3> QED
      BY <3>2, <3>3, <1>1
  <2> QED
    BY <2>4, <2>5, <2>6, <2>7, <1>1 DEF dueAt, last
<1>7. CASE ~(timers = <<>> \/ d >= dueAt(last)) /\ ~(d <= dueAt(1)) /\ probed = {}
  <2>1. last \in 1 .. last /\ d <= dueAt(last)
    BY <1>1, <1>2, <1>7
  <2>2. notBefore \in SUBSET Nat /\ notBefore # {}
    BY <2>1, <1>1
  <2>3. \E m \in notBefore : \A n \in notBefore : m <= n
    BY <2>2, Least
  <2> DEFINE m == CHOOSE i \in notBefore : \A j \in notBefore : i <= j
  <2>4. m \in notBefore /\ \A n \in notBefore : m <= n
    BY <2>3
  <2>5. Place(d) = m
    BY <1>3, <1>7
  <2> HIDE DEF m
  <2>6. m \in 1 .. last /\ d <= dueAt(m)
    BY <2>4, <1>1
  <2>7. \A k \in 1 .. last : k < m => dueAt(k) <= d
    BY <2>4, <2>6, <1>1
  <2>8. \A k \in 1 .. last : k >= m => d <= dueAt(k)
    BY <2>6, <1>1
  <2> QED
    BY <2>5, <2>6, <2>7, <2>8, <1>1 DEF dueAt, last
<1> QED
    BY <1>4, <1>5, <1>6, <1>7

LEMMA InsertedAt ==
    ASSUME TypeOK, NEW t \in Timer, NEW p \in 1 .. Len(timers) + 1
    PROVE  /\ InsertAt(p, t) \in Seq(Timer) /\ Len(InsertAt(p, t)) = Len(timers) + 1
           /\ \A k \in 1 .. Len(timers) + 1 :
                 InsertAt(p, t)[k] = IF k < p THEN timers[k] ELSE IF k = p THEN t ELSE timers[k - 1]
<1> DEFINE front == SubSeq(timers, 1, p - 1)
           back  == SubSeq(timers, p, Len(timers))
           fore  == front \o <<t>>
<1>1. timers \in Seq(Timer) /\ Len(timers) \in Nat /\ \A k \in 1 .. Len(timers) : timers[k] \in Timer
    BY DEF TypeOK
<1>2. /\ front \in Seq(Timer) /\ Len(front) = p - 1
      /\ \A k \in 1 .. p - 1 : front[k] = timers[k]
    BY <1>1, SubSeqProperties
<1>3. /\ back \in Seq(Timer) /\ Len(back) = Len(timers) + 1 - p
      /\ \A k \in 1 .. Len(timers) + 1 - p : back[k] = timers[p + k - 1]
    BY <1>1, SubSeqProperties
<1> HIDE DEF front, back
<1>4. /\ fore \in Seq(Timer) /\ Len(fore) = p /\ fore[p] = t
      /\ \A k \in 1 .. p - 1 : fore[k] = timers[k]
    BY <1>2
<1> HIDE DEF fore
<1>5. InsertAt(p, t) = fore \o back
    BY DEF InsertAt, fore, front, back
<1>6. /\ fore \o back \in Seq(Timer) /\ Len(fore \o back) = Len(timers) + 1
      /\ \A k \in 1 .. Len(timers) + 1 :
            (fore \o back)[k] = IF k <= p THEN fore[k] ELSE back[k - p]
  <2>1. fore \in Seq(Timer) /\ back \in Seq(Timer)
    BY <1>3, <1>4
  <2>2. /\ fore \o back \in Seq(Timer)
        /\ Len(fore \o back) = Len(fore) + Len(back)
        /\ \A k \in 1 .. Len(fore) + Len(back) :
              (fore \o back)[k] = IF k <= Len(fore) THEN fore[k] ELSE back[k - Len(fore)]
    BY ONLY <2>1, ConcatProperties
  <2>3. Len(fore) = p /\ Len(fore) + Len(back) = Len(timers) + 1
    BY <1>1, <1>3, <1>4
  <2> QED
    BY <2>2, <2>3
<1>7. \A k \in 1 .. Len(timers) + 1 : k > p => back[k - p] = timers[k - 1]
    BY <1>1, <1>3
<1> QED
    BY <1>1, <1>4, <1>5, <1>6, <1>7

\* A timer that is put back, or a new one, keeps the order and is in the list once.
LEMMA Inserting ==
    ASSUME TypeOK, Ordered, OnePlace, NEW t \in Timer, t \notin Listed, NEW d \in Nat,
           fio_timer_add_order(t, d), timer'[t].due = d,
           \A u \in Timer : u # t => timer'[u].due = timer[u].due
    PROVE  /\ timers' \in Seq(Timer) /\ Ordered' /\ Listed' = Listed \cup {t}
           /\ \A i, j \in DOMAIN timers' : timers'[i] = timers'[j] => i = j
<1> DEFINE p == Place(d)
           n == Len(timers)
<1>1. /\ timers \in Seq(Timer) /\ n \in Nat /\ DOMAIN timers = 1 .. n
      /\ \A k \in 1 .. n : timers[k] \in Timer
    BY DEF TypeOK
<1>2. /\ p \in 1 .. n + 1
      /\ \A k \in 1 .. n : (k < p => timer[timers[k]].due <= d) /\ (k >= p => d <= timer[timers[k]].due)
    BY <1>1, PlaceFits
<1> HIDE DEF p
<1>3. /\ timers' \in Seq(Timer) /\ DOMAIN timers' = 1 .. n + 1
      /\ \A k \in 1 .. n + 1 :
            timers'[k] = IF k < p THEN timers[k] ELSE IF k = p THEN t ELSE timers[k - 1]
  <2>1. timers' = InsertAt(p, t)
    BY DEF fio_timer_add_order, p
  <2>2. timers' \in Seq(Timer) /\ Len(timers') = n + 1
    BY <2>1, <1>2, InsertedAt
  <2>3. DOMAIN timers' = 1 .. n + 1
    BY <2>2
  <2> QED
    BY <2>1, <2>2, <2>3, <1>2, InsertedAt
<1> HIDE DEF n
<1>4. \A k \in 1 .. n : timers[k] # t
    BY <1>1 DEF Listed
<1> DEFINE from(k) == IF k < p THEN k ELSE k - 1
<1>f. ASSUME NEW k \in 1 .. n + 1, k # p
      PROVE  /\ from(k) \in 1 .. n /\ timers'[k] = timers[from(k)]
             /\ k < p => from(k) < p
             /\ k > p => from(k) >= p
  <2>1. CASE k < p
    BY <2>1, <1>f, <1>1, <1>2, <1>3
  <2>2. CASE k > p
    <3>1. k - 1 \in 1 .. n /\ from(k) = k - 1 /\ k - 1 >= p
      BY <2>2, <1>1, <1>2
    <3> QED
      BY <3>1, <2>2, <1>1, <1>2, <1>3
  <2> QED
    BY <2>1, <2>2, <1>f, <1>1, <1>2
<1>5. \A k \in 1 .. n + 1 : timers'[k] = t <=> k = p
  <2>1. SUFFICES ASSUME NEW k \in 1 .. n + 1, k # p PROVE timers'[k] # t
    BY <1>2, <1>3
  <2>2. CASE k < p
    BY <2>2, <1>1, <1>2, <1>3, <1>4
  <2>3. CASE k > p
    <3>1. k - 1 \in 1 .. n /\ timers'[k] = timers[k - 1]
      BY <2>3, <1>1, <1>2, <1>3
    <3> QED
      BY <3>1, <1>4
  <2> QED
    BY <2>1, <2>2, <2>3, <1>1, <1>2
<1>6. Listed' = Listed \cup {t}
  <2>1. ASSUME NEW x \in Listed' PROVE x \in Listed \cup {t}
    <3>1. PICK k \in 1 .. n + 1 : x = timers'[k]
      BY <1>3 DEF Listed
    <3>2. CASE k < p
      BY <3>1, <3>2, <1>1, <1>2, <1>3 DEF Listed
    <3>3. CASE k = p
      BY <3>1, <3>3, <1>5
    <3>4. CASE k > p
      <4>1. k - 1 \in 1 .. n /\ x = timers[k - 1]
        BY <3>1, <3>4, <1>1, <1>2, <1>3
      <4> QED
        BY <4>1, <1>1 DEF Listed
    <3> QED
      BY <3>2, <3>3, <3>4, <1>1, <1>2
  <2>2. ASSUME NEW x \in Listed PROVE x \in Listed'
    <3>1. PICK k \in 1 .. n : x = timers[k]
      BY <1>1 DEF Listed
    <3>2. CASE k < p
      <4>1. k \in 1 .. n + 1 /\ timers'[k] = x
        BY <3>1, <3>2, <1>1, <1>3
      <4> QED
        BY <4>1, <1>3 DEF Listed
    <3>3. CASE k >= p
      <4>1. k + 1 \in 1 .. n + 1 /\ timers'[k + 1] = x
        BY <3>1, <3>3, <1>1, <1>2, <1>3
      <4> QED
        BY <4>1, <1>3 DEF Listed
    <3> QED
      BY <3>2, <3>3, <1>1, <1>2
  <2>3. t \in Listed'
    BY <1>2, <1>3, <1>5 DEF Listed
  <2> QED
    BY <2>1, <2>2, <2>3
<1>7. ASSUME NEW i \in 1 .. n + 1, NEW j \in 1 .. n + 1, timers'[i] = timers'[j] PROVE i = j
  <2>1. CASE i = p \/ j = p
    BY <2>1, <1>5, <1>7
  <2>2. CASE i # p /\ j # p
    <3>1. /\ from(i) \in 1 .. n /\ timers'[i] = timers[from(i)]
          /\ from(j) \in 1 .. n /\ timers'[j] = timers[from(j)]
      BY <2>2, <1>f
    <3>2. from(i) = from(j)
      <4> HIDE DEF from
      <4> QED
        BY <3>1, <1>1, <1>7 DEF OnePlace
    <3> QED
      BY <3>2, <2>2, <1>1, <1>2
  <2> QED
    BY <2>1, <2>2
<1>8. ASSUME NEW i \in 1 .. n + 1, NEW j \in 1 .. n + 1, i <= j
      PROVE  timer'[timers'[i]].due <= timer'[timers'[j]].due
  <2>1. ASSUME NEW k \in {i, j}, k # p
        PROVE  /\ from(k) \in 1 .. n /\ timers'[k] = timers[from(k)]
               /\ timer'[timers'[k]].due = timer[timers[from(k)]].due
    <3>1. from(k) \in 1 .. n /\ timers'[k] = timers[from(k)]
      BY <2>1, <1>f
    <3>2. timers[from(k)] \in Timer /\ timers[from(k)] # t
      BY <3>1, <1>1, <1>4
    <3> QED
      BY <3>1, <3>2
  <2>2. \A k \in {i, j} : k = p => timer'[timers'[k]].due = d
    BY <1>5
  <2>3. \A k \in 1 .. n : timer[timers[k]].due \in Nat
    BY <1>1 DEF TypeOK
  <2>4. CASE i # p /\ j # p
    <3>1. from(i) <= from(j)
      BY <2>4, <1>1, <1>2, <1>8
    <3>2. timer[timers[from(i)]].due <= timer[timers[from(j)]].due
      BY <3>1, <2>1, <2>4, <1>1 DEF Ordered
    <3> QED
      BY <3>2, <2>1, <2>4
  <2>5. CASE i = p /\ j # p
    <3>1. from(j) >= p /\ from(j) \in 1 .. n
      BY <2>5, <2>1, <1>1, <1>2, <1>8
    <3>2. d <= timer[timers[from(j)]].due
      BY <3>1, <1>2
    <3> QED
      BY <3>2, <2>1, <2>2, <2>5
  <2>6. CASE i # p /\ j = p
    <3>1. from(i) < p /\ from(i) \in 1 .. n
      BY <2>6, <2>1, <1>1, <1>2, <1>8
    <3>2. timer[timers[from(i)]].due <= d
      BY <3>1, <1>2
    <3> QED
      BY <3>2, <2>1, <2>2, <2>6
  <2>7. CASE i = p /\ j = p
    BY <2>7, <2>2
  <2> QED
    BY <2>4, <2>5, <2>6, <2>7
<1> QED
    BY <1>3, <1>6, <1>7, <1>8 DEF Ordered

\* What fio_timer_schedule moves is the front of the list.
LEMMA Scheduled ==
    ASSUME TypeOK, Ordered, OnePlace, NEW now, fio_timer_schedule(now)
    PROVE  /\ timers' \in Seq(Timer) /\ deferred' \in Seq(Timer) /\ Ordered'
           /\ \A i, j \in DOMAIN timers' : timers'[i] = timers'[j] => i = j
           /\ \A i, j \in DOMAIN deferred' : deferred'[i] = deferred'[j] => i = j
           /\ Listed' \cap Waiting' = {}
           /\ Listed' \cup Waiting' = Listed \cup Waiting
<1> DEFINE n == Len(timers)
           m == Len(deferred)
           c == DueCount(now)
           moved == SubSeq(timers, 1, c)
<1>1. /\ n \in Nat /\ DOMAIN timers = 1 .. n /\ \A k \in 1 .. n : timers[k] \in Timer
      /\ m \in Nat /\ DOMAIN deferred = 1 .. m /\ \A k \in 1 .. m : deferred[k] \in Timer
      /\ deferred \in Seq(Timer)
    BY DEF TypeOK
<1>2. c \in 0 .. n
  <2> DEFINE due == {i \in DOMAIN timers : \A j \in 1 .. i : timer[timers[j]].due <= now}
  <2>1. 1 \in Int /\ n \in Int
    BY <1>1
  <2>2. IsFiniteSet(1 .. n) /\ Cardinality(1 .. n) = IF 1 > n THEN 0 ELSE n - 1 + 1
    BY ONLY <2>1, FS_Interval
  <2>3. due \in SUBSET (1 .. n)
    BY <1>1
  <2>4. IsFiniteSet(due) /\ Cardinality(due) <= Cardinality(1 .. n)
    <3> HIDE DEF due, n
    <3> QED
      BY <2>2, <2>3, FS_Subset
  <2>5. Cardinality(due) \in Nat
    <3> HIDE DEF due
    <3> QED
      BY <2>4, FS_CardinalityType
  <2>6. c = Cardinality(due)
    BY DEF DueCount
  <2>7. Cardinality(1 .. n) = n
    BY <2>2, <1>1
  <2> HIDE DEF c, n, due
  <2> QED
    BY <2>4, <2>5, <2>6, <2>7, <1>1
<1>3. timers' = SubSeq(timers, c + 1, n) /\ deferred' = deferred \o moved /\ timer' = timer
    BY DEF fio_timer_schedule, Remaining
<1> HIDE DEF c, n, m
<1>4. /\ timers' \in Seq(Timer) /\ DOMAIN timers' = 1 .. n - c
      /\ \A k \in 1 .. n - c : k + c \in 1 .. n /\ timers'[k] = timers[k + c]
  <2>1. c + 1 \in Int /\ n \in Int /\ \A k \in c + 1 .. n : timers[k] \in Timer
    BY <1>1, <1>2
  <2>2. /\ SubSeq(timers, c + 1, n) \in Seq(Timer)
        /\ Len(SubSeq(timers, c + 1, n)) = IF c + 1 <= n THEN n - (c + 1) + 1 ELSE 0
        /\ \A k \in 1 .. n - (c + 1) + 1 : SubSeq(timers, c + 1, n)[k] = timers[c + 1 + k - 1]
    BY ONLY <2>1, SubSeqProperties
  <2>3. timers' \in Seq(Timer) /\ Len(timers') = n - c
    BY <2>2, <1>1, <1>2, <1>3
  <2>4. \A k \in 1 .. n - c : k + c \in 1 .. n /\ k \in 1 .. n - (c + 1) + 1 /\ c + 1 + k - 1 = k + c
    BY <1>1, <1>2
  <2>5. DOMAIN timers' = 1 .. n - c
    BY <2>3
  <2>6. ASSUME NEW k \in 1 .. n - c PROVE timers'[k] = timers[k + c]
    <3>1. timers'[k] = timers[c + 1 + k - 1]
      BY <2>2, <2>4, <1>3
    <3> QED
      BY <3>1, <2>4
  <2> QED
    BY <2>3, <2>4, <2>5, <2>6
<1>5. /\ moved \in Seq(Timer) /\ Len(moved) = c
      /\ \A k \in 1 .. c : k \in 1 .. n /\ moved[k] = timers[k]
  <2>1. 1 \in Int /\ c \in Int /\ \A k \in 1 .. c : timers[k] \in Timer
    BY <1>1, <1>2
  <2>2. /\ SubSeq(timers, 1, c) \in Seq(Timer)
        /\ Len(SubSeq(timers, 1, c)) = IF 1 <= c THEN c - 1 + 1 ELSE 0
        /\ \A k \in 1 .. c - 1 + 1 : SubSeq(timers, 1, c)[k] = timers[1 + k - 1]
    BY ONLY <2>1, SubSeqProperties
  <2> QED
    BY <2>2, <1>1, <1>2
<1> HIDE DEF moved
<1>6. /\ deferred' \in Seq(Timer) /\ DOMAIN deferred' = 1 .. m + c
      /\ \A k \in 1 .. m + c : deferred'[k] = IF k <= m THEN deferred[k] ELSE timers[k - m]
  <2>1. /\ deferred \o moved \in Seq(Timer)
        /\ Len(deferred \o moved) = Len(deferred) + Len(moved)
        /\ \A k \in 1 .. Len(deferred) + Len(moved) :
              (deferred \o moved)[k] = IF k <= Len(deferred) THEN deferred[k] ELSE moved[k - Len(deferred)]
    BY ONLY <1>1, <1>5, ConcatProperties
  <2>2. \A k \in 1 .. m + c : ~(k <= m) => k - m \in 1 .. c
    BY <1>1, <1>2
  <2> QED
    BY <2>1, <2>2, <1>3, <1>5, <1>1 DEF m
<1>7. \A k \in 1 .. m + c : k > m => k - m \in 1 .. n /\ k - m <= c /\ deferred'[k] = timers[k - m]
    BY <1>1, <1>2, <1>6
<1>8. \A i, j \in 1 .. n : timers[i] = timers[j] => i = j
    BY <1>1 DEF OnePlace
<1>9. \A i, j \in 1 .. m : deferred[i] = deferred[j] => i = j
    BY <1>1 DEF OnePlace
<1>10. \A i \in 1 .. n, j \in 1 .. m : timers[i] # deferred[j]
    BY <1>1 DEF OnePlace, Listed, Waiting
<1>11. Ordered'
  <2>1. SUFFICES ASSUME NEW i \in 1 .. n - c, NEW j \in 1 .. n - c, i <= j
                 PROVE  timer[timers'[i]].due <= timer[timers'[j]].due
    BY <1>3, <1>4 DEF Ordered
  <2>2. i + c \in 1 .. n /\ j + c \in 1 .. n /\ i + c <= j + c
    BY <2>1, <1>1, <1>2, <1>4
  <2>3. timer[timers[i + c]].due <= timer[timers[j + c]].due
    BY <2>2, <1>1 DEF Ordered
  <2> QED
    BY <2>3, <1>4
<1>12. \A i, j \in DOMAIN timers' : timers'[i] = timers'[j] => i = j
    BY <1>1, <1>2, <1>4, <1>8
<1>13. ASSUME NEW i \in 1 .. m + c, NEW j \in 1 .. m + c, deferred'[i] = deferred'[j] PROVE i = j
  <2>1. CASE i <= m /\ j <= m
    BY <2>1, <1>1, <1>6, <1>9, <1>13
  <2>2. CASE i > m /\ j > m
    <3>1. i - m = j - m
      BY <2>2, <1>7, <1>8, <1>13
    <3> QED
      BY <3>1, <1>1
  <2>3. CASE i <= m /\ j > m
    BY <2>3, <1>1, <1>6, <1>7, <1>10, <1>13
  <2>4. CASE i > m /\ j <= m
    BY <2>4, <1>1, <1>6, <1>7, <1>10, <1>13
  <2> QED
    BY <2>1, <2>2, <2>3, <2>4, <1>1, <1>2
<1>14. Listed' \cap Waiting' = {}
  <2>1. SUFFICES ASSUME NEW i \in 1 .. n - c, NEW j \in 1 .. m + c, timers'[i] = deferred'[j] PROVE FALSE
    BY <1>4, <1>6 DEF Listed, Waiting
  <2>2. CASE j <= m
    BY <2>1, <2>2, <1>1, <1>4, <1>6, <1>10
  <2>3. CASE j > m
    <3>1. i + c = j - m
      BY <2>1, <2>3, <1>4, <1>7, <1>8
    <3> QED
      BY <3>1, <2>3, <1>1, <1>2, <1>7
  <2> QED
    BY <2>2, <2>3, <1>1, <1>2
<1>15. Listed' \cup Waiting' = Listed \cup Waiting
  <2>1. ASSUME NEW x \in Listed' PROVE x \in Listed
    BY <1>1, <1>4 DEF Listed
  <2>2. ASSUME NEW x \in Waiting' PROVE x \in Listed \cup Waiting
    <3>1. PICK k \in 1 .. m + c : x = deferred'[k]
      BY <1>6 DEF Waiting
    <3>2. CASE k <= m
      BY <3>1, <3>2, <1>1, <1>2, <1>6 DEF Waiting
    <3>3. CASE k > m
      BY <3>1, <3>3, <1>1, <1>7 DEF Listed
    <3> QED
      BY <3>2, <3>3, <1>1, <1>2
  <2>3. ASSUME NEW x \in Waiting PROVE x \in Waiting'
    <3>1. PICK k \in 1 .. m : x = deferred[k]
      BY <1>1 DEF Waiting
    <3>2. k \in 1 .. m + c /\ deferred'[k] = x
      BY <3>1, <1>1, <1>2, <1>6
    <3> QED
      BY <3>2, <1>6 DEF Waiting
  <2>4. ASSUME NEW x \in Listed PROVE x \in Listed' \cup Waiting'
    <3>1. PICK k \in 1 .. n : x = timers[k]
      BY <1>1 DEF Listed
    <3>2. CASE k <= c
      <4>1. k + m \in 1 .. m + c /\ k + m > m /\ (k + m) - m = k
        BY <3>2, <1>1, <1>2
      <4>2. deferred'[k + m] = x
        BY <4>1, <3>1, <1>7
      <4> QED
        BY <4>1, <4>2, <1>6 DEF Waiting
    <3>3. CASE k > c
      <4>1. k - c \in 1 .. n - c /\ (k - c) + c = k
        BY <3>3, <1>1, <1>2
      <4>2. timers'[k - c] = x
        BY <4>1, <3>1, <1>4
      <4> QED
        BY <4>1, <4>2, <1>4 DEF Listed
    <3> QED
      BY <3>2, <3>3, <1>1, <1>2
  <2> QED
    BY <2>1, <2>2, <2>3, <2>4
<1> QED
    BY <1>4, <1>6, <1>11, <1>12, <1>13, <1>14, <1>15

\* A thread takes one task, and no other.
LEMMA Performed ==
    ASSUME TypeOK, OnePlace, fio_timer_perform_single
    PROVE  /\ deferred' \in Seq(Timer) /\ Head(deferred) \in Timer
           /\ \A i, j \in DOMAIN deferred' : deferred'[i] = deferred'[j] => i = j
           /\ Head(deferred) \in Waiting /\ Waiting' = Waiting \ {Head(deferred)}
<1> DEFINE m == Len(deferred)
<1>1. /\ m \in Nat \ {0} /\ DOMAIN deferred = 1 .. m /\ Head(deferred) = deferred[1]
      /\ \A k \in 1 .. m : deferred[k] \in Timer
  <2>1. deferred \in Seq(Timer) /\ deferred # <<>>
    BY DEF TypeOK, fio_timer_perform_single
  <2> QED
    BY ONLY <2>1
<1>2. /\ deferred' \in Seq(Timer) /\ DOMAIN deferred' = 1 .. m - 1
      /\ \A k \in 1 .. m - 1 : k + 1 \in 1 .. m /\ deferred'[k] = deferred[k + 1]
    BY DEF TypeOK, fio_timer_perform_single
<1> HIDE DEF m
<1>3. \A i, j \in 1 .. m : deferred[i] = deferred[j] => i = j
    BY <1>1 DEF OnePlace
<1>4. ASSUME NEW x \in Waiting' PROVE x \in Waiting \ {Head(deferred)}
  <2>1. PICK k \in 1 .. m - 1 : x = deferred'[k]
    BY <1>2 DEF Waiting
  <2>2. x = deferred[k + 1] /\ k + 1 \in 1 .. m /\ k + 1 # 1
    BY <2>1, <1>1, <1>2
  <2> QED
    BY <2>2, <1>1, <1>3 DEF Waiting
<1>5. ASSUME NEW x \in Waiting, x # Head(deferred) PROVE x \in Waiting'
  <2>1. PICK k \in 1 .. m : x = deferred[k]
    BY <1>1 DEF Waiting
  <2>2. k # 1
    BY <2>1, <1>5, <1>1
  <2>3. k - 1 \in 1 .. m - 1 /\ (k - 1) + 1 = k
    BY <2>2, <1>1
  <2>4. deferred'[k - 1] = x
    BY <2>1, <2>3, <1>2
  <2> QED
    BY <2>3, <2>4, <1>2 DEF Waiting
<1>6. \A i, j \in DOMAIN deferred' : deferred'[i] = deferred'[j] => i = j
    BY <1>1, <1>2, <1>3
<1>7. Head(deferred) \in Waiting
  <2>1. 1 \in 1 .. m
    BY <1>1
  <2> QED
    BY <2>1, <1>1 DEF Waiting
<1>8. Head(deferred) \in Timer
    BY <1>1
<1>9. Waiting' = Waiting \ {Head(deferred)}
    BY <1>4, <1>5
<1> QED
    BY <1>2, <1>6, <1>7, <1>8, <1>9

-----------------------------------------------------------------------------
\* The invariant.

LEMMA InvInit == Init => Inv
<1> SUFFICES ASSUME Init PROVE Inv
    OBVIOUS
<1>1. DOMAIN timers = {} /\ DOMAIN deferred = {} /\ timers \in Seq(Timer) /\ deferred \in Seq(Timer)
    BY DEF Init
<1>2. Listed = {} /\ Waiting = {}
    BY <1>1 DEF Listed, Waiting
<1>3. TypeOK
    BY <1>1 DEF Init, TypeOK
<1>4. Ordered /\ OnePlace
    BY <1>1, <1>2 DEF Init, Ordered, OnePlace
<1>5. RunsAsAsked /\ CountsDown
    BY DEF Init, RunsAsAsked, CountsDown
<1> QED
    BY <1>3, <1>4, <1>5 DEF Init, Inv

LEMMA RunEveryStep ==
    ASSUME Inv, NEW t \in Timer, NEW ms \in Interval, NEW n \in Repetitions,
           NEW now \in Nat, fio_run_every(t, ms, n, now)
    PROVE  Inv'
<1> USE DEF Inv
<1>1. ms \in Nat /\ n \in Nat /\ t \notin called /\ t \notin refused
    BY TimersAssumption DEF fio_run_every
<1>2. t \notin Listed /\ t \notin Waiting /\ t \notin running
    BY <1>1 DEF OnePlace
<1>3. /\ Waiting' = Waiting /\ running' = running /\ deferred' = deferred
      /\ runs' = runs /\ finished' = finished /\ cleared' = cleared
      /\ called' = called \cup {t} /\ asked' = [asked EXCEPT ![t] = n]
    BY DEF fio_run_every, Waiting
<1>4. CASE ms = 0 /\ n = 0
  <2>1. /\ refused' = refused \cup {t} /\ timers' = timers /\ timer' = timer
        /\ last_cycle' = last_cycle /\ active' = active
    BY <1>1, <1>4 DEF fio_run_every
  <2>2. TypeOK'
    BY <1>1, <1>3, <2>1 DEF TypeOK
  <2>3. Ordered' /\ Listed' = Listed
    BY <2>1 DEF Ordered, Listed
  <2>4. called' \ refused' = called \ refused
    BY <1>1, <1>3, <2>1
  <2>5. OnePlace'
    BY <1>3, <2>1, <2>3, <2>4 DEF OnePlace
  <2>6. asked' = asked
    BY <1>1, <1>3, <1>4 DEF TypeOK, CountsDown
  <2>7. RunsAsAsked' /\ CountsDown'
    BY <1>3, <2>1, <2>4, <2>6 DEF RunsAsAsked, CountsDown
  <2> QED
    BY <1>3, <2>1, <2>2, <2>3, <2>5, <2>7
<1>5. CASE ms # 0 \/ n # 0
  <2> DEFINE due == now + ms
  <2>1. /\ refused' = refused /\ last_cycle' = now /\ active' = active
        /\ timer' = [timer EXCEPT ![t] = [due |-> due, interval |-> ms, repetitions |-> n]]
        /\ fio_timer_add_order(t, due)
    BY <1>5 DEF fio_run_every, fio_timer_calc_due
  <2>2. due \in Nat
    BY <1>1
  <2> HIDE DEF due
  <2>3. timer'[t].due = due /\ \A u \in Timer : u # t => timer'[u].due = timer[u].due
    BY <2>1 DEF TypeOK
  <2>4. /\ timers' \in Seq(Timer) /\ Ordered' /\ Listed' = Listed \cup {t}
        /\ \A i, j \in DOMAIN timers' : timers'[i] = timers'[j] => i = j
    BY <1>2, <2>1, <2>2, <2>3, Inserting
  <2>5. TypeOK'
    BY <1>1, <1>3, <2>1, <2>2, <2>4 DEF TypeOK
  <2>6. finished[t] = 0 /\ runs[t] = 0
    BY <1>1 DEF CountsDown
  <2>7. called' \ refused' = (called \ refused) \cup {t}
    BY <1>1, <1>3, <2>1
  <2>8. OnePlace'
    BY <1>2, <1>3, <2>4, <2>6, <2>7 DEF OnePlace
  <2>9. ASSUME NEW u \in Timer
        PROVE  /\ finished'[u] <= 1
               /\ asked'[u] # 0 => runs'[u] <= asked'[u]
               /\ finished'[u] = 1 /\ ~cleared' => runs'[u] = asked'[u]
    <3>1. runs' = runs /\ finished' = finished /\ cleared' = cleared
      BY <1>3
    <3>2. CASE u = t
      <4>1. finished'[u] = 0 /\ runs'[u] = 0 /\ asked'[u] = n
        BY <1>3, <2>6, <3>2 DEF TypeOK
      <4> QED
        BY <4>1, <1>1
    <3>3. CASE u # t
      <4>1. asked'[u] = asked[u]
        BY <1>3, <3>3 DEF TypeOK
      <4> QED
        BY <3>1, <4>1 DEF RunsAsAsked
    <3> QED
      BY <3>2, <3>3
  <2>9a. RunsAsAsked'
    BY <2>9 DEF RunsAsAsked
  <2>10. CountsDown'
    <3>1. SUFFICES ASSUME NEW u \in Timer PROVE CountsDown!(u)'
      BY DEF CountsDown
    <3>2. CASE u = t
      BY <3>2, <1>1, <1>2, <1>3, <2>1, <2>6, <2>7 DEF TypeOK
    <3>3. CASE u # t
      BY <3>3, <1>3, <2>1, <2>7 DEF CountsDown, TypeOK
    <3> QED
      BY <3>2, <3>3
  <2> QED
    BY <1>3, <2>1, <2>4, <2>5, <2>8, <2>9a, <2>10
<1> QED
    BY <1>1, <1>4, <1>5

LEMMA ScheduleStep ==
    ASSUME Inv, NEW now \in Nat, fio_timer_schedule(now)
    PROVE  Inv'
<1> USE DEF Inv
<1>1. /\ last_cycle' = now /\ timer' = timer /\ running' = running /\ active' = active
      /\ cleared' = cleared /\ called' = called /\ asked' = asked /\ refused' = refused
      /\ runs' = runs /\ finished' = finished
    BY DEF fio_timer_schedule
<1>2. /\ timers' \in Seq(Timer) /\ deferred' \in Seq(Timer) /\ Ordered'
      /\ \A i, j \in DOMAIN timers' : timers'[i] = timers'[j] => i = j
      /\ \A i, j \in DOMAIN deferred' : deferred'[i] = deferred'[j] => i = j
      /\ Listed' \cap Waiting' = {}
      /\ Listed' \cup Waiting' = Listed \cup Waiting
    BY Scheduled
<1>3. TypeOK'
    BY <1>1, <1>2 DEF TypeOK
<1>4. OnePlace'
    BY <1>1, <1>2 DEF OnePlace
<1>5. RunsAsAsked' /\ CountsDown'
    BY <1>1 DEF RunsAsAsked, CountsDown
<1> QED
    BY <1>1, <1>2, <1>3, <1>4, <1>5

LEMMA PerformStep ==
    ASSUME Inv, fio_timer_perform_single
    PROVE  Inv'
<1> DEFINE t == Head(deferred)
<1> USE DEF Inv
<1>1. /\ last_cycle' = last_cycle /\ timers' = timers /\ timer' = timer /\ active' = active
      /\ cleared' = cleared /\ called' = called /\ asked' = asked /\ refused' = refused
      /\ finished' = finished /\ running' = running \cup {t}
      /\ runs' = [runs EXCEPT ![t] = @ + 1]
    BY DEF fio_timer_perform_single
<1>2. /\ deferred' \in Seq(Timer) /\ t \in Timer
      /\ \A i, j \in DOMAIN deferred' : deferred'[i] = deferred'[j] => i = j
      /\ t \in Waiting /\ Waiting' = Waiting \ {t}
    BY Performed
<1> HIDE DEF t
<1>3. t \notin Listed /\ t \notin running /\ t \in called \ refused /\ finished[t] = 0
    BY <1>2 DEF OnePlace
<1>4. Ordered' /\ Listed' = Listed
    BY <1>1 DEF Ordered, Listed
<1>5. runs[t] \in Nat /\ runs'[t] = runs[t] + 1 /\ \A u \in Timer : u # t => runs'[u] = runs[u]
    BY <1>1, <1>2 DEF TypeOK
<1>6. TypeOK'
    BY <1>1, <1>2, <1>5 DEF TypeOK
<1>7. OnePlace'
    BY <1>1, <1>2, <1>3, <1>4 DEF OnePlace
<1>8. asked[t] # 0 => /\ timer[t].repetitions # 0 /\ runs[t] + timer[t].repetitions = asked[t]
                      /\ asked[t] \in Nat /\ timer[t].repetitions \in Nat
    BY <1>2, <1>3 DEF CountsDown, TypeOK
<1>9. RunsAsAsked'
    BY <1>1, <1>2, <1>3, <1>5, <1>8 DEF RunsAsAsked
<1>10. CountsDown'
  <2>1. SUFFICES ASSUME NEW u \in Timer PROVE CountsDown!(u)'
    BY DEF CountsDown
  <2>2. CASE u = t
    BY <2>2, <1>1, <1>2, <1>3, <1>5, <1>8 DEF CountsDown
  <2>3. CASE u # t
    BY <2>3, <1>1, <1>5 DEF CountsDown
  <2> QED
    BY <2>2, <2>3
<1> QED
    BY <1>1, <1>4, <1>6, <1>7, <1>9, <1>10

LEMMA RescheduleStep ==
    ASSUME Inv, NEW t \in Timer, fio_timer_reschedule(t)
    PROVE  Inv'
<1> USE DEF Inv
<1> DEFINE due == fio_timer_calc_due(last_cycle, timer[t].interval)
           left == OneLess(timer[t].repetitions)
           again == [timer EXCEPT ![t] = [timer[t] EXCEPT !.due = due]]
<1>1. /\ last_cycle' = last_cycle /\ deferred' = deferred /\ active' = active
      /\ cleared' = cleared /\ called' = called /\ asked' = asked /\ refused' = refused
      /\ runs' = runs /\ finished' = finished /\ running' = running \ {t} /\ t \in running
      /\ timer[t].repetitions # 1 /\ fio_timer_add_order(t, due) /\ Waiting' = Waiting
    BY DEF fio_timer_reschedule, LastRepetition, Waiting
<1>2. timer' = [again EXCEPT ![t] = [again[t] EXCEPT !.repetitions = left]]
    BY DEF fio_timer_reschedule
<1>3. due \in Nat /\ left \in Nat /\ timer[t].repetitions \in Nat
    BY DEF fio_timer_calc_due, OneLess, TypeOK
<1>4. left = IF timer[t].repetitions = 0 THEN 0 ELSE timer[t].repetitions - 1
    BY DEF OneLess
<1> HIDE DEF due, left
<1>5. /\ again \in [Timer -> [due : Nat, interval : Nat, repetitions : Nat]]
       /\ again[t].due = due /\ \A u \in Timer : u # t => again[u] = timer[u]
    BY <1>3 DEF TypeOK
<1> HIDE DEF again
<1>6. /\ timer' \in [Timer -> [due : Nat, interval : Nat, repetitions : Nat]]
      /\ timer'[t].due = due /\ timer'[t].repetitions = left
      /\ \A u \in Timer : u # t => timer'[u] = timer[u]
    BY <1>2, <1>3, <1>5
<1>7. t \notin Listed /\ t \notin Waiting /\ t \in called \ refused /\ finished[t] = 0
    BY <1>1 DEF OnePlace
<1>8. /\ timers' \in Seq(Timer) /\ Ordered' /\ Listed' = Listed \cup {t}
      /\ \A i, j \in DOMAIN timers' : timers'[i] = timers'[j] => i = j
    BY <1>1, <1>3, <1>6, <1>7, Inserting
<1>9. TypeOK'
    BY <1>1, <1>6, <1>8 DEF TypeOK
<1>10. OnePlace'
    BY <1>1, <1>7, <1>8 DEF OnePlace
<1>11. RunsAsAsked'
    BY <1>1 DEF RunsAsAsked
<1>12. CountsDown'
  <2>1. SUFFICES ASSUME NEW u \in Timer PROVE CountsDown!(u)'
    BY DEF CountsDown
  <2>2. CASE u = t
    <3>1. CASE asked[t] = 0
      BY <2>2, <3>1, <1>1, <1>4, <1>6, <1>7 DEF CountsDown
    <3>2. CASE asked[t] # 0
      <4>1. timer[t].repetitions # 0 /\ runs[t] + timer[t].repetitions = asked[t] + 1
        BY <3>2, <1>1, <1>7 DEF CountsDown
      <4>2. runs[t] \in Nat /\ asked[t] \in Nat
        BY DEF TypeOK
      <4>3. left # 0 /\ runs[t] + left = asked[t]
        BY <4>1, <4>2, <1>1, <1>3, <1>4
      <4> QED
        BY <2>2, <3>2, <4>2, <4>3, <1>1, <1>6, <1>7
    <3> QED
      BY <3>1, <3>2
  <2>3. CASE u # t
    BY <2>3, <1>1, <1>6 DEF CountsDown
  <2> QED
    BY <2>2, <2>3
<1> QED
    BY <1>1, <1>8, <1>9, <1>10, <1>11, <1>12

LEMMA FinishStep ==
    ASSUME Inv, NEW t \in Timer, fio_timer_finish(t)
    PROVE  Inv'
<1> USE DEF Inv
<1>1. /\ last_cycle' = last_cycle /\ timers' = timers /\ deferred' = deferred /\ active' = active
      /\ cleared' = cleared /\ called' = called /\ asked' = asked /\ refused' = refused
      /\ runs' = runs /\ running' = running \ {t} /\ t \in running /\ timer[t].repetitions = 1
      /\ timer' = [timer EXCEPT ![t] = [timer[t] EXCEPT !.repetitions = 0]]
      /\ finished' = [finished EXCEPT ![t] = @ + 1]
    BY DEF fio_timer_finish, LastRepetition, TypeOK
<1>2. t \notin Listed /\ t \notin Waiting /\ t \in called \ refused /\ finished[t] = 0
    BY <1>1 DEF OnePlace
<1>3. finished'[t] = 1 /\ \A u \in Timer : u # t => finished'[u] = finished[u]
    BY <1>1, <1>2 DEF TypeOK
<1>4. /\ \A u \in Timer : timer'[u].due = timer[u].due
      /\ \A u \in Timer : u # t => timer'[u] = timer[u]
      /\ timer'[t].repetitions = 0
    BY <1>1 DEF TypeOK
<1>5. TypeOK'
  <2>1. timer' \in [Timer -> [due : Nat, interval : Nat, repetitions : Nat]]
    BY <1>1 DEF TypeOK
  <2>2. finished' \in [Timer -> Nat]
    BY <1>1 DEF TypeOK
  <2> QED
    BY <1>1, <2>1, <2>2 DEF TypeOK
<1>6. Ordered'
    BY <1>1, <1>4 DEF Ordered, TypeOK
<1>7. Listed' = Listed /\ Waiting' = Waiting
    BY <1>1 DEF Listed, Waiting
<1>8. OnePlace'
    BY <1>1, <1>2, <1>3, <1>7 DEF OnePlace, TypeOK
<1>9. asked[t] # 0 /\ runs[t] = asked[t]
    BY <1>1, <1>2 DEF CountsDown, TypeOK
<1>10. RunsAsAsked'
    BY <1>1, <1>3, <1>9 DEF RunsAsAsked
<1>11. CountsDown'
    BY <1>1, <1>2, <1>3, <1>4, <1>9 DEF CountsDown
<1> QED
    BY <1>1, <1>5, <1>6, <1>8, <1>10, <1>11

LEMMA ClearStep ==
    ASSUME Inv, fio_timer_clear_all
    PROVE  Inv'
<1> USE DEF Inv
<1>1. /\ last_cycle' = last_cycle /\ timer' = timer /\ deferred' = deferred /\ active' = active
      /\ cleared' = TRUE /\ called' = called /\ asked' = asked /\ refused' = refused
      /\ runs' = runs /\ running' = running /\ timers' = <<>>
      /\ finished' = [t \in Timer |-> IF t \in Listed THEN finished[t] + 1 ELSE finished[t]]
    BY DEF fio_timer_clear_all, FinishListed
<1>2. DOMAIN timers' = {} /\ Listed' = {} /\ timers' \in Seq(Timer) /\ Waiting' = Waiting
    BY <1>1 DEF Listed, Waiting
<1>3. Waiting = {} /\ running = {}
    BY DEF fio_timer_clear_all, Drained, Waiting
<1>4. TypeOK'
    BY <1>1, <1>2 DEF TypeOK
<1>5. Ordered'
    BY <1>2 DEF Ordered
<1>6. \A t \in Timer : t \in Listed <=> (t \in called \ refused /\ finished[t] = 0)
    BY <1>3 DEF OnePlace, TypeOK
<1>7. \A t \in Timer : /\ t \in called \ refused => finished'[t] = 1
                       /\ t \notin called \ refused => finished'[t] = 0
  <2> TAKE t \in Timer
  <2>1. finished[t] \in Nat /\ finished[t] <= 1
    BY DEF RunsAsAsked, TypeOK
  <2> QED
    BY <2>1, <1>1, <1>6 DEF CountsDown
<1>8. {t \in called' \ refused' : finished'[t] = 0} = {}
    BY <1>1, <1>7 DEF TypeOK
<1>9. OnePlace'
    BY <1>1, <1>2, <1>3, <1>8 DEF OnePlace
<1>10. RunsAsAsked'
    BY <1>1, <1>7 DEF RunsAsAsked
<1>11. CountsDown'
    BY <1>1, <1>7 DEF CountsDown
<1> QED
    BY <1>1, <1>4, <1>5, <1>9, <1>10, <1>11

LEMMA InvStep == Inv /\ [Next]_vars => Inv'
<1> SUFFICES ASSUME Inv, [Next]_vars PROVE Inv'
    OBVIOUS
<1>1. ASSUME NEW t \in Timer, NEW ms \in Interval, NEW n \in Repetitions, NEW now \in Time,
             fio_run_every(t, ms, n, now)
      PROVE  Inv'
    BY <1>1, RunEveryStep, TimersAssumption
<1>2. ASSUME NEW now \in Time, fio_timer_schedule(now) PROVE Inv'
    BY <1>2, ScheduleStep, TimersAssumption
<1>3. CASE fio_timer_perform_single
    BY <1>3, PerformStep
<1>4. ASSUME NEW t \in Timer, fio_timer_reschedule(t) PROVE Inv'
    BY <1>4, RescheduleStep
<1>5. ASSUME NEW t \in Timer, fio_timer_finish(t) PROVE Inv'
    BY <1>5, FinishStep
<1>6. CASE fio_timer_clear_all
    BY <1>6, ClearStep
<1>7. CASE fio_stop \/ UNCHANGED vars
  <2>1. /\ last_cycle' = last_cycle /\ timers' = timers /\ timer' = timer /\ deferred' = deferred
        /\ running' = running /\ cleared' = cleared /\ called' = called /\ asked' = asked
        /\ refused' = refused /\ runs' = runs /\ finished' = finished /\ active' \in BOOLEAN
    BY <1>7 DEF fio_stop, vars, Inv, TypeOK
  <2>2. Listed' = Listed /\ Waiting' = Waiting
    BY <2>1 DEF Listed, Waiting
  <2>3. TypeOK' /\ Ordered'
    BY <2>1 DEF Inv, TypeOK, Ordered
  <2>4. OnePlace'
    BY <2>1, <2>2 DEF Inv, OnePlace
  <2>5. RunsAsAsked'
    BY <1>7 DEF fio_stop, vars, Inv, RunsAsAsked
  <2>6. CountsDown'
    BY <2>1 DEF Inv, CountsDown
  <2> QED
    BY <2>1, <2>3, <2>4, <2>5, <2>6 DEF Inv
<1> QED
    BY <1>1, <1>2, <1>3, <1>4, <1>5, <1>6, <1>7 DEF Next

LEMMA InvAlways == Spec => []Inv
<1> QED
    BY InvInit, InvStep, PTL DEF Spec

-----------------------------------------------------------------------------
\* fio_timer_add_order and fio_timer_perform_single, for every set of timers and every
\* probe limit: the list is ordered, a timer is in one place only, its task runs as
\* often as asked and its on_finish is called at most once.
THEOREM TimersSafety == Spec => []TimersSound
<1>1. Inv => TimersSound
    BY DEF Inv, TimersSound
<1> QED
    BY <1>1, InvAlways, PTL
=============================================================================
