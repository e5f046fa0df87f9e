----------------------------- MODULE RedisProofs -----------------------------
(***************************************************************************)
(* Theorems about the Redis engine, for any commands and any bounds: it is *)
(* freed with its last user, the server knows the subscribed names after   *)
(* every loss, and no command first runs before one that was sent earlier. *)
(***************************************************************************)
EXTENDS Redis, Functions, FiniteSetTheorems, WellFoundedInduction, SequenceTheorems, TLAPS

Item == Cmd \cup {"AUTH", "PING"}
Word == {"SUBSCRIBE", "UNSUBSCRIBE"} \X Name

TypedConns ==
    /\ uuid \in [Link -> {"none", "connecting", "up"}]
    /\ closing \in BOOLEAN /\ flag \in BOOLEAN /\ created \in BOOLEAN
    /\ tasks \in [Link -> Nat] /\ ref \in Int
TypedCmds ==
    /\ queue \in Seq(Item) /\ wire \in Seq(Item) /\ replies \in Seq(Item) /\ executed \in Seq(Item)
    /\ pub_sent \in BOOLEAN
    /\ mail \in Seq(Cmd) /\ attached \in Seq(Cmd) /\ IsInjective(attached)
TypedSubs == chans \in SUBSET Name /\ srv \in SUBSET Name /\ subwire \in Seq(Word)

-----------------------------------------------------------------------------
(* References.                                                             *)

One(b) == IF b THEN 1 ELSE 0
Users == One(created) + tasks["pub"] + tasks["sub"] + One(uuid["pub"] # "none") + One(uuid["sub"] # "none")
Counted == ref = Users /\ (closing => uuid["sub"] # "none")

-----------------------------------------------------------------------------
(* Subscriptions.                                                          *)

\* What a server subscribed to S knows of name n when it has read q.
Silent(q, n) == \A j \in DOMAIN q : q[j][2] # n
Heard(q, S, n) ==
    \/ n \in S /\ Silent(q, n)
    \/ \E i \in DOMAIN q : /\ q[i] = <<"SUBSCRIBE", n>>
                           /\ \A j \in DOMAIN q : q[j][2] = n => j <= i

\* An open connection's server will know the channels; one being made, no other.
Knows ==
    /\ uuid["sub"] = "none" => subwire = <<>>
    /\ uuid["sub"] # "up" => srv = {}
    /\ \A n \in Name : Heard(subwire, srv, n) => n \in chans
    /\ uuid["sub"] = "up" => \A n \in chans : Heard(subwire, srv, n)

-----------------------------------------------------------------------------
(* Commands.                                                               *)

\* Of the commands `at`, in the order they were sent, d were answered, the next are in the
\* queue q behind p entries of the engine's own, the last in the mail ml.
Line(at, ml, q, d, p) ==
    /\ Len(at) = d + (Len(q) - p) + Len(ml)
    /\ \A i \in 1 .. p : q[i] \notin Cmd
    /\ \A i \in p + 1 .. Len(q) : q[i] = at[d + (i - p)]
    /\ \A i \in 1 .. Len(ml) : ml[i] = at[(Len(at) - Len(ml)) + i]

\* Of what was written (h), nothing comes after the first command in the queue, and what
\* was written later was not sent earlier.
Bounded(at, h, n) == \A i \in DOMAIN h : h[i] \in Cmd => \E k \in DOMAIN at : k <= n /\ at[k] = h[i]
InOrder(at, h) ==
    \A i, j \in DOMAIN h : \A k, l \in DOMAIN at : i <= j /\ at[k] = h[i] /\ at[l] = h[j] => k <= l

Fit(at, ml, q, h) ==
    \E d \in 0 .. Len(at), p \in 0 .. Len(q) :
        Line(at, ml, q, d, p) /\ Bounded(at, h, d + 1) /\ InOrder(at, h)

Orderly == Fit(attached, mail, queue, executed \o wire)

ConnsInv == TypedConns /\ Counted
SubsInv == TypedSubs /\ Knows
CmdsInv == TypedCmds /\ Orderly
Inv == ConnsInv /\ SubsInv /\ CmdsInv

-----------------------------------------------------------------------------
(* Queues in line with the commands that were sent.                        *)

\* The entries of a queue without its head, and with one more at its end or its front.
LEMMA TailIs ==
    ASSUME NEW S, NEW q \in Seq(S), q # <<>>
    PROVE  /\ Tail(q) \in Seq(S) /\ Head(q) \in S /\ Head(q) = q[1] /\ Len(q) \in Nat /\ Len(q) >= 1
           /\ Len(Tail(q)) = Len(q) - 1 /\ DOMAIN q = 1 .. Len(q) /\ DOMAIN Tail(q) = 1 .. Len(q) - 1
           /\ \A i \in 1 .. Len(q) - 1 : Tail(q)[i] = q[i + 1]
    BY HeadTailProperties, EmptySeq

LEMMA AppendIs ==
    ASSUME NEW S, NEW q \in Seq(S), NEW x \in S
    PROVE  /\ Append(q, x) \in Seq(S) /\ Len(q) \in Nat /\ Len(Append(q, x)) = Len(q) + 1
           /\ DOMAIN q = 1 .. Len(q) /\ DOMAIN Append(q, x) = 1 .. Len(q) + 1
           /\ \A i \in 1 .. Len(q) : Append(q, x)[i] = q[i]
           /\ Append(q, x)[Len(q) + 1] = x
    BY AppendProperties, LenProperties

LEMMA FrontIs ==
    ASSUME NEW S, NEW q \in Seq(S), NEW x \in S
    PROVE  /\ <<x>> \o q \in Seq(S) /\ Len(q) \in Nat /\ Len(<<x>> \o q) = Len(q) + 1
           /\ (<<x>> \o q)[1] = x
           /\ \A i \in 2 .. Len(q) + 1 : (<<x>> \o q)[i] = q[i - 1]
<1>1. PICK r : r = <<x>>
    OBVIOUS
<1>2. r \in Seq(S) /\ Len(r) = 1 /\ r[1] = x
    BY <1>1
<1>3. PICK n \in Nat : n = Len(q)
    BY LenProperties
<1>4. PICK u : u = r \o q
    OBVIOUS
<1>5. /\ u \in Seq(S) /\ Len(u) = 1 + n
      /\ \A i \in 1 .. 1 + n : u[i] = IF i <= 1 THEN r[i] ELSE q[i - 1]
    BY <1>2, <1>3, <1>4, ConcatProperties
<1>6. u[1] = x
    BY <1>2, <1>5
<1>7. \A i \in 2 .. n + 1 : u[i] = q[i - 1]
    BY <1>5
<1> QED
    BY <1>1, <1>3, <1>4, <1>5, <1>6, <1>7

LEMMA ConcatIs ==
    ASSUME NEW S, NEW q \in Seq(S), NEW r \in Seq(S),
           NEW n, n = Len(q), NEW m, m = Len(r), NEW u, u = q \o r
    PROVE  /\ u \in Seq(S) /\ n \in Nat /\ m \in Nat /\ Len(u) = n + m
           /\ DOMAIN q = 1 .. n /\ DOMAIN r = 1 .. m /\ DOMAIN u = 1 .. n + m
           /\ \A i \in 1 .. n : u[i] = q[i]
           /\ \A i \in 1 .. m : u[n + i] = r[i]
    BY ConcatProperties, LenProperties

\* The server executes the first of what was written: all that was written stays the same.
LEMMA MovesOn ==
    ASSUME NEW S, NEW q \in Seq(S), NEW r \in Seq(S), r # <<>>
    PROVE  Append(q, Head(r)) \o Tail(r) = q \o r
<1>1. PICK x, u : x = Head(r) /\ u = Tail(r)
    OBVIOUS
<1>2. PICK e, v : e = Append(q, x) /\ v = q \o r
    OBVIOUS
<1>3. PICK w : w = e \o u
    OBVIOUS
<1>4. PICK n \in Nat, m \in Nat : n = Len(q) /\ m = Len(r)
    BY LenProperties
<1>5. PICK l \in Nat : l = m - 1
    BY <1>4, TailIs
<1>6. /\ u \in Seq(S) /\ x \in S /\ x = r[1] /\ Len(u) = l /\ \A i \in 1 .. l : u[i] = r[i + 1]
    BY <1>1, <1>4, <1>5, TailIs
<1>7. PICK k \in Nat : k = n + 1
    OBVIOUS
<1>7a. e \in Seq(S) /\ Len(e) = k /\ (\A i \in 1 .. n : e[i] = q[i]) /\ e[k] = x
    BY <1>2, <1>4, <1>6, <1>7, AppendIs
<1>8. /\ w \in Seq(S) /\ Len(w) = k + l
      /\ (\A i \in 1 .. k : w[i] = e[i]) /\ \A i \in 1 .. l : w[k + i] = u[i]
  <2>1. e \in Seq(S) /\ u \in Seq(S) /\ k = Len(e) /\ l = Len(u)
    BY <1>6, <1>7a
  <2> QED
    BY <2>1, <1>3, ConcatIs
<1>9. /\ v \in Seq(S) /\ Len(v) = n + m
      /\ (\A i \in 1 .. n : v[i] = q[i]) /\ \A i \in 1 .. m : v[n + i] = r[i]
    BY <1>2, <1>4, ConcatIs
<1>10. ASSUME NEW i \in 1 .. n + m PROVE w[i] = v[i]
  <2>1. CASE i \in 1 .. n
    BY <2>1, <1>7, <1>7a, <1>8, <1>9
  <2>2. CASE i = n + 1
    <3>1. v[n + 1] = r[1] /\ w[n + 1] = x
      BY <2>2, <1>7, <1>7a, <1>8, <1>9
    <3> QED
      BY <2>2, <3>1, <1>6
  <2>3. CASE i \in n + 2 .. n + m
    <3>1. PICK j \in 1 .. l : i = k + j
      BY <2>3, <1>5, <1>7
    <3>2. w[i] = r[j + 1]
      BY <3>1, <1>6, <1>8
    <3>3. PICK o \in 1 .. m : o = j + 1
      BY <1>5
    <3>4. v[n + o] = r[o] /\ n + o = i
      BY <3>1, <3>3, <1>7, <1>9
    <3> QED
      BY <3>2, <3>3, <3>4
  <2> QED
    BY <2>1, <2>2, <2>3
<1>11. w = v
  <2>1. Len(w) = n + m
    BY <1>5, <1>7, <1>8
  <2> QED
    BY <2>1, <1>8, <1>9, <1>10, SeqEqual
<1> QED
    BY <1>1, <1>2, <1>3, <1>11

LEMMA WritesMore ==
    ASSUME NEW S, NEW q \in Seq(S), NEW r \in Seq(S), NEW x \in S
    PROVE  q \o Append(r, x) = Append(q \o r, x)
<1>1. PICK u, v : u = Append(r, x) /\ v = q \o r
    OBVIOUS
<1>2. PICK w, e : w = q \o u /\ e = Append(v, x)
    OBVIOUS
<1>3. PICK n \in Nat, m \in Nat : n = Len(q) /\ m = Len(r)
    BY LenProperties
<1>4a. PICK k \in Nat : k = m + 1
    OBVIOUS
<1>4. u \in Seq(S) /\ Len(u) = k /\ (\A i \in 1 .. m : u[i] = r[i]) /\ u[k] = x
    BY <1>1, <1>3, <1>4a, AppendIs
<1>5. v \in Seq(S) /\ Len(v) = n + m /\ (\A i \in 1 .. n : v[i] = q[i]) /\ \A i \in 1 .. m : v[n + i] = r[i]
    BY <1>1, <1>3, ConcatIs
<1>6. /\ w \in Seq(S) /\ Len(w) = n + k
      /\ (\A i \in 1 .. n : w[i] = q[i]) /\ \A i \in 1 .. k : w[n + i] = u[i]
  <2>1. u \in Seq(S) /\ k = Len(u)
    BY <1>4
  <2> QED
    BY <2>1, <1>2, <1>3, ConcatIs
<1>7. /\ e \in Seq(S) /\ Len(e) = n + m + 1
      /\ (\A i \in 1 .. n + m : e[i] = v[i]) /\ e[n + m + 1] = x
    BY <1>2, <1>5, AppendIs
<1>8. ASSUME NEW i \in 1 .. n + m + 1 PROVE w[i] = e[i]
  <2>1. CASE i \in 1 .. n
    BY <2>1, <1>5, <1>6, <1>7
  <2>2. CASE i = n + m + 1
    <3>1. w[n + k] = x
      BY <1>4, <1>4a, <1>6
    <3> QED
      BY <2>2, <3>1, <1>4a, <1>7
  <2>3. CASE i \in n + 1 .. n + m
    <3>1. PICK j \in 1 .. m : i = n + j
      BY <2>3
    <3>2. w[n + j] = r[j] /\ v[n + j] = r[j] /\ n + j \in 1 .. n + m
      BY <3>1, <1>4, <1>4a, <1>5, <1>6
    <3> QED
      BY <3>1, <3>2, <1>7
  <2> QED
    BY <2>1, <2>2, <2>3
<1>9. w = e
    BY <1>4a, <1>6, <1>7, <1>8, SeqEqual
<1> QED
    BY <1>1, <1>2, <1>9

\* The same sequence h is bounded further on.
LEMMA BoundsFurther ==
    ASSUME NEW at, NEW h, NEW n \in Int, NEW m \in Int, n <= m, at \in Seq(Cmd), Bounded(at, h, n)
    PROVE  Bounded(at, h, m)
<1>1. DOMAIN at \subseteq Nat
    BY LenProperties
<1> QED
    BY <1>1 DEF Bounded

\* A command leaves the queue when an answer comes, whoever's it is.
LEMMA Pops ==
    ASSUME NEW at \in Seq(Cmd), NEW ml \in Seq(Cmd), NEW q \in Seq(Item), q # <<>>, NEW h, Fit(at, ml, q, h)
    PROVE  Fit(at, ml, Tail(q), h)
<1>0. PICK a \in Nat, m \in Nat, n \in Nat : a = Len(at) /\ m = Len(ml) /\ n = Len(q)
    BY LenProperties
<1>1. PICK r : r = Tail(q)
    OBVIOUS
<1>2. r \in Seq(Item) /\ n >= 1 /\ Len(r) = n - 1 /\ \A i \in 1 .. n - 1 : r[i] = q[i + 1]
    BY <1>0, <1>1, TailIs
<1>3. PICK d \in 0 .. a, p \in 0 .. n : Line(at, ml, q, d, p) /\ Bounded(at, h, d + 1) /\ InOrder(at, h)
    BY <1>0 DEF Fit
<1>4. /\ a = d + (n - p) + m
      /\ \A i \in 1 .. p : q[i] \notin Cmd
      /\ \A i \in p + 1 .. n : q[i] = at[d + (i - p)]
      /\ \A i \in 1 .. m : ml[i] = at[(a - m) + i]
    BY <1>0, <1>3 DEF Line
<1>5. SUFFICES ASSUME NEW e \in 0 .. a, NEW o \in 0 .. n - 1, d <= e,
                      n - 1 - o + e = n - p + d, o = p - 1 \/ (o = 0 /\ p = 0)
               PROVE  Line(at, ml, r, e, o) /\ Bounded(at, h, e + 1)
  <2>1. CASE p = 0
    <3>1. PICK e \in 0 .. a : e = d + 1
      BY <1>2, <1>4, <2>1
    <3>2. PICK o \in 0 .. n - 1 : o = 0
      BY <1>2
    <3>3. Line(at, ml, r, e, o) /\ Bounded(at, h, e + 1)
      BY <1>5, <2>1, <3>1, <3>2
    <3> QED
      BY <1>0, <1>1, <1>2, <1>3, <3>3 DEF Fit
  <2>2. CASE p # 0
    <3>1. PICK o \in 0 .. n - 1 : o = p - 1
      BY <1>2, <2>2
    <3>2. Line(at, ml, r, d, o) /\ Bounded(at, h, d + 1)
      BY <1>5, <2>2, <3>1
    <3> QED
      BY <1>0, <1>1, <1>2, <1>3, <3>2 DEF Fit
  <2> QED
    BY <2>1, <2>2
<1>6. \A i \in 1 .. o : r[i] \notin Cmd
  <2>1. SUFFICES ASSUME NEW i \in 1 .. o PROVE r[i] \notin Cmd
    OBVIOUS
  <2>2. r[i] = q[i + 1]
    BY <1>2
  <2>3. PICK j \in 1 .. p : j = i + 1
    BY <1>4, <1>5
  <2>4. q[j] \notin Cmd
    BY <1>4, <2>3
  <2> QED
    BY <2>2, <2>3, <2>4
<1>7. \A i \in o + 1 .. n - 1 : r[i] = at[e + (i - o)]
  <2>1. SUFFICES ASSUME NEW i \in o + 1 .. n - 1 PROVE r[i] = at[e + (i - o)]
    OBVIOUS
  <2>2. r[i] = q[i + 1] /\ i + 1 \in p + 1 .. n
    BY <1>2, <1>5
  <2>3. d + ((i + 1) - p) = e + (i - o)
    BY <1>5
  <2> QED
    BY <2>2, <2>3, <1>4
<1>8. a = e + ((n - 1) - o) + m
    BY <1>4, <1>5
<1>9. Line(at, ml, r, e, o)
    BY <1>0, <1>2, <1>4, <1>6, <1>7, <1>8 DEF Line
<1>10. Bounded(at, h, e + 1)
    BY <1>3, <1>5, BoundsFurther
<1> QED
    BY <1>9, <1>10

\* The command at the head of the queue is written: it comes after all that was written.
LEMMA SendNext ==
    ASSUME NEW at \in Seq(Cmd), IsInjective(at), NEW ml \in Seq(Cmd), NEW q \in Seq(Item), q # <<>>,
           NEW h \in Seq(Item), Fit(at, ml, q, h)
    PROVE  Fit(at, ml, q, Append(h, Head(q)))
<1>0. PICK a \in Nat, m \in Nat, n \in Nat, b \in Nat : a = Len(at) /\ m = Len(ml) /\ n = Len(q) /\ b = Len(h)
    BY LenProperties
<1>1. PICK x : x = Head(q)
    OBVIOUS
<1>2. x \in Item /\ x = q[1] /\ n >= 1
    BY <1>0, <1>1, TailIs
<1>3. PICK g : g = Append(h, x)
    OBVIOUS
<1>4. PICK o \in Nat : o = b + 1
    OBVIOUS
<1>5. /\ g \in Seq(Item) /\ DOMAIN g = 1 .. o /\ DOMAIN h = 1 .. b
      /\ (\A i \in 1 .. b : g[i] = h[i]) /\ g[o] = x
    BY <1>0, <1>2, <1>3, <1>4, AppendIs
<1>6. PICK d \in 0 .. a, p \in 0 .. n : Line(at, ml, q, d, p) /\ Bounded(at, h, d + 1) /\ InOrder(at, h)
    BY <1>0 DEF Fit
<1>7. DOMAIN at = 1 .. a /\ \A k, l \in 1 .. a : at[k] = at[l] => k = l
  <2>1. DOMAIN at = 1 .. a
    BY <1>0, LenProperties
  <2> QED
    BY <2>1 DEF IsInjective
<1>8. x \in Cmd => d + 1 \in 1 .. a /\ at[d + 1] = x
  <2>1. SUFFICES ASSUME x \in Cmd PROVE d + 1 \in 1 .. a /\ at[d + 1] = x
    OBVIOUS
  <2>2. /\ a = d + (n - p) + m
        /\ \A i \in 1 .. p : q[i] \notin Cmd
        /\ \A i \in p + 1 .. n : q[i] = at[d + (i - p)]
    BY <1>0, <1>6 DEF Line
  <2>3. p = 0
    BY <1>2, <1>6, <2>1, <2>2
  <2>4. 1 \in p + 1 .. n /\ d + (1 - p) = d + 1
    BY <1>2, <1>6, <2>3
  <2> QED
    BY <1>2, <1>6, <2>2, <2>3, <2>4
<1>9. Bounded(at, g, d + 1)
  <2>1. SUFFICES ASSUME NEW i \in 1 .. o, g[i] \in Cmd PROVE \E k \in 1 .. a : k <= d + 1 /\ at[k] = g[i]
    BY <1>5, <1>7 DEF Bounded
  <2>2. CASE i = o
    BY <1>5, <1>8, <2>1, <2>2
  <2>3. CASE i \in 1 .. b
    BY <1>5, <1>6, <1>7, <2>1, <2>3 DEF Bounded
  <2> QED
    BY <1>4, <2>2, <2>3
<1>10. InOrder(at, g)
  <2>1. SUFFICES ASSUME NEW i \in 1 .. o, NEW j \in 1 .. o, NEW k \in 1 .. a, NEW l \in 1 .. a,
                        i <= j, at[k] = g[i], at[l] = g[j]
                 PROVE  k <= l
    BY <1>5, <1>7 DEF InOrder
  <2>2. CASE i = o
    <3>1. j = o
      BY <2>1, <2>2
    <3> QED
      BY <1>7, <2>1, <2>2, <3>1
  <2>3. CASE i \in 1 .. b /\ j \in 1 .. b
    BY <1>5, <1>6, <1>7, <2>1, <2>3 DEF InOrder
  <2>4. CASE i \in 1 .. b /\ j = o
    <3>1. x \in Cmd
      <4>1. at[l] \in Cmd
        BY <1>0, ElementOfSeq
      <4> QED
        BY <1>5, <2>1, <2>4, <4>1
    <3>2. l = d + 1
      BY <1>5, <1>7, <1>8, <2>1, <2>4, <3>1
    <3>3. h[i] \in Cmd
      <4>1. at[k] \in Cmd
        BY <1>0, ElementOfSeq
      <4> QED
        BY <1>5, <2>1, <2>4, <4>1
    <3>4. PICK c \in 1 .. a : c <= d + 1 /\ at[c] = h[i]
      BY <1>5, <1>6, <1>7, <2>4, <3>3 DEF Bounded
    <3>5. k = c
      BY <1>5, <1>7, <2>1, <2>4, <3>4
    <3> QED
      BY <3>2, <3>4, <3>5
  <2> QED
    BY <1>4, <2>2, <2>3, <2>4
<1>11. Fit(at, ml, q, g)
    BY <1>0, <1>6, <1>9, <1>10 DEF Fit
<1> QED
    BY <1>1, <1>3, <1>11

\* The server's view loses its end when the connection is lost.
LEMMA Cut ==
    ASSUME NEW at, NEW ml, NEW q, NEW g \in Seq(Item), NEW r \in Seq(Item), Fit(at, ml, q, g \o r)
    PROVE  Fit(at, ml, q, g)
<1>1. PICK h : h = g \o r
    OBVIOUS
<1>2. PICK n, m : n = Len(g) /\ m = Len(r)
    OBVIOUS
<1>3. n \in Nat /\ m \in Nat /\ DOMAIN g = 1 .. n /\ DOMAIN h = 1 .. n + m /\ \A i \in 1 .. n : h[i] = g[i]
    BY <1>1, <1>2, ConcatIs
<1>4. 1 .. n \subseteq 1 .. n + m
    BY <1>3
<1>5. \A k : Bounded(at, h, k) => Bounded(at, g, k)
    BY <1>3, <1>4 DEF Bounded
<1>6. InOrder(at, h) => InOrder(at, g)
    BY <1>3, <1>4 DEF InOrder
<1> QED
    BY <1>1, <1>5, <1>6 DEF Fit

\* The oldest mail joins the queue.
LEMMA Push ==
    ASSUME NEW at \in Seq(Cmd), NEW ml \in Seq(Cmd), ml # <<>>, NEW q \in Seq(Item), NEW h, Fit(at, ml, q, h)
    PROVE  Fit(at, Tail(ml), Append(q, Head(ml)), h)
<1>0. PICK a \in Nat, m \in Nat, n \in Nat : a = Len(at) /\ m = Len(ml) /\ n = Len(q)
    BY LenProperties
<1>1. PICK x, t, o : x = Head(ml) /\ t = Tail(ml) /\ o = n + 1
    OBVIOUS
<1>2. /\ m >= 1 /\ x \in Item /\ x = ml[1] /\ t \in Seq(Cmd) /\ Len(t) = m - 1
      /\ \A i \in 1 .. m - 1 : t[i] = ml[i + 1]
  <2>1. x \in Cmd
    BY <1>1, TailIs
  <2> QED
    BY <1>0, <1>1, <2>1, TailIs DEF Item
<1>3. PICK r : r = Append(q, x)
    OBVIOUS
<1>4. r \in Seq(Item) /\ Len(r) = o /\ (\A i \in 1 .. n : r[i] = q[i]) /\ r[o] = x
    BY <1>0, <1>1, <1>2, <1>3, AppendIs
<1>5. PICK d \in 0 .. a, p \in 0 .. n : Line(at, ml, q, d, p) /\ Bounded(at, h, d + 1) /\ InOrder(at, h)
    BY <1>0 DEF Fit
<1>6. /\ a = d + (n - p) + m
      /\ \A i \in 1 .. p : q[i] \notin Cmd
      /\ \A i \in p + 1 .. n : q[i] = at[d + (i - p)]
      /\ \A i \in 1 .. m : ml[i] = at[(a - m) + i]
    BY <1>0, <1>5 DEF Line
<1>7. a = d + (o - p) + (m - 1) /\ p \in 0 .. o
    BY <1>1, <1>6
<1>8. ASSUME NEW i \in 1 .. p PROVE r[i] \notin Cmd
  <2>1. i \in 1 .. n
    BY <1>5
  <2> QED
    BY <1>4, <1>6, <2>1
<1>9. ASSUME NEW i \in p + 1 .. o PROVE r[i] = at[d + (i - p)]
  <2>1. CASE i \in p + 1 .. n
    BY <1>4, <1>6, <2>1
  <2>2. CASE i = o
    <3>1. (a - m) + 1 = d + (i - p) /\ 1 \in 1 .. m
      BY <1>1, <1>2, <1>6, <2>2
    <3>2. ml[1] = at[(a - m) + 1]
      BY <1>6, <3>1
    <3> QED
      BY <1>2, <1>4, <2>2, <3>1, <3>2
  <2> QED
    BY <1>1, <2>1, <2>2
<1>10. ASSUME NEW i \in 1 .. m - 1 PROVE t[i] = at[(a - (m - 1)) + i]
  <2>1. (a - (m - 1)) + i = (a - m) + (i + 1) /\ i + 1 \in 1 .. m
    BY <1>2
  <2> QED
    BY <1>2, <1>6, <2>1
<1>11. Line(at, t, r, d, p)
    BY <1>0, <1>2, <1>4, <1>7, <1>8, <1>9, <1>10 DEF Line
<1> QED
    BY <1>0, <1>1, <1>3, <1>4, <1>5, <1>7, <1>11 DEF Fit

\* A command that was not sent yet is sent.
LEMMA Attach ==
    ASSUME NEW at \in Seq(Cmd), NEW ml \in Seq(Cmd), NEW q \in Seq(Item), NEW h \in Seq(Item),
           NEW c \in Cmd, \A i \in DOMAIN at : at[i] # c, Fit(at, ml, q, h)
    PROVE  Fit(Append(at, c), Append(ml, c), q, h)
<1>0. PICK a \in Nat, m \in Nat, n \in Nat : a = Len(at) /\ m = Len(ml) /\ n = Len(q)
    BY LenProperties
<1>1. PICK b, o : b = a + 1 /\ o = m + 1
    OBVIOUS
<1>2. PICK s, t : s = Append(at, c) /\ t = Append(ml, c)
    OBVIOUS
<1>3. /\ s \in Seq(Cmd) /\ Len(s) = b /\ DOMAIN at = 1 .. a /\ DOMAIN s = 1 .. b
      /\ (\A i \in 1 .. a : s[i] = at[i]) /\ s[b] = c
    BY <1>0, <1>1, <1>2, AppendIs
<1>4. t \in Seq(Cmd) /\ Len(t) = o /\ (\A i \in 1 .. m : t[i] = ml[i]) /\ t[o] = c
    BY <1>0, <1>1, <1>2, AppendIs
<1>5. PICK d \in 0 .. a, p \in 0 .. n : Line(at, ml, q, d, p) /\ Bounded(at, h, d + 1) /\ InOrder(at, h)
    BY <1>0 DEF Fit
<1>6. /\ a = d + (n - p) + m
      /\ \A i \in 1 .. p : q[i] \notin Cmd
      /\ \A i \in p + 1 .. n : q[i] = at[d + (i - p)]
      /\ \A i \in 1 .. m : ml[i] = at[(a - m) + i]
    BY <1>0, <1>5 DEF Line
<1>7. b = d + (n - p) + o /\ d \in 0 .. b
    BY <1>1, <1>6
<1>8. ASSUME NEW i \in p + 1 .. n PROVE q[i] = s[d + (i - p)]
  <2>1. d + (i - p) \in 1 .. a
    BY <1>6
  <2> QED
    BY <1>3, <1>6, <2>1
<1>9. ASSUME NEW i \in 1 .. o PROVE t[i] = s[(b - o) + i]
  <2>1. CASE i \in 1 .. m
    <3>1. (b - o) + i = (a - m) + i /\ (a - m) + i \in 1 .. a
      BY <1>1, <1>6, <2>1
    <3> QED
      BY <1>3, <1>4, <1>6, <2>1, <3>1
  <2>2. CASE i = o
    BY <1>1, <1>3, <1>4, <2>2
  <2> QED
    BY <1>1, <2>1, <2>2
<1>10. Line(s, t, q, d, p)
    BY <1>0, <1>3, <1>4, <1>6, <1>7, <1>8, <1>9 DEF Line
<1>11. Bounded(s, h, d + 1)
  <2>1. \A k \in 1 .. a : k \in 1 .. b /\ s[k] = at[k]
    BY <1>1, <1>3
  <2> QED
    BY <1>3, <1>5, <2>1 DEF Bounded
<1>12. ASSUME NEW i \in DOMAIN h, NEW k \in 1 .. b, s[k] = h[i]
       PROVE  k \in 1 .. a /\ at[k] = h[i]
  <2>1. h[i] \in Cmd
    BY <1>3, <1>12, ElementOfSeq
  <2>2. PICK l \in 1 .. a : at[l] = h[i]
    BY <1>3, <1>5, <2>1 DEF Bounded
  <2>3. k # b
    BY <1>3, <1>12, <2>2
  <2>4. k \in 1 .. a
    BY <1>1, <2>3
  <2> QED
    BY <1>3, <1>12, <2>4
<1>13. InOrder(s, h)
    BY <1>3, <1>5, <1>12 DEF InOrder
<1> QED
    BY <1>0, <1>2, <1>3, <1>5, <1>7, <1>10, <1>11, <1>13 DEF Fit

\* The engine puts an entry of its own in front.
LEMMA InFront ==
    ASSUME NEW at \in Seq(Cmd), NEW ml \in Seq(Cmd), NEW q \in Seq(Item), NEW h,
           NEW x \in Item, x \notin Cmd, Fit(at, ml, q, h)
    PROVE  Fit(at, ml, <<x>> \o q, h)
<1>0. PICK a \in Nat, m \in Nat, n \in Nat : a = Len(at) /\ m = Len(ml) /\ n = Len(q)
    BY LenProperties
<1>1. PICK r : r = <<x>> \o q
    OBVIOUS
<1>2. Len(r) = n + 1 /\ r[1] = x /\ \A i \in 2 .. n + 1 : r[i] = q[i - 1]
    BY <1>0, <1>1, FrontIs
<1>3. PICK d \in 0 .. a, p \in 0 .. n : Line(at, ml, q, d, p) /\ Bounded(at, h, d + 1) /\ InOrder(at, h)
    BY <1>0 DEF Fit
<1>4. PICK o \in 0 .. n + 1 : o = p + 1
    BY <1>3
<1>5. /\ a = d + (n - p) + m
      /\ \A i \in 1 .. p : q[i] \notin Cmd
      /\ \A i \in p + 1 .. n : q[i] = at[d + (i - p)]
      /\ \A i \in 1 .. m : ml[i] = at[(a - m) + i]
    BY <1>0, <1>3 DEF Line
<1>6. ASSUME NEW i \in 1 .. o PROVE r[i] \notin Cmd
  <2>1. CASE i = 1
    BY <1>2, <2>1
  <2>2. CASE i # 1
    <3>1. i \in 2 .. n + 1 /\ i - 1 \in 1 .. p
      BY <1>3, <1>4, <2>2
    <3> QED
      BY <1>2, <1>5, <3>1
  <2> QED
    BY <2>1, <2>2
<1>7. ASSUME NEW i \in o + 1 .. n + 1 PROVE r[i] = at[d + (i - o)]
  <2>1. i \in 2 .. n + 1 /\ i - 1 \in p + 1 .. n /\ d + ((i - 1) - p) = d + (i - o)
    BY <1>3, <1>4
  <2> QED
    BY <1>2, <1>5, <2>1
<1>8. a = d + ((n + 1) - o) + m
    BY <1>4, <1>5
<1>9. Line(at, ml, r, d, o)
    BY <1>0, <1>2, <1>5, <1>6, <1>7, <1>8 DEF Line
<1> QED
    BY <1>0, <1>1, <1>2, <1>3, <1>4, <1>9 DEF Fit

\* The head of the queue is written unless a command is outstanding or nothing is connected.
LEMMA Sends ==
    ASSUME executed \in Seq(Item), NEW at \in Seq(Cmd), IsInjective(at), NEW ml \in Seq(Cmd), NEW q \in Seq(Item),
           NEW w \in Seq(Item), NEW o \in BOOLEAN, Fit(at, ml, q, executed \o w),
           redis_send_next_command_unsafe(q, o, w)
    PROVE  /\ queue' = q /\ pub_sent' \in BOOLEAN /\ wire' \in Seq(Item)
           /\ Fit(at, ml, q, executed \o wire')
<1>1. queue' = q /\ pub_sent' \in BOOLEAN
    BY DEF redis_send_next_command_unsafe
<1>2. CASE wire' = w
    BY <1>1, <1>2
<1>3. CASE wire' = Append(w, Head(q)) /\ q # <<>>
  <2>1. Head(q) \in Item
    BY <1>3, TailIs
  <2>2. executed \in Seq(Item) /\ executed \o w \in Seq(Item)
    BY ConcatProperties
  <2>3. Fit(at, ml, q, Append(executed \o w, Head(q)))
    BY <1>3, <2>2, SendNext
  <2>4. executed \o wire' = Append(executed \o w, Head(q))
    BY <1>3, <2>1, <2>2, WritesMore
  <2>5. wire' \in Seq(Item)
    BY <1>3, <2>1, AppendIs
  <2> QED
    BY <1>1, <2>3, <2>4, <2>5
<1> QED
    BY <1>2, <1>3 DEF redis_send_next_command_unsafe

-----------------------------------------------------------------------------
(* What the subscription connection's server hears.                        *)

\* The last of the words that name n counts.
LEMMA HeardTold ==
    ASSUME NEW S, NEW q \in Seq(Word), NEW w \in Word, NEW n
    PROVE  Heard(Append(q, w), S, n) <=> IF w[2] = n THEN w = <<"SUBSCRIBE", n>> ELSE Heard(q, S, n)
<1>1. PICK l \in Nat : l = Len(q)
    BY LenProperties
<1>2. PICK k, r : k = l + 1 /\ r = Append(q, w)
    OBVIOUS
<1>3. DOMAIN q = 1 .. l /\ DOMAIN r = 1 .. k /\ r[k] = w /\ \A i \in 1 .. l : r[i] = q[i]
    BY <1>1, <1>2, AppendIs
<1>4. CASE w[2] = n
  <2>0. k \in 1 .. k /\ r[k][2] = n /\ \A i \in 1 .. k : i <= k /\ (k <= i => i = k)
    BY <1>2, <1>3, <1>4
  <2>1. Heard(r, S, n) <=> w = <<"SUBSCRIBE", n>>
    <3>1. ASSUME Heard(r, S, n) PROVE w = <<"SUBSCRIBE", n>>
      BY <1>3, <2>0, <3>1 DEF Heard, Silent
    <3>2. ASSUME w = <<"SUBSCRIBE", n>> PROVE Heard(r, S, n)
      BY <1>3, <2>0, <3>2 DEF Heard
    <3> QED
      BY <3>1, <3>2
  <2> QED
    BY <1>2, <1>4, <2>1
<1>5. CASE w[2] # n
  <2>1. Silent(r, n) <=> Silent(q, n)
    BY <1>1, <1>2, <1>3, <1>5 DEF Silent
  <2>2. r[k] # <<"SUBSCRIBE", n>>
    BY <1>3, <1>5
  <2>3. ASSUME NEW i \in 1 .. l
        PROVE  (\A j \in 1 .. k : r[j][2] = n => j <= i) <=> (\A j \in 1 .. l : q[j][2] = n => j <= i)
    BY <1>1, <1>2, <1>3, <1>5
  <2>4. Heard(r, S, n) <=> Heard(q, S, n)
    <3>1. \A i \in 1 .. k : i = k \/ i \in 1 .. l
      BY <1>2
    <3>2. 1 .. l \subseteq 1 .. k
      BY <1>1, <1>2
    <3> QED
      BY <1>3, <2>1, <2>2, <2>3, <3>1, <3>2 DEF Heard
  <2> QED
    BY <1>2, <1>5, <2>4
<1> QED
    BY <1>4, <1>5

\* Reading the first of the words changes nothing of what is heard in the end.
LEMMA HeardRead ==
    ASSUME NEW S, NEW T, NEW q \in Seq(Word), q # <<>>, NEW n,
           T = IF Head(q)[1] = "SUBSCRIBE" THEN S \cup {Head(q)[2]} ELSE S \ {Head(q)[2]}
    PROVE  Heard(Tail(q), T, n) <=> Heard(q, S, n)
<1>1. PICK l \in Nat : l = Len(q)
    BY LenProperties
<1>2. PICK k, t, w : k = l - 1 /\ t = Tail(q) /\ w = Head(q)
    OBVIOUS
<1>3. /\ w \in Word /\ w = q[1] /\ l >= 1 /\ DOMAIN q = 1 .. l /\ DOMAIN t = 1 .. k
      /\ \A i \in 1 .. k : t[i] = q[i + 1]
    BY <1>1, <1>2, TailIs
<1>4. \A i \in 2 .. l : i - 1 \in 1 .. k /\ t[i - 1] = q[i]
    BY <1>2, <1>3
<1>5. ASSUME NEW i \in 1 .. k
      PROVE  (\A j \in 1 .. k : t[j][2] = n => j <= i) <=> (\A j \in 1 .. l : q[j][2] = n => j <= i + 1)
  <2>1. ASSUME \A j \in 1 .. k : t[j][2] = n => j <= i, NEW j \in 1 .. l, q[j][2] = n PROVE j <= i + 1
    <3>1. CASE j = 1
      BY <3>1
    <3>2. CASE j \in 2 .. l
      BY <1>4, <2>1, <3>2
    <3> QED
      BY <3>1, <3>2
  <2>2. ASSUME \A j \in 1 .. l : q[j][2] = n => j <= i + 1, NEW j \in 1 .. k, t[j][2] = n PROVE j <= i
    <3>1. j + 1 \in 1 .. l /\ q[j + 1][2] = n
      BY <1>2, <1>3, <2>2
    <3> QED
      BY <2>2, <3>1
  <2> QED
    BY <2>1, <2>2
<1>6. (\E i \in 1 .. k : t[i] = <<"SUBSCRIBE", n>> /\ \A j \in 1 .. k : t[j][2] = n => j <= i)
        <=> \E i \in 2 .. l : q[i] = <<"SUBSCRIBE", n>> /\ \A j \in 1 .. l : q[j][2] = n => j <= i
  <2>1. ASSUME NEW i \in 1 .. k, t[i] = <<"SUBSCRIBE", n>>, \A j \in 1 .. k : t[j][2] = n => j <= i
        PROVE  \E m \in 2 .. l : q[m] = <<"SUBSCRIBE", n>> /\ \A j \in 1 .. l : q[j][2] = n => j <= m
    <3>1. i + 1 \in 2 .. l /\ q[i + 1] = <<"SUBSCRIBE", n>>
      BY <1>2, <1>3, <2>1
    <3> QED
      BY <1>5, <2>1, <3>1
  <2>2. ASSUME NEW m \in 2 .. l, q[m] = <<"SUBSCRIBE", n>>, \A j \in 1 .. l : q[j][2] = n => j <= m
        PROVE  \E i \in 1 .. k : t[i] = <<"SUBSCRIBE", n>> /\ \A j \in 1 .. k : t[j][2] = n => j <= i
    <3>1. PICK i \in 1 .. k : i = m - 1
      BY <1>4
    <3>2. t[i] = <<"SUBSCRIBE", n>> /\ i + 1 = m
      BY <1>4, <2>2, <3>1
    <3> QED
      BY <1>5, <2>2, <3>2
  <2> QED
    BY <2>1, <2>2
<1>7. Silent(q, n) <=> w[2] # n /\ Silent(t, n)
  <2>1. ASSUME Silent(q, n) PROVE w[2] # n /\ Silent(t, n)
    <3>1. \A i \in 1 .. k : i + 1 \in 1 .. l
      BY <1>2
    <3> QED
      BY <1>3, <2>1, <3>1 DEF Silent
  <2>2. ASSUME w[2] # n, Silent(t, n) PROVE Silent(q, n)
    <3>1. \A i \in 1 .. l : i = 1 \/ i \in 2 .. l
      OBVIOUS
    <3> QED
      BY <1>3, <1>4, <2>2, <3>1 DEF Silent
  <2> QED
    BY <2>1, <2>2
<1>8. Heard(q, S, n) <=>
        \/ n \in S /\ Silent(q, n)
        \/ q[1] = <<"SUBSCRIBE", n>> /\ \A j \in 1 .. l : q[j][2] = n => j <= 1
        \/ \E i \in 2 .. l : q[i] = <<"SUBSCRIBE", n>> /\ \A j \in 1 .. l : q[j][2] = n => j <= i
  <2>1. 1 \in 1 .. l /\ (\A i \in 1 .. l : i = 1 \/ i \in 2 .. l) /\ 2 .. l \subseteq 1 .. l
    BY <1>3
  <2> QED
    BY <1>3, <2>1 DEF Heard
<1>9. (\A j \in 1 .. l : q[j][2] = n => j <= 1) <=> Silent(t, n)
  <2>1. ASSUME \A j \in 1 .. l : q[j][2] = n => j <= 1 PROVE Silent(t, n)
    <3>1. \A i \in 1 .. k : i + 1 \in 1 .. l /\ ~(i + 1 <= 1)
      BY <1>2
    <3> QED
      BY <1>3, <2>1, <3>1 DEF Silent
  <2>2. ASSUME Silent(t, n), NEW j \in 1 .. l, q[j][2] = n PROVE j <= 1
    <3>1. j \notin 2 .. l
      BY <1>3, <1>4, <2>2 DEF Silent
    <3> QED
      BY <3>1
  <2> QED
    BY <2>1, <2>2
<1>10. (n \in T /\ Silent(t, n)) <=>
           \/ n \in S /\ Silent(q, n)
           \/ q[1] = <<"SUBSCRIBE", n>> /\ Silent(t, n)
  <2>1. w[1] \in {"SUBSCRIBE", "UNSUBSCRIBE"} /\ w = <<w[1], w[2]>>
    BY <1>3 DEF Word
  <2>2. n \in T <=> (n \in S /\ w[2] # n) \/ (w[1] = "SUBSCRIBE" /\ w[2] = n)
    BY <1>2
  <2>3. q[1] = <<"SUBSCRIBE", n>> <=> w[1] = "SUBSCRIBE" /\ w[2] = n
    BY <1>3, <2>1
  <2> QED
    BY <1>7, <2>2, <2>3
<1>11. Heard(t, T, n) <=>
           \/ n \in T /\ Silent(t, n)
           \/ \E i \in 1 .. k : t[i] = <<"SUBSCRIBE", n>> /\ \A j \in 1 .. k : t[j][2] = n => j <= i
    BY <1>3 DEF Heard
<1> QED
    BY <1>2, <1>6, <1>8, <1>9, <1>10, <1>11

\* Every name is sent once, in any order.
LEMMA Enumerates ==
    ASSUME NEW S, IsFiniteSet(S)
    PROVE  /\ SetToSeq(S) \in Seq(S)
           /\ \A x \in S : \E i \in DOMAIN SetToSeq(S) : SetToSeq(S)[i] = x
           /\ \A i, j \in DOMAIN SetToSeq(S) : SetToSeq(S)[i] = SetToSeq(S)[j] => i = j
<1>1. PICK n, f : n = Cardinality(S) /\ f = SetToSeq(S)
    OBVIOUS
<1>2. n \in Nat /\ ExistsBijection(1 .. n, S)
    BY <1>1, FS_CardinalityType
<1>3. PICK g : g \in [1 .. n -> S] /\ IsInjective(g)
    BY <1>2 DEF ExistsBijection, Bijection, Injection
<1>4. f \in [1 .. n -> S] /\ IsInjective(f)
    BY <1>1, <1>3 DEF SetToSeq
<1>5. Cardinality(1 .. n) = n
    BY <1>2, FS_Interval
<1>6. f \in Surjection(1 .. n, S)
    BY <1>1, <1>4, <1>5, FS_Injection DEF Injection
<1>7. f \in Seq(S) /\ DOMAIN f = 1 .. n
    BY <1>2, <1>4
<1>8. \A x \in S : \E i \in 1 .. n : f[i] = x
    BY <1>6 DEF Surjection
<1>9. \A i, j \in 1 .. n : f[i] = f[j] => i = j
    BY <1>4, <1>7 DEF IsInjective
<1> QED
    BY <1>1, <1>7, <1>8, <1>9

LEMMA ReattachedIs ==
    ASSUME NEW C \in SUBSET Name
    PROVE  /\ Reattached(C) \in Seq(Word)
           /\ \A i \in DOMAIN Reattached(C) : \E n \in C : Reattached(C)[i] = <<"SUBSCRIBE", n>>
           /\ \A n \in C : \E i \in DOMAIN Reattached(C) : Reattached(C)[i] = <<"SUBSCRIBE", n>>
           /\ \A i, j \in DOMAIN Reattached(C) : Reattached(C)[i] = Reattached(C)[j] => i = j
<1> DEFINE W == {<<"SUBSCRIBE", n>> : n \in C}
<1>1. W \in SUBSET {<<"SUBSCRIBE", "channel">>, <<"SUBSCRIBE", "pattern">>}
    BY DEF Name
<1>2. IsFiniteSet({<<"SUBSCRIBE", "channel">>, <<"SUBSCRIBE", "pattern">>})
  <2>1. IsFiniteSet({<<"SUBSCRIBE", "channel">>})
    BY FS_Singleton
  <2>2. IsFiniteSet({<<"SUBSCRIBE", "channel">>} \cup {<<"SUBSCRIBE", "pattern">>})
    BY <2>1, FS_AddElement
  <2>3. {<<"SUBSCRIBE", "channel">>} \cup {<<"SUBSCRIBE", "pattern">>}
           = {<<"SUBSCRIBE", "channel">>, <<"SUBSCRIBE", "pattern">>}
    OBVIOUS
  <2> QED
    BY <2>2, <2>3
<1>3. IsFiniteSet(W)
    BY <1>1, <1>2, FS_Subset
<1>4. PICK f : f = Reattached(C)
    OBVIOUS
<1>5. f = SetToSeq(W)
    BY <1>4 DEF Reattached
<1>6. W \subseteq Word
    BY DEF Word
<1>7. \A x : x \in W <=> \E n \in C : x = <<"SUBSCRIBE", n>>
    OBVIOUS
<1> HIDE DEF W
<1>8. /\ f \in Seq(W)
      /\ \A x \in W : \E i \in DOMAIN f : f[i] = x
      /\ \A i, j \in DOMAIN f : f[i] = f[j] => i = j
    BY <1>3, <1>5, Enumerates
<1>9. f \in Seq(Word) /\ \A i \in DOMAIN f : f[i] \in W
    BY <1>6, <1>8, ElementOfSeq, LenProperties
<1>10. \A i \in DOMAIN f : \E n \in C : f[i] = <<"SUBSCRIBE", n>>
    BY <1>7, <1>9
<1>11. \A n \in C : \E i \in DOMAIN f : f[i] = <<"SUBSCRIBE", n>>
    BY <1>7, <1>8
<1> QED
    BY <1>4, <1>8, <1>9, <1>10, <1>11

\* Reattaching, the names that have subscribers are heard of besides what was heard before.
LEMMA HeardAgain ==
    ASSUME NEW S, NEW q \in Seq(Word), NEW C \in SUBSET Name, NEW n
    PROVE  Heard(q \o Reattached(C), S, n) <=> n \in C \/ Heard(q, S, n)
<1>1. PICK f : f = Reattached(C)
    OBVIOUS
<1>2. /\ f \in Seq(Word)
      /\ \A i \in DOMAIN f : \E x \in C : f[i] = <<"SUBSCRIBE", x>>
      /\ \A x \in C : \E i \in DOMAIN f : f[i] = <<"SUBSCRIBE", x>>
      /\ \A i, j \in DOMAIN f : f[i] = f[j] => i = j
    BY <1>1, ReattachedIs
<1>3. PICK l, m : l = Len(q) /\ m = Len(f)
    OBVIOUS
<1>4. PICK u : u = q \o f
    OBVIOUS
<1>5. /\ l \in Nat /\ m \in Nat /\ DOMAIN q = 1 .. l /\ DOMAIN f = 1 .. m /\ DOMAIN u = 1 .. l + m
      /\ (\A i \in 1 .. l : u[i] = q[i]) /\ \A i \in 1 .. m : u[l + i] = f[i]
    BY <1>2, <1>3, <1>4, ConcatIs
<1>6. \A j \in 1 .. l + m : j \in 1 .. l \/ \E i \in 1 .. m : j = l + i
  <2>1. SUFFICES ASSUME NEW j \in 1 .. l + m, j \notin 1 .. l PROVE \E i \in 1 .. m : j = l + i
    OBVIOUS
  <2>2. j - l \in 1 .. m /\ j = l + (j - l)
    BY <1>5, <2>1
  <2> QED
    BY <2>2
<1>7. \A i \in 1 .. m : l + i \in 1 .. l + m
    BY <1>5
<1>8. CASE n \in C
  <2>1. PICK i \in 1 .. m : f[i] = <<"SUBSCRIBE", n>>
    BY <1>2, <1>5, <1>8
  <2>2. ASSUME NEW j \in 1 .. m, f[j][2] = n PROVE j = i
    <3>1. PICK x \in C : f[j] = <<"SUBSCRIBE", x>>
      BY <1>2, <1>5
    <3>2. x = n
      BY <2>2, <3>1
    <3> QED
      BY <1>2, <1>5, <2>1, <3>1, <3>2
  <2>3. ASSUME NEW j \in 1 .. l + m, u[j][2] = n PROVE j <= l + i
    <3>1. CASE j \in 1 .. l
      BY <1>5, <3>1
    <3>2. CASE j \notin 1 .. l
      <4>1. PICK o \in 1 .. m : j = l + o
        BY <1>6, <3>2
      <4>2. u[j] = f[o]
        BY <1>5, <4>1
      <4>3. o = i
        BY <2>2, <2>3, <4>2
      <4> QED
        BY <1>5, <4>1, <4>3
    <3> QED
      BY <3>1, <3>2
  <2>4. l + i \in 1 .. l + m /\ u[l + i] = <<"SUBSCRIBE", n>>
    BY <1>5, <1>7, <2>1
  <2>5. Heard(u, S, n)
    BY <1>5, <2>3, <2>4 DEF Heard
  <2> QED
    BY <1>1, <1>4, <1>8, <2>5
<1>9. CASE n \notin C
  <2>1. \A i \in 1 .. m : f[i][2] # n
    BY <1>2, <1>5, <1>9
  <2>2. ASSUME NEW j \in 1 .. l + m, u[j][2] = n PROVE j \in 1 .. l
    <3>1. SUFFICES ASSUME j \notin 1 .. l PROVE FALSE
      OBVIOUS
    <3>2. PICK i \in 1 .. m : j = l + i
      BY <1>6, <3>1
    <3>3. u[j] = f[i]
      BY <1>5, <3>2
    <3> QED
      BY <2>1, <2>2, <3>3
  <2>3. 1 .. l \subseteq 1 .. l + m
    BY <1>5
  <2>4. Silent(u, n) <=> Silent(q, n)
    <3>1. ASSUME Silent(u, n) PROVE Silent(q, n)
      BY <1>5, <2>3, <3>1 DEF Silent
    <3>2. ASSUME Silent(q, n) PROVE Silent(u, n)
      BY <1>5, <2>2, <3>2 DEF Silent
    <3> QED
      BY <3>1, <3>2
  <2>5. \A j \in 1 .. l + m : u[j] = <<"SUBSCRIBE", n>> => j \in 1 .. l
    BY <2>2
  <2>6. \A i : (\A j \in 1 .. l + m : u[j][2] = n => j <= i) <=> (\A j \in 1 .. l : q[j][2] = n => j <= i)
    BY <1>5, <2>2, <2>3
  <2>7. Heard(u, S, n) <=> Heard(q, S, n)
    BY <1>5, <2>3, <2>4, <2>5, <2>6 DEF Heard
  <2> QED
    BY <1>1, <1>4, <1>9, <2>7
<1> QED
    BY <1>8, <1>9

LEMMA NothingHeard == ASSUME NEW n PROVE ~Heard(<<>>, {}, n)
    BY DEF Heard

-----------------------------------------------------------------------------
(* Steps of the connections: every user that comes or goes is counted.     *)

LEMMA ConnsKept == ConnsInv /\ UNCHANGED conns => ConnsInv'
    BY DEF ConnsInv, TypedConns, Counted, Users, One, conns

LEMMA ConnsMove ==
    ASSUME ConnsInv,
           \/ \E i \in Link : redis_connect(i)
           \/ redis_on_connect_sub \/ redis_on_connect_pub
           \/ uuid["sub"] # "none" /\ redis_on_close_sub
           \/ uuid["pub"] # "none" /\ redis_on_close_pub
           \/ redis_on_facil_shutdown \/ redis_engine_destroy
    PROVE  ConnsInv'
<1> USE DEF ConnsInv, TypedConns, Counted, Users, One, Link
<1>1. ASSUME NEW i \in Link, redis_connect(i) PROVE ConnsInv'
  <2>1. CASE i = "sub"
    BY <1>1, <2>1 DEF redis_connect
  <2>2. CASE i = "pub"
    BY <1>1, <2>2 DEF redis_connect
  <2> QED
    BY <2>1, <2>2
<1>2. CASE redis_on_connect_sub
    BY <1>2 DEF redis_on_connect_sub
<1>3. CASE redis_on_connect_pub
    BY <1>3 DEF redis_on_connect_pub
<1>4. CASE uuid["sub"] # "none" /\ redis_on_close_sub
  <2>1. /\ uuid' = [uuid EXCEPT !["sub"] = "none"] /\ closing' = FALSE
        /\ flag' = flag /\ created' = created
    BY <1>4 DEF redis_on_close_sub, Closed
  <2>2. uuid' \in [Link -> {"none", "connecting", "up"}] /\ uuid'["sub"] = "none" /\ uuid'["pub"] = uuid["pub"]
    BY <2>1
  <2>5. flag' \in BOOLEAN /\ created' \in BOOLEAN /\ closing' \in BOOLEAN /\ ~closing'
    BY <2>1
  <2>3. CASE flag
    <3>1. tasks' = [tasks EXCEPT !["sub"] = @ + 1] /\ ref' = ref
      BY <1>4, <2>3 DEF redis_on_close_sub
    <3>2. tasks' \in [Link -> Nat] /\ tasks'["sub"] = tasks["sub"] + 1 /\ tasks'["pub"] = tasks["pub"]
      BY <3>1
    <3>3. Users' = Users
      BY <1>4, <2>1, <2>2, <3>2
    <3> QED
      BY <2>1, <2>2, <2>5, <3>1, <3>2, <3>3
  <2>4. CASE ~flag
    <3>1. tasks' = tasks /\ ref' = ref - 1
      BY <1>4, <2>4 DEF redis_on_close_sub
    <3>2. Users' = Users - 1
      BY <1>4, <2>1, <2>2, <3>1
    <3> QED
      BY <2>1, <2>2, <2>5, <3>1, <3>2
  <2> QED
    BY <2>3, <2>4
<1>5. CASE uuid["pub"] # "none" /\ redis_on_close_pub
    BY <1>5 DEF redis_on_close_pub, Closed, ClosesSub
<1>6. CASE redis_on_facil_shutdown
    BY <1>6 DEF redis_on_facil_shutdown
<1>7. CASE redis_engine_destroy
  <2>1. /\ created /\ ~created' /\ flag' \in BOOLEAN /\ created' \in BOOLEAN
        /\ ref' = ref - 1 /\ uuid' = uuid /\ tasks' = tasks /\ closing' = closing
    BY <1>7 DEF redis_engine_destroy
  <2>2. One(created) = 1 /\ One(created') = 0
    BY <2>1
  <2>3. Users' = Users - 1
    BY <2>1, <2>2
  <2> QED
    BY <2>1, <2>3
<1> QED
    BY <1>1, <1>2, <1>3, <1>4, <1>5, <1>6, <1>7

-----------------------------------------------------------------------------
(* Steps of the subscriptions.                                             *)

LEMMA SubsKept ==
    ASSUME SubsInv, uuid'["sub"] = uuid["sub"], UNCHANGED <<chans, subwire, srv>>
    PROVE  SubsInv'
    BY DEF SubsInv, TypedSubs, Knows, Heard, Silent

\* A call tells the connection, which hears of the names as before of the others.
LEMMA SubsCalled ==
    ASSUME SubsInv, NEW n \in Name, NEW op \in {"SUBSCRIBE", "UNSUBSCRIBE"},
           chans' = IF op = "SUBSCRIBE" THEN chans \cup {n} ELSE chans \ {n},
           subwire' = Told(op, n), UNCHANGED <<uuid, srv>>
    PROVE  SubsInv'
<1>1. PICK w : w = <<op, n>>
    OBVIOUS
<1>2. w \in Word /\ w[2] = n /\ (w = <<"SUBSCRIBE", n>> <=> op = "SUBSCRIBE")
    BY <1>1 DEF Word
<1>3. chans' \in SUBSET Name /\ srv' \in SUBSET Name
    BY DEF SubsInv, TypedSubs
<1>4. \A x : x \in chans' <=> IF x = n THEN op = "SUBSCRIBE" ELSE x \in chans
    OBVIOUS
<1>5. CASE uuid["sub"] = "none"
  <2>1. subwire' = subwire /\ subwire = <<>> /\ srv = {}
    BY <1>5 DEF Told, SubsInv, Knows
  <2>2. \A x \in Name : ~Heard(subwire', srv', x)
    BY <2>1, NothingHeard
  <2>3. uuid'["sub"] = "none" /\ subwire' \in Seq(Word)
    BY <1>5, <2>1 DEF SubsInv, TypedSubs
  <2> QED
    BY <1>3, <2>1, <2>2, <2>3 DEF SubsInv, TypedSubs, Knows
<1>6. CASE uuid["sub"] # "none"
  <2>1. subwire \in Seq(Word) /\ subwire' = Append(subwire, w)
    BY <1>1, <1>6 DEF Told, SubsInv, TypedSubs
  <2>2. subwire' \in Seq(Word)
    BY <1>2, <2>1, AppendIs
  <2>3. ASSUME NEW x \in Name
        PROVE  Heard(subwire', srv', x) <=> IF x = n THEN op = "SUBSCRIBE" ELSE Heard(subwire, srv, x)
    <3>1. Heard(Append(subwire, w), srv, x) <=>
             IF w[2] = x THEN w = <<"SUBSCRIBE", x>> ELSE Heard(subwire, srv, x)
      BY <1>2, <2>1, HeardTold
    <3> QED
      BY <1>2, <2>1, <3>1
  <2>4. (uuid["sub"] # "up" => srv = {}) /\ (\A x \in Name : Heard(subwire, srv, x) => x \in chans)
    BY DEF SubsInv, Knows
  <2>5. uuid["sub"] = "up" => \A x \in chans : Heard(subwire, srv, x)
    BY DEF SubsInv, Knows
  <2>6. (uuid'["sub"] # "up" => srv' = {}) /\ uuid'["sub"] # "none"
    BY <1>6, <2>4
  <2>7. \A x \in Name : Heard(subwire', srv', x) => x \in chans'
    BY <1>4, <2>3, <2>4
  <2>8. uuid'["sub"] = "up" => \A x \in chans' : Heard(subwire', srv', x)
    BY <1>3, <1>4, <2>3, <2>5
  <2> QED
    BY <1>3, <2>2, <2>6, <2>7, <2>8 DEF SubsInv, TypedSubs, Knows
<1> QED
    BY <1>5, <1>6

LEMMA SubsRead == SubsInv /\ ServerSubscribes => SubsInv'
<1>1. SUFFICES ASSUME SubsInv, ServerSubscribes PROVE SubsInv'
    OBVIOUS
<1>2. PICK w : w = Head(subwire)
    OBVIOUS
<1>3. /\ uuid["sub"] = "up" /\ subwire # <<>> /\ subwire' = Tail(subwire) /\ chans' = chans /\ uuid' = uuid
      /\ srv' = IF w[1] = "SUBSCRIBE" THEN srv \cup {w[2]} ELSE srv \ {w[2]}
    BY <1>1, <1>2 DEF ServerSubscribes, conns
<1>4. subwire \in Seq(Word) /\ chans \in SUBSET Name /\ srv \in SUBSET Name
    BY <1>1 DEF SubsInv, TypedSubs
<1>5. w \in Word /\ subwire' \in Seq(Word)
    BY <1>2, <1>3, <1>4, TailIs
<1>6. srv' \in SUBSET Name
    BY <1>3, <1>4, <1>5 DEF Word
<1>7. ASSUME NEW x \in Name PROVE Heard(subwire', srv', x) <=> Heard(subwire, srv, x)
    BY <1>2, <1>3, <1>4, HeardRead
<1>8. (\A x \in Name : Heard(subwire, srv, x) => x \in chans) /\ \A x \in chans : Heard(subwire, srv, x)
    BY <1>1, <1>3 DEF SubsInv, Knows
<1>9. (\A x \in Name : Heard(subwire', srv', x) => x \in chans') /\ \A x \in chans' : Heard(subwire', srv', x)
    BY <1>3, <1>4, <1>7, <1>8
<1> QED
    BY <1>3, <1>4, <1>5, <1>6, <1>9 DEF SubsInv, TypedSubs, Knows

\* A connection made hears of the names in the post office and no others.
LEMMA SubsConnected == TypedConns /\ SubsInv /\ redis_on_connect_sub => SubsInv'
<1>1. SUFFICES ASSUME TypedConns, SubsInv, redis_on_connect_sub PROVE SubsInv'
    OBVIOUS
<1>2. /\ uuid["sub"] = "connecting" /\ uuid'["sub"] = "up" /\ chans' = chans /\ srv' = srv
      /\ subwire' = subwire \o Reattached(chans)
    BY <1>1 DEF redis_on_connect_sub, TypedConns, Link
<1>3. subwire \in Seq(Word) /\ chans \in SUBSET Name /\ srv = {} /\ \A x \in Name : Heard(subwire, srv, x) => x \in chans
    BY <1>1, <1>2 DEF SubsInv, TypedSubs, Knows
<1>4. subwire' \in Seq(Word)
    BY <1>2, <1>3, ReattachedIs, ConcatProperties
<1>5. ASSUME NEW x \in Name PROVE Heard(subwire', srv', x) <=> x \in chans
    BY <1>2, <1>3, HeardAgain
<1>6. (\A x \in Name : Heard(subwire', srv', x) => x \in chans') /\ \A x \in chans' : Heard(subwire', srv', x)
    BY <1>2, <1>3, <1>5
<1> QED
    BY <1>2, <1>3, <1>4, <1>6 DEF SubsInv, TypedSubs, Knows

LEMMA SubsClosed == TypedConns /\ SubsInv /\ redis_on_close_sub => SubsInv'
<1>1. SUFFICES ASSUME TypedConns, SubsInv, redis_on_close_sub PROVE SubsInv'
    OBVIOUS
<1>2. uuid'["sub"] = "none" /\ subwire' = <<>> /\ srv' = {} /\ chans' = chans
    BY <1>1 DEF redis_on_close_sub, Closed, TypedConns, Link
<1>3. \A x \in Name : ~Heard(subwire', srv', x)
    BY <1>2, NothingHeard
<1>4. subwire' \in Seq(Word)
    BY <1>2
<1> QED
    BY <1>1, <1>2, <1>3, <1>4 DEF SubsInv, TypedSubs, Knows

\* A connection attempt, or the publication connection, leaves the server's side alone.
LEMMA SubsTried ==
    ASSUME TypedConns, SubsInv, NEW i \in Link, NEW s \in {"none", "connecting", "up"},
           i = "pub" \/ (uuid["sub"] = "none" /\ s = "connecting"),
           uuid' = [uuid EXCEPT ![i] = s], UNCHANGED <<chans, subwire, srv>>
    PROVE  SubsInv'
<1>1. CASE i = "pub"
  <2>1. uuid'["sub"] = uuid["sub"]
    BY <1>1 DEF TypedConns, Link
  <2> QED
    BY <2>1, SubsKept
<1>2. CASE uuid["sub"] = "none" /\ i = "sub" /\ s = "connecting"
  <2>1. uuid'["sub"] = "connecting"
    BY <1>2 DEF TypedConns, Link
  <2>2. subwire = <<>> /\ srv = {}
    BY <1>2 DEF SubsInv, Knows
  <2>3. \A x \in Name : ~Heard(subwire', srv', x)
    BY <2>2, NothingHeard
  <2> QED
    BY <2>1, <2>2, <2>3 DEF SubsInv, TypedSubs, Knows
<1> QED
    BY <1>1, <1>2 DEF Link

-----------------------------------------------------------------------------
(* Steps of the commands.                                                  *)

LEMMA CmdsKept ==
    ASSUME CmdsInv, UNCHANGED <<queue, pub_sent, wire, replies, executed, mail, attached>>
    PROVE  CmdsInv'
    BY DEF CmdsInv, TypedCmds, Orderly

LEMMA CmdsSent ==
    ASSUME CmdsInv, NEW c \in Cmd, redis_engine_send(c)
    PROVE  CmdsInv'
<1>1. /\ ~Contains(attached, c) /\ attached' = Append(attached, c) /\ mail' = Append(mail, c)
      /\ UNCHANGED <<queue, pub_sent, wire, replies, executed>>
    BY DEF redis_engine_send
<1>2. TypedCmds /\ Orderly
    BY DEF CmdsInv
<1>3. PICK n \in Nat : n = Len(attached)
    BY <1>2, LenProperties DEF TypedCmds
<1>4. PICK s, b : s = attached' /\ b = n + 1
    OBVIOUS
<1>5. attached \in Seq(Cmd) /\ mail \in Seq(Cmd)
    BY <1>2 DEF TypedCmds
<1>6. /\ s \in Seq(Cmd) /\ DOMAIN attached = 1 .. n /\ DOMAIN s = 1 .. b
      /\ (\A i \in 1 .. n : s[i] = attached[i]) /\ s[b] = c
    BY <1>1, <1>3, <1>4, <1>5, AppendIs
<1>7. \A i \in 1 .. n : attached[i] # c
    BY <1>1, <1>3 DEF Contains
<1>8. IsInjective(s)
  <2>1. \A i, j \in 1 .. n : attached[i] = attached[j] => i = j
    BY <1>2, <1>6 DEF TypedCmds, IsInjective
  <2>2. SUFFICES ASSUME NEW i \in 1 .. b, NEW j \in 1 .. b, s[i] = s[j] PROVE i = j
    BY <1>6 DEF IsInjective
  <2>3. \A k \in 1 .. b : k \in 1 .. n \/ k = b
    BY <1>4
  <2> QED
    BY <1>6, <1>7, <2>1, <2>2, <2>3
<1>9. mail' \in Seq(Cmd)
    BY <1>1, <1>5, AppendIs
<1>10. queue \in Seq(Item) /\ executed \o wire \in Seq(Item)
    BY <1>2, ConcatProperties DEF TypedCmds
<1>11. Fit(Append(attached, c), Append(mail, c), queue, executed \o wire)
  <2>1. Fit(attached, mail, queue, executed \o wire)
    BY <1>2 DEF Orderly
  <2>2. \A i \in DOMAIN attached : attached[i] # c
    BY <1>6, <1>7
  <2> QED
    BY <1>5, <1>10, <2>1, <2>2, Attach
<1>12. TypedCmds'
    BY <1>1, <1>2, <1>4, <1>6, <1>8, <1>9 DEF TypedCmds
<1>13. Orderly'
    BY <1>1, <1>11 DEF Orderly
<1> QED
    BY <1>12, <1>13 DEF CmdsInv

\* What is left to check of a step that ends with sending the next command.
LEMMA CmdsNext ==
    ASSUME TypedCmds, NEW ml \in Seq(Cmd), NEW q \in Seq(Item), NEW w \in Seq(Item), NEW o \in BOOLEAN,
           Fit(attached, ml, q, executed \o w), redis_send_next_command_unsafe(q, o, w),
           mail' = ml, replies' \in Seq(Item), UNCHANGED <<executed, attached>>
    PROVE  CmdsInv'
<1>1. executed \in Seq(Item) /\ attached \in Seq(Cmd) /\ IsInjective(attached)
    BY DEF TypedCmds
<1>2. queue' = q /\ pub_sent' \in BOOLEAN /\ wire' \in Seq(Item) /\ Fit(attached, ml, q, executed \o wire')
    BY <1>1, Sends
<1>3. TypedCmds'
    BY <1>1, <1>2 DEF TypedCmds
<1>4. Orderly'
    BY <1>2 DEF Orderly
<1> QED
    BY <1>3, <1>4 DEF CmdsInv

LEMMA CmdsAttached == CmdsInv /\ redis_attach_cmd => CmdsInv'
<1>1. SUFFICES ASSUME CmdsInv, redis_attach_cmd PROVE CmdsInv'
    OBVIOUS
<1>2. PICK x : x = Head(mail)
    OBVIOUS
<1>3. /\ mail # <<>> /\ mail' = Tail(mail) /\ UNCHANGED <<replies, executed, attached>>
      /\ redis_send_next_command_unsafe(Append(queue, x), pub_sent, wire)
    BY <1>1, <1>2 DEF redis_attach_cmd, Queued
<1>4. TypedCmds /\ Fit(attached, mail, queue, executed \o wire)
    BY <1>1 DEF CmdsInv, Orderly
<1>5. /\ attached \in Seq(Cmd) /\ mail \in Seq(Cmd) /\ queue \in Seq(Item) /\ wire \in Seq(Item)
      /\ pub_sent \in BOOLEAN /\ replies \in Seq(Item)
    BY <1>4 DEF TypedCmds
<1>6. Tail(mail) \in Seq(Cmd) /\ x \in Item
    BY <1>2, <1>3, <1>5, TailIs DEF Item
<1>7. Append(queue, x) \in Seq(Item)
    BY <1>5, <1>6, AppendIs
<1>8. Fit(attached, Tail(mail), Append(queue, x), executed \o wire)
    BY <1>2, <1>3, <1>4, <1>5, Push
<1> QED
    BY <1>3, <1>4, <1>5, <1>6, <1>7, <1>8, CmdsNext

LEMMA CmdsExecuted == CmdsInv /\ ServerExecutes => CmdsInv'
<1>1. SUFFICES ASSUME CmdsInv, ServerExecutes PROVE CmdsInv'
    OBVIOUS
<1>2. /\ wire # <<>> /\ executed' = Append(executed, Head(wire)) /\ replies' = Append(replies, Head(wire))
      /\ wire' = Tail(wire) /\ UNCHANGED <<queue, pub_sent, mail, attached>>
    BY <1>1 DEF ServerExecutes
<1>3. TypedCmds /\ Orderly
    BY <1>1 DEF CmdsInv
<1>4. wire \in Seq(Item) /\ executed \in Seq(Item) /\ replies \in Seq(Item)
    BY <1>3 DEF TypedCmds
<1>5. Head(wire) \in Item /\ wire' \in Seq(Item)
    BY <1>2, <1>4, TailIs
<1>6. executed' \in Seq(Item) /\ replies' \in Seq(Item)
    BY <1>2, <1>4, <1>5, AppendIs
<1>7. executed' \o wire' = executed \o wire
    BY <1>2, <1>4, MovesOn
<1>8. TypedCmds'
    BY <1>2, <1>3, <1>5, <1>6 DEF TypedCmds
<1>9. Orderly'
    BY <1>2, <1>3, <1>7 DEF Orderly
<1> QED
    BY <1>8, <1>9 DEF CmdsInv

LEMMA CmdsAnswered == CmdsInv /\ resp_on_pub_message => CmdsInv'
<1>1. SUFFICES ASSUME CmdsInv, resp_on_pub_message PROVE CmdsInv'
    OBVIOUS
<1>2. PICK q : q = Shifted(queue)
    OBVIOUS
<1>3. /\ replies # <<>> /\ replies' = Tail(replies) /\ UNCHANGED <<executed, mail, attached>>
      /\ redis_send_next_command_unsafe(q, FALSE, wire)
    BY <1>1, <1>2 DEF resp_on_pub_message, Outstanding
<1>4. TypedCmds /\ Fit(attached, mail, queue, executed \o wire)
    BY <1>1 DEF CmdsInv, Orderly
<1>5. /\ attached \in Seq(Cmd) /\ mail \in Seq(Cmd) /\ queue \in Seq(Item) /\ wire \in Seq(Item)
      /\ replies \in Seq(Item)
    BY <1>4 DEF TypedCmds
<1>6. replies' \in Seq(Item)
    BY <1>3, <1>5, TailIs
<1>7. q \in Seq(Item) /\ Fit(attached, mail, q, executed \o wire)
  <2>1. CASE queue = <<>>
    BY <1>2, <1>4, <1>5, <2>1 DEF Shifted
  <2>2. CASE queue # <<>>
    <3>1. q = Tail(queue)
      BY <1>2, <2>2 DEF Shifted
    <3>2. Tail(queue) \in Seq(Item)
      BY <1>5, <2>2, TailIs
    <3> QED
      BY <1>4, <1>5, <2>2, <3>1, <3>2, Pops
  <2> QED
    BY <2>1, <2>2
<1>8. FALSE \in BOOLEAN
    OBVIOUS
<1> QED
    BY <1>3, <1>4, <1>5, <1>6, <1>7, <1>8, CmdsNext

LEMMA CmdsClosed == CmdsInv /\ redis_on_close_pub => CmdsInv'
<1>1. SUFFICES ASSUME CmdsInv, redis_on_close_pub PROVE CmdsInv'
    OBVIOUS
<1>2. /\ pub_sent' = FALSE /\ wire' = <<>> /\ replies' = <<>>
      /\ UNCHANGED <<queue, executed, mail, attached>>
    BY <1>1 DEF redis_on_close_pub
<1>3. TypedCmds /\ Fit(attached, mail, queue, executed \o wire)
    BY <1>1 DEF CmdsInv, Orderly
<1>4. executed \in Seq(Item) /\ wire \in Seq(Item)
    BY <1>3 DEF TypedCmds
<1>5. Fit(attached, mail, queue, executed)
    BY <1>3, <1>4, Cut
<1>6. executed' \o wire' = executed
    BY <1>2, <1>4, ConcatEmptySeq
<1>7. wire' \in Seq(Item) /\ replies' \in Seq(Item) /\ pub_sent' \in BOOLEAN
  <2>1. \A q : q = <<>> => q \in Seq(Item)
    OBVIOUS
  <2>2. FALSE \in BOOLEAN
    OBVIOUS
  <2>3. pub_sent' \in BOOLEAN
    BY <1>2, <2>2, Zenon
  <2> QED
    BY <1>2, <2>1, <2>3, Zenon
<1>8. TypedCmds'
    BY <1>2, <1>3, <1>7 DEF TypedCmds
<1>9. Orderly'
    BY <1>2, <1>5, <1>6 DEF Orderly
<1> QED
    BY <1>8, <1>9 DEF CmdsInv

LEMMA CmdsConnected == CmdsInv /\ redis_on_connect_pub => CmdsInv'
<1>1. SUFFICES ASSUME CmdsInv, redis_on_connect_pub PROVE CmdsInv'
    OBVIOUS
<1>2. PICK q : q = (IF Auth THEN <<"AUTH">> ELSE <<>>) \o queue
    OBVIOUS
<1>3. UNCHANGED <<replies, executed, mail, attached>> /\ redis_send_next_command_unsafe(q, FALSE, wire)
    BY <1>1, <1>2 DEF redis_on_connect_pub
<1>4. TypedCmds /\ Fit(attached, mail, queue, executed \o wire)
    BY <1>1 DEF CmdsInv, Orderly
<1>5. /\ attached \in Seq(Cmd) /\ mail \in Seq(Cmd) /\ queue \in Seq(Item) /\ wire \in Seq(Item)
      /\ replies \in Seq(Item)
    BY <1>4 DEF TypedCmds
<1>6. q \in Seq(Item) /\ Fit(attached, mail, q, executed \o wire)
  <2>1. CASE Auth
    <3>1. q = <<"AUTH">> \o queue
      BY <1>2, <2>1
    <3>2. "AUTH" \in Item /\ "AUTH" \notin Cmd
      BY RedisAssumption DEF Item
    <3>3. q \in Seq(Item)
      BY <1>5, <3>1, <3>2, FrontIs
    <3> QED
      BY <1>4, <1>5, <3>1, <3>2, <3>3, InFront
  <2>2. CASE ~Auth
    <3>1. q = <<>> \o queue
      BY <1>2, <2>2
    <3>2. q = queue
      BY <1>5, <3>1, ConcatEmptySeq
    <3> QED
      BY <1>4, <1>5, <3>2
  <2> QED
    BY <2>1, <2>2
<1>7. FALSE \in BOOLEAN
    OBVIOUS
<1> QED
    BY <1>3, <1>4, <1>5, <1>6, <1>7, CmdsNext

LEMMA CmdsPinged == CmdsInv /\ redis_pub_ping => CmdsInv'
<1>1. SUFFICES ASSUME CmdsInv, redis_pub_ping PROVE CmdsInv'
    OBVIOUS
<1>2. CASE queue # <<>>
    BY <1>1, <1>2, CmdsClosed DEF redis_pub_ping
<1>3. CASE queue = <<>>
  <2>1. UNCHANGED <<replies, executed, mail, attached>> /\ redis_send_next_command_unsafe(<<"PING">>, pub_sent, wire)
    BY <1>1, <1>3 DEF redis_pub_ping
  <2>2. TypedCmds /\ Fit(attached, mail, queue, executed \o wire)
    BY <1>1 DEF CmdsInv, Orderly
  <2>3. /\ attached \in Seq(Cmd) /\ mail \in Seq(Cmd) /\ queue \in Seq(Item) /\ wire \in Seq(Item)
        /\ replies \in Seq(Item) /\ pub_sent \in BOOLEAN
    BY <2>2 DEF TypedCmds
  <2>4. "PING" \in Item /\ "PING" \notin Cmd
    BY RedisAssumption DEF Item
  <2>5. <<"PING">> \in Seq(Item)
    BY <2>4
  <2>6. <<"PING">> = <<"PING">> \o queue
    BY <1>3, <2>5, ConcatEmptySeq
  <2>7. Fit(attached, mail, <<"PING">> \o queue, executed \o wire)
    BY <2>2, <2>3, <2>4, InFront
  <2>8. Fit(attached, mail, <<"PING">>, executed \o wire)
    BY <2>6, <2>7
  <2> QED
    BY <2>1, <2>2, <2>3, <2>5, <2>8, CmdsNext
<1> QED
    BY <1>2, <1>3

-----------------------------------------------------------------------------
(* All steps.                                                              *)

LEMMA InitInv == Init => Inv
<1>1. SUFFICES ASSUME Init PROVE Inv
    OBVIOUS
<1>2. ConnsInv
  <2>1. /\ created = TRUE /\ closing = FALSE /\ flag = TRUE
        /\ uuid \in [Link -> {"none", "connecting", "up"}] /\ uuid["pub"] = "none" /\ uuid["sub"] = "none"
        /\ tasks \in [Link -> Nat] /\ tasks["pub"] = 0 /\ tasks["sub"] = 1 /\ ref = 2
    BY <1>1 DEF Init, Link
  <2>2. One(created) = 1
    BY <2>1 DEF One
  <2>3. Counted
    BY <2>1, <2>2 DEF Counted, Users, One
  <2>4. closing \in BOOLEAN /\ flag \in BOOLEAN /\ created \in BOOLEAN
    BY <2>1, Zenon
  <2>5. ref \in Int
    BY <2>1
  <2> QED
    BY <2>1, <2>3, <2>4, <2>5, Zenon DEF ConnsInv, TypedConns
<1>3. SubsInv
  <2>1. chans = {} /\ subwire = <<>> /\ srv = {} /\ uuid["sub"] = "none"
    BY <1>1 DEF Init, Link
  <2>2. \A x \in Name : ~Heard(subwire, srv, x)
    BY <2>1, NothingHeard
  <2> QED
    BY <2>1, <2>2 DEF SubsInv, TypedSubs, Knows
<1>4. CmdsInv
  <2>1. /\ queue = <<>> /\ pub_sent = FALSE /\ wire = <<>> /\ replies = <<>> /\ executed = <<>>
        /\ mail = <<>> /\ attached = <<>>
    BY <1>1 DEF Init
  <2>2. TypedCmds
    <3>1. \A S, q : q = <<>> => q \in Seq(S) /\ DOMAIN q = {}
      BY EmptySeq
    <3>2. IsInjective(attached)
      BY <2>1, <3>1 DEF IsInjective
    <3>3. pub_sent \in BOOLEAN
      BY <2>1, Zenon
    <3> QED
      BY <2>1, <3>1, <3>2, <3>3, Zenon DEF TypedCmds
  <2>3. executed \o wire = <<>>
    BY <2>1, <2>2, ConcatEmptySeq DEF TypedCmds
  <2>4. Line(attached, mail, queue, 0, 0) /\ Bounded(attached, <<>>, 0 + 1) /\ InOrder(attached, <<>>)
    BY <2>1 DEF Line, Bounded, InOrder
  <2>5. 0 \in 0 .. Len(attached) /\ 0 \in 0 .. Len(queue)
    BY <2>1
  <2> QED
    BY <2>2, <2>3, <2>4, <2>5 DEF CmdsInv, Orderly, Fit
<1> QED
    BY <1>2, <1>3, <1>4 DEF Inv

\* A connection that closes.
LEMMA Closes ==
    ASSUME Inv, NEW i \in Link, uuid[i] # "none",
           IF i = "sub" THEN redis_on_close_sub ELSE redis_on_close_pub
    PROVE  Inv'
<1>1. CASE i = "sub"
  <2>1. ConnsInv'
    BY <1>1, ConnsMove DEF Inv
  <2>2. SubsInv'
    BY <1>1, SubsClosed DEF Inv, ConnsInv
  <2>3. CmdsInv'
    BY <1>1, CmdsKept DEF Inv, redis_on_close_sub, cmds
  <2> QED
    BY <2>1, <2>2, <2>3 DEF Inv
<1>2. CASE i = "pub"
  <2>1. ConnsInv'
    BY <1>2, ConnsMove DEF Inv
  <2>2. SubsInv'
    <3>1. uuid' = [uuid EXCEPT ![i] = "none"] /\ UNCHANGED <<chans, subwire, srv>>
      BY <1>2 DEF redis_on_close_pub, Closed, subs
    <3> QED
      BY <1>2, <3>1, SubsTried DEF Inv, ConnsInv
  <2>3. CmdsInv'
    BY <1>2, CmdsClosed DEF Inv
  <2> QED
    BY <2>1, <2>2, <2>3 DEF Inv
<1> QED
    BY <1>1, <1>2 DEF Link

LEMMA ReactorStep == Inv /\ Reactor => Inv'
<1>1. SUFFICES ASSUME Inv, Reactor PROVE Inv'
    OBVIOUS
<1>0. ConnsInv /\ TypedConns /\ Counted /\ SubsInv /\ CmdsInv
    BY <1>1 DEF Inv, ConnsInv
<1>2. ASSUME NEW i \in Link, redis_connect(i) PROVE Inv'
  <2>1. ConnsInv'
    BY <1>0, <1>2, ConnsMove
  <2>2. SubsInv'
    <3>1. UNCHANGED <<chans, subwire, srv>>
      BY <1>2 DEF redis_connect, subs
    <3>2. CASE uuid' = uuid
      BY <1>0, <3>1, <3>2, SubsKept
    <3>3. CASE uuid[i] = "none" /\ uuid' = [uuid EXCEPT ![i] = "connecting"]
      <4>1. i = "pub" \/ (uuid["sub"] = "none" /\ "connecting" = "connecting")
        BY <3>3 DEF Link
      <4> QED
        BY <1>0, <3>1, <3>3, <4>1, SubsTried
    <3> QED
      BY <1>2, <3>2, <3>3 DEF redis_connect
  <2>3. CmdsInv'
    BY <1>0, <1>2, CmdsKept DEF redis_connect, cmds
  <2> QED
    BY <2>1, <2>2, <2>3 DEF Inv
<1>3. CASE SubCloses
  <2>1. uuid["sub"] # "none" /\ redis_on_close_sub
    BY <1>0, <1>3 DEF SubCloses, Counted
  <2> QED
    BY <1>1, <2>1, Closes DEF Link
<1>4. CASE redis_attach_cmd
  <2>1. ConnsInv'
    BY <1>0, <1>4, ConnsKept DEF redis_attach_cmd
  <2>2. SubsInv'
    BY <1>0, <1>4, SubsKept DEF redis_attach_cmd, conns, subs
  <2> QED
    BY <1>0, <1>4, <2>1, <2>2, CmdsAttached DEF Inv
<1>5. CASE redis_on_internal_reply
  <2>1. ConnsInv'
    BY <1>0, <1>5, ConnsKept DEF redis_on_internal_reply
  <2>2. SubsInv'
    BY <1>0, <1>5, SubsKept DEF redis_on_internal_reply, conns, subs
  <2>3. CmdsInv'
    BY <1>0, <1>5, CmdsKept DEF redis_on_internal_reply
  <2> QED
    BY <2>1, <2>2, <2>3 DEF Inv
<1>6. CASE resp_on_pub_message
  <2>1. ConnsInv'
    BY <1>0, <1>6, ConnsKept DEF resp_on_pub_message
  <2>2. SubsInv'
    BY <1>0, <1>6, SubsKept DEF resp_on_pub_message, conns, subs
  <2> QED
    BY <1>0, <1>6, <2>1, <2>2, CmdsAnswered DEF Inv
<1>7. CASE resp_on_sub_message
  <2>1. ConnsInv'
    BY <1>0, <1>7, ConnsKept DEF resp_on_sub_message
  <2>2. SubsInv'
    BY <1>0, <1>7, SubsKept DEF resp_on_sub_message, conns
  <2>3. CmdsInv'
    BY <1>0, <1>7, CmdsKept DEF resp_on_sub_message, cmds
  <2> QED
    BY <2>1, <2>2, <2>3 DEF Inv
<1> QED
    BY <1>1, <1>2, <1>3, <1>4, <1>5, <1>6, <1>7 DEF Reactor

LEMMA ConnectsStep == Inv /\ Connects => Inv'
<1>1. SUFFICES ASSUME Inv, Connects PROVE Inv'
    OBVIOUS
<1>0. ConnsInv /\ TypedConns /\ SubsInv /\ CmdsInv
    BY <1>1 DEF Inv, ConnsInv
<1>2. CASE redis_on_connect_sub
  <2>1. ConnsInv' /\ SubsInv'
    BY <1>0, <1>2, ConnsMove, SubsConnected
  <2>2. CmdsInv'
    BY <1>0, <1>2, CmdsKept DEF redis_on_connect_sub, cmds
  <2> QED
    BY <2>1, <2>2 DEF Inv
<1>3. CASE redis_on_connect_pub
  <2>1. ConnsInv' /\ CmdsInv'
    BY <1>0, <1>3, ConnsMove, CmdsConnected
  <2>2. uuid' = [uuid EXCEPT !["pub"] = "up"] /\ UNCHANGED <<chans, subwire, srv>>
    BY <1>3 DEF redis_on_connect_pub, subs
  <2>3. SubsInv'
    BY <1>0, <2>2, SubsTried DEF Link
  <2> QED
    BY <2>1, <2>3 DEF Inv
<1> QED
    BY <1>1, <1>2, <1>3 DEF Connects

LEMMA ServerStep == Inv /\ Server => Inv'
<1>1. SUFFICES ASSUME Inv, Server PROVE Inv'
    OBVIOUS
<1>0. ConnsInv /\ SubsInv /\ CmdsInv
    BY <1>1 DEF Inv
<1>2. CASE ServerExecutes
  <2>1. ConnsInv'
    BY <1>0, <1>2, ConnsKept DEF ServerExecutes
  <2>2. SubsInv'
    BY <1>0, <1>2, SubsKept DEF ServerExecutes, conns, subs
  <2> QED
    BY <1>0, <1>2, <2>1, <2>2, CmdsExecuted DEF Inv
<1>3. CASE ServerSubscribes
  <2>1. ConnsInv'
    BY <1>0, <1>3, ConnsKept DEF ServerSubscribes
  <2>2. CmdsInv'
    BY <1>0, <1>3, CmdsKept DEF ServerSubscribes, cmds
  <2> QED
    BY <1>0, <1>3, <2>1, <2>2, SubsRead DEF Inv
<1> QED
    BY <1>1, <1>2, <1>3 DEF Server

LEMMA TroubleStep == Inv /\ Trouble => Inv'
<1>1. SUFFICES ASSUME Inv, Trouble PROVE Inv'
    OBVIOUS
<1>2. CASE redis_pub_ping
  <2>0. ConnsInv /\ TypedConns /\ SubsInv /\ CmdsInv
    BY <1>1 DEF Inv, ConnsInv
  <2>1. CASE queue # <<>>
    <3>1. uuid["pub"] # "none" /\ redis_on_close_pub
      BY <1>2, <2>1 DEF redis_pub_ping
    <3> QED
      BY <1>1, <3>1, Closes DEF Link
  <2>2. CASE queue = <<>>
    <3>1. UNCHANGED <<conns, subs>>
      BY <1>2, <2>2 DEF redis_pub_ping
    <3>2. ConnsInv'
      BY <2>0, <3>1, ConnsKept
    <3>3. SubsInv'
      BY <2>0, <3>1, SubsKept DEF conns, subs
    <3> QED
      BY <1>2, <2>0, <3>2, <3>3, CmdsPinged DEF Inv
  <2> QED
    BY <2>1, <2>2
<1>3. ASSUME NEW i \in Link, Lost(i) PROVE Inv'
    BY <1>1, <1>3, Closes DEF Lost
<1>4. ASSUME NEW i \in Link, ReactorCloses(i) PROVE Inv'
    BY <1>1, <1>4, Closes DEF ReactorCloses
<1> QED
    BY <1>1, <1>2, <1>3, <1>4 DEF Trouble

LEMMA UseStep == Inv /\ Use => Inv'
<1>1. SUFFICES ASSUME Inv, Use PROVE Inv'
    OBVIOUS
<1>0. ConnsInv /\ SubsInv /\ CmdsInv
    BY <1>1 DEF Inv
<1>2. ASSUME NEW c \in Cmd, redis_engine_send(c) PROVE Inv'
  <2>1. ConnsInv'
    BY <1>0, <1>2, ConnsKept DEF redis_engine_send
  <2>2. SubsInv'
    BY <1>0, <1>2, SubsKept DEF redis_engine_send, conns, subs
  <2> QED
    BY <1>0, <1>2, <2>1, <2>2, CmdsSent DEF Inv
<1>3. ASSUME NEW n \in Name, redis_on_subscribe_root(n) PROVE Inv'
  <2>1. ConnsInv'
    BY <1>0, <1>3, ConnsKept DEF redis_on_subscribe_root
  <2>2. CmdsInv'
    BY <1>0, <1>3, CmdsKept DEF redis_on_subscribe_root, cmds
  <2>3. chans' = chans \cup {n} /\ subwire' = Told("SUBSCRIBE", n) /\ UNCHANGED <<uuid, srv>>
    BY <1>3 DEF redis_on_subscribe_root, conns
  <2>4. SubsInv'
    BY <1>0, <2>3, SubsCalled
  <2> QED
    BY <2>1, <2>2, <2>4 DEF Inv
<1>4. ASSUME NEW n \in Name, redis_on_unsubscribe_root(n) PROVE Inv'
  <2>1. ConnsInv'
    BY <1>0, <1>4, ConnsKept DEF redis_on_unsubscribe_root
  <2>2. CmdsInv'
    BY <1>0, <1>4, CmdsKept DEF redis_on_unsubscribe_root, cmds
  <2>3. chans' = chans \ {n} /\ subwire' = Told("UNSUBSCRIBE", n) /\ UNCHANGED <<uuid, srv>>
    BY <1>4 DEF redis_on_unsubscribe_root, conns
  <2>4. "UNSUBSCRIBE" # "SUBSCRIBE"
    OBVIOUS
  <2>5. SubsInv'
    BY <1>0, <2>3, <2>4, SubsCalled
  <2> QED
    BY <2>1, <2>2, <2>5 DEF Inv
<1>5. CASE ServerPublishes
  <2>1. ConnsInv'
    BY <1>0, <1>5, ConnsKept DEF ServerPublishes
  <2>2. SubsInv'
    BY <1>0, <1>5, SubsKept DEF ServerPublishes, conns
  <2>3. CmdsInv'
    BY <1>0, <1>5, CmdsKept DEF ServerPublishes, cmds
  <2> QED
    BY <2>1, <2>2, <2>3 DEF Inv
<1>6. CASE redis_on_facil_shutdown
  <2>1. ConnsInv'
    BY <1>0, <1>6, ConnsMove
  <2>2. SubsInv'
    BY <1>0, <1>6, SubsKept DEF redis_on_facil_shutdown, subs
  <2>3. CmdsInv'
    BY <1>0, <1>6, CmdsKept DEF redis_on_facil_shutdown, cmds
  <2> QED
    BY <2>1, <2>2, <2>3 DEF Inv
<1>7. CASE redis_engine_destroy
  <2>1. ConnsInv'
    BY <1>0, <1>7, ConnsMove
  <2>2. SubsInv'
    BY <1>0, <1>7, SubsKept DEF redis_engine_destroy, subs
  <2>3. CmdsInv'
    BY <1>0, <1>7, CmdsKept DEF redis_engine_destroy, cmds
  <2> QED
    BY <2>1, <2>2, <2>3 DEF Inv
<1> QED
    BY <1>1, <1>2, <1>3, <1>4, <1>5, <1>6, <1>7 DEF Use

LEMMA NextInv == Inv /\ [Next]_vars => Inv'
<1>1. SUFFICES ASSUME Inv, [Next]_vars PROVE Inv'
    OBVIOUS
<1>2. CASE UNCHANGED vars
  <2>1. ConnsInv'
    BY <1>1, <1>2, ConnsKept DEF Inv, vars
  <2>2. SubsInv'
    BY <1>1, <1>2, SubsKept DEF Inv, vars, conns, subs
  <2>3. CmdsInv'
    BY <1>1, <1>2, CmdsKept DEF Inv, vars, cmds
  <2> QED
    BY <2>1, <2>2, <2>3 DEF Inv
<1> QED
    BY <1>1, <1>2, ReactorStep, ConnectsStep, ServerStep, TroubleStep, UseStep DEF Next

-----------------------------------------------------------------------------
(* What the invariant says of the engine.                                  *)

\* Every inhabited set of naturals has a least element.
LEMMA Least ==
    ASSUME NEW S \in SUBSET Nat, S # {}
    PROVE  \E m \in S : \A n \in S : m <= n
<1> DEFINE upTo == {0 .. n : n \in S}
<1>1. upTo \subseteq FiniteSubsetsOf(Nat) /\ upTo # {}
  <2>1. \A n \in S : IsFiniteSet(0 .. n) /\ 0 .. n \in SUBSET Nat
    BY FS_Interval
  <2> QED
    BY <2>1 DEF FiniteSubsetsOf
<1>2. PICK x \in upTo : \A y \in upTo : ~(<<y, x>> \in StrictSubsetOrdering(Nat))
  <2> HIDE DEF upTo
  <2> QED
    BY <1>1, FS_StrictSubsetOrderingWellFounded, WFMin
<1>3. PICK m \in S : x = 0 .. m
    OBVIOUS
<1>4. ASSUME NEW n \in S PROVE m <= n
  <2>1. SUFFICES ASSUME n < m PROVE FALSE
    OBVIOUS
  <2>2. 0 .. n \subseteq 0 .. m /\ m \in 0 .. m /\ m \notin 0 .. n
    BY <2>1
  <2>3. <<0 .. n, x>> \in StrictSubsetOrdering(Nat)
    BY <2>2, <1>3 DEF StrictSubsetOrdering
  <2> QED
    BY <2>3, <1>2
<1> QED
    BY <1>4

LEMMA Exact == Inv => RefCountExact
<1>1. SUFFICES ASSUME Inv PROVE RefCountExact
    OBVIOUS
<1>2. PICK S : S = {i \in Link : uuid[i] # "none"}
    OBVIOUS
<1>3. Cardinality(S) = One(uuid["pub"] # "none") + One(uuid["sub"] # "none")
  <2>1. \A i : i \in S <=> i \in {"pub", "sub"} /\ uuid[i] # "none"
    BY <1>2 DEF Link
  <2>2. CASE uuid["pub"] = "none" /\ uuid["sub"] = "none"
    <3>1. S = {}
      BY <2>1, <2>2
    <3> QED
      BY <2>2, <3>1, FS_EmptySet DEF One
  <2>3. CASE uuid["pub"] # "none" /\ uuid["sub"] = "none"
    <3>1. S = {"pub"}
      BY <2>1, <2>3
    <3> QED
      BY <2>3, <3>1, FS_Singleton DEF One
  <2>4. CASE uuid["pub"] = "none" /\ uuid["sub"] # "none"
    <3>1. S = {"sub"}
      BY <2>1, <2>4
    <3> QED
      BY <2>4, <3>1, FS_Singleton DEF One
  <2>5. CASE uuid["pub"] # "none" /\ uuid["sub"] # "none"
    <3>1. S = {"pub"} \cup {"sub"}
      BY <2>1, <2>5
    <3>2. IsFiniteSet({"pub"}) /\ Cardinality({"pub"}) = 1 /\ "sub" \notin {"pub"}
      BY FS_Singleton
    <3>3. Cardinality(S) = 1 + 1
      BY <3>1, <3>2, FS_AddElement
    <3> QED
      BY <2>5, <3>3 DEF One
  <2> QED
    BY <2>2, <2>3, <2>4, <2>5
<1>4. ref = Users /\ tasks \in [Link -> Nat]
    BY <1>1 DEF Inv, ConnsInv, TypedConns, Counted
<1>5. One(uuid["pub"] # "none") \in Int /\ One(uuid["sub"] # "none") \in Int
    BY DEF One
<1>6. One(created) = IF created THEN 1 ELSE 0
    BY DEF One
<1>7. (IF created THEN 1 ELSE 0) \in Int
    OBVIOUS
<1> QED
    BY <1>2, <1>3, <1>4, <1>5, <1>6, <1>7 DEF RefCountExact, Users, Link

LEMMA Subscribed == Inv => ServerKnowsChannels
<1>1. SUFFICES ASSUME Inv, uuid["sub"] = "up", subwire = <<>> PROVE srv = chans
    BY DEF ServerKnowsChannels
<1>2. /\ srv \in SUBSET Name /\ chans \in SUBSET Name
      /\ \A n \in Name : Heard(subwire, srv, n) => n \in chans
      /\ \A n \in chans : Heard(subwire, srv, n)
    BY <1>1 DEF Inv, SubsInv, TypedSubs, Knows
<1>3. ASSUME NEW n PROVE Heard(subwire, srv, n) <=> n \in srv
    BY <1>1 DEF Heard, Silent
<1> QED
    BY <1>2, <1>3

LEMMA FirstRunIs ==
    ASSUME executed \in Seq(Item), NEW c, Contains(executed, c)
    PROVE  FirstRun(c) \in DOMAIN executed /\ executed[FirstRun(c)] = c
<1>1. PICK n \in Nat : n = Len(executed) /\ DOMAIN executed = 1 .. n
    BY LenProperties
<1>2. PICK S : S = {i \in 1 .. n : executed[i] = c}
    OBVIOUS
<1>3. S \in SUBSET Nat /\ S # {}
    BY <1>1, <1>2 DEF Contains
<1>4. PICK m \in S : \A i \in S : m <= i
    BY <1>3, Least
<1>5. m \in 1 .. n /\ executed[m] = c
    BY <1>2
<1>6. ASSUME NEW j \in 1 .. (m - 1) PROVE executed[j] # c
  <2>1. SUFFICES ASSUME executed[j] = c PROVE FALSE
    OBVIOUS
  <2>2. j \in 1 .. n /\ j \in Nat /\ m \in Nat
    BY <1>5
  <2>3. j \in S
    BY <1>2, <2>1, <2>2
  <2>4. m <= j
    BY <1>4, <2>3
  <2> QED
    BY <2>2, <2>4
<1>7. \E k \in DOMAIN executed : executed[k] = c /\ \A j \in 1 .. (k - 1) : executed[j] # c
    BY <1>1, <1>5, <1>6
<1> QED
    BY <1>7 DEF FirstRun

LEMMA Ordered == Inv => ExecutedInOrder
<1>1. SUFFICES ASSUME Inv PROVE ExecutedInOrder
    OBVIOUS
<1>2. TypedCmds /\ Fit(attached, mail, queue, executed \o wire)
    BY <1>1 DEF Inv, CmdsInv, Orderly
<1>3. InOrder(attached, executed \o wire)
    BY <1>2 DEF Fit
<1>4. executed \in Seq(Item) /\ wire \in Seq(Item) /\ attached \in Seq(Cmd) /\ IsInjective(attached)
    BY <1>2 DEF TypedCmds
<1>5. PICK n \in Nat, m \in Nat, o \in Nat : n = Len(executed) /\ m = Len(wire) /\ o = Len(attached)
    BY <1>4, LenProperties
<1>6. DOMAIN attached = 1 .. o /\ DOMAIN executed = 1 .. n
    BY <1>4, <1>5, LenProperties
<1>7. PICK h : h = executed \o wire
    OBVIOUS
<1>8. DOMAIN h = 1 .. n + m /\ \A i \in 1 .. n : h[i] = executed[i]
    BY <1>4, <1>5, <1>7, ConcatIs
<1>9. SUFFICES ASSUME NEW i \in 1 .. o, NEW j \in 1 .. o, i < j,
                      Contains(executed, attached[i]), Contains(executed, attached[j])
               PROVE  FirstRun(attached[i]) < FirstRun(attached[j])
    BY <1>6 DEF ExecutedInOrder
<1>10. PICK a, b : a = FirstRun(attached[i]) /\ b = FirstRun(attached[j])
    OBVIOUS
<1>11. a \in 1 .. n /\ b \in 1 .. n /\ executed[a] = attached[i] /\ executed[b] = attached[j]
    BY <1>4, <1>6, <1>9, <1>10, FirstRunIs
<1>12. a \in 1 .. n + m /\ b \in 1 .. n + m /\ h[a] = attached[i] /\ h[b] = attached[j]
    BY <1>8, <1>11
<1>13. ~(b <= a)
  <2>1. SUFFICES ASSUME b <= a PROVE FALSE
    OBVIOUS
  <2>2. j <= i
    BY <1>3, <1>6, <1>7, <1>8, <1>12, <2>1 DEF InOrder
  <2> QED
    BY <1>9, <2>2
<1> QED
    BY <1>10, <1>11, <1>13

\* For any commands and however often connections are lost: redis_free comes with the last
\* user (ref counts them), redis_on_connect leaves the server subscribed to the names that
\* have subscribers, and no command first runs before one that redis_engine_send took earlier.
THEOREM EngineSafety == Spec => []EngineSound
<1>1. Inv => EngineSound
    BY Exact, Subscribed, Ordered DEF EngineSound
<1> QED
    BY <1>1, InitInv, NextInv, PTL DEF Spec
=============================================================================
