---------------------------- MODULE ClusterProofs ----------------------------
(***************************************************************************)
(* Theorems about the processes of a server, for any number of workers,    *)
(* incarnations, names, messages, calls and faults: no process forks while *)
(* another thread is inside a callback, every connected process is given a *)
(* publication exactly once, and the root has the workers' subscriptions.  *)
(***************************************************************************)
EXTENDS Cluster, FiniteSetTheorems, WellFoundedInduction, SequenceTheorems, TLAPS

\* The counters of the root's slots have not come round: each incarnation bumps
\* one of them when it is accepted and when it is closed.
NoWrap == 2 * MaxChild + 1 < COUNTER

Name   == Channel \cup Pattern
Uuid   == Int \X Int
Post   == [type : {"FORWARD", "ROOT"}, arg : Msg]
Notice == [type : {"SUB", "UNSUB"}, arg : Name]
Order  == {Message("SHUTDOWN", "")}
ToRoot  == Post \cup Notice \cup Order
ToChild == [type : {"FORWARD"}, arg : Msg] \cup Order

RootType == [st : {"run", "unwind", "wait", "finished", "crashed"}, active : BOOLEAN,
             boot : Int, tasks : Int, main : {"loop", "fork_wait"}, usr1 : BOOLEAN]
ThreadType == {"none", "fork", "waitpid", "lock", "push", "ended"}
Conn == [st : {"none", "backlog", "attached", "closed"}, uuid : Uuid,
         pubsub : SUBSET Channel, patterns : SUBSET Pattern]
Worker == [st : {"none", "born", "run", "stopping", "halt", "gone"}, uuid : {"0", "open", "lost"},
           type : {"NONE", "FORWARD", "SHUTDOWN"}, names : SUBSET Name, pend : Seq(Post \cup Notice)]

Typed ==
    /\ root \in RootType
    /\ fork_lock \in BOOLEAN
    /\ thread \in [Child -> ThreadType]
    /\ wk \in [Child -> Worker]
    /\ conn \in [Child -> Conn]
    /\ clients \in Seq(Uuid)
    /\ counter \in [Fd -> Nat]
    /\ leaked \subseteq Pattern
    /\ up \in [Child -> Seq(ToRoot)]
    /\ down \in [Child -> Seq(ToChild)]
    /\ delivered \in [Proc -> [Msg -> {0, 1}]]
    /\ audience \in [Msg -> [from : Proc, to : SUBSET Proc]]

-----------------------------------------------------------------------------
(* The inductive invariant.                                                *)

\* fork_lock has one holder, and a thread forks a child that there is not yet
Unborn(c) == wk[c].st = "none"
ThreadsAgree ==
    \A c \in Child :
        /\ thread[c] \in {"none", "fork"} => Unborn(c)
        /\ thread[c] \in {"fork", "push"} =>
              fork_lock /\ \A d \in Child : d # c => thread[d] \notin {"fork", "push"}

\* How far a worker and the two ends of its connection can be apart.
WorkerAgrees(c) ==
    /\ wk[c].st \in {"none", "born"} => wk[c].uuid = "0" /\ wk[c].pend = <<>> /\ conn[c].st = "none"
    /\ wk[c].st = "run" => conn[c].st # "none"
    /\ wk[c].st = "stopping" => wk[c].uuid # "0"
    /\ wk[c].uuid = "0" => up[c] = <<>> /\ conn[c].pubsub = {} /\ conn[c].patterns = {}
    /\ wk[c].uuid = "open" => conn[c].st # "none"
    /\ wk[c].uuid = "lost" => conn[c].st = "closed"
    /\ ~Alive(c) => down[c] = <<>> /\ wk[c].pend = <<>>
    /\ root.st = "run" /\ Alive(c) => conn[c].st # "closed"
    /\ root.st = "run" /\ wk[c].pend # <<>> => wk[c].uuid = "open" \/ Active(c)
    /\ wk[c].uuid # "lost" => wk[c].pend \in Seq(Post)
WorkersAgree == \A c \in Child : WorkerAgrees(c)

\* The root's slots: each connection has one, and one entry in the list of clients.
Accepted == {c \in Child : conn[c].st \in {"attached", "closed"}}
Closed   == {c \in Child : conn[c].st = "closed"}
SlotsAgree ==
    /\ \A c \in Attached : conn[c].uuid[1] \in Fd /\ UuidValid(conn[c].uuid)
    /\ \A c, d \in Attached : conn[c].uuid[1] = conn[d].uuid[1] => c = d
    /\ \A f \in Fd : counter[f] <= 1 + Cardinality(Accepted) + Cardinality(Closed)
ClientsAgree ==
    /\ \A i \in DOMAIN clients : clients[i][1] \in Fd /\ clients[i][2] <= counter[clients[i][1]]
    /\ \A i, j \in DOMAIN clients : clients[i] = clients[j] => i = j
    /\ \A c \in Attached : \E i \in DOMAIN clients : clients[i] = conn[c].uuid

\* What the root will know of a name when it has read what is on its way.
About(x, n) == x \in {Message("SUB", n), Message("UNSUB", n)}
Known(c) == conn[c].pubsub \cup conn[c].patterns
Told(s, S, n, b) ==
    /\ (\A i \in DOMAIN s : ~About(s[i], n)) => (n \in S <=> b)
    /\ \A i \in DOMAIN s : About(s[i], n) /\ (\A j \in DOMAIN s : j > i => ~About(s[j], n))
          => (s[i] = Message("SUB", n) <=> b)
NameAgrees(c) ==
    wk[c].uuid = "open" /\ conn[c].st \in {"backlog", "attached"} =>
        \A n \in Name : Told(up[c], Known(c), n, n \in wk[c].names)
NamesAgree == \A c \in Child : NameAgrees(c)

\* Where a publication is: with its publisher, on its way to the root, to a child.
Has(s, x) == \E i \in DOMAIN s : s[i] = x
Fwd(m) == Message("FORWARD", m)
ToRootOnly(m) == Message("ROOT", m)
In(s, m) == Has(s, Fwd(m)) \/ Has(s, ToRootOnly(m))
Once(s) ==
    \A m \in Msg : \A i, j \in DOMAIN s :
        s[i] \in {Fwd(m), ToRootOnly(m)} /\ s[j] \in {Fwd(m), ToRootOnly(m)} => i = j
Sending(c, m) == In(up[c], m) \/ In(wk[c].pend, m)
PostAgrees(m) ==
    /\ audience[m].to = {} => \A p \in Proc : delivered[p][m] = 0
    /\ \A c \in Child : Sending(c, m) \/ In(down[c], m) => audience[m].to # {}
    /\ \A c \in Child : Sending(c, m) =>
          /\ audience[m].from = c /\ ~(In(up[c], m) /\ In(wk[c].pend, m))
          /\ delivered[Root][m] = 0
          /\ \A d \in Child : ~In(down[d], m) /\ (d # c => delivered[d][m] = 0)
    /\ \A c \in Child : In(down[c], m) => delivered[c][m] = 0
PostsAgree ==
    /\ \A c \in Child : Once(up[c]) /\ Once(down[c]) /\ Once(wk[c].pend)
    /\ \A m \in Msg : PostAgrees(m)

\* ... and who still waits for it.
Unserved(p, m) == InService(p) /\ delivered[p][m] = 0
Invited(p, m) == p \in audience[m].to /\ p # Root
ServedAgrees(m, f) ==
    /\ f # Root => ~Unborn(f)
    /\ \A c \in Child : Has(up[c], ToRootOnly(m)) \/ Has(wk[c].pend, ToRootOnly(m)) =>
          audience[m].to = {Root}
    /\ \A c \in Child : Invited(c, m) =>
          IF c = f THEN delivered[c][m] = 1
          ELSE wk[c].uuid # "0" /\ conn[c].st \in {"attached", "closed"}
    /\ root.st = "run" /\ (f # Root => Alive(f)) =>
          \A p \in audience[m].to : Unserved(p, m) =>
             \/ f # Root /\ Sending(f, m)
             \/ p # Root /\ In(down[p], m)
ServedAgree == \A m \in Msg, f \in Proc : audience[m].from = f => ServedAgrees(m, f)

Inv == Typed /\ ThreadsAgree /\ WorkersAgree /\ SlotsAgree /\ ClientsAgree
         /\ NamesAgree /\ PostsAgree /\ ServedAgree

-----------------------------------------------------------------------------
(* Sequences of messages.                                                  *)

LEMMA TailIs ==
    ASSUME NEW S, NEW q \in Seq(S), q # <<>>
    PROVE  /\ Tail(q) \in Seq(S) /\ Head(q) \in S /\ Head(q) = q[1] /\ Len(q) \in Nat /\ Len(q) >= 1
           /\ DOMAIN q = 1 .. Len(q) /\ DOMAIN Tail(q) = 1 .. Len(q) - 1
           /\ \A i \in 1 .. Len(q) - 1 : Tail(q)[i] = q[i + 1]
  BY HeadTailProperties, EmptySeq

LEMMA AppendIs ==
    ASSUME NEW S, NEW q \in Seq(S), NEW x \in S
    PROVE  /\ Append(q, x) \in Seq(S) /\ Len(q) \in Nat
           /\ DOMAIN q = 1 .. Len(q) /\ DOMAIN Append(q, x) = 1 .. Len(q) + 1
           /\ \A i \in 1 .. Len(q) : Append(q, x)[i] = q[i]
           /\ Append(q, x)[Len(q) + 1] = x
  BY AppendProperties, LenProperties

LEMMA ConcatIs ==
    ASSUME NEW S, NEW q \in Seq(S), NEW r \in Seq(S),
           NEW n, n = Len(q), NEW k, k = Len(r), NEW u, u = q \o r
    PROVE  /\ u \in Seq(S) /\ n \in Nat /\ k \in Nat /\ Len(u) = n + k
           /\ DOMAIN q = 1 .. n /\ DOMAIN r = 1 .. k /\ DOMAIN u = 1 .. n + k
           /\ \A i \in 1 .. n : u[i] = q[i]
           /\ \A i \in 1 .. k : u[n + i] = r[i]
  BY ConcatProperties, LenProperties

LEMMA EmptyIs ==
    ASSUME NEW S
    PROVE  /\ <<>> \in Seq(S) /\ Once(<<>>) /\ \A x : ~Has(<<>>, x)
           /\ \A m : ~In(<<>>, m)
<1>1. <<>> \in Seq(S) /\ DOMAIN <<>> = {}
  BY EmptySeq
<1> QED
  BY <1>1 DEF Once, Has, In

\* The first message of a queue is taken.
LEMMA Taken ==
    ASSUME NEW S, NEW q \in Seq(S), q # <<>>
    PROVE  /\ \A x : Has(q, x) <=> Head(q) = x \/ Has(Tail(q), x)
           /\ Once(q) => Once(Tail(q)) /\ \A m \in Msg : Head(q) \in {Fwd(m), ToRootOnly(m)} => ~In(Tail(q), m)
<1>1. PICK r, n : r = Tail(q) /\ n = Len(q)
  OBVIOUS
<1>2. /\ n \in Nat /\ n >= 1 /\ DOMAIN q = 1 .. n /\ DOMAIN r = 1 .. n - 1 /\ Head(q) = q[1]
      /\ \A i \in 1 .. n - 1 : r[i] = q[i + 1]
  BY <1>1, TailIs
<1>3. ASSUME NEW x PROVE Has(q, x) <=> q[1] = x \/ Has(r, x)
  <2>1. ASSUME NEW i \in 1 .. n, q[i] = x, i # 1 PROVE Has(r, x)
    <3>1. i - 1 \in 1 .. n - 1 /\ r[i - 1] = q[(i - 1) + 1] /\ (i - 1) + 1 = i
      BY <1>2, <2>1
    <3> QED
      BY <1>2, <2>1, <3>1 DEF Has
  <2>2. ASSUME NEW i \in 1 .. n - 1, r[i] = x PROVE Has(q, x)
    <3>1. i + 1 \in 1 .. n /\ q[i + 1] = x
      BY <1>2, <2>2
    <3> QED
      BY <1>2, <3>1 DEF Has
  <2>3. 1 \in 1 .. n
    BY <1>2
  <2> QED
    BY <1>2, <2>1, <2>2, <2>3 DEF Has
<1>4. ASSUME Once(q), NEW m \in Msg, NEW i \in 1 .. n - 1, NEW j \in 1 .. n - 1,
             r[i] \in {Fwd(m), ToRootOnly(m)}, r[j] \in {Fwd(m), ToRootOnly(m)}
      PROVE  i = j
  <2>1. i + 1 \in 1 .. n /\ j + 1 \in 1 .. n /\ r[i] = q[i + 1] /\ r[j] = q[j + 1]
    BY <1>2
  <2>2. i + 1 = j + 1
    BY <1>2, <1>4, <2>1 DEF Once
  <2> QED
    BY <2>2
<1>5. ASSUME Once(q), NEW m \in Msg, Head(q) \in {Fwd(m), ToRootOnly(m)} PROVE ~In(r, m)
  <2>1. SUFFICES ASSUME NEW i \in 1 .. n - 1, r[i] \in {Fwd(m), ToRootOnly(m)} PROVE FALSE
    BY <1>2 DEF In, Has
  <2>2. i + 1 \in 1 .. n /\ 1 \in 1 .. n /\ r[i] = q[i + 1] /\ i + 1 # 1
    BY <1>2
  <2> QED
    BY <1>2, <1>5, <2>1, <2>2 DEF Once
<1> QED
  BY <1>1, <1>2, <1>3, <1>4, <1>5 DEF Once

\* A message is put behind the others.
LEMMA Joined ==
    ASSUME NEW S, NEW q \in Seq(S), NEW y \in S
    PROVE  /\ \A x : Has(Append(q, y), x) <=> Has(q, x) \/ x = y
           /\ Once(q) /\ (\A m \in Msg : y \in {Fwd(m), ToRootOnly(m)} => ~In(q, m)) => Once(Append(q, y))
<1>1. PICK r, n : r = Append(q, y) /\ n = Len(q)
  OBVIOUS
<1>2. /\ n \in Nat /\ DOMAIN q = 1 .. n /\ DOMAIN r = 1 .. n + 1
      /\ \A i \in 1 .. n : r[i] = q[i]
      /\ r[n + 1] = y
  BY <1>1, AppendIs
<1>3. ASSUME NEW x PROVE Has(r, x) <=> Has(q, x) \/ x = y
  BY <1>2 DEF Has
<1>4. ASSUME Once(q), \A m \in Msg : y \in {Fwd(m), ToRootOnly(m)} => ~In(q, m),
             NEW m \in Msg, NEW i \in 1 .. n + 1, NEW j \in 1 .. n + 1,
             r[i] \in {Fwd(m), ToRootOnly(m)}, r[j] \in {Fwd(m), ToRootOnly(m)}
      PROVE  i = j
  <2>1. CASE i \in 1 .. n /\ j \in 1 .. n
    BY <1>2, <1>4, <2>1 DEF Once
  <2>2. CASE i = n + 1 /\ j \in 1 .. n
    <3>1. y \in {Fwd(m), ToRootOnly(m)} /\ q[j] \in {Fwd(m), ToRootOnly(m)}
      BY <1>2, <1>4, <2>2
    <3> QED
      BY <1>2, <1>4, <2>2, <3>1 DEF In, Has
  <2>3. CASE j = n + 1 /\ i \in 1 .. n
    <3>1. y \in {Fwd(m), ToRootOnly(m)} /\ q[i] \in {Fwd(m), ToRootOnly(m)}
      BY <1>2, <1>4, <2>3
    <3> QED
      BY <1>2, <1>4, <2>3, <3>1 DEF In, Has
  <2> QED
    BY <1>2, <2>1, <2>2, <2>3
<1> QED
  BY <1>1, <1>2, <1>3, <1>4 DEF Once

\* Copies of a message are put behind the others.
CopiesJoined(u, q, y, k) ==
    /\ k = 0 => u = q
    /\ \A x : Has(u, x) <=> Has(q, x) \/ (x = y /\ k # 0)
    /\ Once(q) /\ (\A m \in Msg : y \in {Fwd(m), ToRootOnly(m)} => ~In(q, m) /\ k <= 1) => Once(u)
LEMMA Copied ==
    ASSUME NEW S, NEW q \in Seq(S), NEW y \in S, NEW k \in Nat, NEW r \in [1 .. k -> {y}]
    PROVE  q \o r \in Seq(S) /\ CopiesJoined(q \o r, q, y, k)
<1>1. PICK u : u = q \o r
  OBVIOUS
<1>2. r \in Seq(S) /\ Len(r) = k /\ \A i \in 1 .. k : r[i] = y
  OBVIOUS
<1>3. PICK n : n = Len(q)
  OBVIOUS
<1>4. n \in Nat /\ DOMAIN q = 1 .. n /\ u = q \o r
  BY <1>1, <1>3, LenProperties
<1>5. /\ u \in Seq(S) /\ Len(u) = n + k /\ DOMAIN u = 1 .. n + k
      /\ (\A i \in 1 .. n : u[i] = q[i]) /\ \A i \in 1 .. k : u[n + i] = r[i]
  <2>1. PICK x : x = r
    OBVIOUS
  <2>2. x \in Seq(S) /\ q \in Seq(S) /\ n = Len(q) /\ k = Len(x) /\ u = q \o x
    BY <1>2, <1>3, <1>4, <2>1
  <2>3. /\ u \in Seq(S) /\ Len(u) = n + k /\ DOMAIN u = 1 .. n + k
        /\ (\A i \in 1 .. n : u[i] = q[i]) /\ \A i \in 1 .. k : u[n + i] = x[i]
    BY <2>2, ConcatIs
  <2> QED
    BY <2>1, <2>3
<1>6. DOMAIN u = 1 .. n + k
  BY <1>5
<1>7. /\ \A i \in 1 .. n : u[i] = q[i] /\ i \in 1 .. n + k
      /\ \A i \in 1 .. n + k : i \notin 1 .. n => i - n \in 1 .. k /\ n + (i - n) = i
  BY <1>4, <1>5
<1>8. \A i \in 1 .. n + k : i \notin 1 .. n => u[i] = y
  BY <1>2, <1>5, <1>7
<1>9. ASSUME NEW x PROVE Has(u, x) <=> Has(q, x) \/ (x = y /\ k # 0)
  <2>1. k # 0 => n + 1 \in 1 .. n + k /\ n + 1 \notin 1 .. n
    BY <1>4
  <2>2. k = 0 => 1 .. n + k = 1 .. n
    BY <1>4
  <2> QED
    BY <1>4, <1>6, <1>7, <1>8, <2>1, <2>2 DEF Has
<1>10. k = 0 => u = q
  <2>1. k = 0 => Len(u) = Len(q) /\ \A i \in 1 .. Len(u) : u[i] = q[i]
    BY <1>3, <1>4, <1>5, <1>7
  <2> QED
    BY <1>5, <2>1, SeqEqual
<1>11. ASSUME Once(q), \A m \in Msg : y \in {Fwd(m), ToRootOnly(m)} => ~In(q, m) /\ k <= 1,
              NEW m \in Msg, NEW i \in 1 .. n + k, NEW j \in 1 .. n + k,
              u[i] \in {Fwd(m), ToRootOnly(m)}, u[j] \in {Fwd(m), ToRootOnly(m)}
       PROVE  i = j
  <2>1. CASE i \in 1 .. n /\ j \in 1 .. n
    BY <1>4, <1>7, <1>11, <2>1 DEF Once
  <2>2. CASE i \notin 1 .. n /\ j \in 1 .. n
    <3>1. y \in {Fwd(m), ToRootOnly(m)} /\ q[j] \in {Fwd(m), ToRootOnly(m)}
      BY <1>7, <1>8, <1>11, <2>2
    <3> QED
      BY <1>4, <1>11, <2>2, <3>1 DEF In, Has
  <2>3. CASE j \notin 1 .. n /\ i \in 1 .. n
    <3>1. y \in {Fwd(m), ToRootOnly(m)} /\ q[i] \in {Fwd(m), ToRootOnly(m)}
      BY <1>7, <1>8, <1>11, <2>3
    <3> QED
      BY <1>4, <1>11, <2>3, <3>1 DEF In, Has
  <2>4. CASE i \notin 1 .. n /\ j \notin 1 .. n
    <3>1. k <= 1
      BY <1>8, <1>11, <2>4
    <3> QED
      BY <3>1, <1>4, <2>4
  <2> QED
    BY <2>1, <2>2, <2>3, <2>4
<1>12. Once(q) /\ (\A m \in Msg : y \in {Fwd(m), ToRootOnly(m)} => ~In(q, m) /\ k <= 1) => Once(u)
  BY <1>6, <1>11 DEF Once
<1> QED
  BY <1>1, <1>5, <1>9, <1>10, <1>12 DEF CopiesJoined

\* What the root will know of a name, when it reads a message and when one is sent.
LEMMA ToldTaken ==
    ASSUME NEW S, NEW q \in Seq(S), q # <<>>, NEW n, NEW A, NEW B, NEW N,
           Told(q, A, n, n \in N),
           n \in B <=> IF About(Head(q), n) THEN Head(q) = Message("SUB", n) ELSE n \in A
    PROVE  Told(Tail(q), B, n, n \in N)
<1>1. PICK r, k : r = Tail(q) /\ k = Len(q)
  OBVIOUS
<1>2. /\ k \in Nat /\ k >= 1 /\ DOMAIN q = 1 .. k /\ DOMAIN r = 1 .. k - 1 /\ Head(q) = q[1]
      /\ \A i \in 1 .. k - 1 : r[i] = q[i + 1]
  BY <1>1, TailIs
<1>3. ASSUME NEW i \in 1 .. k, i # 1 PROVE i - 1 \in 1 .. k - 1 /\ r[i - 1] = q[i]
  <2>1. i - 1 \in 1 .. k - 1 /\ (i - 1) + 1 = i
    BY <1>2, <1>3
  <2> QED
    BY <1>2, <2>1
<1>4. ASSUME \A i \in DOMAIN r : ~About(r[i], n) PROVE n \in B <=> n \in N
  <2>1. \A j \in DOMAIN q : j # 1 => ~About(q[j], n)
    BY <1>2, <1>3, <1>4
  <2>2. CASE About(q[1], n)
    <3>1. 1 \in DOMAIN q /\ \A j \in DOMAIN q : j > 1 => ~About(q[j], n)
      BY <1>2, <2>1
    <3> QED
      BY <2>2, <3>1, <1>2 DEF Told
  <2>3. CASE ~About(q[1], n)
    BY <2>1, <2>3, <1>2 DEF Told
  <2> QED
    BY <2>2, <2>3
<1>5. ASSUME NEW i \in DOMAIN r, About(r[i], n), \A j \in DOMAIN r : j > i => ~About(r[j], n)
      PROVE  r[i] = Message("SUB", n) <=> n \in N
  <2>1. i + 1 \in DOMAIN q /\ q[i + 1] = r[i]
    BY <1>2, <1>5
  <2>2. ASSUME NEW j \in DOMAIN q, j > i + 1 PROVE ~About(q[j], n)
    <3>1. j - 1 \in DOMAIN r /\ r[j - 1] = q[j] /\ j - 1 > i
      BY <1>2, <1>3, <1>5, <2>2
    <3> QED
      BY <1>5, <3>1
  <2> QED
    BY <1>5, <2>1, <2>2 DEF Told
<1> QED
  BY <1>1, <1>4, <1>5 DEF Told

LEMMA ToldJoined ==
    ASSUME NEW S, NEW q \in Seq(S), NEW y \in S, NEW n, NEW A, NEW N,
           IF About(y, n) THEN n \in N <=> y = Message("SUB", n) ELSE Told(q, A, n, n \in N)
    PROVE  Told(Append(q, y), A, n, n \in N)
<1>1. PICK r, k : r = Append(q, y) /\ k = Len(q)
  OBVIOUS
<1>2. /\ k \in Nat /\ DOMAIN q = 1 .. k /\ DOMAIN r = 1 .. k + 1
      /\ \A i \in 1 .. k : r[i] = q[i]
      /\ r[k + 1] = y
  BY <1>1, AppendIs
<1>3. ASSUME \A i \in DOMAIN r : ~About(r[i], n) PROVE n \in A <=> n \in N
  <2>1. ~About(y, n) /\ \A i \in DOMAIN q : ~About(q[i], n)
    BY <1>2, <1>3
  <2> QED
    BY <2>1 DEF Told
<1>4. ASSUME NEW i \in DOMAIN r, About(r[i], n), \A j \in DOMAIN r : j > i => ~About(r[j], n)
      PROVE  r[i] = Message("SUB", n) <=> n \in N
  <2>1. CASE i = k + 1
    BY <1>2, <1>4, <2>1
  <2>2. CASE i \in 1 .. k
    <3>1. ~About(y, n)
      BY <1>2, <1>4, <2>2
    <3>2. \A j \in DOMAIN q : j > i => ~About(q[j], n)
      BY <1>2, <1>4
    <3> QED
      BY <1>2, <1>4, <2>2, <3>1, <3>2 DEF Told
  <2> QED
    BY <1>2, <1>4, <2>1, <2>2
<1> QED
  BY <1>1, <1>3, <1>4 DEF Told

LEMMA NameFinite == IsFiniteSet(Name)
  BY ClusterAssumption, FS_Union DEF Name

\* fio_cluster_on_connect tells the root every name once, and nothing else.
LEMMA NoticesAre ==
    ASSUME NEW names \in SUBSET Name
    PROVE  /\ Notices(names) \in Seq(Notice) /\ Once(Notices(names))
           /\ \A m : ~In(Notices(names), m)
           /\ \A n : Told(Notices(names), {}, n, n \in names)
<1>1. PICK S : S = {Message("SUB", n) : n \in names}
  OBVIOUS
<1>2. IsFiniteSet(S) /\ S \in SUBSET Notice
  <2>1. PICK f : f = [n \in names |-> Message("SUB", n)]
    OBVIOUS
  <2>2. f \in Surjection(names, S)
    BY <1>1, <2>1 DEF Surjection
  <2>3. IsFiniteSet(S)
    BY <2>2, NameFinite, FS_Subset, FS_Surjection
  <2> QED
    BY <1>1, <2>3 DEF Notice, Message
<1>3. PICK k, f : k = Cardinality(S) /\ f = SetToSeq(S)
  OBVIOUS
<1>4. k \in Nat /\ ExistsBijection(1 .. k, S)
  BY <1>2, <1>3, FS_CardinalityType
<1>5. PICK g : g \in [1 .. k -> S] /\ IsInjective(g)
  BY <1>4 DEF ExistsBijection, Bijection, Injection
<1>6. f \in [1 .. k -> S] /\ IsInjective(f)
  BY <1>3, <1>5 DEF SetToSeq
<1>7. f \in Surjection(1 .. k, S)
  <2>1. Cardinality(1 .. k) = k
    BY <1>4, FS_Interval
  <2>2. f \in Injection(1 .. k, S)
    BY <1>6 DEF Injection, IsInjective
  <2> QED
    BY <1>2, <1>3, <2>1, <2>2, FS_Injection
<1>8. f \in Seq(Notice) /\ DOMAIN f = 1 .. k /\ f = Notices(names)
  <2>1. f \in [1 .. k -> Notice]
    BY <1>2, <1>6
  <2>2. f = Notices(names)
    BY <1>1, <1>3 DEF Notices
  <2> QED
    BY <1>4, <2>1, <2>2
<1>9. \A i \in 1 .. k : \E n \in names : f[i] = Message("SUB", n)
  BY <1>1, <1>6
<1>10. \A n \in names : \E i \in 1 .. k : f[i] = Message("SUB", n)
  BY <1>1, <1>7 DEF Surjection
<1>11. \A i \in 1 .. k : \A m : f[i] # Fwd(m) /\ f[i] # ToRootOnly(m)
  <2>1. \A i \in 1 .. k : f[i].type = "SUB"
    <3>1. \A n : Message("SUB", n).type = "SUB"
      BY DEF Message
    <3> QED
      BY <1>9, <3>1
  <2>2. \A m : Fwd(m).type = "FORWARD" /\ ToRootOnly(m).type = "ROOT"
    BY DEF Message, Fwd, ToRootOnly
  <2> QED
    BY <2>1, <2>2
<1>12. ASSUME NEW n PROVE Told(f, {}, n, n \in names)
  <2>1. ASSUME NEW i \in 1 .. k, About(f[i], n) PROVE n \in names /\ f[i] = Message("SUB", n)
    <3>1. PICK x \in names : f[i] = Message("SUB", x)
      BY <1>9
    <3>2. x = n
      BY <2>1, <3>1 DEF About, Message
    <3> QED
      BY <3>1, <3>2
  <2>2. n \in names => \E i \in 1 .. k : About(f[i], n)
    BY <1>10 DEF About
  <2> QED
    BY <1>8, <2>1, <2>2 DEF Told
<1> QED
  BY <1>8, <1>11, <1>12 DEF Once, In, Has

-----------------------------------------------------------------------------
(* The root's slots.                                                       *)

LEMMA ChildFinite == MaxChild \in Nat /\ IsFiniteSet(Child) /\ Cardinality(Child) = MaxChild /\ Fd = Child
  BY ClusterAssumption, FS_Interval DEF Child, Fd

LEMMA Smaller ==
    ASSUME NEW B \in SUBSET Child, NEW A \in SUBSET B
    PROVE  /\ Cardinality(A) \in Nat /\ Cardinality(B) \in Nat
           /\ Cardinality(A) <= Cardinality(B) /\ Cardinality(B) <= MaxChild
           /\ A # B => Cardinality(A) + 1 <= Cardinality(B)
<1>1. IsFiniteSet(B) /\ Cardinality(B) <= MaxChild
  BY ChildFinite, FS_Subset
<1>2. IsFiniteSet(A) /\ Cardinality(A) <= Cardinality(B) /\ (Cardinality(A) = Cardinality(B) => A = B)
  BY <1>1, FS_Subset
<1>3. Cardinality(A) \in Nat /\ Cardinality(B) \in Nat
  BY <1>1, <1>2, FS_CardinalityType
<1> QED
  BY <1>1, <1>2, <1>3

\* Every inhabited set of naturals has a least element.
LEMMA Least ==
    ASSUME NEW S \in SUBSET Nat, S # {}
    PROVE  \E m \in S : \A n \in S : m <= n
<1> DEFINE upTo == {0 .. n : n \in S}
<1>1. upTo \subseteq FiniteSubsetsOf(Nat) /\ upTo # {}
  <2>1. \A n \in S : IsFiniteSet(0 .. n) /\ 0 .. n \in SUBSET Nat
    BY FS_Interval
  <2> QED
    BY <2>1 DEF FiniteSubsetsOf
<1>2. PICK x \in upTo : \A y \in upTo : ~(<<y, x>> \in StrictSubsetOrdering(Nat))
  <2> HIDE DEF upTo
  <2> QED
    BY <1>1, FS_StrictSubsetOrderingWellFounded, WFMin
<1>3. PICK m \in S : x = 0 .. m
  OBVIOUS
<1>4. ASSUME NEW n \in S, n < m PROVE FALSE
  <2>1. 0 .. n \subseteq 0 .. m /\ m \in 0 .. m /\ m \notin 0 .. n
    BY <1>4
  <2>2. <<0 .. n, x>> \in StrictSubsetOrdering(Nat)
    BY <1>3, <2>1 DEF StrictSubsetOrdering
  <2> QED
    BY <1>2, <2>2
<1> QED
  BY <1>4

\* A connection in the backlog finds a free slot.
LEMMA LowestIs ==
    ASSUME Typed, NEW c \in Child, conn[c].st = "backlog"
    PROVE  LowestFd \in FreeFd /\ FreeFd \subseteq Fd
<1>1. FreeFd # {}
  <2>1. SUFFICES ASSUME FreeFd = {} PROVE FALSE
    OBVIOUS
  <2>2. PICK f : f = [d \in Attached |-> conn[d].uuid[1]]
    OBVIOUS
  <2>3. PICK T : T = {f[d] : d \in Attached}
    OBVIOUS
  <2>4. f \in Surjection(Attached, T)
    BY <2>2, <2>3 DEF Surjection
  <2>5. Attached \in SUBSET Child /\ Attached # Child
    BY DEF Attached
  <2>6. IsFiniteSet(Attached) /\ Cardinality(Attached) + 1 <= MaxChild
    BY <2>5, ChildFinite, FS_Subset, Smaller
  <2>7. Fd \subseteq T
    BY <2>1, <2>2, <2>3 DEF FreeFd, Attached
  <2>8. IsFiniteSet(T) /\ Cardinality(T) <= Cardinality(Attached)
    BY <2>4, <2>6, FS_Surjection
  <2>9. MaxChild <= Cardinality(T)
    BY <2>7, <2>8, ChildFinite, FS_Subset
  <2>10. Cardinality(T) \in Nat /\ Cardinality(Attached) \in Nat
    BY <2>6, <2>8, FS_CardinalityType
  <2> QED
    BY <2>6, <2>8, <2>9, <2>10, ChildFinite
<1>2. FreeFd \subseteq Fd /\ FreeFd \in SUBSET Nat
  BY ChildFinite DEF FreeFd, Fd
<1>3. \E f \in FreeFd : \A g \in FreeFd : f <= g
  BY <1>1, <1>2, Least
<1> QED
  BY <1>2, <1>3 DEF LowestFd

\* While the counters have not come round, each use of a slot gives a new uuid.
LEMMA BumpIs ==
    ASSUME NoWrap, NEW f \in Fd, counter[f] \in Nat, counter[f] <= 2 * MaxChild
    PROVE  Bump(f) = counter[f] + 1
  BY ClusterAssumption DEF NoWrap, Bump

\* A uuid has one entry in the list of clients: a child gets one copy.
LEMMA CopiesAre ==
    ASSUME Typed, ClientsAgree, NEW c \in Child, NEW avoid
    PROVE  /\ Copies(c, avoid) \in {0, 1}
           /\ Copies(c, avoid) = 1 <=> c \in Attached /\ conn[c].uuid # avoid /\ Alive(c)
<1>1. CASE c \in Attached /\ conn[c].uuid # avoid /\ Alive(c)
  <2>1. PICK i \in DOMAIN clients : clients[i] = conn[c].uuid
    BY <1>1 DEF ClientsAgree
  <2>2. {j \in DOMAIN clients : clients[j] = conn[c].uuid} = {i}
    BY <2>1 DEF ClientsAgree
  <2>3. Copies(c, avoid) = 1
    BY <1>1, <2>2, FS_Singleton DEF Copies, Attached
  <2> QED
    BY <1>1, <2>3
<1>2. CASE ~(c \in Attached /\ conn[c].uuid # avoid /\ Alive(c))
  BY <1>2 DEF Copies, Attached
<1> QED
  BY <1>1, <1>2

LEMMA NotRemoved ==
    ASSUME NEW S, NEW s \in Seq(S), NEW e, \A i \in DOMAIN s : s[i] # e
    PROVE  RemoveFirst(s, e) = s
<1>1. ~ \E i \in 1 .. Len(s) : s[i] = e
  BY LenProperties
<1> QED
  BY <1>1 DEF RemoveFirst

-----------------------------------------------------------------------------
(* What a step leaves as it was.                                           *)

RootGoesOn == root'.st = "run" => root.st = "run"

SameHistory(m) == audience'[m] = audience[m] /\ \A p \in Proc : delivered'[p][m] = delivered[p][m]

\* Messages are taken, or put where they were already on their way.
Flows(c, m) ==
    /\ In(up'[c], m) \/ In(wk'[c].pend, m) => Sending(c, m)
    /\ ~(In(up'[c], m) /\ In(wk'[c].pend, m))
    /\ In(down'[c], m) => In(down[c], m)

LEMMA PostKept ==
    ASSUME NEW m \in Msg, PostAgrees(m), SameHistory(m), \A c \in Child : Flows(c, m)
    PROVE  PostAgrees(m)'
<1>1. \A c \in Child : Sending(c, m)' => Sending(c, m)
  BY DEF Sending, Flows
<1>2. Child \subseteq Proc /\ Root \in Proc
  BY DEF Proc
<1> QED
  BY <1>1, <1>2 DEF PostAgrees, SameHistory, Flows

LEMMA PostsKept ==
    ASSUME PostsAgree, UNCHANGED history,
           \A c \in Child : /\ Once(up'[c]) /\ Once(down'[c]) /\ Once(wk'[c].pend)
                            /\ \A m \in Msg : Flows(c, m)
    PROVE  PostsAgree'
<1>1. \A m \in Msg : SameHistory(m)
  BY DEF SameHistory, history
<1>2. \A m \in Msg : PostAgrees(m)'
  BY <1>1, PostKept DEF PostsAgree
<1> QED
  BY <1>2 DEF PostsAgree

\* Nobody is left without the message that was on its way.
GoesOn(c) ==
    /\ Alive(c)' => Alive(c) \/ Unborn(c)
    /\ InService(c)' => InService(c) \/ wk[c].uuid = "0" \/ conn[c].st = "backlog"
    /\ conn[c].st \in {"attached", "closed"} => conn'[c].st \in {"attached", "closed"}
    /\ wk'[c].uuid = "0" => wk[c].uuid = "0"
    /\ Unborn(c)' => Unborn(c)
Carries(c, m) ==
    /\ Has(up'[c], ToRootOnly(m)) \/ Has(wk'[c].pend, ToRootOnly(m)) =>
          Has(up[c], ToRootOnly(m)) \/ Has(wk[c].pend, ToRootOnly(m))
    /\ root'.st = "run" /\ Alive(c)' /\ Sending(c, m) => In(up'[c], m) \/ In(wk'[c].pend, m)
    /\ root'.st = "run" /\ InService(c)' /\ In(down[c], m) => In(down'[c], m)
ServesAt(c) == GoesOn(c) /\ \A m \in Msg : Carries(c, m)
ServesOn == UNCHANGED history /\ RootGoesOn /\ \A c \in Child : ServesAt(c)

LEMMA ServesSame ==
    ASSUME NEW c \in Child, wk'[c] = wk[c], conn'[c].st = conn[c].st, up'[c] = up[c], down'[c] = down[c]
    PROVE  ServesAt(c)
  BY DEF ServesAt, GoesOn, Carries, Alive, InService, Unborn, Sending, Root, Child

LEMMA ServedOne ==
    ASSUME Typed, RootGoesOn, NEW m \in Msg, NEW f \in Proc, ServedAgrees(m, f), SameHistory(m),
           \A c \in Child : GoesOn(c) /\ Carries(c, m)
    PROVE  ServedAgrees(m, f)'
<1>1. ServedAgrees(m, f)
  OBVIOUS
<1>2. /\ audience'[m] = audience[m] /\ \A p \in Proc : delivered'[p][m] = delivered[p][m]
      /\ audience[m].to \subseteq Proc
      /\ Proc = Child \cup {Root} /\ Root \notin Child
  BY DEF SameHistory, Typed, Proc, Root, Child
<1>3. f # Root => ~Unborn(f)'
  BY <1>1, <1>2 DEF ServedAgrees, GoesOn
<1>4. \A c \in Child : Has(up'[c], ToRootOnly(m)) \/ Has(wk'[c].pend, ToRootOnly(m)) => audience'[m].to = {Root}
  BY <1>1, <1>2 DEF ServedAgrees, Carries
<1>5. ASSUME NEW c \in Child, Invited(c, m)'
      PROVE  IF c = f THEN delivered'[c][m] = 1
             ELSE wk'[c].uuid # "0" /\ conn'[c].st \in {"attached", "closed"}
  <2>1. Invited(c, m)
    BY <1>2, <1>5 DEF Invited
  <2> QED
    BY <1>1, <1>2, <2>1 DEF ServedAgrees, GoesOn
<1>6. ASSUME root'.st = "run", f # Root => Alive(f)',
             NEW p \in audience'[m].to, Unserved(p, m)'
      PROVE  \/ f # Root /\ Sending(f, m)'
             \/ p # Root /\ In(down'[p], m)
  <2>1. f # Root => f \in Child /\ Alive(f) /\ Alive(f)'
    BY <1>1, <1>2, <1>6 DEF ServedAgrees, GoesOn
  <2>2. root.st = "run" /\ p \in Proc /\ p \in audience[m].to
    BY <1>2, <1>6 DEF RootGoesOn
  <2>3. Unserved(p, m)
    <3>1. delivered[p][m] = 0 /\ InService(p)'
      BY <1>2, <1>6 DEF Unserved
    <3>2. CASE p = Root
      BY <3>1, <3>2 DEF Unserved, InService
    <3>3. CASE p \in Child
      <4>1. Invited(p, m) /\ p # Root
        BY <1>2, <2>2, <3>3 DEF Invited
      <4>2. wk[p].uuid # "0" /\ conn[p].st # "backlog"
        BY <1>1, <3>1, <3>3, <4>1 DEF ServedAgrees
      <4> QED
        BY <3>1, <3>3, <4>2 DEF Unserved, GoesOn
    <3> QED
      BY <1>2, <2>2, <3>2, <3>3
  <2>4. \/ f # Root /\ Sending(f, m)
        \/ p # Root /\ In(down[p], m)
    BY <1>1, <2>1, <2>2, <2>3 DEF ServedAgrees
  <2>5. f # Root /\ Sending(f, m) => Sending(f, m)'
    BY <1>6, <2>1 DEF Carries, Sending
  <2>6. p # Root /\ In(down[p], m) => In(down'[p], m)
    BY <1>2, <1>6, <2>2 DEF Carries, Unserved
  <2> QED
    BY <1>2, <2>4, <2>5, <2>6
<1> QED
  BY <1>3, <1>4, <1>5, <1>6 DEF ServedAgrees

LEMMA ServedKept ==
    ASSUME Typed, ServedAgree, ServesOn
    PROVE  ServedAgree'
<1> SUFFICES ASSUME NEW m \in Msg, NEW f \in Proc, audience'[m].from = f PROVE ServedAgrees(m, f)'
  BY DEF ServedAgree
<1>1. SameHistory(m)
  BY DEF ServesOn, SameHistory, history
<1>2. ServedAgrees(m, f)
  BY <1>1 DEF ServedAgree, SameHistory
<1> QED
  BY <1>1, <1>2, ServedOne DEF ServesOn, ServesAt

\* A step that publishes or delivers m does to the other messages what any step does.
LEMMA HistoryStep ==
    ASSUME Inv, RootGoesOn, NEW m \in Msg,
           \A x \in Msg : x # m => SameHistory(x) /\ \A c \in Child : Flows(c, x) /\ Carries(c, x),
           \A c \in Child : GoesOn(c) /\ Once(up'[c]) /\ Once(down'[c]) /\ Once(wk'[c].pend),
           PostAgrees(m)',
           \A f \in Proc : audience'[m].from = f => ServedAgrees(m, f)'
    PROVE  PostsAgree' /\ ServedAgree'
<1>1. PostsAgree'
  <2>1. \A x \in Msg : x # m => PostAgrees(x)'
    BY PostKept DEF Inv, PostsAgree
  <2> QED
    BY <2>1 DEF PostsAgree
<1>2. ASSUME NEW x \in Msg, NEW f \in Proc, audience'[x].from = f, x # m PROVE ServedAgrees(x, f)'
  <2>1. ServedAgrees(x, f) /\ SameHistory(x)
    BY <1>2 DEF Inv, ServedAgree, SameHistory
  <2> QED
    BY <1>2, <2>1, ServedOne DEF Inv
<1>3. ServedAgree'
  BY <1>2 DEF ServedAgree
<1> QED
  BY <1>1, <1>3

LEMMA WorkersKept ==
    ASSUME WorkersAgree, RootGoesOn, NEW c,
           \A d \in Child : d # c => /\ wk'[d] = wk[d] /\ up'[d] = up[d]
                                     /\ conn'[d].st = conn[d].st
                                     /\ conn'[d].pubsub = conn[d].pubsub /\ conn'[d].patterns = conn[d].patterns
                                     /\ ~Alive(d) => down'[d] = down[d],
           c \in Child => WorkerAgrees(c)'
    PROVE  WorkersAgree'
<1>1. ASSUME NEW d \in Child, d # c PROVE WorkerAgrees(d)'
  BY <1>1 DEF WorkersAgree, WorkerAgrees, RootGoesOn, Alive, Active
<1> QED
  BY <1>1 DEF WorkersAgree

LEMMA NamesKept ==
    ASSUME NamesAgree, NEW c,
           \A d \in Child : d # c => wk'[d] = wk[d] /\ up'[d] = up[d] /\ conn'[d] = conn[d],
           c \in Child => NameAgrees(c)'
    PROVE  NamesAgree'
<1>1. ASSUME NEW d \in Child, d # c PROVE NameAgrees(d)'
  BY <1>1 DEF NamesAgree, NameAgrees, Known
<1> QED
  BY <1>1 DEF NamesAgree

LEMMA SlotsKept ==
    ASSUME SlotsAgree, ClientsAgree, UNCHANGED <<clients, counter>>,
           \A d \in Child : /\ conn'[d].uuid = conn[d].uuid
                            /\ conn'[d].st = conn[d].st \/ {conn[d].st, conn'[d].st} \subseteq {"none", "backlog"}
    PROVE  SlotsAgree' /\ ClientsAgree'
<1>1. Attached' = Attached /\ Accepted' = Accepted /\ Closed' = Closed
  BY DEF Attached, Accepted, Closed
<1>2. \A d \in Attached : d \in Child
  BY DEF Attached
<1>3. SlotsAgree'
  BY <1>1, <1>2 DEF SlotsAgree, UuidValid
<1>4. ClientsAgree'
  BY <1>1, <1>2 DEF ClientsAgree
<1> QED
  BY <1>3, <1>4

LEMMA ForksKept ==
    ASSUME ThreadsAgree, UNCHANGED <<fork_lock, thread>>, \A c \in Child : Unborn(c) => Unborn(c)'
    PROVE  ThreadsAgree'
  BY DEF ThreadsAgree

\* Only the root's own state and its sentinel threads change.
LEMMA Quiet ==
    ASSUME Inv, UNCHANGED <<wk, ipcVars, wireVars, history>>, RootGoesOn,
           root' \in RootType,
           fork_lock' \in BOOLEAN,
           thread' \in [Child -> ThreadType],
           ThreadsAgree'
    PROVE  Inv'
<1>1. UNCHANGED <<wk, conn, clients, counter, leaked, up, down, delivered, audience>>
  BY DEF ipcVars, wireVars, history
<1>2. Typed'
  BY <1>1 DEF Inv, Typed
<1>3. WorkersAgree'
  BY <1>1, WorkersKept DEF Inv, WorkersAgree, WorkerAgrees, RootGoesOn, Alive, Active
<1>4. SlotsAgree' /\ ClientsAgree'
  BY <1>1, SlotsKept DEF Inv
<1>5. NamesAgree'
  BY <1>1 DEF Inv, NamesAgree, NameAgrees, Known
<1>6. PostsAgree'
  BY <1>1 DEF Inv, PostsAgree, PostAgrees, Sending
<1>7. ServesOn
  BY <1>1, ServesSame DEF ServesOn, history
<1>8. ServedAgree'
  BY <1>7, ServedKept DEF Inv
<1> QED
  BY <1>2, <1>3, <1>4, <1>5, <1>6, <1>8 DEF Inv

-----------------------------------------------------------------------------
(* The sentinel threads.                                                   *)

LEMMA RootMoves ==
    ASSUME Inv,
           \/ fio_sentinel_task \/ fio_accept_after_fork \/ sig_int_handler \/ sig_usr1_handler
           \/ fio_worker_cleanup_wait
           \/ \E c \in Child : \/ fio_sentinel_worker_thread_wait(c) \/ fio_sentinel_worker_thread_lock(c)
                               \/ fio_sentinel_worker_thread_push(c)
    PROVE  Inv'
<1>0. Typed /\ ThreadsAgree
  BY DEF Inv
<1>1. CASE fio_sentinel_task
  <2>1. PICK c : c = Cardinality(Forked) + 1
    OBVIOUS
  <2>2. CASE root.active
    <3>1. /\ c \in Child /\ thread[c] = "none" /\ fork_lock' = TRUE /\ ~fork_lock
          /\ thread' = [thread EXCEPT ![c] = "fork"] /\ UNCHANGED <<wk, ipcVars, wireVars, history>>
      BY <1>1, <2>1, <2>2 DEF fio_sentinel_task
    <3>2. ThreadsAgree'
      BY <1>0, <3>1 DEF ThreadsAgree, Unborn, Typed
    <3>3. root' \in RootType /\ RootGoesOn
      <4>1. PICK a, b : /\ a = (IF root.boot > 0 THEN root.boot - 1 ELSE 0)
                        /\ b = (IF root.boot > 0 THEN root.tasks ELSE root.tasks - 1)
        OBVIOUS
      <4>2. a \in Int /\ b \in Int /\ root \in RootType
        BY <1>0, <4>1 DEF Typed, RootType
      <4>3. root' = [root EXCEPT !.main = "fork_wait", !.boot = a, !.tasks = b]
        BY <1>1, <2>2, <4>1 DEF fio_sentinel_task
      <4>4. root' \in RootType /\ root'.st = root.st
        <5> DEFINE r == [root EXCEPT !.main = "fork_wait", !.boot = a, !.tasks = b]
        <5>1. r \in RootType /\ r.st = root.st
          BY <4>2 DEF RootType
        <5> QED
          BY <4>3, <5>1
      <4> QED
        BY <4>4 DEF RootGoesOn
    <3>4. thread' \in [Child -> ThreadType]
      BY <1>0, <3>1 DEF Typed, ThreadType
    <3> QED
      BY <3>1, <3>2, <3>3, <3>4, Quiet
  <2>3. CASE ~root.active
    <3>1. UNCHANGED <<wk, ipcVars, wireVars, history, fork_lock, thread>>
      BY <1>1, <2>3 DEF fio_sentinel_task
    <3>2. root' \in RootType /\ RootGoesOn
      <4>1. PICK b : b = (IF root.boot > 0 THEN root.tasks ELSE root.tasks - 1)
        OBVIOUS
      <4>2. b \in Int /\ root \in RootType
        BY <1>0, <4>1 DEF Typed, RootType
      <4>3. root' = [root EXCEPT !.boot = 0, !.tasks = b]
        BY <1>1, <2>3, <4>1 DEF fio_sentinel_task
      <4>4. root' \in RootType /\ root'.st = root.st
        <5>1. PICK q : q = [root EXCEPT !.boot = 0]
          OBVIOUS
        <5>2. q \in RootType /\ q.st = root.st
          BY <4>2, <5>1 DEF RootType
        <5>3. PICK r : r = [q EXCEPT !.tasks = b]
          OBVIOUS
        <5>4. r \in RootType /\ r.st = q.st
          BY <4>2, <5>2, <5>3 DEF RootType
        <5>5. root' = r
          BY <4>2, <4>3, <5>1, <5>3 DEF RootType
        <5> QED
          BY <5>2, <5>4, <5>5
      <4> QED
        BY <4>4 DEF RootGoesOn
    <3>3. ThreadsAgree'
      BY <1>0, <3>1, ForksKept DEF Unborn
    <3> QED
      BY <1>0, <3>1, <3>2, <3>3, Quiet DEF Typed
  <2> QED
    BY <2>2, <2>3
<1>2. CASE fio_accept_after_fork \/ sig_int_handler \/ sig_usr1_handler \/ fio_worker_cleanup_wait
  <2>1. UNCHANGED <<wk, ipcVars, wireVars, history, fork_lock, thread>>
    BY <1>2 DEF fio_accept_after_fork, sig_int_handler, sig_usr1_handler, fio_worker_cleanup_wait
  <2>2. root' \in RootType /\ RootGoesOn
    BY <1>0, <1>2 DEF fio_accept_after_fork, sig_int_handler, sig_usr1_handler, fio_worker_cleanup_wait,
                      Typed, RootGoesOn, RootType
  <2>3. ThreadsAgree'
    BY <1>0, <2>1, ForksKept DEF Unborn
  <2> QED
    BY <1>0, <2>1, <2>2, <2>3, Quiet DEF Typed
<1>3. ASSUME NEW c \in Child,
             \/ fio_sentinel_worker_thread_wait(c) \/ fio_sentinel_worker_thread_lock(c)
             \/ fio_sentinel_worker_thread_push(c)
      PROVE  Inv'
  <2>1. UNCHANGED <<wk, ipcVars, wireVars, history>>
    BY <1>3 DEF fio_sentinel_worker_thread_wait, fio_sentinel_worker_thread_lock, fio_sentinel_worker_thread_push
  <2>2. root' \in RootType /\ RootGoesOn
    <3>1. root' = root \/ root' = [root EXCEPT !.tasks = root.tasks + 1]
      BY <1>3 DEF fio_sentinel_worker_thread_wait, fio_sentinel_worker_thread_lock,
                  fio_sentinel_worker_thread_push
    <3>2. root \in RootType /\ root.tasks + 1 \in Int
      BY <1>0 DEF Typed, RootType
    <3> QED
      BY <3>1, <3>2 DEF RootGoesOn, RootType
  <2>3. /\ fork_lock' \in BOOLEAN /\ thread' \in [Child -> ThreadType]
    BY <1>0, <1>3 DEF fio_sentinel_worker_thread_wait, fio_sentinel_worker_thread_lock,
                      fio_sentinel_worker_thread_push, Typed, ThreadType
  <2>4. ThreadsAgree'
    BY <1>0, <1>3 DEF fio_sentinel_worker_thread_wait, fio_sentinel_worker_thread_lock,
                      fio_sentinel_worker_thread_push, Typed, ThreadsAgree, Unborn, ForkLockFree
  <2> QED
    BY <2>1, <2>2, <2>3, <2>4, Quiet
<1> QED
  BY <1>1, <1>2, <1>3

-----------------------------------------------------------------------------
(* The workers.                                                            *)

RootKept ==
    /\ root' \in RootType
    /\ RootGoesOn
Others(c) == \A d \in Child : d # c => wk'[d] = wk[d]

\* A worker and its connection change, and nothing is sent to the others.
LEMMA ChildMoves ==
    ASSUME Inv, NEW c \in Child,
           UNCHANGED history, UNCHANGED <<clients, counter, leaked>>, RootKept, fork_lock' \in BOOLEAN,
           thread' \in [Child -> ThreadType], ThreadsAgree',
           NEW w \in Worker, wk' = [wk EXCEPT ![c] = w],
           NEW k \in Conn, conn' = [conn EXCEPT ![c] = k],
           k.uuid = conn[c].uuid, k.st = conn[c].st \/ {conn[c].st, k.st} \subseteq {"none", "backlog"},
           NEW u \in Seq(ToRoot), up' = [up EXCEPT ![c] = u],
           NEW e \in Seq(ToChild), down' = [down EXCEPT ![c] = e],
           WorkerAgrees(c)', NameAgrees(c)', Once(u), Once(e), Once(w.pend),
           \A m \in Msg : /\ In(u, m) \/ In(w.pend, m) => Sending(c, m)
                          /\ ~(In(u, m) /\ In(w.pend, m))
                          /\ In(e, m) => In(down[c], m),
           ServesAt(c)
    PROVE  Inv'
<1>1. UNCHANGED <<clients, counter, leaked, delivered, audience>>
  BY DEF history
<1>2. /\ Typed /\ wk'[c] = w /\ conn'[c] = k /\ up'[c] = u /\ down'[c] = e
      /\ wk' \in [Child -> Worker] /\ conn' \in [Child -> Conn]
      /\ up' \in [Child -> Seq(ToRoot)] /\ down' \in [Child -> Seq(ToChild)]
      /\ \A d \in Child : d # c => wk'[d] = wk[d] /\ conn'[d] = conn[d] /\ up'[d] = up[d] /\ down'[d] = down[d]
  BY DEF Inv, Typed
<1>3. Typed'
  BY <1>1, <1>2 DEF Typed, RootKept
<1>4. WorkersAgree'
  BY <1>2, WorkersKept DEF Inv, RootKept
<1>5. SlotsAgree' /\ ClientsAgree'
  BY <1>1, <1>2, SlotsKept DEF Inv
<1>6. NamesAgree'
  BY <1>2, NamesKept DEF Inv
<1>7. PostsAgree'
  <2>1. ASSUME NEW d \in Child
        PROVE  /\ Once(up'[d]) /\ Once(down'[d]) /\ Once(wk'[d].pend)
               /\ \A m \in Msg : /\ In(up'[d], m) \/ In(wk'[d].pend, m) => Sending(d, m)
                                 /\ ~(In(up'[d], m) /\ In(wk'[d].pend, m))
                                 /\ In(down'[d], m) => In(down[d], m)
    <3>1. CASE d # c
      BY <1>2, <3>1 DEF Inv, PostsAgree, PostAgrees, Sending
    <3>2. CASE d = c
      BY <1>2, <3>2
    <3> QED
      BY <3>1, <3>2
  <2> QED
    BY <2>1, PostsKept DEF Inv, Flows
<1>8. ServesOn
  <2>1. \A d \in Child : d # c => ServesAt(d)
    BY <1>2, ServesSame
  <2> QED
    BY <2>1 DEF ServesOn, RootKept
<1>9. ServedAgree'
  BY <1>2, <1>8, ServedKept DEF Inv
<1> QED
  BY <1>3, <1>4, <1>5, <1>6, <1>7, <1>9 DEF Inv

\* A worker's state changes, and nothing that it or others have to read.
LEMMA WorkerMoves ==
    ASSUME Inv, NEW c \in Child, NEW w \in Worker, wk' = [wk EXCEPT ![c] = w],
           UNCHANGED <<ipcVars, wireVars, history>>, RootKept, fork_lock' \in BOOLEAN,
           thread' \in [Child -> ThreadType], ThreadsAgree',
           WorkerAgrees(c)', w.st # "none",
           w.pend = wk[c].pend, Alive(c)' => Alive(c) \/ Unborn(c),
           w.st = "run" => wk[c].st = "run",
           w.uuid # "0" => (w.uuid = "lost" \/ w.uuid = wk[c].uuid) /\ wk[c].uuid # "0" /\ w.names = wk[c].names,
           w.uuid = "0" => wk[c].uuid = "0"
    PROVE  Inv'
<1>1. UNCHANGED <<conn, clients, counter, leaked, up, down, delivered, audience>>
  BY DEF ipcVars, wireVars, history
<1>2. Typed /\ wk'[c] = w /\ conn[c] \in Conn /\ up[c] \in Seq(ToRoot) /\ down[c] \in Seq(ToChild)
  BY DEF Inv, Typed
<1>3. conn' = [conn EXCEPT ![c] = conn[c]] /\ up' = [up EXCEPT ![c] = up[c]] /\ down' = [down EXCEPT ![c] = down[c]]
  BY <1>1, <1>2 DEF Typed
<1>4. NameAgrees(c)'
  BY <1>1, <1>2 DEF Inv, NamesAgree, NameAgrees, Known
<1>5. Once(up[c]) /\ Once(down[c]) /\ Once(w.pend)
  BY DEF Inv, PostsAgree
<1>6. \A m \in Msg : /\ In(up[c], m) \/ In(w.pend, m) => Sending(c, m)
                     /\ ~(In(up[c], m) /\ In(w.pend, m))
  BY DEF Inv, PostsAgree, PostAgrees, Sending
<1>7. ServesAt(c)
  <2>1. InService(c)' => InService(c)
    BY <1>1, <1>2 DEF InService, Root, Child
  <2>2. ~Unborn(c)'
    BY <1>2 DEF Unborn
  <2> QED
    BY <1>1, <1>2, <2>1, <2>2 DEF ServesAt, GoesOn, Carries, Sending
<1>8. UNCHANGED history /\ UNCHANGED <<clients, counter, leaked>>
  BY <1>1 DEF history
<1> QED
  BY <1>2, <1>3, <1>4, <1>5, <1>6, <1>7, <1>8, ChildMoves

LEMMA ForkingStep ==
    ASSUME Inv, NEW c \in Child,
           fio_sentinel_worker_thread_fork(c) \/ fio_sentinel_worker_thread_fail(c)
    PROVE  Inv'
<1>0. /\ Typed /\ ThreadsAgree /\ WorkerAgrees(c) /\ thread[c] = "fork" /\ Unborn(c)
      /\ wk \in [Child -> Worker] /\ wk[c] \in Worker /\ conn[c] \in Conn
  BY DEF Inv, Typed, ThreadsAgree, WorkersAgree, fio_sentinel_worker_thread_fork, fio_sentinel_worker_thread_fail
<1>1. UNCHANGED <<ipcVars, wireVars, history>>
  BY DEF fio_sentinel_worker_thread_fork, fio_sentinel_worker_thread_fail
<1>2. RootKept /\ fork_lock' \in BOOLEAN /\ thread' \in [Child -> ThreadType]
  BY <1>0 DEF fio_sentinel_worker_thread_fork, fio_sentinel_worker_thread_fail, Typed, RootKept, RootGoesOn,
              RootType, ThreadType
<1>3. wk[c].uuid = "0" /\ wk[c].pend = <<>> /\ conn[c].st = "none"
  BY <1>0 DEF WorkerAgrees, Unborn
<1>4. CASE fio_sentinel_worker_thread_fork(c)
  <2>1. PICK w : w = [NoWorker EXCEPT !.st = IF root.active THEN "born" ELSE "halt", !.names = InheritedNames]
    OBVIOUS
  <2>2. InheritedNames \in SUBSET Name
    BY <1>0 DEF InheritedNames, Typed, Name, Conn
  <2>3. /\ w \in Worker /\ w.st \in {"born", "halt"} /\ w.uuid = "0" /\ w.pend = <<>>
    BY <2>1, <2>2, EmptySeq DEF NoWorker, Worker
  <2>4. wk' = [wk EXCEPT ![c] = w]
    BY <1>4, <2>1 DEF fio_sentinel_worker_thread_fork
  <2>5. wk'[c] = w /\ \A d \in Child : d # c => wk'[d] = wk[d]
    BY <1>0, <2>4
  <2>6. ThreadsAgree'
    BY <1>0, <1>4, <2>5 DEF fio_sentinel_worker_thread_fork, ThreadsAgree, Unborn, Typed
  <2>7. WorkerAgrees(c)'
    <3>1. wk'[c].pend \in Seq(Post)
      BY <2>3, <2>5, EmptySeq
    <3>2. UNCHANGED <<conn, up, down>>
      BY <1>1 DEF ipcVars, wireVars
    <3> QED
      BY <1>0, <1>3, <2>3, <2>5, <3>1, <3>2 DEF WorkerAgrees, Alive, Active, Unborn
  <2> QED
    BY <1>0, <1>1, <1>2, <1>3, <2>3, <2>4, <2>5, <2>6, <2>7, WorkerMoves
<1>5. CASE fio_sentinel_worker_thread_fail(c)
  <2>1. PICK w : w = [wk[c] EXCEPT !.st = "gone"]
    OBVIOUS
  <2>3. /\ w \in Worker /\ w.st = "gone" /\ w.uuid = "0" /\ w.pend = <<>>
    BY <1>0, <1>3, <2>1 DEF Worker
  <2>4. wk' = [wk EXCEPT ![c] = w]
    BY <1>5, <2>1 DEF fio_sentinel_worker_thread_fail
  <2>5. wk'[c] = w /\ \A d \in Child : d # c => wk'[d] = wk[d]
    BY <1>0, <2>4
  <2>6. ThreadsAgree'
    BY <1>0, <1>5, <2>5 DEF fio_sentinel_worker_thread_fail, ThreadsAgree, Unborn, Typed
  <2>7. WorkerAgrees(c)'
    <3>1. wk'[c].pend \in Seq(Post)
      BY <2>3, <2>5, EmptySeq
    <3>2. UNCHANGED <<conn, up, down>>
      BY <1>1 DEF ipcVars, wireVars
    <3> QED
      BY <1>0, <1>3, <2>3, <2>5, <3>1, <3>2 DEF WorkerAgrees, Alive, Active, Unborn
  <2>8. ~Alive(c)'
    BY <2>3, <2>5 DEF Alive
  <2> QED
    BY <1>1, <1>2, <1>3, <2>3, <2>4, <2>5, <2>6, <2>7, <2>8, WorkerMoves
<1> QED
  BY <1>4, <1>5

\* The states of a worker that only change its own.
LEMMA StateStep ==
    ASSUME Inv, NEW c \in Child,
           fio_stop_worker(c) \/ fio_cluster_on_fail(c) \/ fio_cluster_on_close_worker(c)
             \/ (fio_connect2cluster(c) /\ ~Listening)
    PROVE  Inv'
<1>0. /\ Typed /\ ThreadsAgree /\ WorkerAgrees(c) /\ wk \in [Child -> Worker] /\ wk[c] \in Worker
      /\ root \in RootType
  BY DEF Inv, Typed, WorkersAgree
<1>1. UNCHANGED <<ipcVars, wireVars, history, fork_lock, thread>>
  BY DEF fio_stop_worker, fio_cluster_on_fail, fio_cluster_on_close_worker, fio_connect2cluster,
         ipcVars, rootVars
<1>2. RootKept /\ fork_lock' \in BOOLEAN /\ thread' \in [Child -> ThreadType]
  BY <1>0, <1>1 DEF fio_stop_worker, fio_cluster_on_fail, fio_cluster_on_close_worker, fio_connect2cluster,
                    RootKept, RootGoesOn, RootType, Typed, rootVars
<1>3. PICK w : /\ wk' = [wk EXCEPT ![c] = w] /\ w \in Worker /\ w.pend = wk[c].pend /\ w.names = wk[c].names
               /\ \/ wk[c].st = "stopping" /\ w.st = "halt" /\ w.uuid = wk[c].uuid
                  \/ /\ wk[c].uuid = "0" /\ conn[c].st = "closed" /\ wk[c].st \in {"born", "run", "stopping"}
                     /\ w.st = "halt" /\ w.uuid = wk[c].uuid
                  \/ /\ wk[c].uuid = "open" /\ conn[c].st = "closed" /\ Alive(c)
                     /\ w.st \in {wk[c].st, "stopping"} /\ w.uuid = "lost"
                  \/ wk[c].st = "born" /\ w.st = "halt" /\ w.uuid = wk[c].uuid
  <2>1. CASE fio_stop_worker(c)
    <3> DEFINE w == [wk[c] EXCEPT !.st = "halt"]
    <3>1. wk' = [wk EXCEPT ![c] = w] /\ wk[c].st = "stopping"
      BY <2>1 DEF fio_stop_worker
    <3>2. w \in Worker /\ w.st = "halt" /\ w.pend = wk[c].pend /\ w.names = wk[c].names /\ w.uuid = wk[c].uuid
      BY <1>0 DEF Worker
    <3> QED
      BY <3>1, <3>2
  <2>2. CASE fio_cluster_on_fail(c)
    <3> DEFINE w == [wk[c] EXCEPT !.st = "halt"]
    <3>1. /\ wk' = [wk EXCEPT ![c] = w] /\ wk[c].uuid = "0" /\ conn[c].st = "closed"
          /\ wk[c].st \in {"born", "run", "stopping"}
      BY <2>2 DEF fio_cluster_on_fail, Active
    <3>2. w \in Worker /\ w.st = "halt" /\ w.pend = wk[c].pend /\ w.names = wk[c].names /\ w.uuid = wk[c].uuid
      BY <1>0 DEF Worker
    <3> QED
      BY <3>1, <3>2
  <2>3. CASE fio_cluster_on_close_worker(c)
    <3>1. PICK s : s = (IF wk[c].st = "run" /\ wk[c].type # "SHUTDOWN" THEN "stopping" ELSE wk[c].st)
      OBVIOUS
    <3> DEFINE w == [wk[c] EXCEPT !.uuid = "lost", !.st = s]
    <3>2. wk' = [wk EXCEPT ![c] = w] /\ Alive(c) /\ wk[c].uuid = "open" /\ conn[c].st = "closed"
      BY <1>0, <2>3, <3>1 DEF fio_cluster_on_close_worker
    <3>3. w \in Worker /\ w.st = s /\ w.pend = wk[c].pend /\ w.names = wk[c].names /\ w.uuid = "lost"
      BY <1>0, <3>1 DEF Worker
    <3> QED
      BY <3>1, <3>2, <3>3
  <2>4. CASE fio_connect2cluster(c) /\ ~Listening
    <3> DEFINE w == [wk[c] EXCEPT !.st = "halt"]
    <3>1. wk' = [wk EXCEPT ![c] = w] /\ wk[c].st = "born"
      BY <2>4 DEF fio_connect2cluster
    <3>2. w \in Worker /\ w.st = "halt" /\ w.pend = wk[c].pend /\ w.names = wk[c].names /\ w.uuid = wk[c].uuid
      BY <1>0 DEF Worker
    <3> QED
      BY <3>1, <3>2
  <2> QED
    BY <2>1, <2>2, <2>3, <2>4
<1>4. wk'[c] = w /\ \A d \in Child : d # c => wk'[d] = wk[d]
  BY <1>0, <1>3
<1>5. w.st # "none" /\ ~Unborn(c) /\ (w.st = "run" => wk[c].st = "run") /\ Alive(c)
  BY <1>3 DEF Unborn, Alive
<1>6. ThreadsAgree'
  BY <1>0, <1>1, <1>4, <1>5 DEF ThreadsAgree, Unborn
<1>7. UNCHANGED <<conn, up, down>>
  BY <1>1 DEF ipcVars, wireVars
<1>8. WorkerAgrees(c)'
  <2>1. root'.st = "run" => root.st = "run"
    BY <1>2 DEF RootKept, RootGoesOn
  <2>2. Alive(c)'
    BY <1>3, <1>4 DEF Alive
  <2>3. wk'[c].st = "stopping" => wk'[c].uuid # "0"
    BY <1>0, <1>3, <1>4 DEF WorkerAgrees
  <2>4. root'.st = "run" /\ wk'[c].pend # <<>> => wk'[c].uuid = "open" \/ Active(c)'
    <3>1. SUFFICES ASSUME root.st = "run", wk[c].pend # <<>> PROVE w.uuid = "open"
      BY <1>3, <1>4, <2>1
    <3>2. conn[c].st # "closed" /\ wk[c].st # "born" /\ wk[c].uuid # "lost"
      BY <1>0, <1>5, <3>1 DEF WorkerAgrees
    <3>3. wk[c].st = "stopping" /\ w.uuid = wk[c].uuid /\ wk[c].uuid # "0"
      BY <1>0, <1>3, <3>2 DEF WorkerAgrees
    <3> QED
      BY <1>3, <3>2, <3>3 DEF Worker
  <2>5. wk'[c].uuid # "lost" => wk'[c].pend \in Seq(Post)
    BY <1>0, <1>3, <1>4 DEF WorkerAgrees
  <2> QED
    BY <1>0, <1>3, <1>4, <1>5, <1>7, <2>1, <2>2, <2>3, <2>4, <2>5 DEF WorkerAgrees
<1>9. w.uuid # "0" => (w.uuid = "lost" \/ w.uuid = wk[c].uuid) /\ wk[c].uuid # "0" /\ w.names = wk[c].names
  BY <1>3
<1>10. w.uuid = "0" => wk[c].uuid = "0"
  BY <1>3
<1> QED
  BY <1>1, <1>2, <1>3, <1>4, <1>5, <1>6, <1>8, <1>9, <1>10, WorkerMoves

LEMMA Connecting ==
    ASSUME Inv, NEW c \in Child, fio_connect2cluster(c), Listening
    PROVE  Inv'
<1>0. /\ Typed /\ ThreadsAgree /\ WorkerAgrees(c) /\ wk \in [Child -> Worker] /\ wk[c] \in Worker /\ conn[c] \in Conn
      /\ up[c] \in Seq(ToRoot) /\ down[c] \in Seq(ToChild) /\ root \in RootType
  BY DEF Inv, Typed, WorkersAgree
<1>1. PICK w, k : w = [wk[c] EXCEPT !.st = "run"] /\ k = [conn[c] EXCEPT !.st = "backlog"]
  OBVIOUS
<1>2. /\ wk' = [wk EXCEPT ![c] = w] /\ conn' = [conn EXCEPT ![c] = k] /\ wk[c].st = "born"
      /\ UNCHANGED <<root, fork_lock, thread, clients, counter, leaked, up, down, history>>
  BY <1>1 DEF fio_connect2cluster, wireVars
<1>3. /\ w \in Worker /\ w.st = "run" /\ w.uuid = wk[c].uuid /\ w.pend = wk[c].pend
      /\ k \in Conn /\ k.st = "backlog" /\ k.uuid = conn[c].uuid /\ k.pubsub = conn[c].pubsub /\ k.patterns = conn[c].patterns
  BY <1>0, <1>1 DEF Worker, Conn
<1>4. wk[c].uuid = "0" /\ wk[c].pend = <<>> /\ conn[c].st = "none"
  BY <1>0, <1>2 DEF WorkerAgrees
<1>5. wk'[c] = w /\ conn'[c] = k /\ \A d \in Child : d # c => wk'[d] = wk[d]
  BY <1>0, <1>2 DEF Typed
<1>6. up' = [up EXCEPT ![c] = up[c]] /\ down' = [down EXCEPT ![c] = down[c]]
  BY <1>0, <1>2 DEF Typed
<1>7. ThreadsAgree'
  BY <1>0, <1>2, <1>3, <1>5 DEF ThreadsAgree, Unborn
<1>8. RootKept
  BY <1>0, <1>2 DEF RootKept, RootGoesOn
<1>9. WorkerAgrees(c)'
  <2>1. w.pend \in Seq(Post)
    BY <1>3, <1>4, EmptySeq
  <2> QED
    BY <1>0, <1>2, <1>3, <1>4, <1>5, <2>1 DEF WorkerAgrees, Alive, Active
<1>10. NameAgrees(c)'
  BY <1>3, <1>4, <1>5 DEF NameAgrees
<1>11. Once(up[c]) /\ Once(down[c]) /\ Once(w.pend)
  BY <1>3 DEF Inv, PostsAgree
<1>12. \A m \in Msg : /\ In(up[c], m) \/ In(w.pend, m) => Sending(c, m)
                      /\ ~(In(up[c], m) /\ In(w.pend, m))
  BY <1>3 DEF Inv, PostsAgree, PostAgrees, Sending
<1>13. ServesAt(c)
  BY <1>2, <1>3, <1>4, <1>5 DEF ServesAt, GoesOn, Carries, Sending, Alive, Unborn
<1> QED
  BY <1>0, <1>2, <1>3, <1>4, <1>6, <1>7, <1>8, <1>9, <1>10, <1>11, <1>12, <1>13, ChildMoves DEF Typed

\* What the process writes to the root, or leaves in its task queue.
LEMMA Writing ==
    ASSUME Inv, NEW c \in Child, NEW w \in Worker, NEW u \in Seq(ToRoot),
           wk' = [wk EXCEPT ![c] = w], up' = [up EXCEPT ![c] = u],
           UNCHANGED <<rootVars, ipcVars, down, history>>,
           w.st = wk[c].st, wk[c].uuid = "0" => w.uuid \in {"0", "open"}, wk[c].uuid # "0" => w.uuid = wk[c].uuid,
           WorkerAgrees(c)', NameAgrees(c)', Once(u), Once(w.pend),
           wk[c].uuid = "0" /\ w.uuid = "open" => conn[c].st \in {"backlog", "attached"},
           \A m \in Msg : /\ In(u, m) \/ In(w.pend, m) => Sending(c, m)
                          /\ ~(In(u, m) /\ In(w.pend, m))
                          /\ Has(u, ToRootOnly(m)) \/ Has(w.pend, ToRootOnly(m)) =>
                                Has(up[c], ToRootOnly(m)) \/ Has(wk[c].pend, ToRootOnly(m))
                          /\ root.st = "run" /\ Alive(c) /\ Sending(c, m) => In(u, m) \/ In(w.pend, m)
    PROVE  Inv'
<1>0. /\ Typed /\ ThreadsAgree /\ wk'[c] = w /\ up'[c] = u /\ conn[c] \in Conn
      /\ down[c] \in Seq(ToChild) /\ \A d \in Child : d # c => wk'[d] = wk[d]
  BY DEF Inv, Typed
<1>1. UNCHANGED <<root, fork_lock, thread, conn, clients, counter, leaked, down>> /\ UNCHANGED history
  BY DEF rootVars, ipcVars
<1>2. conn' = [conn EXCEPT ![c] = conn[c]] /\ down' = [down EXCEPT ![c] = down[c]]
  BY <1>0, <1>1 DEF Typed
<1>3. ThreadsAgree'
  BY <1>0, <1>1 DEF ThreadsAgree, Unborn
<1>4. RootKept /\ fork_lock' \in BOOLEAN /\ thread' \in [Child -> ThreadType]
  BY <1>0, <1>1 DEF RootKept, RootGoesOn, Typed
<1>5. ServesAt(c)
  <2>1. /\ Alive(c)' => Alive(c)
        /\ InService(c)' => InService(c) \/ wk[c].uuid = "0" \/ conn[c].st = "backlog"
        /\ Unborn(c)' => Unborn(c)
    BY <1>0, <1>1 DEF Alive, InService, Unborn, Root, Child
  <2>2. wk'[c].uuid = "0" => wk[c].uuid = "0"
    BY <1>0
  <2> QED
    BY <1>0, <1>1, <2>1, <2>2 DEF ServesAt, GoesOn, Carries
<1>6. Once(down[c])
  BY DEF Inv, PostsAgree
<1> QED
  BY <1>0, <1>1, <1>2, <1>3, <1>4, <1>5, <1>6, ChildMoves

LEMMA Connected ==
    ASSUME Inv, NEW c \in Child, fio_cluster_on_connect(c)
    PROVE  Inv'
<1>0. /\ Typed /\ WorkerAgrees(c) /\ wk \in [Child -> Worker] /\ wk[c] \in Worker /\ up[c] \in Seq(ToRoot)
      /\ conn[c] \in Conn /\ wk[c].names \in SUBSET Name
  BY DEF Inv, Typed, WorkersAgree, Worker
<1>1. PICK w, u : w = [wk[c] EXCEPT !.uuid = "open"] /\ u = Notices(wk[c].names)
  OBVIOUS
<1>2. /\ Active(c) /\ wk[c].uuid = "0" /\ conn[c].st \in {"backlog", "attached"}
      /\ wk' = [wk EXCEPT ![c] = w] /\ up' = [up EXCEPT ![c] = up[c] \o u]
      /\ UNCHANGED <<rootVars, ipcVars, down, history>>
  BY <1>1 DEF fio_cluster_on_connect
<1>3. /\ u \in Seq(Notice) /\ Once(u) /\ (\A m : ~In(u, m)) /\ \A n : Told(u, {}, n, n \in wk[c].names)
  BY <1>0, <1>1, NoticesAre
<1>4. up[c] = <<>> /\ conn[c].pubsub = {} /\ conn[c].patterns = {}
  BY <1>0, <1>2 DEF WorkerAgrees
<1>5. u \in Seq(ToRoot)
  BY <1>3, SeqMonotonic DEF ToRoot
<1>6. up' = [up EXCEPT ![c] = u]
  <2>1. <<>> \o u = u
    BY <1>5, ConcatEmptySeq
  <2> QED
    BY <1>2, <1>4, <2>1
<1>7. w \in Worker /\ w.st = wk[c].st /\ w.uuid = "open" /\ w.names = wk[c].names /\ w.pend = wk[c].pend
  BY <1>0, <1>1 DEF Worker
<1>8. wk'[c] = w /\ up'[c] = u /\ root' = root /\ conn' = conn /\ down' = down
  BY <1>0, <1>2, <1>6 DEF Typed, rootVars, ipcVars
<1>9. WorkerAgrees(c)'
  BY <1>0, <1>2, <1>7, <1>8 DEF WorkerAgrees, Alive, Active
<1>10. NameAgrees(c)'
  <2>1. Known(c)' = {}
    BY <1>4, <1>8 DEF Known
  <2> QED
    BY <1>3, <1>7, <1>8, <2>1 DEF NameAgrees
<1>11. Once(w.pend)
  BY <1>7 DEF Inv, PostsAgree
<1>12. \A m \in Msg : ~In(up[c], m)
  BY <1>4, EmptyIs
<1>13. \A m \in Msg : ~Has(u, ToRootOnly(m))
  BY <1>3 DEF In
<1> QED
  BY <1>2, <1>3, <1>5, <1>6, <1>7, <1>9, <1>10, <1>11, <1>12, <1>13, Writing DEF Sending


\* A message that waited in the task queue is written, put back, or dropped by a
\* process that ends.
LEMMA Resending ==
    ASSUME Inv, NEW c \in Child, fio_cluster_client_sender(c)
    PROVE  Inv'
<1>0. /\ Typed /\ WorkerAgrees(c) /\ wk \in [Child -> Worker] /\ wk[c] \in Worker /\ up[c] \in Seq(ToRoot)
      /\ conn[c] \in Conn /\ wk[c].pend \in Seq(Post \cup Notice) /\ wk[c].pend # <<>> /\ Alive(c)
      /\ Once(up[c]) /\ Once(wk[c].pend)
  BY DEF Inv, Typed, WorkersAgree, Worker, fio_cluster_client_sender, PostsAgree
<1>1. PICK q, h, t : q = wk[c].pend /\ h = Head(q) /\ t = Tail(q)
  OBVIOUS
<1>2. /\ h \in Post \cup Notice /\ t \in Seq(Post \cup Notice)
      /\ \A x : Has(q, x) <=> h = x \/ Has(t, x)
      /\ Once(t) /\ \A m \in Msg : h \in {Fwd(m), ToRootOnly(m)} => ~In(t, m)
  BY <1>0, <1>1, TailIs, Taken
<1>3. \A m : In(q, m) <=> h \in {Fwd(m), ToRootOnly(m)} \/ In(t, m)
  BY <1>2 DEF In
<1>4. \A m \in Msg : In(q, m) => ~In(up[c], m)
  BY <1>1 DEF Inv, PostsAgree, PostAgrees, Sending
<1>5. h \in ToRoot
  BY <1>2 DEF ToRoot
<1>6. PICK u, p : /\ u = (IF wk[c].uuid = "open" THEN Append(up[c], h) ELSE up[c])
                  /\ p = (IF wk[c].uuid # "open" /\ Active(c) THEN Append(t, h) ELSE t)
  OBVIOUS
<1>7. PICK w : w = [wk[c] EXCEPT !.pend = p]
  OBVIOUS
<1>8. /\ up' = [up EXCEPT ![c] = u] /\ wk' = [wk EXCEPT ![c] = w]
      /\ UNCHANGED <<rootVars, ipcVars, down, history>>
  <2>1. PICK v : v = [wk[c] EXCEPT !.pend = t]
    OBVIOUS
  <2>2. v.pend = t /\ v.uuid = wk[c].uuid /\ [v EXCEPT !.pend = p] = w
    BY <1>0, <1>7, <2>1 DEF Worker
  <2>3. ClientSend(c, v, h) /\ UNCHANGED <<rootVars, ipcVars, down, history>>
    BY <1>1, <2>1 DEF fio_cluster_client_sender
  <2> QED
    BY <1>0, <1>6, <2>2, <2>3 DEF ClientSend, Typed
<1>9. /\ p \in Seq(Post \cup Notice) /\ Once(p) /\ u \in Seq(ToRoot) /\ Once(u)
      /\ \A x : Has(u, x) <=> Has(up[c], x) \/ (x = h /\ wk[c].uuid = "open")
      /\ \A x : Has(p, x) <=> Has(t, x) \/ (x = h /\ wk[c].uuid # "open" /\ Active(c))
  <2>1. \A m \in Msg : h \in {Fwd(m), ToRootOnly(m)} => ~In(up[c], m)
    BY <1>3, <1>4
  <2>2. /\ u \in Seq(ToRoot) /\ Once(u)
        /\ \A x : Has(u, x) <=> Has(up[c], x) \/ (x = h /\ wk[c].uuid = "open")
    BY <1>0, <1>5, <1>6, <2>1, AppendIs, Joined
  <2>3. /\ p \in Seq(Post \cup Notice) /\ Once(p)
        /\ \A x : Has(p, x) <=> Has(t, x) \/ (x = h /\ wk[c].uuid # "open" /\ Active(c))
    BY <1>2, <1>6, AppendIs, Joined
  <2> QED
    BY <2>2, <2>3
<1>10. /\ w \in Worker /\ w.st = wk[c].st /\ w.uuid = wk[c].uuid /\ w.names = wk[c].names /\ w.pend = p
  BY <1>0, <1>7, <1>9 DEF Worker
<1>11. wk'[c] = w /\ up'[c] = u /\ root' = root /\ conn' = conn /\ down' = down
  BY <1>0, <1>8 DEF Typed, rootVars, ipcVars
<1>12. WorkerAgrees(c)'
  <2>1. wk[c].uuid # "lost" => p \in Seq(Post)
    <3>1. wk[c].uuid # "lost" => h \in Post /\ t \in Seq(Post)
      BY <1>0, <1>1, TailIs DEF WorkerAgrees
    <3> QED
      BY <1>6, <3>1, AppendIs
  <2>2. wk[c].uuid = "0" => u = up[c]
    BY <1>6
  <2> QED
    BY <1>0, <1>1, <1>10, <1>11, <2>1, <2>2 DEF WorkerAgrees, Alive, Active
<1>13. NameAgrees(c)'
  <2>1. SUFFICES ASSUME wk[c].uuid = "open", conn[c].st \in {"backlog", "attached"}, NEW n \in Name
                 PROVE  Told(u, Known(c), n, n \in wk[c].names)
    BY <1>10, <1>11 DEF NameAgrees, Known
  <2>2. h \in Post
    BY <1>0, <1>1, <2>1, TailIs DEF WorkerAgrees
  <2>3. ~About(h, n)
    BY <2>2 DEF Post, About, Message
  <2>4. Told(up[c], Known(c), n, n \in wk[c].names)
    BY <2>1 DEF Inv, NamesAgree, NameAgrees
  <2>5. Told(Append(up[c], h), Known(c), n, n \in wk[c].names)
    BY <1>0, <1>5, <2>3, <2>4, ToldJoined
  <2> QED
    BY <1>6, <2>1, <2>5
<1>14. ASSUME NEW m \in Msg
       PROVE  /\ In(u, m) \/ In(p, m) => Sending(c, m)
              /\ ~(In(u, m) /\ In(p, m))
              /\ Has(u, ToRootOnly(m)) \/ Has(p, ToRootOnly(m)) =>
                    Has(up[c], ToRootOnly(m)) \/ Has(q, ToRootOnly(m))
              /\ root.st = "run" /\ Alive(c) /\ Sending(c, m) => In(u, m) \/ In(p, m)
  <2>1. In(u, m) <=> In(up[c], m) \/ (h \in {Fwd(m), ToRootOnly(m)} /\ wk[c].uuid = "open")
    BY <1>9 DEF In
  <2>2. In(p, m) <=> In(t, m) \/ (h \in {Fwd(m), ToRootOnly(m)} /\ wk[c].uuid # "open" /\ Active(c))
    BY <1>9 DEF In
  <2>3. root.st = "run" => wk[c].uuid = "open" \/ Active(c)
    BY <1>0 DEF WorkerAgrees
  <2> QED
    BY <1>1, <1>2, <1>3, <1>4, <1>9, <2>1, <2>2, <2>3 DEF Sending
<1>15. wk[c].uuid = "0" => w.uuid \in {"0", "open"}
  BY <1>10
<1> QED
  BY <1>1, <1>8, <1>9, <1>10, <1>12, <1>13, <1>14, <1>15, Writing

\* fio_subscribe and fio_unsubscribe
LEMMA Informing ==
    ASSUME Inv, NEW c \in Child, NEW n \in Name, fio_subscribe(c, n) \/ fio_unsubscribe(c, n)
    PROVE  Inv'
<1>0. /\ Typed /\ WorkerAgrees(c) /\ wk \in [Child -> Worker] /\ wk[c] \in Worker /\ up[c] \in Seq(ToRoot)
      /\ conn[c] \in Conn /\ wk[c].pend \in Seq(Post \cup Notice)
      /\ Once(up[c]) /\ Once(wk[c].pend) /\ wk[c].st = "run" /\ Active(c) /\ Alive(c)
  BY DEF Inv, Typed, WorkersAgree, Worker, fio_subscribe, fio_unsubscribe, PostsAgree, Active, Alive
<1>1. PICK N, y, v : /\ N \in SUBSET Name
                     /\ y \in {Message("SUB", n), Message("UNSUB", n)}
                     /\ \A x \in Name : x \in N <=> IF x = n THEN y = Message("SUB", n) ELSE x \in wk[c].names
                     /\ v = [wk[c] EXCEPT !.names = N]
                     /\ IF wk[c].uuid = "0" THEN wk' = [wk EXCEPT ![c] = v] /\ UNCHANGED up
                                            ELSE ClientSend(c, v, y)
  <2>1. wk[c].names \in SUBSET Name /\ Message("SUB", n) # Message("UNSUB", n)
    BY <1>0 DEF Worker, Message
  <2>2. CASE fio_subscribe(c, n)
    <3>1. PICK N, v : N = wk[c].names \cup {n} /\ v = [wk[c] EXCEPT !.names = N]
      OBVIOUS
    <3>2. Inform(c, v, "SUB", n)
      BY <1>0, <2>2, <3>1 DEF fio_subscribe
    <3>3. v.uuid = wk[c].uuid
      BY <1>0, <3>1 DEF Worker
    <3> QED
      BY <2>1, <3>1, <3>2, <3>3 DEF Inform
  <2>3. CASE fio_unsubscribe(c, n)
    <3>1. PICK N, v : N = wk[c].names \ {n} /\ v = [wk[c] EXCEPT !.names = N]
      OBVIOUS
    <3>2. Inform(c, v, "UNSUB", n)
      BY <1>0, <2>3, <3>1 DEF fio_unsubscribe
    <3>3. v.uuid = wk[c].uuid
      BY <1>0, <3>1 DEF Worker
    <3> QED
      BY <2>1, <3>1, <3>2, <3>3 DEF Inform
  <2> QED
    BY <2>2, <2>3
<1>2. UNCHANGED <<rootVars, ipcVars, down, history>>
  BY DEF fio_subscribe, fio_unsubscribe
<1>3. v \in Worker /\ v.st = wk[c].st /\ v.uuid = wk[c].uuid /\ v.names = N /\ v.pend = wk[c].pend
  BY <1>0, <1>1 DEF Worker
<1>4. /\ y \in Notice /\ y \in ToRoot /\ \A m : y # Fwd(m) /\ y # ToRootOnly(m)
  BY <1>1 DEF Notice, ToRoot, Message, Fwd, ToRootOnly
<1>5. PICK u, p : /\ u = (IF wk[c].uuid = "open" THEN Append(up[c], y) ELSE up[c])
                  /\ p = (IF wk[c].uuid = "lost" THEN Append(wk[c].pend, y) ELSE wk[c].pend)
  OBVIOUS
<1>6. PICK w : w = [v EXCEPT !.pend = p]
  OBVIOUS
<1>7. /\ p \in Seq(Post \cup Notice) /\ Once(p) /\ u \in Seq(ToRoot) /\ Once(u)
      /\ \A x : x # y => (Has(u, x) <=> Has(up[c], x)) /\ (Has(p, x) <=> Has(wk[c].pend, x))
  <2>1. u \in Seq(ToRoot) /\ Once(u) /\ \A x : x # y => (Has(u, x) <=> Has(up[c], x))
    BY <1>0, <1>4, <1>5, AppendIs, Joined
  <2>2. /\ p \in Seq(Post \cup Notice) /\ Once(p)
        /\ \A x : x # y => (Has(p, x) <=> Has(wk[c].pend, x))
    BY <1>0, <1>4, <1>5, AppendIs, Joined
  <2> QED
    BY <2>1, <2>2
<1>8. /\ w \in Worker /\ w.st = wk[c].st /\ w.uuid = wk[c].uuid /\ w.names = N /\ w.pend = p
  BY <1>3, <1>6, <1>7 DEF Worker
<1>9. up' = [up EXCEPT ![c] = u] /\ wk' = [wk EXCEPT ![c] = w]
  <2>1. CASE wk[c].uuid = "0"
    <3>1. w = v
      BY <1>3, <1>5, <1>6, <2>1 DEF Worker
    <3> QED
      BY <1>0, <1>1, <1>5, <2>1, <3>1 DEF Typed
  <2>2. CASE wk[c].uuid # "0"
    <3>1. ClientSend(c, v, y)
      BY <1>1, <2>2
    <3>2. up' = [up EXCEPT ![c] = u]
      BY <1>0, <1>3, <1>5, <3>1 DEF ClientSend, Typed
    <3>3. (IF v.uuid # "open" /\ Active(c) THEN Append(v.pend, y) ELSE v.pend) = p
      BY <1>0, <1>3, <1>5, <2>2 DEF Worker
    <3>4. wk' = [wk EXCEPT ![c] = w]
      BY <1>3, <1>6, <3>1, <3>3 DEF ClientSend
    <3> QED
      BY <3>2, <3>4
  <2> QED
    BY <2>1, <2>2
<1>10. wk'[c] = w /\ up'[c] = u /\ root' = root /\ conn' = conn /\ down' = down
  BY <1>0, <1>2, <1>9 DEF Typed, rootVars, ipcVars
<1>11. WorkerAgrees(c)'
  <2>1. Alive(c)' /\ Active(c)'
    BY <1>0, <1>8, <1>10 DEF Alive, Active
  <2> QED
    BY <1>0, <1>5, <1>8, <1>10, <2>1 DEF WorkerAgrees
<1>12. NameAgrees(c)'
  <2>1. SUFFICES ASSUME wk[c].uuid = "open", conn[c].st \in {"backlog", "attached"}, NEW x \in Name
                 PROVE  Told(u, Known(c), x, x \in N)
    BY <1>8, <1>10 DEF NameAgrees, Known
  <2>2. CASE x = n
    <3>1. About(y, x) /\ (x \in N <=> y = Message("SUB", x))
      BY <1>1, <2>2 DEF About
    <3> QED
      BY <1>0, <1>4, <1>5, <2>1, <3>1, ToldJoined
  <2>3. CASE x # n
    <3>1. ~About(y, x) /\ (x \in N <=> x \in wk[c].names)
      BY <1>1, <2>3 DEF About, Message
    <3>2. Told(up[c], Known(c), x, x \in N)
      BY <2>1, <3>1 DEF Inv, NamesAgree, NameAgrees
    <3> QED
      BY <1>0, <1>4, <1>5, <2>1, <3>1, <3>2, ToldJoined
  <2> QED
    BY <2>2, <2>3
<1>13. ASSUME NEW m \in Msg
       PROVE  /\ In(u, m) \/ In(p, m) => Sending(c, m)
              /\ ~(In(u, m) /\ In(p, m))
              /\ Has(u, ToRootOnly(m)) \/ Has(p, ToRootOnly(m)) =>
                    Has(up[c], ToRootOnly(m)) \/ Has(wk[c].pend, ToRootOnly(m))
              /\ root.st = "run" /\ Alive(c) /\ Sending(c, m) => In(u, m) \/ In(p, m)
  <2>1. (In(u, m) <=> In(up[c], m)) /\ (In(p, m) <=> In(wk[c].pend, m))
    BY <1>4, <1>7 DEF In
  <2>2. ~(In(up[c], m) /\ In(wk[c].pend, m))
    BY DEF Inv, PostsAgree, PostAgrees, Sending
  <2> QED
    BY <1>4, <1>7, <2>1, <2>2 DEF Sending
<1>14. wk[c].uuid = "0" => w.uuid \in {"0", "open"}
  BY <1>8
<1> QED
  BY <1>2, <1>7, <1>8, <1>9, <1>11, <1>12, <1>13, <1>14, Writing

-----------------------------------------------------------------------------
(* Publishing.                                                             *)

\* Nothing is on its way of a message that nobody is owed.
LEMMA Fresh ==
    ASSUME Inv, NEW m \in Msg, audience[m].to = {}
    PROVE  /\ \A p \in Proc : delivered[p][m] = 0
           /\ \A c \in Child : /\ ~In(up[c], m) /\ ~In(wk[c].pend, m) /\ ~In(down[c], m)
  BY DEF Inv, PostsAgree, PostAgrees, Sending

LEMMA MessagesDiffer ==
    ASSUME NEW m, NEW x, x # m
    PROVE  Fwd(m) \notin {Fwd(x), ToRootOnly(x)} /\ ToRootOnly(m) \notin {Fwd(x), ToRootOnly(x)}
  BY DEF Fwd, ToRootOnly, Message

LEMMA KindsDiffer == \A m, x : Fwd(m) # ToRootOnly(x)
<1>1. \A m : Fwd(m).type = "FORWARD" /\ ToRootOnly(m).type = "ROOT"
  BY DEF Fwd, ToRootOnly, Message
<1> QED
  BY <1>1

LEMMA GiveIs ==
    ASSUME Typed, NEW p \in Proc, NEW m \in Msg, delivered[p][m] = 0, Give(p, m)
    PROVE  /\ delivered' \in [Proc -> [Msg -> {0, 1}]] /\ delivered'[p][m] = 1
           /\ \A q \in Proc, x \in Msg : q # p \/ x # m => delivered'[q][x] = delivered[q][x]
<1>1. PICK row : row = [delivered[p] EXCEPT ![m] = 1]
  OBVIOUS
<1>2. delivered' = [delivered EXCEPT ![p] = row]
  BY <1>1 DEF Give
<1>3. delivered[p] \in [Msg -> {0, 1}] /\ delivered \in [Proc -> [Msg -> {0, 1}]]
  BY DEF Typed
<1>4. row \in [Msg -> {0, 1}] /\ row[m] = 1 /\ \A x \in Msg : x # m => row[x] = delivered[p][x]
  BY <1>1, <1>3
<1>5. delivered' \in [Proc -> [Msg -> {0, 1}]] /\ delivered'[p] = row /\ \A q \in Proc : q # p => delivered'[q] = delivered[q]
  BY <1>2, <1>3, <1>4
<1> QED
  BY <1>4, <1>5

LEMMA Publishing ==
    ASSUME Inv, NEW c \in Child, NEW m \in Msg, fio_publish_cluster(c, m) \/ fio_publish_root(c, m)
    PROVE  Inv'
<1>0. /\ Typed /\ WorkerAgrees(c) /\ wk \in [Child -> Worker] /\ wk[c] \in Worker /\ up[c] \in Seq(ToRoot)
      /\ conn[c] \in Conn /\ wk[c].pend \in Seq(Post \cup Notice)
      /\ Once(up[c]) /\ Once(wk[c].pend) /\ wk[c].st = "run" /\ Active(c) /\ Alive(c) /\ audience[m].to = {}
  BY DEF Inv, Typed, WorkersAgree, Worker, fio_publish_cluster, fio_publish_root, PostsAgree, Active, Alive
<1>1. /\ \A p \in Proc : delivered[p][m] = 0
      /\ \A d \in Child : /\ ~In(up[d], m) /\ ~In(wk[d].pend, m) /\ ~In(down[d], m)
  BY <1>0, Fresh
<1>2. c \in Proc /\ Root \in Proc /\ c # Root /\ Child \subseteq Proc
  BY DEF Proc, Child, Root
<1>3. PICK y, T : /\ y \in {Fwd(m), ToRootOnly(m)} /\ T \subseteq Proc /\ T # {}
                  /\ (y = ToRootOnly(m) => T = {Root})
                  /\ \A p \in T : p \in {c, Root} \/ (p \in Child /\ conn[p].st = "attached" /\ wk[p].uuid = "open")
                  /\ audience' = [audience EXCEPT ![m] = [from |-> c, to |-> T]]
                  /\ ClientSend(c, wk[c], y)
                  /\ delivered' \in [Proc -> [Msg -> {0, 1}]]
                  /\ \A q \in Proc, x \in Msg : q # c \/ x # m => delivered'[q][x] = delivered[q][x]
                  /\ c \in T => delivered'[c][m] = 1
  <2>1. CASE fio_publish_cluster(c, m)
    <3>1. PICK T : T = Audience \cup {c, Root}
      OBVIOUS
    <3>2. audience' = [audience EXCEPT ![m] = [from |-> c, to |-> T]] /\ ClientSend(c, wk[c], Fwd(m))
      BY <2>1, <3>1 DEF fio_publish_cluster, Fwd
    <3>3. /\ delivered' \in [Proc -> [Msg -> {0, 1}]] /\ delivered'[c][m] = 1
          /\ \A q \in Proc, x \in Msg : q # c \/ x # m => delivered'[q][x] = delivered[q][x]
      BY <1>0, <1>1, <1>2, <2>1, GiveIs DEF fio_publish_cluster
    <3>4. Fwd(m) # ToRootOnly(m) /\ Fwd(m) \in {Fwd(m), ToRootOnly(m)}
      BY KindsDiffer
    <3>5. T \subseteq Proc /\ T # {}
      BY <1>2, <3>1 DEF Audience
    <3>6. \A p \in T : p \in {c, Root} \/ (p \in Child /\ conn[p].st = "attached" /\ wk[p].uuid = "open")
      BY <3>1 DEF Audience
    <3> QED
      BY <3>2, <3>3, <3>4, <3>5, <3>6
  <2>2. CASE fio_publish_root(c, m)
    <3>1. audience' = [audience EXCEPT ![m] = [from |-> c, to |-> {Root}]] /\ ClientSend(c, wk[c], ToRootOnly(m))
      BY <2>2 DEF fio_publish_root, ToRootOnly
    <3>2. delivered' = delivered /\ delivered \in [Proc -> [Msg -> {0, 1}]]
      BY <1>0, <2>2 DEF Typed, fio_publish_root
    <3> DEFINE T == {Root}
    <3>3. /\ T \subseteq Proc /\ T # {} /\ c \notin T
          /\ \A p \in T : p \in {c, Root}
      BY <1>2
    <3>4. ToRootOnly(m) \in {Fwd(m), ToRootOnly(m)} /\ T = {Root}
      OBVIOUS
    <3>5. audience' = [audience EXCEPT ![m] = [from |-> c, to |-> T]]
      BY <3>1
    <3> HIDE DEF T
    <3> QED
      BY <3>1, <3>2, <3>3, <3>4, <3>5
  <2> QED
    BY <2>1, <2>2
<1>4. UNCHANGED <<root, fork_lock, thread, conn, clients, counter, leaked, down>>
  BY DEF fio_publish_cluster, fio_publish_root, rootVars, ipcVars
<1>5. /\ y \in Post /\ y \in ToRoot
      /\ \A x \in Msg : x # m => y \notin {Fwd(x), ToRootOnly(x)}
      /\ \A n : ~About(y, n)
  <2>1. \A n : ~About(y, n)
    BY <1>3 DEF Fwd, ToRootOnly, Message, About
  <2>2. y \in Post
    BY <1>3 DEF Fwd, ToRootOnly, Message, Post
  <2> QED
    BY <1>3, <2>1, <2>2, MessagesDiffer DEF ToRoot
<1>6. PICK u, p : /\ u = (IF wk[c].uuid = "open" THEN Append(up[c], y) ELSE up[c])
                  /\ p = (IF wk[c].uuid # "open" THEN Append(wk[c].pend, y) ELSE wk[c].pend)
  OBVIOUS
<1>7. PICK w : w = [wk[c] EXCEPT !.pend = p]
  OBVIOUS
<1>8. /\ p \in Seq(Post \cup Notice) /\ Once(p) /\ u \in Seq(ToRoot) /\ Once(u)
      /\ \A x : Has(u, x) <=> Has(up[c], x) \/ (x = y /\ wk[c].uuid = "open")
      /\ \A x : Has(p, x) <=> Has(wk[c].pend, x) \/ (x = y /\ wk[c].uuid # "open")
  <2>1. \A x \in Msg : y \in {Fwd(x), ToRootOnly(x)} => ~In(up[c], x) /\ ~In(wk[c].pend, x)
    BY <1>1, <1>5
  <2>2. /\ u \in Seq(ToRoot) /\ Once(u)
        /\ \A x : Has(u, x) <=> Has(up[c], x) \/ (x = y /\ wk[c].uuid = "open")
    BY <1>0, <1>5, <1>6, <2>1, AppendIs, Joined
  <2>3. /\ p \in Seq(Post \cup Notice) /\ Once(p)
        /\ \A x : Has(p, x) <=> Has(wk[c].pend, x) \/ (x = y /\ wk[c].uuid # "open")
    BY <1>0, <1>5, <1>6, <2>1, AppendIs, Joined
  <2> QED
    BY <2>2, <2>3
<1>9. /\ w \in Worker /\ w.st = wk[c].st /\ w.uuid = wk[c].uuid /\ w.names = wk[c].names /\ w.pend = p
  BY <1>0, <1>7, <1>8 DEF Worker
<1>10. up' = [up EXCEPT ![c] = u] /\ wk' = [wk EXCEPT ![c] = w]
  BY <1>0, <1>3, <1>6, <1>7 DEF ClientSend, Typed
<1>11. /\ wk'[c] = w /\ up'[c] = u /\ \A d \in Child : d # c => wk'[d] = wk[d] /\ up'[d] = up[d]
  BY <1>0, <1>10 DEF Typed
<1>12. RootGoesOn
  BY <1>4 DEF RootGoesOn
<1>13. WorkersAgree'
  <2>1. Alive(c)' /\ Active(c)'
    BY <1>0, <1>9, <1>11 DEF Alive, Active
  <2>2. w.uuid # "lost" => w.pend \in Seq(Post)
    BY <1>0, <1>5, <1>6, <1>9, AppendIs DEF WorkerAgrees
  <2>3. WorkerAgrees(c)'
    BY <1>0, <1>4, <1>6, <1>9, <1>11, <2>1, <2>2 DEF WorkerAgrees
  <2> QED
    BY <1>4, <1>11, <1>12, <2>3, WorkersKept DEF Inv
<1>14. NamesAgree'
  <2>1. ASSUME wk[c].uuid = "open", conn[c].st \in {"backlog", "attached"}, NEW n \in Name
        PROVE  Told(u, Known(c), n, n \in wk[c].names)
    <3>1. Told(up[c], Known(c), n, n \in wk[c].names)
      BY <2>1 DEF Inv, NamesAgree, NameAgrees
    <3> QED
      BY <1>0, <1>5, <1>6, <2>1, <3>1, ToldJoined
  <2>2. NameAgrees(c)'
    BY <1>4, <1>9, <1>11, <2>1 DEF NameAgrees, Known
  <2> QED
    BY <1>4, <1>11, <2>2, NamesKept DEF Inv
<1>15. SlotsAgree' /\ ClientsAgree'
  BY <1>4, SlotsKept DEF Inv
<1>16. Typed'
  <2>1. delivered' \in [Proc -> [Msg -> {0, 1}]]
    BY <1>3
  <2>2. audience' \in [Msg -> [from : Proc, to : SUBSET Proc]]
    BY <1>0, <1>2, <1>3 DEF Typed
  <2> QED
    BY <1>0, <1>4, <1>8, <1>9, <1>10, <2>1, <2>2 DEF Typed
<1>17. ThreadsAgree'
  BY <1>4, <1>9, <1>11, ForksKept DEF Inv, Unborn
<1>18. PostsAgree' /\ ServedAgree'
  <2>1. ASSUME NEW x \in Msg, x # m
        PROVE  SameHistory(x) /\ \A d \in Child : Flows(d, x) /\ Carries(d, x)
    <3>1. SameHistory(x)
      BY <1>0, <1>3, <2>1 DEF SameHistory, Typed
    <3>2. ASSUME NEW d \in Child, d # c PROVE Flows(d, x) /\ Carries(d, x)
      BY <1>4, <1>11, <3>2 DEF Inv, PostsAgree, PostAgrees, Flows, Carries, Sending
    <3>3. /\ Has(u, Fwd(x)) <=> Has(up[c], Fwd(x))
          /\ Has(u, ToRootOnly(x)) <=> Has(up[c], ToRootOnly(x))
          /\ Has(p, Fwd(x)) <=> Has(wk[c].pend, Fwd(x))
          /\ Has(p, ToRootOnly(x)) <=> Has(wk[c].pend, ToRootOnly(x))
      BY <1>5, <1>8, <2>1
    <3>4. ~(In(up[c], x) /\ In(wk[c].pend, x))
      BY DEF Inv, PostsAgree, PostAgrees, Sending
    <3>5. Flows(c, x) /\ Carries(c, x)
      BY <1>4, <1>9, <1>11, <3>3, <3>4 DEF Flows, Carries, Sending, In
    <3> QED
      BY <3>1, <3>2, <3>5
  <2>2. ASSUME NEW d \in Child PROVE GoesOn(d) /\ Once(up'[d]) /\ Once(down'[d]) /\ Once(wk'[d].pend)
    <3>1. /\ wk'[d].st = wk[d].st /\ wk'[d].uuid = wk[d].uuid /\ conn' = conn
      BY <1>4, <1>9, <1>11
    <3>2. GoesOn(d)
      BY <3>1 DEF GoesOn, Alive, InService, Unborn, Root, Child
    <3>3. CASE d = c
      BY <1>4, <1>8, <1>9, <1>11, <3>2, <3>3 DEF Inv, PostsAgree
    <3>4. CASE d # c
      BY <1>4, <1>8, <1>9, <1>11, <3>2, <3>4 DEF Inv, PostsAgree
    <3> QED
      BY <3>3, <3>4
  <2>3. /\ audience'[m].to = T /\ audience'[m].from = c
        /\ \A d \in Proc : d # c => delivered'[d][m] = 0
    BY <1>0, <1>1, <1>2, <1>3 DEF Typed
  <2>4. ~In(up[c], m) /\ ~In(wk[c].pend, m)
    BY <1>1
  <2>5. /\ In(u, m) <=> wk[c].uuid = "open"
        /\ In(p, m) <=> wk[c].uuid # "open"
    BY <1>3, <1>8, <2>4 DEF In
  <2>6. /\ \A d \in Child : Sending(d, m)' <=> d = c
        /\ ~(In(up'[c], m) /\ In(wk'[c].pend, m))
        /\ \A d \in Child : ~In(down'[d], m)
    BY <1>1, <1>4, <1>9, <1>11, <2>5 DEF Sending
  <2>7. PostAgrees(m)'
    BY <1>2, <1>3, <2>3, <2>6 DEF PostAgrees
  <2>8. ServedAgrees(m, c)'
    <3>1. ~Unborn(c)'
      BY <1>0, <1>9, <1>11 DEF Unborn
    <3>2. ASSUME NEW d \in Child, Has(up'[d], ToRootOnly(m)) \/ Has(wk'[d].pend, ToRootOnly(m))
          PROVE  T = {Root}
      <4>1. d = c
        BY <1>1, <1>11, <3>2 DEF In
      <4>2. Has(u, ToRootOnly(m)) \/ Has(p, ToRootOnly(m))
        BY <1>9, <1>11, <3>2, <4>1
      <4>3. ToRootOnly(m) = y
        BY <1>8, <2>4, <4>2 DEF In
      <4> QED
        BY <1>3, <4>3
    <3>3. ASSUME NEW d \in Child, d \in T
          PROVE  IF d = c THEN delivered'[d][m] = 1
                 ELSE wk'[d].uuid # "0" /\ conn'[d].st \in {"attached", "closed"}
    <4>1. d # Root
      BY DEF Root, Child
    <4> QED
      BY <1>3, <1>4, <1>11, <3>3, <4>1
    <3>4. Sending(c, m)'
      BY <2>6
    <3> QED
      BY <1>2, <2>3, <3>1, <3>2, <3>3, <3>4 DEF ServedAgrees, Invited
  <2>9. \A f \in Proc : audience'[m].from = f => ServedAgrees(m, f)'
    BY <2>3, <2>8
  <2> QED
    BY <1>12, <2>1, <2>2, <2>7, <2>9, HistoryStep
<1> QED
  BY <1>13, <1>14, <1>15, <1>16, <1>17, <1>18 DEF Inv

\* fio_cluster_server_sender
Reaches(c, avoid) == c \in Attached /\ conn[c].uuid # avoid /\ Alive(c)
LEMMA Sent ==
    ASSUME Typed, ClientsAgree, NEW y \in ToChild, NEW avoid, NEW times \in Nat,
           fio_cluster_server_sender(y, avoid, times)
    PROVE  /\ down' \in [Child -> Seq(ToChild)]
           /\ \A c \in Child :
                 /\ ~Alive(c) => down'[c] = down[c]
                 /\ \A x : Has(down'[c], x) <=> Has(down[c], x) \/ (x = y /\ times # 0 /\ Reaches(c, avoid))
                 /\ Once(down[c]) /\ (\A m \in Msg : y \in {Fwd(m), ToRootOnly(m)} => ~In(down[c], m) /\ times <= 1)
                       => Once(down'[c])
<1>1. ASSUME NEW c \in Child
      PROVE  /\ down'[c] \in Seq(ToChild)
             /\ ~Alive(c) => down'[c] = down[c]
             /\ \A x : Has(down'[c], x) <=> Has(down[c], x) \/ (x = y /\ times # 0 /\ Reaches(c, avoid))
             /\ Once(down[c]) /\ (\A m \in Msg : y \in {Fwd(m), ToRootOnly(m)} => ~In(down[c], m) /\ times <= 1)
                   => Once(down'[c])
  <2>1. PICK k, u : k = times * Copies(c, avoid) /\ u = down'[c]
    OBVIOUS
  <2>2. u = down[c] \o [i \in 1 .. k |-> y] /\ down[c] \in Seq(ToChild)
    BY <2>1 DEF fio_cluster_server_sender, Typed
  <2>3. Copies(c, avoid) \in {0, 1} /\ (Copies(c, avoid) = 1 <=> Reaches(c, avoid))
    BY CopiesAre DEF Reaches
  <2>4. k \in Nat /\ (k # 0 <=> times # 0 /\ Reaches(c, avoid)) /\ k <= times
    BY <2>1, <2>3
  <2>5. /\ u \in Seq(ToChild)
        /\ k = 0 => u = down[c]
        /\ \A x : Has(u, x) <=> Has(down[c], x) \/ (x = y /\ k # 0)
        /\ Once(down[c]) /\ (\A m \in Msg : y \in {Fwd(m), ToRootOnly(m)} => ~In(down[c], m) /\ k <= 1) => Once(u)
    <3>1. PICK q, r : q = down[c] /\ r = [i \in 1 .. k |-> y]
      OBVIOUS
    <3>2. q \in Seq(ToChild) /\ r \in [1 .. k -> {y}] /\ u = q \o r /\ k \in Nat
      BY <2>2, <2>4, <3>1
    <3>3. u \in Seq(ToChild) /\ CopiesJoined(u, q, y, k)
      BY <3>2, Copied
    <3> QED
      BY <3>1, <3>3 DEF CopiesJoined
  <2>6. ~Alive(c) => k = 0
    BY <2>4 DEF Reaches
  <2>7. times <= 1 => k <= 1
    BY <2>4
  <2> QED
    BY <2>1, <2>4, <2>5, <2>6, <2>7
<1>2. DOMAIN down' = Child /\ down' = [c \in Child |-> down'[c]]
  BY DEF fio_cluster_server_sender
<1> QED
  BY <1>1, <1>2

\* The uuids of open connections are real and differ.
LEMMA UuidsDiffer ==
    ASSUME Typed, SlotsAgree, NEW c \in Attached
    PROVE  /\ conn[c].uuid # <<0, 0>>
           /\ \A d \in Attached : conn[c].uuid = conn[d].uuid => c = d
<1>1. conn[c].uuid[1] \in Fd /\ \A d \in Attached : conn[c].uuid[1] = conn[d].uuid[1] => c = d
  BY DEF SlotsAgree
<1>2. conn[c].uuid[1] # 0
  BY <1>1 DEF Fd
<1> QED
  BY <1>1, <1>2

\* Only the root's reading, and what it sends, and the histories change.
LEMMA RootActs ==
    ASSUME Inv, UNCHANGED <<fork_lock, thread, wk, ipcVars>>, RootKept,
           up' \in [Child -> Seq(ToRoot)], down' \in [Child -> Seq(ToChild)],
           delivered' \in [Proc -> [Msg -> {0, 1}]],
           audience' \in [Msg -> [from : Proc, to : SUBSET Proc]],
           \A c \in Child : up'[c] # up[c] => wk[c].uuid # "0" /\ NameAgrees(c)',
           \A c \in Child : ~Alive(c) => down'[c] = down[c],
           PostsAgree', ServedAgree'
    PROVE  Inv'
<1>1. UNCHANGED <<fork_lock, thread, wk, conn, clients, counter, leaked>>
  BY DEF ipcVars
<1>2. Typed'
  BY <1>1 DEF Inv, Typed, RootKept
<1>3. ThreadsAgree'
  BY <1>1, ForksKept DEF Inv, Unborn
<1>4. ASSUME NEW c \in Child PROVE WorkerAgrees(c)'
  <2>1. wk[c].uuid = "0" => up'[c] = up[c]
    OBVIOUS
  <2> QED
    BY <1>1, <2>1 DEF Inv, WorkersAgree, WorkerAgrees, RootKept, RootGoesOn, Alive, Active
<1>5. SlotsAgree' /\ ClientsAgree'
  BY <1>1, SlotsKept DEF Inv
<1>6. ASSUME NEW c \in Child PROVE NameAgrees(c)'
  <2>1. CASE up'[c] = up[c]
    BY <1>1, <2>1 DEF Inv, NamesAgree, NameAgrees, Known
  <2> QED
    BY <2>1
<1> QED
  BY <1>2, <1>3, <1>4, <1>5, <1>6 DEF Inv, WorkersAgree, NamesAgree

LEMMA PublishingInRoot ==
    ASSUME Inv, NEW m \in Msg, fio_publish_in_root(m)
    PROVE  Inv'
<1>0. /\ Typed /\ ClientsAgree /\ SlotsAgree /\ audience[m].to = {}
      /\ UNCHANGED <<root, fork_lock, thread, wk, conn, ipcVars, up>>
  BY DEF Inv, fio_publish_in_root, rootVars, ipcVars
<1>1. /\ \A p \in Proc : delivered[p][m] = 0
      /\ \A d \in Child : /\ ~In(up[d], m) /\ ~In(wk[d].pend, m) /\ ~In(down[d], m)
  BY <1>0, Fresh
<1>2. Root \in Proc /\ Child \subseteq Proc /\ Root \notin Child
  BY DEF Proc, Child, Root
<1>3. PICK y, T : y = Fwd(m) /\ T = Audience \cup {Root}
  OBVIOUS
<1>4. /\ T \subseteq Proc /\ T # {}
      /\ \A p \in T : p = Root \/ (p \in Child /\ conn[p].st = "attached" /\ wk[p].st = "run" /\ wk[p].uuid = "open")
  BY <1>2, <1>3 DEF Audience
<1>5. /\ fio_cluster_server_sender(y, <<0, 0>>, 1)
      /\ audience' = [audience EXCEPT ![m] = [from |-> Root, to |-> T]]
  BY <1>3 DEF fio_publish_in_root, Fwd
<1>6. /\ delivered' \in [Proc -> [Msg -> {0, 1}]] /\ delivered'[Root][m] = 1
      /\ \A q \in Proc, x \in Msg : q # Root \/ x # m => delivered'[q][x] = delivered[q][x]
  BY <1>0, <1>1, <1>2, GiveIs DEF fio_publish_in_root
<1>7. audience' \in [Msg -> [from : Proc, to : SUBSET Proc]] /\ audience'[m].from = Root /\ audience'[m].to = T
  BY <1>0, <1>2, <1>4, <1>5 DEF Typed
<1>8. y \in ToChild /\ \A x \in Msg : x # m => y \notin {Fwd(x), ToRootOnly(x)}
  <2>1. y \in ToChild
    BY <1>3 DEF ToChild, Fwd, Message
  <2> QED
    BY <1>3, <2>1, MessagesDiffer
<1>9. /\ down' \in [Child -> Seq(ToChild)]
      /\ \A c \in Child :
            /\ ~Alive(c) => down'[c] = down[c]
            /\ \A x : Has(down'[c], x) <=> Has(down[c], x) \/ (x = y /\ Reaches(c, <<0, 0>>))
            /\ Once(down'[c])
  <2>1. /\ down' \in [Child -> Seq(ToChild)]
        /\ \A c \in Child :
              /\ ~Alive(c) => down'[c] = down[c]
              /\ \A x : Has(down'[c], x) <=> Has(down[c], x) \/ (x = y /\ 1 # 0 /\ Reaches(c, <<0, 0>>))
              /\ Once(down[c]) /\ (\A z \in Msg : y \in {Fwd(z), ToRootOnly(z)} => ~In(down[c], z) /\ 1 <= 1)
                    => Once(down'[c])
    BY <1>0, <1>5, <1>8, Sent
  <2>2. \A c \in Child : Once(down[c]) /\ \A z \in Msg : y \in {Fwd(z), ToRootOnly(z)} => ~In(down[c], z)
    BY <1>1, <1>8 DEF Inv, PostsAgree
  <2> QED
    BY <2>1, <2>2
<1>10. RootKept
  BY <1>0 DEF RootKept, RootGoesOn, Typed
<1>11. PostsAgree' /\ ServedAgree'
  <2>1. ASSUME NEW x \in Msg, x # m
        PROVE  SameHistory(x) /\ \A d \in Child : Flows(d, x) /\ Carries(d, x)
    <3>1. SameHistory(x)
      BY <1>0, <1>5, <1>6, <2>1 DEF SameHistory, Typed
    <3>2. \A d \in Child : In(down'[d], x) <=> In(down[d], x)
      BY <1>8, <1>9, <2>1 DEF In
    <3>3. \A d \in Child : Flows(d, x) /\ Carries(d, x)
      BY <1>0, <3>2 DEF Inv, PostsAgree, PostAgrees, Flows, Carries, Sending
    <3> QED
      BY <3>1, <3>3
  <2>2. ASSUME NEW d \in Child PROVE GoesOn(d) /\ Once(up'[d]) /\ Once(down'[d]) /\ Once(wk'[d].pend)
    <3>1. GoesOn(d)
      BY <1>0 DEF GoesOn, Alive, InService, Unborn, Root, Child
    <3> QED
      BY <1>0, <1>9, <3>1 DEF Inv, PostsAgree
  <2>3. \A d \in Child : ~Sending(d, m)'
    BY <1>0, <1>1 DEF Sending
  <2>4. PostAgrees(m)'
    <3>1. \A d \in Child : delivered'[d][m] = 0
      BY <1>1, <1>2, <1>6
    <3> QED
      BY <1>4, <1>7, <2>3, <3>1 DEF PostAgrees
  <2>5. ServedAgrees(m, Root)'
    <3>1. \A d \in Child : ~Has(up'[d], ToRootOnly(m)) /\ ~Has(wk'[d].pend, ToRootOnly(m))
      BY <2>3 DEF Sending, In
    <3>2. ASSUME NEW d \in Child, d \in T PROVE d # Root /\ wk'[d].uuid # "0" /\ conn'[d].st \in {"attached", "closed"}
      BY <1>0, <1>2, <1>4, <3>2
    <3>3. ASSUME NEW p \in T, Unserved(p, m)' PROVE p # Root /\ In(down'[p], m)
      <4>1. p # Root
        BY <1>6, <3>3 DEF Unserved
      <4>2. p \in Child /\ p \in Attached /\ Alive(p)
        BY <1>4, <3>3, <4>1 DEF Attached, Alive
      <4>3. Reaches(p, <<0, 0>>)
        BY <1>0, <4>2, UuidsDiffer DEF Reaches
      <4> QED
        BY <1>3, <1>9, <4>1, <4>2, <4>3 DEF In
    <3> QED
      BY <1>2, <1>7, <3>1, <3>2, <3>3 DEF ServedAgrees, Invited
  <2>6. \A f \in Proc : audience'[m].from = f => ServedAgrees(m, f)'
    BY <1>7, <2>5
  <2> QED
    BY <1>10, <2>1, <2>2, <2>4, <2>6, HistoryStep DEF RootKept
<1> QED
  <2>1. up' \in [Child -> Seq(ToRoot)] /\ \A c \in Child : up'[c] = up[c]
    BY <1>0 DEF Typed
  <2>2. UNCHANGED <<fork_lock, thread, wk, ipcVars>>
    BY <1>0
  <2>3. \A c \in Child : ~Alive(c) => down'[c] = down[c]
    BY <1>9
  <2>4. down' \in [Child -> Seq(ToChild)]
    BY <1>9
  <2>5. \A c \in Child : up'[c] # up[c] => wk[c].uuid # "0" /\ NameAgrees(c)'
    BY <2>1
  <2>6. audience' \in [Msg -> [from : Proc, to : SUBSET Proc]]
    BY <1>7
  <2>7. delivered' \in [Proc -> [Msg -> {0, 1}]]
    BY <1>6
  <2> QED
    BY <1>10, <1>11, <2>1, <2>2, <2>3, <2>4, <2>5, <2>6, <2>7, RootActs

-----------------------------------------------------------------------------
(* What the root reads.                                                    *)

WasRead(c, type, h) ==
    /\ h \in ToRoot /\ h.type = type /\ conn[c].st = "attached" /\ wk[c].uuid # "0"
    /\ up' \in [Child -> Seq(ToRoot)] /\ up'[c] = Tail(up[c]) /\ Once(up'[c])
    /\ \A d \in Child : d # c => up'[d] = up[d]
    /\ \A x : Has(up[c], x) <=> h = x \/ Has(up'[c], x)
    /\ \A m \in Msg : h \in {Fwd(m), ToRootOnly(m)} => ~In(up'[c], m)
    /\ UNCHANGED <<root, fork_lock, thread, wk, clients, counter, leaked>>
LEMMA ReadIs ==
    ASSUME Inv, NEW c \in Child, NEW type, RootReads(c, type), NEW h, h = Head(up[c])
    PROVE  WasRead(c, type, h)
<1>1. /\ up \in [Child -> Seq(ToRoot)] /\ up[c] \in Seq(ToRoot) /\ up[c] # <<>> /\ Once(up[c])
      /\ WorkerAgrees(c) /\ conn[c].st = "attached" /\ h.type = type
      /\ UNCHANGED <<root, fork_lock, thread, wk, clients, counter, leaked>>
  BY DEF Inv, Typed, PostsAgree, WorkersAgree, RootReads, rootVars
<1>2. PICK q, t : q = up[c] /\ t = Tail(q)
  OBVIOUS
<1>3. h \in ToRoot /\ t \in Seq(ToRoot)
  BY <1>1, <1>2, TailIs
<1>4. /\ \A x : Has(q, x) <=> h = x \/ Has(t, x)
      /\ Once(t) /\ \A m \in Msg : h \in {Fwd(m), ToRootOnly(m)} => ~In(t, m)
  BY <1>1, <1>2, Taken
<1>5. up' = [up EXCEPT ![c] = t]
  BY <1>1, <1>2 DEF RootReads
<1>6. up' \in [Child -> Seq(ToRoot)] /\ up'[c] = t /\ \A d \in Child : d # c => up'[d] = up[d]
  BY <1>1, <1>3, <1>5
<1>7. wk[c].uuid # "0"
  BY <1>1 DEF WorkerAgrees
<1> QED
  BY <1>1, <1>2, <1>3, <1>4, <1>6, <1>7 DEF WasRead

LEMMA PostIs ==
    ASSUME NEW h \in ToRoot
    PROVE  /\ h.type = "FORWARD" => \E m \in Msg : h = Fwd(m) /\ h.arg = m
           /\ h.type = "ROOT" => \E m \in Msg : h = ToRootOnly(m) /\ h.arg = m
           /\ h.type = "SUB" => \E n \in Name : h = Message("SUB", n) /\ h.arg = n
           /\ h.type = "UNSUB" => \E n \in Name : h = Message("UNSUB", n) /\ h.arg = n
<1>1. CASE h \in Post
  <2>1. PICK m \in Msg, t \in {"FORWARD", "ROOT"} : h = [type |-> t, arg |-> m]
    BY <1>1 DEF Post
  <2>2. h.type = t /\ h.arg = m
    BY <2>1
  <2> QED
    BY <2>1, <2>2 DEF Fwd, ToRootOnly, Message
<1>2. CASE h \in Notice
  <2>1. PICK n \in Name, t \in {"SUB", "UNSUB"} : h = [type |-> t, arg |-> n]
    BY <1>2 DEF Notice
  <2>2. h.type = t /\ h.arg = n
    BY <2>1
  <2> QED
    BY <2>1, <2>2 DEF Message
<1>3. CASE h \in Order
  <2>1. h.type = "SHUTDOWN"
    <3>1. \A a : Message("SHUTDOWN", a).type = "SHUTDOWN"
      BY DEF Message
    <3>2. h = Message("SHUTDOWN", "")
      BY <1>3, Zenon DEF Order
    <3> QED
      BY <3>1, <3>2, Zenon
  <2> QED
    BY <2>1
<1> QED
  BY <1>1, <1>2, <1>3 DEF ToRoot

\* The root's own copy, and one for every other worker.
LEMMA RootGives ==
    ASSUME Inv, NEW c \in Child, fio_cluster_server_forward(c) \/ fio_cluster_server_root(c)
    PROVE  Inv'
<1>1. PICK h, type : h = Head(up[c]) /\ RootReads(c, type) /\ type \in {"FORWARD", "ROOT"} /\ Give(Root, h.arg)
                     /\ UNCHANGED <<conn, audience>>
                     /\ (type = "FORWARD" => fio_cluster_server_sender(h, conn[c].uuid, 1))
                     /\ (type = "ROOT" => UNCHANGED down)
  BY DEF fio_cluster_server_forward, fio_cluster_server_root, AvoidUuid
<1>2. /\ h \in ToRoot /\ h.type = type /\ conn[c].st = "attached" /\ wk[c].uuid # "0"
      /\ up' \in [Child -> Seq(ToRoot)] /\ up'[c] = Tail(up[c]) /\ Once(up'[c])
      /\ \A d \in Child : d # c => up'[d] = up[d]
      /\ \A x : Has(up[c], x) <=> h = x \/ Has(up'[c], x)
      /\ \A m \in Msg : h \in {Fwd(m), ToRootOnly(m)} => ~In(up'[c], m)
      /\ UNCHANGED <<root, fork_lock, thread, wk, clients, counter, leaked>>
  BY <1>1, ReadIs DEF WasRead
<1>3. PICK m \in Msg : h.arg = m /\ h = IF type = "FORWARD" THEN Fwd(m) ELSE ToRootOnly(m)
  BY <1>1, <1>2, PostIs
<1>4. /\ Typed /\ ClientsAgree /\ SlotsAgree /\ PostAgrees(m) /\ In(up[c], m)
      /\ \A x \in Msg : x # m => h \notin {Fwd(x), ToRootOnly(x)}
  <2>1. In(up[c], m)
    BY <1>2, <1>3 DEF In
  <2> QED
    BY <1>3, <2>1, MessagesDiffer DEF Inv, PostsAgree
<1>5. Root \in Proc /\ Child \subseteq Proc /\ Root \notin Child
  BY DEF Proc, Child, Root
<1>6. /\ audience[m].to # {} /\ audience[m].from = c /\ ~In(wk[c].pend, m)
      /\ delivered[Root][m] = 0
      /\ \A d \in Child : ~In(down[d], m) /\ (d # c => delivered[d][m] = 0 /\ ~Sending(d, m))
  BY <1>4 DEF PostAgrees, Sending
<1>7. /\ delivered' \in [Proc -> [Msg -> {0, 1}]] /\ delivered'[Root][m] = 1
      /\ \A q \in Proc, x \in Msg : q # Root \/ x # m => delivered'[q][x] = delivered[q][x]
  BY <1>1, <1>3, <1>4, <1>5, <1>6, GiveIs
<1>8. /\ down' \in [Child -> Seq(ToChild)]
      /\ \A d \in Child :
            /\ ~Alive(d) => down'[d] = down[d]
            /\ \A x : Has(down'[d], x) <=> Has(down[d], x) \/ (x = h /\ type = "FORWARD" /\ Reaches(d, conn[c].uuid))
            /\ Once(down'[d])
  <2>1. CASE type = "FORWARD"
    <3>1. h \in ToChild
      BY <1>3, <2>1 DEF ToChild, Fwd, Message
    <3>2. /\ down' \in [Child -> Seq(ToChild)]
          /\ \A d \in Child :
                /\ ~Alive(d) => down'[d] = down[d]
                /\ \A x : Has(down'[d], x) <=> Has(down[d], x) \/ (x = h /\ 1 # 0 /\ Reaches(d, conn[c].uuid))
                /\ Once(down[d]) /\ (\A z \in Msg : h \in {Fwd(z), ToRootOnly(z)} => ~In(down[d], z) /\ 1 <= 1)
                      => Once(down'[d])
      <4>1. PICK a : a = conn[c].uuid
        OBVIOUS
      <4>2. fio_cluster_server_sender(h, a, 1)
        BY <1>1, <2>1, <4>1
      <4>3. /\ down' \in [Child -> Seq(ToChild)]
            /\ \A d \in Child :
                  /\ ~Alive(d) => down'[d] = down[d]
                  /\ \A x : Has(down'[d], x) <=> Has(down[d], x) \/ (x = h /\ 1 # 0 /\ Reaches(d, a))
                  /\ Once(down[d]) /\ (\A z \in Msg : h \in {Fwd(z), ToRootOnly(z)} => ~In(down[d], z) /\ 1 <= 1)
                        => Once(down'[d])
        BY <1>4, <3>1, <4>2, Sent
      <4> QED
        BY <4>1, <4>3
    <3>3. \A d \in Child : Once(down[d]) /\ \A z \in Msg : h \in {Fwd(z), ToRootOnly(z)} => ~In(down[d], z)
      BY <1>4, <1>6 DEF Inv, PostsAgree
    <3> QED
      BY <2>1, <3>2, <3>3
  <2>2. CASE type = "ROOT"
    BY <1>1, <1>4, <2>2 DEF Inv, PostsAgree, Typed
  <2> QED
    BY <1>1, <2>1, <2>2
<1>9. RootKept
  BY <1>2, <1>4 DEF RootKept, RootGoesOn, Typed
<1>10. PostsAgree' /\ ServedAgree'
  <2>1. ASSUME NEW x \in Msg, x # m
        PROVE  SameHistory(x) /\ \A d \in Child : Flows(d, x) /\ Carries(d, x)
    <3>1. SameHistory(x)
      BY <1>1, <1>7, <2>1 DEF SameHistory
    <3>2. \A d \in Child : In(down'[d], x) <=> In(down[d], x)
      BY <1>4, <1>8, <2>1 DEF In
    <3>3. \A d \in Child : /\ In(up'[d], x) <=> In(up[d], x)
                           /\ Has(up'[d], ToRootOnly(x)) <=> Has(up[d], ToRootOnly(x))
      BY <1>2, <1>4, <2>1 DEF In
    <3>4. \A d \in Child : Flows(d, x) /\ Carries(d, x)
      BY <1>2, <3>2, <3>3 DEF Inv, PostsAgree, PostAgrees, Flows, Carries, Sending
    <3> QED
      BY <3>1, <3>4
  <2>2. ASSUME NEW d \in Child PROVE GoesOn(d) /\ Once(up'[d]) /\ Once(down'[d]) /\ Once(wk'[d].pend)
    <3>1. GoesOn(d)
      BY <1>1, <1>2 DEF GoesOn, Alive, InService, Unborn, Root, Child
    <3>2. Once(up'[d])
      BY <1>2 DEF Inv, PostsAgree
    <3> QED
      BY <1>2, <1>8, <3>1, <3>2 DEF Inv, PostsAgree
  <2>3. \A d \in Child : ~Sending(d, m)'
    <3>1. ~In(up'[c], m)
      BY <1>2, <1>3
    <3> QED
      BY <1>2, <1>6, <3>1 DEF Sending
  <2>4. \A d \in Child : In(down'[d], m) => type = "FORWARD" /\ Reaches(d, conn[c].uuid)
    BY <1>6, <1>8 DEF In
  <2>5. \A d \in Child : delivered'[d][m] = delivered[d][m]
    BY <1>5, <1>7
  <2>6. PostAgrees(m)'
    <3>1. \A d \in Child : In(down'[d], m) => delivered'[d][m] = 0
      BY <1>6, <2>4, <2>5 DEF Reaches
    <3> QED
      BY <1>1, <1>6, <2>3, <3>1 DEF PostAgrees
  <2>7. ASSUME ServedAgrees(m, c) PROVE ServedAgrees(m, c)'
    <3>1. ~Unborn(c)'
      BY <1>2, <1>5, <2>7 DEF ServedAgrees, Unborn
    <3>2. \A d \in Child : ~Has(up'[d], ToRootOnly(m)) /\ ~Has(wk'[d].pend, ToRootOnly(m))
      BY <2>3 DEF Sending, In
    <3>3. ASSUME NEW d \in Child, Invited(d, m)'
          PROVE  IF d = c THEN delivered'[d][m] = 1
                 ELSE wk'[d].uuid # "0" /\ conn'[d].st \in {"attached", "closed"}
      BY <1>1, <1>2, <2>5, <2>7, <3>3 DEF ServedAgrees, Invited
    <3>4. ASSUME NEW p \in audience[m].to, Unserved(p, m)' PROVE p # Root /\ In(down'[p], m)
      <4>1. p # Root
        BY <1>7, <3>4 DEF Unserved
      <4>2. p \in Child
        BY <1>4, <4>1, <3>4 DEF Typed, Proc
      <4>3. p # c
        BY <1>1, <3>3, <3>4, <4>1, <4>2 DEF Unserved, Invited
      <4>4. type = "FORWARD"
        <5>1. SUFFICES ASSUME type = "ROOT" PROVE FALSE
          BY <1>1
        <5>2. Has(up[c], ToRootOnly(m))
          BY <1>2, <1>3, <5>1
        <5> QED
          BY <2>7, <3>4, <4>1, <5>2 DEF ServedAgrees
      <4>5. p \in Attached /\ Alive(p) /\ c \in Attached
        BY <1>1, <1>2, <3>4, <4>1, <4>2 DEF Unserved, InService, Attached, Alive
      <4>6. Reaches(p, conn[c].uuid)
        BY <1>4, <4>3, <4>5, UuidsDiffer DEF Reaches
      <4> QED
        BY <1>3, <1>8, <4>1, <4>2, <4>4, <4>6 DEF In
    <3> QED
      BY <1>1, <3>1, <3>2, <3>3, <3>4 DEF ServedAgrees
  <2>8. \A f \in Proc : audience'[m].from = f => ServedAgrees(m, f)'
    <3>1. ServedAgrees(m, c)
      BY <1>5, <1>6 DEF Inv, ServedAgree
    <3> QED
      BY <1>1, <1>6, <2>7, <3>1
  <2> QED
    BY <1>9, <2>1, <2>2, <2>6, <2>8, HistoryStep DEF RootKept
<1>11. NameAgrees(c)'
  <2>1. SUFFICES ASSUME wk[c].uuid = "open", NEW n \in Name
                 PROVE  Told(Tail(up[c]), Known(c), n, n \in wk[c].names)
    BY <1>1, <1>2 DEF NameAgrees, Known
  <2>2. Told(up[c], Known(c), n, n \in wk[c].names)
    BY <1>2, <2>1 DEF Inv, NamesAgree, NameAgrees
  <2>3. ~About(h, n)
    BY <1>1, <1>2 DEF About, Message
  <2>4. up[c] \in Seq(ToRoot) /\ up[c] # <<>>
    BY <1>1, <1>4 DEF Typed, RootReads
  <2> QED
    BY <1>1, <2>2, <2>3, <2>4, ToldTaken
<1>12. UNCHANGED <<fork_lock, thread, wk, ipcVars>>
  BY <1>1, <1>2 DEF ipcVars
<1>13. \A d \in Child : up'[d] # up[d] => wk[d].uuid # "0" /\ NameAgrees(d)'
  BY <1>2, <1>11
<1>14. audience' \in [Msg -> [from : Proc, to : SUBSET Proc]]
  BY <1>1, <1>4 DEF Typed
<1>15. \A d \in Child : ~Alive(d) => down'[d] = down[d]
  BY <1>8
<1> QED
  BY <1>2, <1>7, <1>8, <1>9, <1>10, <1>12, <1>13, <1>14, <1>15, RootActs

\* What the root knows of a name is what the last notice said.
LEMMA RootHears ==
    ASSUME Inv, NEW c \in Child,
           fio_cluster_server_sub(c) \/ fio_cluster_server_unsub(c) \/ fio_cluster_server_ignore(c)
    PROVE  Inv'
<1>1. PICK h, type : h = Head(up[c]) /\ RootReads(c, type) /\ type \in {"SUB", "UNSUB", "SHUTDOWN"}
                     /\ UNCHANGED <<down, history>>
                     /\ (type = "SUB" => fio_cluster_server_sub(c))
                     /\ (type = "UNSUB" => fio_cluster_server_unsub(c))
                     /\ (type = "SHUTDOWN" => UNCHANGED conn)
  BY DEF fio_cluster_server_sub, fio_cluster_server_unsub, fio_cluster_server_ignore
<1>2. /\ h \in ToRoot /\ h.type = type /\ conn[c].st = "attached" /\ wk[c].uuid # "0"
      /\ up' \in [Child -> Seq(ToRoot)] /\ up'[c] = Tail(up[c]) /\ Once(up'[c])
      /\ \A d \in Child : d # c => up'[d] = up[d]
      /\ \A x : Has(up[c], x) <=> h = x \/ Has(up'[c], x)
      /\ \A m \in Msg : h \in {Fwd(m), ToRootOnly(m)} => ~In(up'[c], m)
      /\ UNCHANGED <<root, fork_lock, thread, wk, clients, counter, leaked>>
  <2>1. RootReads(c, type) /\ h = Head(up[c])
    BY <1>1
  <2>2. WasRead(c, type, h)
    BY <2>1, ReadIs
  <2> QED
    BY <2>2 DEF WasRead
<1>3. /\ Typed /\ WorkerAgrees(c) /\ conn \in [Child -> Conn] /\ conn[c] \in Conn /\ wk[c] \in Worker
      /\ up[c] \in Seq(ToRoot) /\ up[c] # <<>> /\ down[c] \in Seq(ToChild)
      /\ conn[c].pubsub \subseteq Channel /\ conn[c].patterns \subseteq Pattern
  BY <1>1 DEF Inv, Typed, WorkersAgree, RootReads, Conn
<1>4. \A m : h # Fwd(m) /\ h # ToRootOnly(m)
  <2>1. \A m : Fwd(m).type = "FORWARD" /\ ToRootOnly(m).type = "ROOT"
    BY DEF Fwd, ToRootOnly, Message
  <2> QED
    BY <1>1, <1>2, <2>1
<1>5. PICK k \in Conn :
         /\ conn' = [conn EXCEPT ![c] = k] /\ k.st = conn[c].st /\ k.uuid = conn[c].uuid
         /\ \A n \in Name :
              n \in k.pubsub \cup k.patterns <=>
                IF About(h, n) THEN h = Message("SUB", n) ELSE n \in conn[c].pubsub \cup conn[c].patterns
  <2>1. ASSUME NEW name \in Name, type \in {"SUB", "UNSUB"}, h = Message(type, name), h.arg = name
        PROVE  \A n \in Name : About(h, n) <=> n = name
    BY <2>1 DEF About, Message
  <2>2. CASE type = "SUB"
    <3>1. PICK name \in Name : h = Message("SUB", name) /\ h.arg = name
      BY <1>2, <2>2, PostIs
    <3>2. \A n \in Name : About(h, n) <=> n = name
      BY <2>1, <2>2, <3>1
    <3>3. conn' = IF name \in Channel THEN [conn EXCEPT ![c].pubsub = @ \cup {name}]
                                      ELSE [conn EXCEPT ![c].patterns = @ \cup {name}]
      BY <1>1, <2>2, <3>1 DEF fio_cluster_server_sub
    <3>4. CASE name \in Channel
      <4>1. PICK S, k : S = conn[c].pubsub \cup {name} /\ k = [conn[c] EXCEPT !.pubsub = S]
        OBVIOUS
      <4>2. /\ k \in Conn /\ k.st = conn[c].st /\ k.uuid = conn[c].uuid /\ k.pubsub = S /\ k.patterns = conn[c].patterns
        BY <1>3, <3>4, <4>1 DEF Conn
      <4>3. conn' = [conn EXCEPT ![c] = k]
        BY <1>3, <3>3, <3>4, <4>1
      <4> QED
        BY <3>1, <3>2, <4>1, <4>2, <4>3
    <3>5. CASE name \notin Channel
      <4>1. PICK S, k : S = conn[c].patterns \cup {name} /\ k = [conn[c] EXCEPT !.patterns = S]
        OBVIOUS
      <4>2. /\ k \in Conn /\ k.st = conn[c].st /\ k.uuid = conn[c].uuid /\ k.pubsub = conn[c].pubsub /\ k.patterns = S
        BY <1>3, <3>5, <4>1 DEF Conn, Name
      <4>3. conn' = [conn EXCEPT ![c] = k]
        BY <1>3, <3>3, <3>5, <4>1
      <4> QED
        BY <3>1, <3>2, <4>1, <4>2, <4>3
    <3> QED
      BY <3>4, <3>5
  <2>3. CASE type = "UNSUB"
    <3>1. PICK name \in Name : h = Message("UNSUB", name) /\ h.arg = name
      BY <1>2, <2>3, PostIs
    <3>2. /\ \A n \in Name : About(h, n) <=> n = name
          /\ h # Message("SUB", name)
      <4>1. Message("SUB", name) # Message("UNSUB", name)
        BY DEF Message
      <4> QED
        BY <2>1, <2>3, <3>1, <4>1
    <3>3. conn' = IF name \in Channel THEN [conn EXCEPT ![c].pubsub = @ \ {name}]
                                      ELSE [conn EXCEPT ![c].patterns = @ \ {name}]
      BY <1>1, <2>3, <3>1 DEF fio_cluster_server_unsub
    <3>4. CASE name \in Channel
      <4>1. PICK S, k : S = conn[c].pubsub \ {name} /\ k = [conn[c] EXCEPT !.pubsub = S]
        OBVIOUS
      <4>2. /\ k \in Conn /\ k.st = conn[c].st /\ k.uuid = conn[c].uuid /\ k.pubsub = S /\ k.patterns = conn[c].patterns
        BY <1>3, <3>4, <4>1 DEF Conn
      <4>3. conn' = [conn EXCEPT ![c] = k]
        BY <1>3, <3>3, <3>4, <4>1
      <4>4. name \notin conn[c].patterns
        BY <1>3, <3>4, ClusterAssumption
      <4> QED
        BY <3>1, <3>2, <4>1, <4>2, <4>3, <4>4
    <3>5. CASE name \notin Channel
      <4>1. PICK S, k : S = conn[c].patterns \ {name} /\ k = [conn[c] EXCEPT !.patterns = S]
        OBVIOUS
      <4>2. /\ k \in Conn /\ k.st = conn[c].st /\ k.uuid = conn[c].uuid /\ k.pubsub = conn[c].pubsub /\ k.patterns = S
        BY <1>3, <3>5, <4>1 DEF Conn
      <4>3. conn' = [conn EXCEPT ![c] = k]
        BY <1>3, <3>3, <3>5, <4>1
      <4>4. name \notin conn[c].pubsub
        BY <1>3, <3>5
      <4> QED
        BY <3>1, <3>2, <4>1, <4>2, <4>3, <4>4
    <3> QED
      BY <3>4, <3>5
  <2>4. CASE type = "SHUTDOWN"
    <3>1. \A n : ~About(h, n)
      <4>1. \A n : Message("SUB", n).type = "SUB" /\ Message("UNSUB", n).type = "UNSUB"
        BY DEF Message
      <4> QED
        BY <1>2, <2>4, <4>1 DEF About
    <3>2. conn' = [conn EXCEPT ![c] = conn[c]]
      BY <1>1, <1>3, <2>4
    <3> QED
      BY <1>3, <3>1, <3>2
  <2> QED
    BY <1>1, <2>2, <2>3, <2>4
<1>6. conn'[c] = k /\ wk'[c] = wk[c] /\ down' = down /\ root' = root
  BY <1>1, <1>2, <1>3, <1>5
<1>7. wk' = [wk EXCEPT ![c] = wk[c]] /\ down' = [down EXCEPT ![c] = down[c]]
  BY <1>1, <1>2, <1>3 DEF Typed
<1>8. up' = [up EXCEPT ![c] = up'[c]] /\ up'[c] \in Seq(ToRoot)
  BY <1>2, <1>3 DEF Typed
<1>9. WorkerAgrees(c)'
  BY <1>2, <1>3, <1>5, <1>6 DEF WorkerAgrees, Alive, Active
<1>10. NameAgrees(c)'
  <2>1. SUFFICES ASSUME wk[c].uuid = "open", NEW n \in Name
                 PROVE  Told(Tail(up[c]), k.pubsub \cup k.patterns, n, n \in wk[c].names)
    BY <1>2, <1>6 DEF NameAgrees, Known
  <2>2. Told(up[c], Known(c), n, n \in wk[c].names)
    BY <1>2, <2>1 DEF Inv, NamesAgree, NameAgrees
  <2>3. n \in k.pubsub \cup k.patterns <=> IF About(h, n) THEN h = Message("SUB", n) ELSE n \in Known(c)
    BY <1>5 DEF Known
  <2>4. PICK A, B, N, q : A = Known(c) /\ B = k.pubsub \cup k.patterns /\ N = wk[c].names /\ q = up[c]
    OBVIOUS
  <2>5. /\ q \in Seq(ToRoot) /\ q # <<>> /\ Told(q, A, n, n \in N)
        /\ n \in B <=> IF About(Head(q), n) THEN Head(q) = Message("SUB", n) ELSE n \in A
    BY <1>1, <1>3, <2>2, <2>3, <2>4
  <2>6. Told(Tail(q), B, n, n \in N)
    BY <2>5, ToldTaken
  <2> QED
    BY <2>4, <2>6
<1>11. Once(up'[c]) /\ Once(down[c]) /\ Once(wk[c].pend)
  BY <1>2 DEF Inv, PostsAgree
<1>12. \A x : (\E m \in Msg : x \in {Fwd(m), ToRootOnly(m)}) => (Has(up'[c], x) <=> Has(up[c], x))
  BY <1>2, <1>4
<1>13. \A m \in Msg : /\ In(up'[c], m) <=> In(up[c], m)
                      /\ Has(up'[c], ToRootOnly(m)) <=> Has(up[c], ToRootOnly(m))
  BY <1>12 DEF In
<1>14. \A m \in Msg : /\ In(up'[c], m) \/ In(wk[c].pend, m) => Sending(c, m)
                      /\ ~(In(up'[c], m) /\ In(wk[c].pend, m))
  BY <1>13 DEF Inv, PostsAgree, PostAgrees, Sending
<1>15. ServesAt(c)
  <2>1. GoesOn(c)
    BY <1>2, <1>5, <1>6 DEF GoesOn, Alive, InService, Unborn, Root, Child
  <2>2. \A m \in Msg : Carries(c, m)
    BY <1>6, <1>13 DEF Carries, Sending
  <2> QED
    BY <2>1, <2>2 DEF ServesAt
<1>16. ThreadsAgree'
  BY <1>2, ForksKept DEF Inv, Unborn
<1>17. RootKept /\ fork_lock' \in BOOLEAN /\ thread' \in [Child -> ThreadType]
  BY <1>2, <1>3 DEF RootKept, RootGoesOn, Typed
<1>18. UNCHANGED history /\ UNCHANGED <<clients, counter, leaked>>
  BY <1>1, <1>2
<1> QED
  BY <1>3, <1>5, <1>7, <1>8, <1>9, <1>10, <1>11, <1>14, <1>15, <1>16, <1>17, <1>18, ChildMoves

-----------------------------------------------------------------------------
(* What a worker reads, and its end.                                       *)

LEMMA OrderIs ==
    ASSUME NEW h \in ToChild
    PROVE  \/ \E m \in Msg : h = Fwd(m) /\ h.type = "FORWARD" /\ h.arg = m
           \/ h.type = "SHUTDOWN" /\ \A m : h # Fwd(m) /\ h # ToRootOnly(m)
<1>1. CASE h \in [type : {"FORWARD"}, arg : Msg]
  BY <1>1 DEF Fwd, Message
<1>2. CASE h \in Order
  <2>1. (\A a : Message("SHUTDOWN", a).type = "SHUTDOWN")
    BY DEF Message
  <2>2. \A m : Fwd(m).type = "FORWARD" /\ ToRootOnly(m).type = "ROOT"
    BY DEF Fwd, ToRootOnly, Message
  <2>3. h = Message("SHUTDOWN", "")
    BY <1>2, Zenon DEF Order
  <2>4. h.type = "SHUTDOWN"
    BY <2>1, <2>3, Zenon
  <2> QED
    BY <2>2, <2>4
<1> QED
  BY <1>1, <1>2 DEF ToChild

LEMMA Handling ==
    ASSUME Inv, NEW c \in Child, fio_cluster_client_handler(c)
    PROVE  Inv'
<1>1. PICK h, q, t : h = Head(q) /\ q = down[c] /\ t = Tail(q)
  OBVIOUS
<1>2. /\ Typed /\ WorkerAgrees(c) /\ wk \in [Child -> Worker] /\ wk[c] \in Worker /\ conn[c] \in Conn
      /\ up[c] \in Seq(ToRoot) /\ q \in Seq(ToChild) /\ q # <<>> /\ Once(q) /\ Alive(c) /\ wk[c].uuid = "open"
  BY <1>1 DEF Inv, Typed, WorkersAgree, PostsAgree, fio_cluster_client_handler
<1>3. h \in ToChild /\ t \in Seq(ToChild)
  BY <1>1, <1>2, TailIs
<1>4. /\ \A x : Has(q, x) <=> h = x \/ Has(t, x)
      /\ Once(t) /\ \A m \in Msg : h \in {Fwd(m), ToRootOnly(m)} => ~In(t, m)
  BY <1>1, <1>2, Taken
<1>5. PICK s, w : /\ s = (IF h.type = "SHUTDOWN" /\ wk[c].st = "run" THEN "stopping" ELSE wk[c].st)
                  /\ w = [wk[c] EXCEPT !.type = h.type, !.st = s]
  OBVIOUS
<1>6. /\ wk' = [wk EXCEPT ![c] = w] /\ down' = [down EXCEPT ![c] = t]
      /\ UNCHANGED <<root, fork_lock, thread, conn, clients, counter, leaked, up, audience>>
      /\ IF h.type = "FORWARD" THEN Give(c, h.arg) ELSE UNCHANGED delivered
  <2>1. wk' = [wk EXCEPT ![c].type = h.type,
                         ![c].st = IF h.type = "SHUTDOWN" /\ @ = "run" THEN "stopping" ELSE @]
    BY <1>1 DEF fio_cluster_client_handler
  <2>2. wk' = [wk EXCEPT ![c] = w]
    BY <1>2, <1>5, <2>1 DEF Worker
  <2> QED
    BY <1>1, <2>2 DEF fio_cluster_client_handler, rootVars, ipcVars
<1>7. h.type \in {"FORWARD", "SHUTDOWN"}
  BY <1>3, OrderIs
<1>8. /\ w \in Worker /\ w.st = s /\ w.uuid = "open" /\ w.names = wk[c].names /\ w.pend = wk[c].pend
  BY <1>2, <1>5, <1>7 DEF Worker
<1>9. /\ wk'[c] = w /\ down'[c] = t /\ \A d \in Child : d # c => wk'[d] = wk[d] /\ down'[d] = down[d]
      /\ wk' \in [Child -> Worker] /\ down' \in [Child -> Seq(ToChild)]
  BY <1>2, <1>3, <1>6, <1>8 DEF Typed
<1>10. Alive(c)' /\ ~Unborn(c)' /\ (w.st \in {"born", "run", "stopping"} <=> Active(c))
  BY <1>2, <1>5, <1>8, <1>9 DEF Alive, Unborn, Active
<1>11. WorkerAgrees(c)'
  BY <1>2, <1>5, <1>6, <1>8, <1>9, <1>10 DEF WorkerAgrees, Alive, Active
<1>12. NameAgrees(c)'
  BY <1>2, <1>6, <1>8, <1>9 DEF Inv, NamesAgree, NameAgrees, Known
<1>13. ThreadsAgree'
  BY <1>6, <1>2, <1>9, ForksKept DEF Inv, Unborn, Alive
<1>14. RootKept /\ fork_lock' \in BOOLEAN /\ thread' \in [Child -> ThreadType]
  BY <1>2, <1>6 DEF RootKept, RootGoesOn, Typed
<1>15. GoesOn(c)
  BY <1>2, <1>5, <1>6, <1>8, <1>9, <1>10 DEF GoesOn, InService, Alive, Unborn, Root, Child
<1>16. Once(up[c]) /\ Once(wk[c].pend) /\ \A m \in Msg : ~(In(up[c], m) /\ In(wk[c].pend, m))
  BY DEF Inv, PostsAgree, PostAgrees, Sending
<1>17. CASE h.type = "SHUTDOWN"
  <2>1. \A m : h # Fwd(m) /\ h # ToRootOnly(m)
    <3>1. "SHUTDOWN" # "FORWARD"
      OBVIOUS
    <3> QED
      BY <1>3, <1>17, <3>1, OrderIs
  <2>2. \A m : In(t, m) <=> In(q, m)
    BY <1>4, <2>1 DEF In
  <2>3. \A m \in Msg : Carries(c, m)
    BY <1>1, <1>6, <1>8, <1>9, <2>2 DEF Carries, Sending
  <2>4. UNCHANGED history /\ UNCHANGED <<clients, counter, leaked>>
    BY <1>6, <1>17 DEF history
  <2>5. conn' = [conn EXCEPT ![c] = conn[c]] /\ up' = [up EXCEPT ![c] = up[c]]
    BY <1>2, <1>6 DEF Typed
  <2>6. ServesAt(c)
    BY <1>15, <2>3 DEF ServesAt
  <2>7. \A m \in Msg : /\ In(up[c], m) \/ In(w.pend, m) => Sending(c, m)
                       /\ ~(In(up[c], m) /\ In(w.pend, m))
                       /\ In(t, m) => In(down[c], m)
    BY <1>1, <1>8, <1>16, <2>2 DEF Sending
  <2> QED
    BY <1>2, <1>3, <1>4, <1>6, <1>8, <1>11, <1>12, <1>13, <1>14, <1>16, <2>4, <2>5, <2>6, <2>7, ChildMoves
<1>18. CASE h.type = "FORWARD"
  <2>1. PICK m \in Msg : h = Fwd(m) /\ h.arg = m
    <3>1. "SHUTDOWN" # "FORWARD"
      OBVIOUS
    <3> QED
      BY <1>3, <1>18, <3>1, OrderIs
  <2>2. /\ PostAgrees(m) /\ In(down[c], m)
        /\ \A x \in Msg : x # m => h \notin {Fwd(x), ToRootOnly(x)}
    <3>1. In(down[c], m)
      BY <1>1, <1>4, <2>1 DEF In
    <3> QED
      BY <2>1, <3>1, MessagesDiffer DEF Inv, PostsAgree
  <2>3. Root \in Proc /\ Child \subseteq Proc /\ Root \notin Child /\ c \in Proc /\ c # Root
    BY DEF Proc, Child, Root
  <2>4. delivered[c][m] = 0 /\ audience[m].to # {} /\ \A d \in Child : ~Sending(d, m)
    BY <2>2 DEF PostAgrees
  <2>5. /\ delivered' \in [Proc -> [Msg -> {0, 1}]] /\ delivered'[c][m] = 1
        /\ \A p \in Proc, x \in Msg : p # c \/ x # m => delivered'[p][x] = delivered[p][x]
    BY <1>2, <1>6, <1>18, <2>1, <2>3, <2>4, GiveIs
  <2>6. s = wk[c].st
    BY <1>5, <1>18
  <2>7. \A x : x # h => (Has(t, x) <=> Has(q, x))
    BY <1>4
  <2>8. PostsAgree' /\ ServedAgree'
    <3>1. ASSUME NEW x \in Msg, x # m
          PROVE  SameHistory(x) /\ \A d \in Child : Flows(d, x) /\ Carries(d, x)
      <4>1. SameHistory(x)
        BY <1>6, <2>5, <3>1 DEF SameHistory
      <4>2. In(t, x) <=> In(q, x)
        BY <2>2, <2>7, <3>1 DEF In
      <4>3. \A d \in Child : In(down'[d], x) <=> In(down[d], x)
        BY <1>1, <1>9, <4>2
      <4>4. \A d \in Child : wk'[d].pend = wk[d].pend /\ up'[d] = up[d]
        BY <1>6, <1>8, <1>9
      <4>5. \A d \in Child : Flows(d, x) /\ Carries(d, x)
        BY <4>3, <4>4 DEF Inv, PostsAgree, PostAgrees, Flows, Carries, Sending
      <4> QED
        BY <4>1, <4>5
    <3>2. ASSUME NEW d \in Child PROVE GoesOn(d) /\ Once(up'[d]) /\ Once(down'[d]) /\ Once(wk'[d].pend)
      <4>1. CASE d # c
        <5>1. GoesOn(d)
          BY <1>6, <1>9, <4>1 DEF GoesOn, Alive, InService, Unborn, Root, Child
        <5> QED
          BY <1>6, <1>9, <4>1, <5>1 DEF Inv, PostsAgree
      <4>2. CASE d = c
        BY <1>4, <1>6, <1>8, <1>9, <1>15, <1>16, <4>2
      <4> QED
        BY <4>1, <4>2
    <3>3. \A d \in Child : ~Sending(d, m)'
      BY <1>6, <1>8, <1>9, <2>4 DEF Sending
    <3>4. ~In(down'[c], m)
      BY <1>4, <1>9, <2>1
    <3>5. PostAgrees(m)'
      <4>1. \A d \in Child : In(down'[d], m) => delivered'[d][m] = 0
        BY <1>9, <2>2, <2>3, <2>5, <3>4 DEF PostAgrees
      <4> QED
        BY <1>6, <2>4, <3>3, <4>1 DEF PostAgrees
    <3>6. ASSUME NEW f \in Proc, ServedAgrees(m, f) PROVE ServedAgrees(m, f)'
      <4>1. f # Root => ~Unborn(f)'
        BY <1>9, <1>10, <2>3, <3>6 DEF ServedAgrees, Unborn, Proc
      <4>2. \A d \in Child : ~Has(up'[d], ToRootOnly(m)) /\ ~Has(wk'[d].pend, ToRootOnly(m))
        BY <3>3 DEF Sending, In
      <4>3. ASSUME NEW d \in Child, Invited(d, m)'
            PROVE  IF d = f THEN delivered'[d][m] = 1
                   ELSE wk'[d].uuid # "0" /\ conn'[d].st \in {"attached", "closed"}
        <5>1. Invited(d, m)
          BY <1>6, <4>3 DEF Invited
        <5>2. delivered[d][m] = 1 => delivered'[d][m] = 1
          BY <2>3, <2>5
        <5>3. wk'[d].uuid = wk[d].uuid /\ conn'[d] = conn[d]
          BY <1>2, <1>6, <1>8, <1>9
        <5> QED
          BY <3>6, <5>1, <5>2, <5>3 DEF ServedAgrees
      <4>4. ASSUME root'.st = "run", f # Root => Alive(f)', NEW p \in audience'[m].to, Unserved(p, m)'
            PROVE  p # Root /\ In(down'[p], m)
        <5>1. p # c
          BY <2>5, <4>4 DEF Unserved
        <5>2. p \in Proc /\ p \in audience[m].to
          BY <1>2, <1>6, <4>4 DEF Typed
        <5>3. Unserved(p, m)
          BY <1>6, <1>9, <2>3, <2>5, <4>4, <5>1, <5>2 DEF Unserved, InService, Proc
        <5>4. f # Root => Alive(f)
          BY <1>2, <1>9, <4>4 DEF Alive, Proc
        <5>5. p # Root /\ In(down[p], m)
          BY <1>6, <2>4, <3>6, <4>4, <5>2, <5>3, <5>4 DEF ServedAgrees, Proc
        <5> QED
          BY <1>9, <5>1, <5>2, <5>5 DEF Proc
      <4> QED
        BY <4>1, <4>2, <4>3, <4>4 DEF ServedAgrees
    <3>7. \A f \in Proc : audience'[m].from = f => ServedAgrees(m, f)'
      BY <1>6, <3>6 DEF Inv, ServedAgree
    <3> QED
      BY <1>14, <3>1, <3>2, <3>5, <3>7, HistoryStep DEF RootKept
  <2>9. Typed'
    BY <1>2, <1>6, <1>9, <2>5 DEF Typed
  <2>10. WorkersAgree'
    BY <1>6, <1>9, <1>11, <1>14, WorkersKept DEF Inv, RootKept
  <2>11. NamesAgree'
    BY <1>6, <1>9, <1>12, NamesKept DEF Inv
  <2>12. SlotsAgree' /\ ClientsAgree'
    BY <1>6, SlotsKept DEF Inv
  <2> QED
    BY <1>13, <2>8, <2>9, <2>10, <2>11, <2>12 DEF Inv
<1> QED
  BY <1>7, <1>17, <1>18

LEMMA ShutdownIs ==
    ASSUME NEW y, y = Message("SHUTDOWN", "")
    PROVE  /\ y \in ToRoot /\ y \in ToChild /\ \A m : y # Fwd(m) /\ y # ToRootOnly(m)
           /\ \A n : ~About(y, n)
<1>1. (\A a : Message("SHUTDOWN", a).type = "SHUTDOWN")
  BY DEF Message
<1>2. \A m : Fwd(m).type = "FORWARD" /\ ToRootOnly(m).type = "ROOT"
  BY DEF Fwd, ToRootOnly, Message
<1>3. \A n : Message("SUB", n).type = "SUB" /\ Message("UNSUB", n).type = "UNSUB"
  BY DEF Message
<1>4. y.type = "SHUTDOWN"
  BY <1>1, Zenon
<1>5. y \in Order
  BY Zenon DEF Order
<1> QED
  BY <1>2, <1>3, <1>4, <1>5 DEF ToRoot, ToChild, About

\* A worker ends: what it had not written is lost with it.
LEMMA Ending ==
    ASSUME Inv, NEW c \in Child, fio_worker_cleanup(c) \/ WorkerCrash(c)
    PROVE  Inv'
<1>1. PICK y : y = Message("SHUTDOWN", "")
  OBVIOUS
<1>2. /\ y \in ToRoot /\ (\A m : y # Fwd(m) /\ y # ToRootOnly(m)) /\ \A n : ~About(y, n)
  BY <1>1, ShutdownIs
<1>3. /\ Typed /\ WorkerAgrees(c) /\ wk \in [Child -> Worker] /\ wk[c] \in Worker /\ conn[c] \in Conn
      /\ up[c] \in Seq(ToRoot) /\ Once(up[c]) /\ Alive(c) /\ ~Unborn(c)
  BY DEF Inv, Typed, WorkersAgree, PostsAgree, fio_worker_cleanup, WorkerCrash, Alive, Unborn
<1>4. PICK u \in {up[c], Append(up[c], y)} :
         up' = [up EXCEPT ![c] = u] /\ (u # up[c] => wk[c].uuid = "open")
  <2>1. CASE fio_worker_cleanup(c)
    <3>1. up' = [up EXCEPT ![c] = IF wk[c].uuid = "open" THEN Append(up[c], y) ELSE up[c]]
      BY <1>1, <2>1, Zenon DEF fio_worker_cleanup
    <3> QED
      BY <3>1
  <2>2. CASE WorkerCrash(c)
    <3>1. up' = [up EXCEPT ![c] = up[c]]
      BY <1>3, <2>2 DEF WorkerCrash, Typed
    <3> QED
      BY <3>1
  <2> QED
    BY <2>1, <2>2
<1>5. PICK w : w = [wk[c] EXCEPT !.st = "gone", !.pend = <<>>]
  OBVIOUS
<1>6. wk' = [wk EXCEPT ![c] = w] /\ down' = [down EXCEPT ![c] = <<>>]
  <2>1. wk' = [wk EXCEPT ![c].st = "gone", ![c].pend = <<>>] /\ down' = [down EXCEPT ![c] = <<>>]
    BY Zenon DEF fio_worker_cleanup, WorkerCrash
  <2> QED
    BY <1>3, <1>5, <2>1 DEF Worker
<1>7. UNCHANGED <<root, fork_lock, thread, conn, clients, counter, leaked>> /\ UNCHANGED history
  BY Zenon DEF fio_worker_cleanup, WorkerCrash, rootVars, ipcVars
<1>8. w \in Worker /\ w.st = "gone" /\ w.uuid = wk[c].uuid /\ w.pend = <<>> /\ w.names = wk[c].names
  BY <1>3, <1>5, EmptySeq DEF Worker
<1>9. /\ u \in Seq(ToRoot) /\ Once(u)
      /\ \A m \in Msg : /\ In(u, m) <=> In(up[c], m)
                        /\ Has(u, ToRootOnly(m)) <=> Has(up[c], ToRootOnly(m))
  <2>1. CASE u = up[c]
    BY <1>3, <2>1
  <2>2. CASE u = Append(up[c], y)
    <3>1. u \in Seq(ToRoot) /\ Once(u) /\ \A x : x # y => (Has(u, x) <=> Has(up[c], x))
      BY <1>2, <1>3, <2>2, AppendIs, Joined
    <3> QED
      BY <1>2, <3>1 DEF In
  <2> QED
    BY <1>4, <2>1, <2>2
<1>10. wk'[c] = w /\ up'[c] = u /\ down'[c] = <<>> /\ ~Alive(c)' /\ ~Unborn(c)'
  BY <1>3, <1>4, <1>6, <1>8 DEF Typed, Alive, Unborn
<1>11. WorkerAgrees(c)'
  <2>1. <<>> \in Seq(Post)
    BY EmptySeq
  <2> QED
    BY <1>3, <1>4, <1>7, <1>8, <1>10, <2>1 DEF WorkerAgrees
<1>12. NameAgrees(c)'
  <2>1. SUFFICES ASSUME wk[c].uuid = "open", conn[c].st \in {"backlog", "attached"}, NEW n \in Name
                 PROVE  Told(u, Known(c), n, n \in wk[c].names)
    BY <1>7, <1>8, <1>10 DEF NameAgrees, Known
  <2>2. Told(up[c], Known(c), n, n \in wk[c].names)
    BY <2>1 DEF Inv, NamesAgree, NameAgrees
  <2>3. Told(Append(up[c], y), Known(c), n, n \in wk[c].names)
    BY <1>2, <1>3, <2>2, ToldJoined
  <2> QED
    BY <1>4, <2>2, <2>3
<1>13. ThreadsAgree'
  BY <1>3, <1>6, <1>7, <1>10, ForksKept DEF Inv, Unborn
<1>14. RootKept /\ fork_lock' \in BOOLEAN /\ thread' \in [Child -> ThreadType]
  BY <1>3, <1>7 DEF RootKept, RootGoesOn, Typed
<1>15. <<>> \in Seq(ToChild) /\ Once(<<>>) /\ \A m : ~In(<<>>, m) /\ ~Has(<<>>, ToRootOnly(m))
  BY EmptyIs
<1>16. ServesAt(c)
  <2>1. GoesOn(c)
    BY <1>3, <1>7, <1>8, <1>10 DEF GoesOn, InService, Root, Child
  <2>2. ~InService(c)'
    BY <1>8, <1>10 DEF InService, Root, Child
  <2>3. \A m \in Msg : Carries(c, m)
    BY <1>8, <1>9, <1>10, <1>15, <2>2 DEF Carries
  <2> QED
    BY <2>1, <2>3 DEF ServesAt
<1>17. \A m \in Msg : /\ In(u, m) \/ In(w.pend, m) => Sending(c, m)
                      /\ ~(In(u, m) /\ In(w.pend, m))
                      /\ In(<<>>, m) => In(down[c], m)
  BY <1>8, <1>9, <1>15 DEF Sending
<1>18. conn' = [conn EXCEPT ![c] = conn[c]]
  BY <1>3, <1>7 DEF Typed
<1>19. Once(w.pend)
  BY <1>8, <1>15
<1> QED
  BY <1>3, <1>4, <1>6, <1>7, <1>8, <1>9, <1>11, <1>12, <1>13, <1>14, <1>15, <1>16, <1>17, <1>18, <1>19, ChildMoves

-----------------------------------------------------------------------------
(* The root's connections open and close.                                  *)

LEMMA ConnsMove ==
    ASSUME Inv, UNCHANGED <<wk, down>>, UNCHANGED history, RootKept, fork_lock' \in BOOLEAN,
           thread' \in [Child -> ThreadType], ThreadsAgree',
           conn' \in [Child -> Conn], clients' \in Seq(Uuid), counter' \in [Fd -> Nat], leaked' \subseteq Pattern,
           up' = up \/ (up' = [c \in Child |-> <<>>] /\ root'.st # "run"),
           \A c \in Child : WorkerAgrees(c)' /\ NameAgrees(c)' /\ GoesOn(c),
           SlotsAgree', ClientsAgree'
    PROVE  Inv'
<1>1. /\ Typed /\ up' \in [Child -> Seq(ToRoot)] /\ wk' = wk /\ down' = down
      /\ \A m : ~In(<<>>, m) /\ ~Has(<<>>, ToRootOnly(m))
      /\ Once(<<>>)
  BY EmptyIs DEF Inv, Typed
<1>2. Typed'
  BY <1>1 DEF Typed, RootKept, history
<1>3. PostsAgree'
  <2>1. ASSUME NEW c \in Child
        PROVE  Once(up'[c]) /\ Once(down'[c]) /\ Once(wk'[c].pend) /\ \A m \in Msg : Flows(c, m)
    <3>1. up'[c] = up[c] \/ up'[c] = <<>>
      OBVIOUS
    <3>2. \A m \in Msg : ~(In(up[c], m) /\ In(wk[c].pend, m))
      BY DEF Inv, PostsAgree, PostAgrees, Sending
    <3> QED
      BY <1>1, <3>1, <3>2 DEF Inv, PostsAgree, Flows, Sending
  <2> QED
    BY <2>1, PostsKept DEF Inv
<1>4. ServedAgree'
  <2>1. ASSUME NEW c \in Child, NEW m \in Msg PROVE Carries(c, m)
    BY <1>1 DEF Carries, Sending
  <2>2. ServesOn
    BY <2>1 DEF ServesOn, ServesAt, RootKept
  <2> QED
    BY <1>1, <2>2, ServedKept DEF Inv
<1> QED
  BY <1>2, <1>3, <1>4 DEF Inv, WorkersAgree, NamesAgree

\* A slot is used once more for an incarnation that is accepted or closed.
LEMMA SlotBound ==
    ASSUME Typed, SlotsAgree, NEW c \in Child, c \notin Closed, NEW f \in Fd
    PROVE  counter[f] \in Nat /\ counter[f] <= 2 * MaxChild
<1>1. Closed \in SUBSET Child /\ Closed # Child /\ Accepted \in SUBSET Child /\ Child \in SUBSET Child
  BY DEF Closed, Accepted
<1>2. /\ Cardinality(Closed) \in Nat /\ Cardinality(Closed) + 1 <= Cardinality(Child)
      /\ Cardinality(Accepted) \in Nat /\ Cardinality(Accepted) <= Cardinality(Child)
  BY <1>1, Smaller
<1>3. counter[f] \in Nat /\ counter[f] <= 1 + Cardinality(Accepted) + Cardinality(Closed)
  BY DEF Typed, SlotsAgree
<1> QED
  BY <1>2, <1>3, ChildFinite

LEMMA CounterBound ==
    ASSUME Typed, SlotsAgree, Accepted \subseteq Accepted', Closed \subseteq Closed',
           NEW f \in Fd,
           \/ counter'[f] = counter[f]
           \/ counter'[f] = counter[f] + 1 /\ (Accepted' # Accepted \/ Closed' # Closed)
    PROVE  counter'[f] <= 1 + Cardinality(Accepted)' + Cardinality(Closed)'
<1>1. PICK A, B, C, D : A = Accepted /\ B = Closed /\ C = Accepted' /\ D = Closed'
  OBVIOUS
<1>2. /\ C \in SUBSET Child /\ A \in SUBSET C /\ D \in SUBSET Child /\ B \in SUBSET D
  BY <1>1 DEF Accepted, Closed
<1>3. /\ Cardinality(A) \in Nat /\ Cardinality(C) \in Nat /\ Cardinality(A) <= Cardinality(C)
      /\ A # C => Cardinality(A) + 1 <= Cardinality(C)
  BY <1>2, Smaller
<1>4. /\ Cardinality(B) \in Nat /\ Cardinality(D) \in Nat /\ Cardinality(B) <= Cardinality(D)
      /\ B # D => Cardinality(B) + 1 <= Cardinality(D)
  BY <1>2, Smaller
<1>5. counter[f] \in Nat /\ counter[f] <= 1 + Cardinality(A) + Cardinality(B)
  BY <1>1 DEF Typed, SlotsAgree
<1>6. counter'[f] <= 1 + Cardinality(C) + Cardinality(D)
  BY <1>1, <1>3, <1>4, <1>5
<1> QED
  BY <1>1, <1>6

LEMMA Accepting ==
    ASSUME Inv, NoWrap, NEW c \in Child, fio_cluster_listen_accept(c)
    PROVE  Inv'
<1>1. PICK f, v : f = LowestFd /\ v = <<f, Bump(f)>>
  OBVIOUS
<1>2. /\ Typed /\ SlotsAgree /\ ClientsAgree /\ WorkerAgrees(c) /\ conn[c].st = "backlog"
      /\ conn \in [Child -> Conn] /\ conn[c] \in Conn /\ clients \in Seq(Uuid) /\ counter \in [Fd -> Nat]
  BY DEF Inv, Typed, WorkersAgree, fio_cluster_listen_accept
<1>3. f \in FreeFd /\ f \in Fd /\ f \in Int
  BY <1>1, <1>2, LowestIs DEF Fd
<1>4. counter[f] \in Nat /\ counter[f] <= 2 * MaxChild
  BY <1>2, <1>3, SlotBound DEF Closed
<1>5. Bump(f) = counter[f] + 1 /\ v = <<f, counter[f] + 1>> /\ v \in Uuid /\ v[1] = f /\ v[2] = counter[f] + 1
  BY <1>1, <1>3, <1>4, BumpIs DEF Uuid
<1>6. PICK k : k = [conn[c] EXCEPT !.st = "attached", !.uuid = v]
  OBVIOUS
<1>7. /\ counter' = [counter EXCEPT ![f] = counter[f] + 1]
      /\ conn' = [conn EXCEPT ![c] = k]
      /\ clients' = Append(clients, v)
      /\ UNCHANGED <<root, fork_lock, thread, wk, leaked, up, down>> /\ UNCHANGED history
  <2>1. conn' = [conn EXCEPT ![c].st = "attached", ![c].uuid = v]
    BY <1>1 DEF fio_cluster_listen_accept
  <2>2. conn' = [conn EXCEPT ![c] = k]
    BY <1>2, <1>6, <2>1 DEF Conn
  <2> QED
    BY <1>1, <1>5, <2>2 DEF fio_cluster_listen_accept, rootVars, wireVars
<1>8. /\ k \in Conn /\ k.st = "attached" /\ k.uuid = v /\ k.pubsub = conn[c].pubsub /\ k.patterns = conn[c].patterns
  BY <1>2, <1>5, <1>6 DEF Conn
<1>9. /\ conn' \in [Child -> Conn] /\ conn'[c] = k /\ \A d \in Child : d # c => conn'[d] = conn[d]
      /\ counter' \in [Fd -> Nat] /\ counter'[f] = counter[f] + 1 /\ \A g \in Fd : g # f => counter'[g] = counter[g]
  BY <1>2, <1>3, <1>4, <1>7, <1>8
<1>10. PICK n : n = Len(clients)
  OBVIOUS
<1>11. /\ clients' \in Seq(Uuid) /\ n \in Nat /\ DOMAIN clients = 1 .. n /\ DOMAIN clients' = 1 .. n + 1
       /\ \A i \in 1 .. n : clients'[i] = clients[i]
       /\ clients'[n + 1] = v
  BY <1>2, <1>5, <1>7, <1>10, AppendIs
<1>12. /\ Accepted' = Accepted \cup {c} /\ c \notin Accepted /\ Closed' = Closed
       /\ Attached' = Attached \cup {c} /\ c \notin Attached
  BY <1>2, <1>8, <1>9 DEF Accepted, Closed, Attached
<1>13. \A d \in Attached : d \in Child /\ d # c /\ conn[d].uuid[1] # f /\ conn'[d].uuid = conn[d].uuid
  BY <1>3, <1>9, <1>12 DEF FreeFd, Attached
<1>14. SlotsAgree'
  <2>1. \A d \in Attached' : conn'[d].uuid[1] \in Fd /\ counter'[conn'[d].uuid[1]] = conn'[d].uuid[2]
    <3>1. ASSUME NEW d \in Attached PROVE conn'[d].uuid[1] \in Fd /\ counter'[conn'[d].uuid[1]] = conn'[d].uuid[2]
      BY <1>2, <1>9, <1>13 DEF SlotsAgree, UuidValid
    <3>2. conn'[c].uuid[1] \in Fd /\ counter'[conn'[c].uuid[1]] = conn'[c].uuid[2]
      BY <1>3, <1>5, <1>8, <1>9
    <3> QED
      BY <1>12, <3>1, <3>2
  <2>2. \A d, e \in Attached' : conn'[d].uuid[1] = conn'[e].uuid[1] => d = e
    <3>1. conn'[c].uuid[1] = f /\ \A d \in Attached : conn'[d].uuid[1] = conn[d].uuid[1] /\ conn[d].uuid[1] # f
      BY <1>5, <1>8, <1>9, <1>13
    <3> QED
      BY <1>2, <1>12, <3>1 DEF SlotsAgree
  <2>3. \A g \in Fd : counter'[g] <= 1 + Cardinality(Accepted)' + Cardinality(Closed)'
    <3>1. Accepted \subseteq Accepted' /\ Accepted' # Accepted /\ Closed \subseteq Closed'
      BY <1>12
    <3> QED
      BY <1>2, <1>9, <3>1, CounterBound
  <2> QED
    BY <2>1, <2>2, <2>3 DEF SlotsAgree, UuidValid
<1>15. ClientsAgree'
  <2>1. \A i \in 1 .. n : clients[i][1] \in Fd /\ clients[i][2] <= counter[clients[i][1]] /\ clients[i] \in Uuid
    <3>1. \A i \in DOMAIN clients : clients[i] \in Uuid
      BY <1>2, LenProperties
    <3>2. \A i \in DOMAIN clients : clients[i][1] \in Fd /\ clients[i][2] <= counter[clients[i][1]]
      BY <1>2 DEF ClientsAgree
    <3>3. DOMAIN clients = 1 .. n
      BY <1>11
    <3> QED
      BY <3>1, <3>2, <3>3
  <2>2. \A i \in 1 .. n : clients[i] # v
    <3>1. SUFFICES ASSUME NEW i \in 1 .. n, clients[i] = v PROVE FALSE
      OBVIOUS
    <3>2. counter[f] + 1 <= counter[f]
      BY <1>5, <2>1, <3>1
    <3> QED
      BY <1>4, <3>2
  <2>3. ASSUME NEW i \in DOMAIN clients'
        PROVE  clients'[i][1] \in Fd /\ clients'[i][2] <= counter'[clients'[i][1]]
    <3>1. CASE i \in 1 .. n
      <4>1. PICK g, x : g = clients[i][1] /\ x = clients[i][2]
        OBVIOUS
      <4>2. g \in Fd /\ x \in Int /\ x <= counter[g] /\ counter[g] \in Nat
        BY <1>2, <2>1, <3>1, <4>1 DEF Uuid
      <4>3. x <= counter'[g]
        <5>1. counter'[g] = counter[g] \/ counter'[g] = counter[g] + 1
          BY <1>9, <4>2
        <5> QED
          BY <4>2, <5>1
      <4> QED
        BY <1>11, <3>1, <4>1, <4>2, <4>3
    <3>2. CASE i = n + 1
      BY <1>3, <1>4, <1>5, <1>9, <1>11, <3>2
    <3> QED
      BY <1>11, <3>1, <3>2
  <2>4. \A i, j \in DOMAIN clients' : clients'[i] = clients'[j] => i = j
    <3>1. \A i, j \in 1 .. n : clients[i] = clients[j] => i = j
      BY <1>2, <1>11 DEF ClientsAgree
    <3>2. \A i \in 1 .. n + 1 : i \in 1 .. n \/ i = n + 1
      BY <1>11
    <3> QED
      BY <1>11, <2>2, <3>1, <3>2
  <2>5. \A d \in Attached' : \E i \in DOMAIN clients' : clients'[i] = conn'[d].uuid
    <3>1. ASSUME NEW d \in Attached PROVE \E i \in DOMAIN clients' : clients'[i] = conn'[d].uuid
      <4>1. PICK i \in 1 .. n : clients[i] = conn[d].uuid
        BY <1>2, <1>11 DEF ClientsAgree
      <4>2. i \in 1 .. n + 1
        BY <1>11
      <4> QED
        BY <1>11, <1>13, <4>1, <4>2
    <3>2. n + 1 \in 1 .. n + 1
      BY <1>11
    <3> QED
      BY <1>8, <1>9, <1>11, <1>12, <3>1, <3>2
  <2> QED
    BY <2>3, <2>4, <2>5 DEF ClientsAgree
<1>16. \A d \in Child : WorkerAgrees(d)'
  <2>1. WorkerAgrees(c)'
    BY <1>2, <1>7, <1>8, <1>9 DEF WorkerAgrees, Alive, Active
  <2>2. RootGoesOn /\ \A d \in Child : conn'[d].pubsub = conn[d].pubsub /\ conn'[d].patterns = conn[d].patterns
    BY <1>7, <1>8, <1>9 DEF RootGoesOn
  <2>3. WorkersAgree'
    BY <1>7, <1>9, <2>1, <2>2, WorkersKept DEF Inv
  <2> QED
    BY <2>3 DEF WorkersAgree
<1>17. \A d \in Child : NameAgrees(d)'
  BY <1>2, <1>7, <1>8, <1>9 DEF Inv, NamesAgree, NameAgrees, Known
<1>18. \A d \in Child : GoesOn(d)
  BY <1>2, <1>7, <1>8, <1>9 DEF GoesOn, Alive, Unborn, InService, Root, Child
<1>19. ThreadsAgree'
  BY <1>7, ForksKept DEF Inv, Unborn
<1>20. RootKept /\ fork_lock' \in BOOLEAN /\ thread' \in [Child -> ThreadType] /\ leaked' \subseteq Pattern
  BY <1>2, <1>7 DEF RootKept, RootGoesOn, Typed
<1> QED
  BY <1>7, <1>9, <1>11, <1>14, <1>15, <1>16, <1>17, <1>18, <1>19, <1>20, ConnsMove

\* The entry of the lost child stays in the list: the uuid that is searched for is
\* the slot's next one.
LEMMA Losing ==
    ASSUME Inv, NoWrap, NEW c \in Child, fio_cluster_on_close(c)
    PROVE  Inv'
<1>1. PICK f, v : f = conn[c].uuid[1] /\ v = <<f, Bump(f)>>
  OBVIOUS
<1>2. /\ Typed /\ SlotsAgree /\ ClientsAgree /\ WorkerAgrees(c) /\ conn[c].st = "attached" /\ wk[c].st = "gone"
      /\ conn \in [Child -> Conn] /\ conn[c] \in Conn /\ clients \in Seq(Uuid) /\ counter \in [Fd -> Nat]
  BY DEF Inv, Typed, WorkersAgree, fio_cluster_on_close
<1>3. c \in Attached /\ f \in Fd
  BY <1>1, <1>2 DEF Attached, SlotsAgree
<1>4. counter[f] \in Nat /\ counter[f] <= 2 * MaxChild
  BY <1>2, <1>3, SlotBound DEF Closed
<1>5. Bump(f) = counter[f] + 1 /\ v = <<f, counter[f] + 1>> /\ v[1] = f /\ v[2] = counter[f] + 1
  BY <1>1, <1>3, <1>4, BumpIs
<1>6. PICK k : k = ClosedConn(c)
  OBVIOUS
<1>7. ~Alive(c) /\ down[c] = <<>>
  BY <1>2 DEF WorkerAgrees, Alive
<1>8. /\ counter' = [counter EXCEPT ![f] = counter[f] + 1]
      /\ conn' = [conn EXCEPT ![c] = k]
      /\ clients' = RemoveFirst(clients, v)
      /\ leaked' = leaked \cup conn[c].patterns
      /\ down' = down
      /\ UNCHANGED <<root, fork_lock, thread, wk, up>> /\ UNCHANGED history
  BY <1>1, <1>2, <1>5, <1>6, <1>7 DEF fio_cluster_on_close, rootVars, Typed
<1>9. k \in Conn /\ k.st = "closed"
  BY <1>2, <1>6 DEF Conn, ClosedConn
<1>10. /\ conn' \in [Child -> Conn] /\ conn'[c] = k /\ \A d \in Child : d # c => conn'[d] = conn[d]
       /\ counter' \in [Fd -> Nat] /\ counter'[f] = counter[f] + 1 /\ \A g \in Fd : g # f => counter'[g] = counter[g]
  BY <1>2, <1>3, <1>4, <1>8, <1>9
<1>11. \A i \in DOMAIN clients : clients[i] \in Uuid /\ clients[i][1] \in Fd /\ clients[i][2] <= counter[clients[i][1]]
  BY <1>2, LenProperties DEF ClientsAgree
<1>12. clients' = clients
  <2>1. \A i \in DOMAIN clients : clients[i] # v
    <3>1. SUFFICES ASSUME NEW i \in DOMAIN clients, clients[i] = v PROVE FALSE
      OBVIOUS
    <3>2. counter[f] + 1 <= counter[f]
      BY <1>5, <1>11, <3>1
    <3> QED
      BY <1>4, <3>2
  <2> QED
    BY <1>2, <1>8, <2>1, NotRemoved
<1>13. /\ Accepted' = Accepted /\ c \notin Closed /\ Closed' = Closed \cup {c}
       /\ Attached' = Attached \ {c}
  BY <1>2, <1>9, <1>10 DEF Accepted, Closed, Attached
<1>14. \A d \in Attached' : d \in Attached /\ d \in Child /\ conn[d].uuid[1] # f /\ conn'[d].uuid = conn[d].uuid
  BY <1>1, <1>2, <1>3, <1>10, <1>13 DEF SlotsAgree, Attached
<1>15. SlotsAgree'
  <2>1. \A d \in Attached' : conn'[d].uuid[1] \in Fd /\ counter'[conn'[d].uuid[1]] = conn'[d].uuid[2]
    BY <1>2, <1>10, <1>14 DEF SlotsAgree, UuidValid
  <2>2. \A d, e \in Attached' : conn'[d].uuid[1] = conn'[e].uuid[1] => d = e
    BY <1>2, <1>14 DEF SlotsAgree
  <2>3. \A g \in Fd : counter'[g] <= 1 + Cardinality(Accepted)' + Cardinality(Closed)'
    <3>1. Accepted \subseteq Accepted' /\ Closed' # Closed /\ Closed \subseteq Closed'
      BY <1>13
    <3> QED
      BY <1>2, <1>10, <3>1, CounterBound
  <2> QED
    BY <2>1, <2>2, <2>3 DEF SlotsAgree, UuidValid
<1>16. ClientsAgree'
  <2>1. ASSUME NEW i \in DOMAIN clients PROVE clients[i][1] \in Fd /\ clients[i][2] <= counter'[clients[i][1]]
    <3>1. PICK g, x : g = clients[i][1] /\ x = clients[i][2]
      OBVIOUS
    <3>2. g \in Fd /\ x \in Int /\ x <= counter[g] /\ counter[g] \in Nat
      BY <1>2, <1>11, <3>1 DEF Uuid
    <3>3. counter'[g] = counter[g] \/ counter'[g] = counter[g] + 1
      BY <1>10, <3>2
    <3> QED
      BY <3>1, <3>2, <3>3
  <2>2. \A d \in Attached' : \E i \in DOMAIN clients : clients[i] = conn'[d].uuid
    BY <1>2, <1>14 DEF ClientsAgree
  <2>3. \A i, j \in DOMAIN clients : clients[i] = clients[j] => i = j
    BY <1>2 DEF ClientsAgree
  <2> QED
    BY <1>12, <2>1, <2>2, <2>3 DEF ClientsAgree
<1>17. \A d \in Child : WorkerAgrees(d)'
  <2>1. WorkerAgrees(c)'
    <3>1. k.pubsub = {} /\ k.patterns = {}
      BY <1>2, <1>6 DEF ClosedConn, Conn
    <3> QED
      BY <1>2, <1>8, <1>9, <1>10, <3>1 DEF WorkerAgrees, Alive
  <2>2. RootGoesOn
    BY <1>8 DEF RootGoesOn
  <2>3. WorkersAgree'
    BY <1>8, <1>10, <2>1, <2>2, WorkersKept DEF Inv
  <2> QED
    BY <2>3 DEF WorkersAgree
<1>18. \A d \in Child : NameAgrees(d)'
  BY <1>2, <1>8, <1>9, <1>10 DEF Inv, NamesAgree, NameAgrees, Known
<1>19. \A d \in Child : GoesOn(d)
  BY <1>2, <1>8, <1>9, <1>10 DEF GoesOn, Alive, Unborn, InService, Root, Child
<1>20. ThreadsAgree'
  BY <1>8, ForksKept DEF Inv, Unborn
<1>21. RootKept /\ fork_lock' \in BOOLEAN /\ thread' \in [Child -> ThreadType] /\ leaked' \subseteq Pattern
  <2>1. conn[c].patterns \subseteq Pattern
    BY <1>2 DEF Conn
  <2> QED
    BY <1>2, <1>8, <2>1 DEF RootKept, RootGoesOn, Typed
<1>22. clients' \in Seq(Uuid)
  BY <1>2, <1>12
<1>23. UNCHANGED <<wk, down>> /\ UNCHANGED history /\ up' = up
  BY <1>8
<1> QED
  BY <1>10, <1>15, <1>16, <1>17, <1>18, <1>19, <1>20, <1>21, <1>22, <1>23, ConnsMove

\* Everything is closed; whoever was connected will see it.
LEMMA HangingUp ==
    ASSUME Inv, NoWrap, fio_cluster_force_close \/ RootCrash
    PROVE  Inv'
<1>1. /\ Typed /\ SlotsAgree /\ ClientsAgree /\ WorkersAgree /\ ThreadsAgree
      /\ conn \in [Child -> Conn] /\ clients \in Seq(Uuid) /\ counter \in [Fd -> Nat]
  BY DEF Inv, Typed
<1>2. HangUp /\ UNCHANGED <<wk, clients, down, fork_lock>> /\ UNCHANGED history
  BY DEF fio_cluster_force_close, RootCrash
<1>3. root'.st # "run" /\ RootKept
  <2>1. root \in RootType
    BY <1>1 DEF Typed
  <2>2. root' = [root EXCEPT !.st = "wait"] \/ root' = [root EXCEPT !.st = "crashed"]
    BY DEF fio_cluster_force_close, RootCrash
  <2> QED
    BY <2>1, <2>2 DEF RootKept, RootGoesOn, RootType
<1>4. \A c \in Child : conn'[c] = IF conn[c].st \in {"backlog", "attached"} THEN ClosedConn(c) ELSE conn[c]
  BY <1>2 DEF HangUp
<1>5. \A c \in Child : /\ ClosedConn(c) \in Conn /\ ClosedConn(c).st = "closed"
                       /\ ClosedConn(c).pubsub = {} /\ ClosedConn(c).patterns = {}
  BY <1>1 DEF ClosedConn, Conn
<1>6. conn' \in [Child -> Conn]
  BY <1>1, <1>2, <1>5 DEF HangUp
<1>7. \A c \in Child : conn[c].st \in {"none", "backlog", "attached", "closed"}
  BY <1>1 DEF Conn
<1>8. \A c \in Child : \/ conn[c].st = "none" /\ conn'[c] = conn[c]
                       \/ conn[c].st # "none" /\ conn'[c].st = "closed"
  BY <1>4, <1>5, <1>7
<1>9. Attached' = {} /\ Accepted \subseteq Accepted' /\ Closed \subseteq Closed' /\ (Attached # {} => Closed' # Closed)
  BY <1>8 DEF Attached, Accepted, Closed
<1>10. ASSUME NEW f \in Fd
       PROVE  \/ counter'[f] = counter[f]
              \/ counter'[f] = counter[f] + 1 /\ Closed' # Closed
  <2>1. counter'[f] = IF f \in FreeFd THEN counter[f] ELSE Bump(f)
    BY <1>2 DEF HangUp
  <2>2. CASE f \in FreeFd
    BY <2>1, <2>2
  <2>3. CASE f \notin FreeFd
    <3>1. PICK c \in Child : conn[c].st = "attached" /\ conn[c].uuid[1] = f
      BY <2>3 DEF FreeFd
    <3>2. counter[f] \in Nat /\ counter[f] <= 2 * MaxChild
      BY <1>1, <3>1, SlotBound DEF Closed
    <3>3. Bump(f) = counter[f] + 1
      BY <3>2, BumpIs
    <3>4. c \in Attached
      BY <3>1 DEF Attached
    <3> QED
      BY <1>9, <2>1, <2>3, <3>3, <3>4
  <2> QED
    BY <2>2, <2>3
<1>11. counter' \in [Fd -> Nat]
  <2>1. \A f \in Fd : counter[f] \in Nat
    BY <1>1
  <2>2. \A f \in Fd : counter'[f] \in Nat
    BY <1>10, <2>1
  <2>3. counter' = [f \in Fd |-> counter'[f]]
    BY <1>2 DEF HangUp
  <2> QED
    BY <2>2, <2>3
<1>12. SlotsAgree'
  <2>1. \A f \in Fd : counter'[f] <= 1 + Cardinality(Accepted)' + Cardinality(Closed)'
    BY <1>1, <1>9, <1>10, CounterBound
  <2> QED
    BY <1>9, <2>1 DEF SlotsAgree
<1>13. ClientsAgree'
  <2>1. ASSUME NEW i \in DOMAIN clients PROVE clients[i][1] \in Fd /\ clients[i][2] <= counter'[clients[i][1]]
    <3>1. PICK g, x : g = clients[i][1] /\ x = clients[i][2]
      OBVIOUS
    <3>2. clients[i] \in Uuid
      BY <1>1, LenProperties
    <3>3. g \in Fd /\ x \in Int /\ x <= counter[g] /\ counter[g] \in Nat
      BY <1>1, <3>1, <3>2 DEF Uuid, ClientsAgree
    <3>4. counter'[g] = counter[g] \/ counter'[g] = counter[g] + 1
      BY <1>10, <3>3
    <3> QED
      BY <3>1, <3>3, <3>4
  <2>2. \A i, j \in DOMAIN clients : clients[i] = clients[j] => i = j
    BY <1>1 DEF ClientsAgree
  <2> QED
    BY <1>2, <1>9, <2>1, <2>2 DEF ClientsAgree
<1>14. up' = [c \in Child |-> <<>>]
  BY <1>2 DEF HangUp
<1>15. ASSUME NEW c \in Child PROVE WorkerAgrees(c)'
  <2>1. WorkerAgrees(c) /\ up'[c] = <<>> /\ wk'[c] = wk[c] /\ down'[c] = down[c]
    BY <1>1, <1>2, <1>14 DEF WorkersAgree
  <2>2. CASE conn[c].st = "none"
    <3>1. conn'[c] = conn[c]
      BY <1>8, <2>2
    <3> QED
      BY <1>3, <2>1, <2>2, <3>1 DEF WorkerAgrees, Alive
  <2>3. CASE conn[c].st = "closed"
    <3>1. conn'[c] = conn[c]
      BY <1>4, <2>3
    <3> QED
      BY <1>3, <2>1, <2>3, <3>1 DEF WorkerAgrees, Alive
  <2>4. CASE conn[c].st \in {"backlog", "attached"}
    <3>1. conn'[c].st = "closed" /\ conn'[c].pubsub = {} /\ conn'[c].patterns = {}
      BY <1>4, <1>5, <2>4
    <3> QED
      BY <1>3, <2>1, <2>4, <3>1 DEF WorkerAgrees, Alive
  <2> QED
    BY <1>7, <2>2, <2>3, <2>4
<1>16. \A c \in Child : NameAgrees(c)' /\ GoesOn(c)
  BY <1>2, <1>8 DEF NameAgrees, GoesOn, Alive, Unborn, InService, Root, Child
<1>17. leaked' \subseteq Pattern
  <2>1. \A c \in Child : conn[c].patterns \subseteq Pattern
    BY <1>1 DEF Conn
  <2> QED
    BY <1>1, <1>2, <2>1 DEF HangUp, Typed
<1>18. ThreadsAgree' /\ fork_lock' \in BOOLEAN /\ thread' \in [Child -> ThreadType]
  <2>1. CASE thread' = thread
    BY <1>1, <1>2, <2>1, ForksKept DEF Typed, Unborn
  <2>2. CASE thread' = [c \in Child |-> "ended"]
    BY <1>1, <1>2, <2>2 DEF ThreadsAgree, ThreadType, Typed
  <2> QED
    BY <2>1, <2>2 DEF fio_cluster_force_close, RootCrash
<1>19. clients' \in Seq(Uuid)
  BY <1>1, <1>2
<1>20. UNCHANGED <<wk, down>> /\ UNCHANGED history
  BY <1>2
<1> QED
  BY <1>3, <1>6, <1>11, <1>12, <1>13, <1>14, <1>15, <1>16, <1>17, <1>18, <1>19, <1>20, ConnsMove

\* A shutdown order goes to every child.
LEMMA Ordering ==
    ASSUME Inv, fio_cluster_signal_children \/ fio_cluster_on_shutdown
    PROVE  Inv'
<1>1. PICK y, times : y = Message("SHUTDOWN", "") /\ times \in Nat /\ fio_cluster_server_sender(y, <<0, 0>>, times)
  <2>1. CASE fio_cluster_signal_children
    BY <2>1, Zenon DEF fio_cluster_signal_children
  <2>2. CASE fio_cluster_on_shutdown
    <3>1. Cardinality(Attached) \in Nat
      <4>1. Attached \in SUBSET Child /\ Child \in SUBSET Child
        BY DEF Attached
      <4> QED
        BY <4>1, Smaller
    <3>2. fio_cluster_server_sender(Message("SHUTDOWN", ""), <<0, 0>>, Cardinality(Attached))
      BY <2>2, Zenon DEF fio_cluster_on_shutdown
    <3> QED
      BY <3>1, <3>2, Zenon
  <2> QED
    BY <2>1, <2>2
<1>2. /\ UNCHANGED <<fork_lock, thread, wk, ipcVars, up>> /\ UNCHANGED history
      /\ root' = [root EXCEPT !.usr1 = FALSE] \/ (root.st = "run" /\ root' = [root EXCEPT !.st = "unwind"])
  BY Zenon DEF fio_cluster_signal_children, fio_cluster_on_shutdown
<1>3. /\ y \in ToChild /\ \A m : y # Fwd(m) /\ y # ToRootOnly(m)
  BY <1>1, ShutdownIs
<1>4. Typed /\ ClientsAgree /\ root \in RootType
  BY DEF Inv, Typed
<1>5. /\ down' \in [Child -> Seq(ToChild)]
      /\ \A c \in Child :
            /\ ~Alive(c) => down'[c] = down[c]
            /\ \A x : Has(down'[c], x) <=> Has(down[c], x) \/ (x = y /\ times # 0 /\ Reaches(c, <<0, 0>>))
            /\ Once(down[c]) /\ (\A m \in Msg : y \in {Fwd(m), ToRootOnly(m)} => ~In(down[c], m) /\ times <= 1)
                  => Once(down'[c])
  BY <1>1, <1>3, <1>4, Sent
<1>6. \A c \in Child : Once(down'[c]) /\ \A m : In(down'[c], m) <=> In(down[c], m)
  <2>1. \A c \in Child : Once(down[c])
    BY DEF Inv, PostsAgree
  <2>2. \A m : y \notin {Fwd(m), ToRootOnly(m)}
    BY <1>3
  <2> QED
    BY <1>3, <1>5, <2>1, <2>2 DEF In
<1>7. RootKept
  BY <1>2, <1>4 DEF RootKept, RootGoesOn, RootType
<1>8. PostsAgree'
  <2>1. ASSUME NEW c \in Child PROVE Once(up'[c]) /\ Once(down'[c]) /\ Once(wk'[c].pend) /\ \A m \in Msg : Flows(c, m)
    BY <1>2, <1>6 DEF Inv, PostsAgree, PostAgrees, Flows, Sending
  <2> QED
    BY <1>2, <2>1, PostsKept DEF Inv
<1>9. ServedAgree'
  <2>1. ASSUME NEW c \in Child PROVE ServesAt(c)
    BY <1>2, <1>6 DEF ServesAt, GoesOn, Carries, Alive, InService, Unborn, Sending, Root, Child, ipcVars
  <2> QED
    BY <1>2, <1>4, <1>7, <2>1, ServedKept DEF Inv, ServesOn, RootKept
<1>10. /\ up' \in [Child -> Seq(ToRoot)] /\ delivered' \in [Proc -> [Msg -> {0, 1}]]
       /\ audience' \in [Msg -> [from : Proc, to : SUBSET Proc]]
  BY <1>2, <1>4 DEF Typed, history
<1>11. \A c \in Child : up'[c] # up[c] => wk[c].uuid # "0" /\ NameAgrees(c)'
  BY <1>2
<1>12. UNCHANGED <<fork_lock, thread, wk, ipcVars>>
  BY <1>2
<1>13. \A c \in Child : ~Alive(c) => down'[c] = down[c]
  BY <1>5
<1> QED
  BY <1>5, <1>7, <1>8, <1>9, <1>10, <1>11, <1>12, <1>13, RootActs

-----------------------------------------------------------------------------
(* The theorem.                                                            *)

LEMMA Initially == Init => Inv
<1> SUFFICES ASSUME Init PROVE Inv
  OBVIOUS
<1>1. /\ Workers \in Int /\ Root \in Proc /\ Child \subseteq Proc /\ Root \notin Child
      /\ Once(<<>>) /\ (\A x : ~Has(<<>>, x)) /\ \A m : ~In(<<>>, m)
  BY ClusterAssumption, EmptyIs DEF Proc, Root, Child
<1>2. \A c \in Child : wk[c] = NoWorker /\ conn[c] = NoConn /\ up[c] = <<>> /\ down[c] = <<>> /\ thread[c] = "none"
  BY DEF Init
<1>3. /\ NoWorker.st = "none" /\ NoWorker.uuid = "0" /\ NoWorker.pend = <<>>
      /\ NoConn.st = "none" /\ NoConn.pubsub = {} /\ NoConn.patterns = {}
  BY DEF NoWorker, NoConn
<1>4. Typed
  <2>1. NoWorker \in Worker
    BY EmptySeq DEF NoWorker, Worker
  <2>2. NoConn \in Conn
    BY DEF NoConn, Conn, Uuid
  <2>3. root \in RootType
    BY <1>1 DEF Init, RootType
  <2>4. thread \in [Child -> ThreadType] /\ fork_lock \in BOOLEAN /\ counter \in [Fd -> Nat] /\ leaked \subseteq Pattern
    BY DEF Init, ThreadType
  <2>5. wk \in [Child -> Worker] /\ conn \in [Child -> Conn]
    BY <2>1, <2>2 DEF Init
  <2>6. clients \in Seq(Uuid) /\ up \in [Child -> Seq(ToRoot)] /\ down \in [Child -> Seq(ToChild)]
    BY EmptySeq DEF Init
  <2>7. delivered \in [Proc -> [Msg -> {0, 1}]]
    BY DEF Init
  <2>8. audience \in [Msg -> [from : Proc, to : SUBSET Proc]]
    BY <1>1 DEF Init
  <2> QED
    BY <2>3, <2>4, <2>5, <2>6, <2>7, <2>8 DEF Typed
<1>5. ThreadsAgree
  BY <1>2, <1>3 DEF ThreadsAgree, Unborn
<1>6. WorkersAgree
  <2>1. <<>> \in Seq(Post)
    BY EmptySeq
  <2> QED
    BY <1>2, <1>3, <2>1 DEF WorkersAgree, WorkerAgrees, Alive
<1>7. SlotsAgree
  <2>1. Attached = {} /\ Accepted \in SUBSET Child /\ Closed \in SUBSET Child
    BY <1>2, <1>3 DEF Attached, Accepted, Closed
  <2>2. Cardinality(Accepted) \in Nat /\ Cardinality(Closed) \in Nat
    BY <2>1, Smaller
  <2>3. \A f \in Fd : counter[f] = 1
    BY DEF Init
  <2> QED
    BY <2>1, <2>2, <2>3 DEF SlotsAgree
<1>8. ClientsAgree
  <2>1. Attached = {}
    BY <1>2, <1>3 DEF Attached
  <2>2. DOMAIN clients = {}
    BY EmptySeq DEF Init
  <2> QED
    BY <2>1, <2>2 DEF ClientsAgree
<1>9. NamesAgree
  BY <1>2, <1>3 DEF NamesAgree, NameAgrees
<1>10. \A m \in Msg : audience[m].to = {} /\ audience[m].from = Root
  BY DEF Init
<1>11. PostsAgree
  <2>1. \A p \in Proc, m \in Msg : delivered[p][m] = 0
    BY DEF Init
  <2>2. \A c \in Child, m \in Msg : ~Sending(c, m) /\ ~In(down[c], m)
    BY <1>1, <1>2, <1>3 DEF Sending
  <2> QED
    BY <1>1, <1>2, <1>3, <2>1, <2>2 DEF PostsAgree, PostAgrees
<1>12. ServedAgree
  <2>1. SUFFICES ASSUME NEW m \in Msg PROVE ServedAgrees(m, Root)
    BY <1>10 DEF ServedAgree
  <2> QED
    BY <1>1, <1>2, <1>3, <1>10 DEF ServedAgrees, Invited
<1> QED
  BY <1>4, <1>5, <1>6, <1>7, <1>8, <1>9, <1>11, <1>12 DEF Inv

LEMMA Stuttering ==
    ASSUME Inv, UNCHANGED vars
    PROVE  Inv'
<1>1. UNCHANGED <<wk, ipcVars, wireVars, history, root, fork_lock, thread>>
  BY DEF vars, ipcVars, wireVars, history
<1>2. ThreadsAgree'
  BY <1>1, ForksKept DEF Inv, Unborn
<1>3. RootGoesOn /\ root' \in RootType /\ fork_lock' \in BOOLEAN /\ thread' \in [Child -> ThreadType]
  BY <1>1 DEF Inv, Typed, RootGoesOn
<1> QED
  BY <1>1, <1>2, <1>3, Quiet

LEMMA Stepping ==
    ASSUME Inv, NoWrap, Next
    PROVE  Inv'
<1>1. CASE Spawning
  BY <1>1, RootMoves, ForkingStep DEF Spawning
<1>2. CASE RootStep
  <2>1. ASSUME NEW c \in Child,
               \/ fio_cluster_listen_accept(c) \/ fio_cluster_server_forward(c) \/ fio_cluster_server_root(c)
               \/ fio_cluster_server_sub(c) \/ fio_cluster_server_unsub(c) \/ fio_cluster_server_ignore(c)
               \/ fio_cluster_on_close(c)
        PROVE  Inv'
    BY <2>1, Accepting, RootGives, RootHears, Losing
  <2>2. CASE fio_cluster_signal_children \/ fio_cluster_on_shutdown
    BY <2>2, Ordering
  <2>3. CASE fio_cluster_force_close
    BY <2>3, HangingUp
  <2>4. CASE fio_worker_cleanup_wait
    BY <2>4, RootMoves
  <2> QED
    BY <1>2, <2>1, <2>2, <2>3, <2>4 DEF RootStep
<1>3. ASSUME NEW c \in Child, WorkerStep(c) PROVE Inv'
  <2>1. CASE fio_connect2cluster(c)
    BY <2>1, StateStep, Connecting
  <2>2. CASE fio_cluster_on_connect(c)
    BY <2>2, Connected
  <2>3. CASE fio_cluster_on_fail(c) \/ fio_cluster_on_close_worker(c) \/ fio_stop_worker(c)
    BY <2>3, StateStep
  <2>4. CASE fio_cluster_client_sender(c)
    BY <2>4, Resending
  <2>5. CASE fio_cluster_client_handler(c)
    BY <2>5, Handling
  <2>6. CASE fio_worker_cleanup(c)
    BY <2>6, Ending
  <2> QED
    BY <1>3, <2>1, <2>2, <2>3, <2>4, <2>5, <2>6 DEF WorkerStep
<1>4. CASE Use
  <2>1. ASSUME NEW c \in Child, NEW n \in Channel \cup Pattern, fio_subscribe(c, n) \/ fio_unsubscribe(c, n)
        PROVE  Inv'
    BY <2>1, Informing DEF Name
  <2>2. ASSUME NEW c \in Child, NEW m \in Msg, fio_publish_cluster(c, m) \/ fio_publish_root(c, m)
        PROVE  Inv'
    BY <2>2, Publishing
  <2>3. ASSUME NEW m \in Msg, fio_publish_in_root(m) PROVE Inv'
    BY <2>3, PublishingInRoot
  <2> QED
    BY <1>4, <2>1, <2>2, <2>3 DEF Use
<1>5. CASE Environment
  BY <1>5, RootMoves, HangingUp, Ending, ForkingStep DEF Environment
<1> QED
  BY <1>1, <1>2, <1>3, <1>4, <1>5 DEF Next

LEMMA Sound == Inv => ClusterSound
<1> SUFFICES ASSUME Inv PROVE ClusterSound
  OBVIOUS
<1>1. Typed /\ Root \in Proc /\ Proc = Child \cup {Root} /\ Root \notin Child
  BY DEF Inv, Proc, Root, Child
<1>2. DeliveredOnceEverywhere
  <2>1. \A p \in Proc, m \in Msg : delivered[p][m] \in {0, 1}
    BY <1>1 DEF Typed
  <2>2. ASSUME NEW m \in Msg, root.st = "run", audience[m].to # {}, ~InFlight(m),
               audience[m].from # Root => Alive(audience[m].from),
               NEW p \in audience[m].to, InService(p), delivered[p][m] # 1
        PROVE  FALSE
    <3>1. PICK f : f = audience[m].from
      OBVIOUS
    <3>2. f \in Proc /\ p \in Proc
      BY <1>1, <3>1 DEF Typed
    <3>3. ServedAgrees(m, f)
      BY <3>1, <3>2 DEF Inv, ServedAgree
    <3>4. Unserved(p, m)
      BY <2>1, <2>2, <3>2 DEF Unserved
    <3>5. (f # Root /\ Sending(f, m)) \/ (p # Root /\ In(down[p], m))
      BY <2>2, <3>1, <3>3, <3>4 DEF ServedAgrees
    <3>6. Fwd(m).arg = m /\ ToRootOnly(m).arg = m
      BY DEF Fwd, ToRootOnly, Message
    <3>7. \A s : In(s, m) => \E i \in DOMAIN s : s[i].arg = m
      BY <3>6 DEF In, Has
    <3>8. ASSUME NEW c \in Child, NEW s \in {up[c], down[c], wk[c].pend}, In(s, m) PROVE FALSE
      BY <2>2, <3>7, <3>8 DEF InFlight
    <3> QED
      BY <1>1, <3>2, <3>5, <3>8 DEF Sending
  <2> QED
    BY <2>1, <2>2 DEF DeliveredOnceEverywhere, DeliveredAtMostOnce
<1>3. RootMirrorsWorkers
  <2>1. SUFFICES ASSUME NEW c \in Child, InService(c), up[c] = <<>>
                 PROVE  conn[c].pubsub \cup conn[c].patterns = wk[c].names
    BY DEF RootMirrorsWorkers
  <2>2. wk[c].uuid = "open" /\ conn[c].st = "attached"
    BY <1>1, <2>1 DEF InService
  <2>3. \A n \in Name : Told(<<>>, Known(c), n, n \in wk[c].names)
    BY <2>1, <2>2 DEF Inv, NamesAgree, NameAgrees
  <2>4. DOMAIN <<>> = {}
    BY EmptySeq
  <2>5. \A n \in Name : n \in Known(c) <=> n \in wk[c].names
    BY <2>3, <2>4 DEF Told
  <2>6. wk[c].names \subseteq Name /\ Known(c) \subseteq Name
    BY <1>1 DEF Typed, Worker, Conn, Name, Known
  <2> QED
    BY <2>5, <2>6 DEF Known
<1>4. ForksAlone
  BY DEF Inv, ThreadsAgree, ForksAlone
<1> QED
  BY <1>2, <1>3, <1>4 DEF ClusterSound

\* A publication is given once to every process that was connected when it was
\* published and still is (fio_cluster_server_sender), the root has a connected
\* worker's subscriptions once it has read its notices
\* (fio_cluster_server_handler), and no process forks while another thread of it is
\* inside a callback (fio_fork_lock), as long as no slot's counter has come round.
THEOREM ClusterSafety ==
    ASSUME NoWrap
    PROVE  Spec => []ClusterSound
<1>1. Inv /\ [Next]_vars => Inv'
  BY Stepping, Stuttering
<1> QED
  BY <1>1, Initially, Sound, PTL DEF Spec

\* The same of the behaviours in which the events are bounded.
THEOREM BoundedClusterSafety ==
    ASSUME NoWrap
    PROVE  BoundedSpec => []ClusterSound
<1>1. Inv /\ [BoundedNext]_vars => Inv'
  <2>1. BoundedNext => Next
    BY DEF BoundedNext, Next
  <2> QED
    BY <2>1, Stepping, Stuttering
<1> QED
  BY <1>1, Initially, Sound, PTL DEF BoundedSpec
=============================================================================
