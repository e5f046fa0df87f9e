----------------------------- MODULE PubSubProofs -----------------------------
(***************************************************************************)
(* Theorems about the post office, for any names, patterns, filters,       *)
(* subscriptions, messages and threads: a message reaches a subscription   *)
(* at most once and never after fio_unsubscribe returned, and              *)
(* on_unsubscribe comes once, after everything else.  And, when whoever    *)
(* subscribes does it alone: references count exactly what is held.        *)
(***************************************************************************)
EXTENDS PubSub, FiniteSetTheorems, WellFoundedInduction, SequenceTheorems, TLAPS

Joining  == {"insert", "lock", "locked"}
Leaving  == {"slock", "remove", "destroy", "finish"}
Handling == {"callback", "running"}

Channel      == [key : Key \cup {NULL}, ref : Int, subs : Seq(Sub), lock : Thread \cup {NULL}]
Subscription == [parent : Chan \cup {NULL}, ref : Int, lock : Thread \cup {NULL}, active : BOOLEAN]
Engine       == [attached : BOOLEAN, subs : SUBSET Key, overtaken : SUBSET Key]
Post         == [ch : Chan, m : Msg]
Call         == [s : Sub, m : Msg]
Place        == [pc : {"idle", "patterns", "reattach", "publish", "crashed"} \cup Joining \cup Leaving \cup Handling,
                 s : Sub \cup {NULL}, ch : Chan \cup {NULL}, tmpl : Chan \cup {STACK},
                 key : Key \cup {NULL}, m : Msg \cup {NULL}]

Typed ==
    /\ channels \in [Key -> Chan \cup {NULL}]
    /\ chan \in [Chan -> Channel]
    /\ sub \in [Sub -> Subscription]
    /\ msg \in [Msg -> Int]
    /\ urgent \in Seq(Post)
    /\ tasks \in Seq(Call)
    /\ th \in [Thread -> Place]
    /\ gvl \in Thread \cup {NULL}
    /\ engine \in Engine
    /\ life \in [Sub -> {"none", "subscribing", "live", "cancelling", "cancelled"}]
    /\ ended \in [Sub -> Nat] /\ got \in [Sub \X Msg -> Nat]
    /\ due \subseteq Sub \X Msg /\ sent \subseteq Msg
    /\ defers \in Nat /\ attaches \in Nat

\* Where message m is on its way to channel a, and to subscription s.
Queued(a, m) == Contains(urgent, [ch |-> a, m |-> m])
Publishes(t, a, m) == th[t].pc = "publish" /\ th[t].ch = a /\ th[t].m = m
Posted(a, m) == Queued(a, m) \/ \E t \in Thread : Publishes(t, a, m)

Waits(s, m) == Contains(tasks, [s |-> s, m |-> m])
Handles(t, s, m) == th[t].pc \in Handling /\ th[t].s = s /\ th[t].m = m
Untouched(s, m) == ~Waits(s, m) /\ (\A t \in Thread : ~Handles(t, s, m)) /\ got[<<s, m>>] = 0

\* Nothing of m has come to channel a or to what is subscribed there.
Ahead(a, m) == \A s \in Sub : sub[s].parent = a => Untouched(s, m)
Fresh(a, m) == ~Posted(a, m) /\ Ahead(a, m)

\* Who subscribes, unsubscribes or handles a message does it with the subscription in
\* the stage, and with the lock, that this takes.
ThreadAgrees(t) ==
    LET w == th[t] IN
    /\ w.pc \in Joining => w.s \in Sub /\ life[w.s] = "subscribing" /\ w.key \in Key
    /\ w.pc \in Leaving => w.s \in Sub /\ life[w.s] = "cancelling"
    /\ w.pc \in {"remove", "destroy", "finish"} => sub[w.s].lock = t
    /\ w.pc \in {"lock", "locked", "destroy", "publish"} => w.ch \in Chan
    /\ w.pc = "destroy" => w.key \in Key
    /\ w.pc = "patterns" => t \in Caller /\ w.m \in sent /\ w.key \in Name
    /\ w.pc = "publish" => t \in Worker /\ w.m \in Msg
    /\ w.pc \in Handling => /\ t \in Worker /\ w.s \in Sub /\ w.m \in Msg
                            /\ sub[w.s].lock = t /\ life[w.s] \in {"live", "cancelling"}

\* Two threads never subscribe or unsubscribe one subscription, nor publish one message.
ThreadsApart ==
    \A t, u \in Thread :
        /\ th[t].pc \in Joining \cup Leaving /\ th[u].pc \in Joining \cup Leaving /\ th[t].s = th[u].s => t = u
        /\ th[t].pc = "patterns" /\ th[u].pc = "patterns" /\ th[t].m = th[u].m => t = u

ChannelAgrees(a) ==
    /\ IsInjective(chan[a].subs)
    /\ \A i \in DOMAIN chan[a].subs : LET s == chan[a].subs[i] IN
          /\ sub[s].parent = a /\ life[s] \in {"live", "cancelling"}
          /\ \A t \in Thread : th[t].pc \in {"destroy", "finish"} => th[t].s # s

KeyAgrees(k) == channels[k] # NULL => chan[channels[k]].key = k

SubAgrees(s) ==
    /\ sub[s].active <=> life[s] \in {"subscribing", "live", "cancelling"}
    /\ life[s] \in {"none", "subscribing"} => sub[s].parent = NULL
    /\ life[s] \in {"live", "cancelling"} => sub[s].parent \in Chan
    /\ sub[s].parent \in Chan => chan[sub[s].parent].key \in Key
    /\ ended[s] = IF life[s] = "cancelled" /\ sub[s].ref = 0 THEN 1 ELSE 0

\* A message is posted to a channel once, before any subscription there has seen it, and
\* the publisher that still has patterns to look for finds none that was served.
PostAgrees(a, m) ==
    /\ Posted(a, m) => m \in sent /\ chan[a].key \in Key /\ Ahead(a, m)
    /\ Queued(a, m) => \A t \in Thread : ~Publishes(t, a, m)
    /\ \A t, u \in Thread : Publishes(t, a, m) /\ Publishes(u, a, m) => t = u
    /\ \A t \in Thread : th[t].pc = "patterns" /\ th[t].m = m /\ chan[a].key \in Pattern => Fresh(a, m)

\* A message waits for a subscription, or is being handled, or was: one of the three.
CallAgrees(s, m) ==
    /\ Waits(s, m) => got[<<s, m>>] = 0 /\ \A t \in Thread : ~Handles(t, s, m)
    /\ \A t \in Thread : Handles(t, s, m) => got[<<s, m>>] = IF th[t].pc = "running" THEN 1 ELSE 0
    /\ got[<<s, m>>] <= 1
    /\ sub[s].parent = NULL \/ m \notin sent => Untouched(s, m)

\* References of a subscription: its owner, the calls that wait and the one being handled.
Own(s) == IF life[s] \in {"subscribing", "live", "cancelling"} THEN 1 ELSE 0
CallsFor(q, s) == {i \in DOMAIN q : q[i].s = s}
Handlers(s) == {t \in Thread : th[t].pc \in Handling /\ th[t].s = s}
CountAgrees(s) == sub[s].ref = Own(s) + Cardinality(CallsFor(tasks, s)) + (IF Handlers(s) = {} THEN 0 ELSE 1)

\* What holds of a program that read no freed memory, and what still holds once it did.
Sound ==
    /\ Typed /\ IsInjective(urgent) /\ IsInjective(tasks) /\ ThreadsApart
    /\ \A t \in Thread : ThreadAgrees(t)
    /\ \A a \in Chan : ChannelAgrees(a)
    /\ \A k \in Key : KeyAgrees(k)
    /\ \A s \in Sub : SubAgrees(s)
    /\ \A a \in Chan, m \in Msg : PostAgrees(a, m)
    /\ \A s \in Sub, m \in Msg : CallAgrees(s, m)

CountsAgree == \A s \in Sub : CountAgrees(s)
Sane == Sound /\ CountsAgree /\ ~Crashed
Inv  == Sound /\ OnUnsubscribeIsLast /\ (Sane \/ \A t \in Thread : th[t].pc = "crashed")

-----------------------------------------------------------------------------
\* Every inhabited set of naturals has a least element.
LEMMA Least ==
    ASSUME NEW S \in SUBSET Nat, S # {}
    PROVE  \E m \in S : \A n \in S : m <= n
<1> DEFINE upTo == {0 .. n : n \in S}
<1>1. upTo \subseteq FiniteSubsetsOf(Nat) /\ upTo # {}
  <2>1. \A n \in S : IsFiniteSet(0 .. n) /\ 0 .. n \in SUBSET Nat
    BY FS_Interval
  <2> QED
    BY <2>1 DEF FiniteSubsetsOf
<1>2. PICK x \in upTo : \A y \in upTo : ~(<<y, x>> \in StrictSubsetOrdering(Nat))
  <2> HIDE DEF upTo
  <2> QED
    BY <1>1, FS_StrictSubsetOrderingWellFounded, WFMin
<1>3. PICK m \in S : x = 0 .. m
    OBVIOUS
<1>4. ASSUME NEW n \in S PROVE m <= n
  <2>1. SUFFICES ASSUME n < m PROVE FALSE
    OBVIOUS
  <2>2. 0 .. n \subseteq 0 .. m /\ m \in 0 .. m /\ m \notin 0 .. n
    BY <2>1
  <2>3. <<0 .. n, x>> \in StrictSubsetOrdering(Nat)
    BY <2>2, <1>3 DEF StrictSubsetOrdering
  <2> QED
    BY <2>3, <1>2
<1> QED
    BY <1>4

-----------------------------------------------------------------------------
\* What is kept of a list: Kept's function, up to n.
Fits(g, q, S, n) ==
    g = [i \in 0 .. n |-> IF i = 0 THEN <<>> ELSE IF q[i] \in S THEN Append(g[i - 1], q[i]) ELSE g[i - 1]]

Keeps(r, q, S, n) ==
    /\ r \in Seq(Sub)
    /\ \A x \in DOMAIN r : r[x] \in S /\ \E i \in 1 .. n : q[i] = r[x]
    /\ \A i \in 1 .. n : q[i] \in S => \E x \in DOMAIN r : r[x] = q[i]
    /\ IsInjective(q) => IsInjective(r)

\* One more subscription looked at: it is appended when it is in S.
LEMMA KeepsNext ==
    ASSUME NEW q \in Seq(Sub), NEW S, NEW n \in 1 .. Len(q), NEW r, Keeps(r, q, S, n - 1)
    PROVE  Keeps(IF q[n] \in S THEN Append(r, q[n]) ELSE r, q, S, n)
<1>1. r \in Seq(Sub) /\ n \in Nat /\ n \in DOMAIN q /\ q[n] \in Sub /\ Len(r) \in Nat /\ DOMAIN r = 1 .. Len(r)
    BY DEF Keeps
<1>2. \A i : i \in 1 .. n <=> i \in 1 .. n - 1 \/ i = n
    BY <1>1
<1>3. CASE q[n] \notin S
    BY <1>2, <1>3 DEF Keeps
<1>4. CASE q[n] \in S
  <2> DEFINE a == Append(r, q[n])
  <2>1. /\ a \in Seq(Sub) /\ Len(a) = Len(r) + 1 /\ a[Len(r) + 1] = q[n]
        /\ \A x \in 1 .. Len(r) : a[x] = r[x]
    BY <1>1, AppendProperties
  <2>2. DOMAIN a = 1 .. Len(r) + 1 /\ \A x : x \in DOMAIN a <=> x \in DOMAIN r \/ x = Len(r) + 1
    BY <2>1, <1>1
  <2> HIDE DEF a
  <2>3. \A x \in DOMAIN a : a[x] \in S /\ \E i \in 1 .. n : q[i] = a[x]
    BY <1>1, <1>2, <1>4, <2>1, <2>2 DEF Keeps
  <2>4. \A i \in 1 .. n : q[i] \in S => \E x \in DOMAIN a : a[x] = q[i]
    BY <1>1, <1>2, <2>1, <2>2 DEF Keeps
  <2>5. ASSUME IsInjective(q) PROVE IsInjective(a)
    <3>1. IsInjective(r)
      BY <2>5 DEF Keeps
    <3>2. \A x \in DOMAIN r : r[x] # q[n]
      <4>1. SUFFICES ASSUME NEW x \in DOMAIN r, r[x] = q[n] PROVE FALSE
        OBVIOUS
      <4>2. PICK i \in 1 .. n - 1 : q[i] = q[n]
        BY <4>1 DEF Keeps
      <4>3. i \in DOMAIN q /\ i # n
        BY <1>1
      <4> QED
        BY <4>2, <4>3, <1>1, <2>5 DEF IsInjective
    <3> QED
      BY <3>1, <3>2, <1>1, <2>1, <2>2 DEF IsInjective
  <2> QED
    BY <2>1, <2>3, <2>4, <2>5, <1>4 DEF Keeps, a
<1> QED
    BY <1>3, <1>4

\* A function that fits exists, and computes what is kept.
LEMMA KeptFits ==
    ASSUME NEW q \in Seq(Sub), NEW S
    PROVE  \E g : Fits(g, q, S, Len(q))
<1> DEFINE none == {n \in 0 .. Len(q) : ~\E g : Fits(g, q, S, n)}
<1>1. SUFFICES ASSUME none # {} PROVE FALSE
  <2>1. Len(q) \in 0 .. Len(q)
    OBVIOUS
  <2> QED
    BY <2>1
<1>2. PICK m \in none : \A n \in none : m <= n
  <2>1. none \in SUBSET Nat
    OBVIOUS
  <2> HIDE DEF none
  <2> QED
    BY <1>1, <2>1, Least
<1>3. m \in 0 .. Len(q) /\ ~\E g : Fits(g, q, S, m)
    OBVIOUS
<1>4. CASE m = 0
  <2>1. Fits([i \in 0 .. 0 |-> <<>>], q, S, 0)
    BY DEF Fits
  <2> QED
    BY <2>1, <1>3, <1>4
<1>5. CASE m # 0
  <2>1. m - 1 \in 0 .. Len(q) /\ m - 1 < m /\ m \in Nat
    BY <1>3, <1>5
  <2>2. PICK g : Fits(g, q, S, m - 1)
    <3>1. m - 1 \notin none
      <4> HIDE DEF none
      <4> QED
        BY <2>1, <1>2
    <3> QED
      BY <3>1, <2>1
  <2> DEFINE last == IF q[m] \in S THEN Append(g[m - 1], q[m]) ELSE g[m - 1]
             h == [i \in 0 .. m |-> IF i = m THEN last ELSE g[i]]
  <2>3. \A i \in 0 .. m - 1 : g[i] = IF i = 0 THEN <<>> ELSE IF q[i] \in S THEN Append(g[i - 1], q[i]) ELSE g[i - 1]
    BY <2>2 DEF Fits
  <2>4. ASSUME NEW i \in 0 .. m
        PROVE  h[i] = IF i = 0 THEN <<>> ELSE IF q[i] \in S THEN Append(h[i - 1], q[i]) ELSE h[i - 1]
    <3>1. CASE i = m
      <4>1. h[i] = last /\ h[i - 1] = g[m - 1] /\ i # 0
        BY <3>1, <2>1, <1>5
      <4> QED
        BY <4>1, <3>1
    <3>2. CASE i # m
      <4>1. i \in 0 .. m - 1 /\ h[i] = g[i] /\ (i # 0 => h[i - 1] = g[i - 1])
        BY <3>2, <2>1
      <4> QED
        BY <4>1, <2>3
    <3> QED
      BY <3>1, <3>2
  <2>5. h = [i \in 0 .. m |-> h[i]]
    OBVIOUS
  <2> HIDE DEF h
  <2>6. Fits(h, q, S, m)
    BY <2>4, <2>5 DEF Fits
  <2> QED
    BY <2>6, <1>3
<1> QED
    BY <1>4, <1>5

\* Kept (the loops over ch->subscriptions) returns the members of S on the list, in the
\* list's order.
LEMMA KeptIs ==
    ASSUME NEW q \in Seq(Sub), NEW S
    PROVE  Keeps(Kept(q, S), q, S, Len(q))
<1> DEFINE f == CHOOSE g : Fits(g, q, S, Len(q))
<1>1. Fits(f, q, S, Len(q))
    BY KeptFits
<1>2. Kept(q, S) = f[Len(q)]
    BY DEF Kept, Fits
<1> HIDE DEF f
<1>3. \A i \in 0 .. Len(q) : f[i] = IF i = 0 THEN <<>> ELSE IF q[i] \in S THEN Append(f[i - 1], q[i]) ELSE f[i - 1]
    BY <1>1 DEF Fits
<1> DEFINE bad == {n \in 0 .. Len(q) : ~Keeps(f[n], q, S, n)}
<1>4. SUFFICES ASSUME bad # {} PROVE FALSE
  <2>1. Len(q) \in 0 .. Len(q)
    OBVIOUS
  <2> QED
    BY <2>1, <1>2
<1>5. PICK m \in bad : \A n \in bad : m <= n
  <2>1. bad \in SUBSET Nat
    OBVIOUS
  <2> HIDE DEF bad
  <2> QED
    BY <1>4, <2>1, Least
<1>6. m \in 0 .. Len(q) /\ ~Keeps(f[m], q, S, m)
    OBVIOUS
<1>7. CASE m = 0
  <2>1. f[m] = <<>> /\ 1 .. m = {}
    BY <1>3, <1>6, <1>7
  <2>2. <<>> \in Seq(Sub) /\ DOMAIN <<>> = {}
    OBVIOUS
  <2>3. Keeps(<<>>, q, S, m)
    BY <2>1, <2>2 DEF Keeps, IsInjective
  <2> QED
    BY <2>1, <2>3, <1>6
<1>8. CASE m # 0
  <2>1. m - 1 \in 0 .. Len(q) /\ m - 1 < m /\ m \in 1 .. Len(q)
    BY <1>6, <1>8
  <2>2. Keeps(f[m - 1], q, S, m - 1)
    BY <2>1, <1>5
  <2>3. f[m] = IF q[m] \in S THEN Append(f[m - 1], q[m]) ELSE f[m - 1]
    BY <1>3, <1>6, <1>8
  <2> QED
    BY <2>1, <2>2, <2>3, <1>6, KeepsNext
<1> QED
    BY <1>7, <1>8

-----------------------------------------------------------------------------
(* What a step leaves alone, and what then still holds.                    *)

SameFor(pcs) == \A t \in Thread : th[t].pc \in pcs \/ th'[t].pc \in pcs => th'[t] = th[t]
SameParents  == \A s \in Sub : sub'[s].parent = sub[s].parent \/ sub[s].parent = NULL
SameKeys     == \A a \in Chan : chan'[a].key = chan[a].key \/ chan[a].key = NULL

\* The calls of every subscription, when none is queued, taken or answered.
LEMMA CallKept ==
    ASSUME Sound, tasks' = tasks, got' = got, sent \subseteq sent', SameFor(Handling), SameParents
    PROVE  \A s \in Sub, m \in Msg : CallAgrees(s, m)' /\ (Untouched(s, m) => Untouched(s, m)')
<1> SUFFICES ASSUME NEW s \in Sub, NEW m \in Msg
             PROVE  CallAgrees(s, m)' /\ (Untouched(s, m) => Untouched(s, m)')
    OBVIOUS
<1>1. CallAgrees(s, m)
    BY DEF Sound
<1>2. Waits(s, m)' <=> Waits(s, m)
    BY DEF Waits
<1>3. \A t \in Thread : Handles(t, s, m)' <=> Handles(t, s, m)
    BY DEF Handles, SameFor
<1>4. \A t \in Thread : Handles(t, s, m) => th'[t] = th[t]
    BY DEF Handles, SameFor
<1>5. Untouched(s, m) <=> Untouched(s, m)'
    BY <1>2, <1>3 DEF Untouched
<1>6. sub'[s].parent = NULL \/ m \notin sent' => sub[s].parent = NULL \/ m \notin sent
    BY DEF SameParents
<1> QED
    BY <1>1, <1>2, <1>3, <1>4, <1>5, <1>6 DEF CallAgrees

\* The posts of every channel, when none is queued, taken or sent out.
LEMMA PostKept ==
    ASSUME Sound, \A a \in Chan, m \in Msg : Queued(a, m)' <=> Queued(a, m), sent' = sent, SameFor({"publish", "patterns"}), SameParents, SameKeys,
           \A s \in Sub, m \in Msg : Untouched(s, m) => Untouched(s, m)'
    PROVE  \A a \in Chan, m \in Msg : PostAgrees(a, m)'
<1> SUFFICES ASSUME NEW a \in Chan, NEW m \in Msg PROVE PostAgrees(a, m)'
    OBVIOUS
<1>1. PostAgrees(a, m) /\ \A s \in Sub : CallAgrees(s, m) /\ SubAgrees(s)
    BY DEF Sound
<1>2. Queued(a, m)' <=> Queued(a, m)
    OBVIOUS
<1>3. \A t \in Thread : Publishes(t, a, m)' <=> Publishes(t, a, m)
    BY DEF Publishes, SameFor
<1>4. Posted(a, m)' <=> Posted(a, m)
    BY <1>2, <1>3 DEF Posted
<1>5. Ahead(a, m) => Ahead(a, m)'
    BY <1>1 DEF Ahead, CallAgrees, SameParents
<1>6. ASSUME NEW t \in Thread, th'[t].pc = "patterns", th'[t].m = m, chan'[a].key \in Pattern PROVE Fresh(a, m)'
  <2>1. th[t].pc = "patterns" /\ th[t].m = m
    BY <1>6 DEF SameFor
  <2>2. CASE chan'[a].key = chan[a].key
    BY <1>1, <1>4, <1>5, <1>6, <2>1, <2>2 DEF PostAgrees, Fresh
  <2>3. CASE chan[a].key = NULL
    <3>1. chan[a].key \notin Key
      BY <2>3, PubSubAssumption
    <3>2. ~Posted(a, m)'
      BY <1>1, <1>4, <3>1 DEF PostAgrees
    <3>3. ASSUME NEW s \in Sub PROVE sub[s].parent # a
      BY <1>1, <3>1 DEF SubAgrees
    <3>4. Ahead(a, m)'
      BY <1>1, <3>3 DEF Ahead, CallAgrees, SameParents
    <3> QED
      BY <3>2, <3>4 DEF Fresh
  <2> QED
    BY <2>2, <2>3 DEF SameKeys
<1>7. Posted(a, m)' => m \in sent' /\ chan'[a].key \in Key /\ Ahead(a, m)'
    BY <1>1, <1>4, <1>5, PubSubAssumption DEF PostAgrees, SameKeys
<1> QED
    BY <1>1, <1>2, <1>3, <1>6, <1>7 DEF PostAgrees

\* The counts of every subscription, when calls are neither queued nor taken.
LEMMA CountKept ==
    ASSUME CountsAgree, Typed, tasks' = tasks, SameFor(Handling),
           \A s \in Sub : sub'[s].ref = sub[s].ref + Own(s)' - Own(s)
    PROVE  CountsAgree'
<1> SUFFICES ASSUME NEW s \in Sub PROVE CountAgrees(s)'
    BY DEF CountsAgree
<1>1. CountAgrees(s)
    BY DEF CountsAgree
<1>2. CallsFor(tasks, s)' = CallsFor(tasks, s) /\ Handlers(s)' = Handlers(s)
    BY DEF CallsFor, Handlers, SameFor
<1>3. Cardinality(CallsFor(tasks, s)) \in Nat
  <2>1. IsFiniteSet(DOMAIN tasks) /\ CallsFor(tasks, s) \subseteq DOMAIN tasks
    BY FS_Interval DEF Typed, CallsFor
  <2> QED
    BY <2>1, FS_Subset, FS_CardinalityType
<1>4. Own(s) \in Nat /\ Own(s)' \in Nat
    BY DEF Own
<1> HIDE DEF Own
<1> QED
    BY <1>1, <1>2, <1>3, <1>4 DEF CountAgrees

\* The stage and the locks of the threads that do not step.
OthersKept(t) ==
    /\ \A u \in Thread \ {t} : th'[u] = th[u]
    /\ \A s \in Sub : sub'[s].lock = sub[s].lock \/ sub[s].lock \in {NULL, t}
    /\ sent \subseteq sent'
    /\ \A s \in Sub : \/ life'[s] = life[s] \/ life[s] = "none"
                      \/ life[s] = "live" /\ life'[s] = "cancelling"
                      \/ th[t].s = s /\ th[t].pc = "locked"
                      \/ th[t].s = s /\ th[t].pc = "finish"

\* What holds of the threads that did not step.
LEMMA ThreadsKept ==
    ASSUME Sound, NEW t \in Thread, OthersKept(t)
    PROVE  \A u \in Thread \ {t} : ThreadAgrees(u)'
<1> SUFFICES ASSUME NEW u \in Thread \ {t} PROVE ThreadAgrees(u)'
    OBVIOUS
<1>1. ThreadAgrees(u) /\ ThreadAgrees(t) /\ th'[u] = th[u] /\ u # NULL /\ u # t
    BY PubSubAssumption DEF Sound, OthersKept
<1>2. ASSUME th[u].pc \in Joining \cup Leaving PROVE th[u].s \in Sub /\ life'[th[u].s] = life[th[u].s]
  <2>1. th[u].s \in Sub /\ life[th[u].s] \in {"subscribing", "cancelling"}
    BY <1>1, <1>2 DEF ThreadAgrees
  <2>2. th[t].pc \in {"locked", "finish"} => th[t].s # th[u].s
    BY <1>2, <1>1 DEF Sound, ThreadsApart, Joining, Leaving
  <2> QED
    BY <2>1, <2>2 DEF OthersKept
<1>3. ASSUME th[u].pc \in Handling PROVE life'[th[u].s] \in {"live", "cancelling"}
  <2>1. th[u].s \in Sub /\ life[th[u].s] \in {"live", "cancelling"} /\ sub[th[u].s].lock = u
    BY <1>1, <1>3 DEF ThreadAgrees
  <2>2. th[t].pc = "locked" => life[th[t].s] = "subscribing"
    BY <1>1 DEF ThreadAgrees, Joining
  <2>3. th[t].pc = "finish" => sub[th[t].s].lock = t
    BY <1>1 DEF ThreadAgrees
  <2> QED
    BY <2>1, <2>2, <2>3, <1>1 DEF OthersKept
<1>4. ASSUME NEW s \in Sub, sub[s].lock = u PROVE sub'[s].lock = u
    BY <1>1, <1>4 DEF OthersKept
<1>5. th[u].pc = "patterns" => th[u].m \in sent'
    BY <1>1 DEF ThreadAgrees, OthersKept
<1> QED
    BY <1>1, <1>2, <1>3, <1>4, <1>5 DEF ThreadAgrees, Leaving, Joining, Handling

\* Threads stay apart when the one that steps starts on a subscription nobody works on, or a
\* new message.
LEMMA ApartKept ==
    ASSUME Sound, NEW t \in Thread, \A u \in Thread \ {t} : th'[u] = th[u],
           th'[t].pc \in Joining \cup Leaving =>
              \/ th[t].pc \in Joining \cup Leaving /\ th'[t].s = th[t].s
              \/ life[th'[t].s] \in {"none", "live"},
           th'[t].pc = "patterns" => th'[t].m \notin sent
    PROVE  ThreadsApart'
<1>1. \A u \in Thread : ThreadAgrees(u)
    BY DEF Sound
<1>2. \A u \in Thread : th[u].pc \in Joining \cup Leaving => life[th[u].s] \in {"subscribing", "cancelling"}
    BY <1>1 DEF ThreadAgrees
<1>3. \A u \in Thread : th[u].pc = "patterns" => th[u].m \in sent
    BY <1>1 DEF ThreadAgrees
<1>4. ASSUME NEW u \in Thread, NEW v \in Thread, th'[u].pc \in Joining \cup Leaving, th'[v].pc \in Joining \cup Leaving,
             th'[u].s = th'[v].s
      PROVE  u = v
    BY <1>2, <1>4 DEF Sound, ThreadsApart
<1>5. ASSUME NEW u \in Thread, NEW v \in Thread, th'[u].pc = "patterns", th'[v].pc = "patterns", th'[u].m = th'[v].m
      PROVE  u = v
    BY <1>3, <1>5 DEF Sound, ThreadsApart
<1> QED
    BY <1>4, <1>5 DEF ThreadsApart

\* Lists and collections that a step does not change.
SameLists ==
    /\ channels' = channels
    /\ \A a \in Chan : chan'[a].key = chan[a].key /\ chan'[a].subs = chan[a].subs
    /\ \A s \in Sub : sub'[s].parent = sub[s].parent

\* Keys and parents, when no channel changes its list and no subscription its parent.
LEMMA ListsKept ==
    ASSUME Sound, SameLists
    PROVE  (\A k \in Key : KeyAgrees(k)') /\ SameParents /\ SameKeys
<1>1. ASSUME NEW k \in Key PROVE KeyAgrees(k)'
  <2>1. KeyAgrees(k) /\ channels[k] \in Chan \cup {NULL}
    BY DEF Sound, Typed
  <2> QED
    BY <2>1 DEF KeyAgrees, SameLists
<1> QED
    BY <1>1 DEF SameLists, SameParents, SameKeys

\* Who is on a list stays subscribed: those that left it are not on it.
LEMMA ListedKept ==
    ASSUME Sound, SameLists, NEW t \in Thread, OthersKept(t),
           th'[t].pc \in {"destroy", "finish"} => th[t].pc \in {"destroy", "finish"} /\ th'[t].s = th[t].s
    PROVE  \A a \in Chan : ChannelAgrees(a)'
<1> SUFFICES ASSUME NEW a \in Chan PROVE ChannelAgrees(a)'
    OBVIOUS
<1>1. ChannelAgrees(a) /\ chan[a].subs \in Seq(Sub) /\ ThreadAgrees(t)
    BY DEF Sound, Typed, Channel
<1>2. chan'[a].subs = chan[a].subs
    BY DEF SameLists
<1>3. ASSUME NEW i \in DOMAIN chan[a].subs, NEW s, s = chan[a].subs[i]
      PROVE  /\ sub'[s].parent = a /\ life'[s] \in {"live", "cancelling"}
             /\ \A u \in Thread : th'[u].pc \in {"destroy", "finish"} => th'[u].s # s
  <2>1. /\ s \in Sub /\ sub[s].parent = a /\ life[s] \in {"live", "cancelling"}
        /\ \A u \in Thread : th[u].pc \in {"destroy", "finish"} => th[u].s # s
    BY <1>1, <1>3 DEF ChannelAgrees
  <2>2. th[t].pc = "locked" => life[th[t].s] = "subscribing"
    BY <1>1 DEF ThreadAgrees, Joining
  <2>3. life'[s] \in {"live", "cancelling"}
    BY <2>1, <2>2 DEF OthersKept
  <2>4. \A u \in Thread : th'[u].pc \in {"destroy", "finish"} => th'[u].s # s
    BY <2>1 DEF OthersKept
  <2> QED
    BY <2>1, <2>3, <2>4 DEF SameLists
<1> QED
    BY <1>1, <1>2, <1>3 DEF ChannelAgrees, IsInjective

\* A subscription whose count and callback are set.
LEMMA SubscriptionPatched ==
    ASSUME NEW x \in Subscription, NEW n \in Int, NEW b \in BOOLEAN
    PROVE  [x EXCEPT !.ref = n, !.active = b] \in Subscription
    BY DEF Subscription

\* A subscription whose lock and callback are set keeps its channel and its count.
LEMMA SilencePatched ==
    ASSUME NEW x \in Subscription, NEW l \in Thread \cup {NULL}, NEW b \in BOOLEAN
    PROVE  /\ [x EXCEPT !.lock = l, !.active = b] \in Subscription
           /\ [x EXCEPT !.lock = l, !.active = b].parent = x.parent
           /\ [x EXCEPT !.lock = l, !.active = b].ref = x.ref
           /\ [x EXCEPT !.lock = l, !.active = b].lock = l
           /\ [x EXCEPT !.lock = l, !.active = b].active = b
<1>1. [x EXCEPT !.lock = l, !.active = b] \in Subscription
    BY DEF Subscription
<1>2. [x EXCEPT !.lock = l, !.active = b].parent = x.parent /\ [x EXCEPT !.lock = l, !.active = b].ref = x.ref
    BY DEF Subscription
<1>3. [x EXCEPT !.lock = l, !.active = b].lock = l
    BY DEF Subscription
<1>4. [x EXCEPT !.lock = l, !.active = b].active = b
    BY DEF Subscription
<1> QED
    BY <1>1, <1>2, <1>3, <1>4

\* A channel whose count is set keeps its key and its list.
LEMMA RefPatched ==
    ASSUME NEW c \in Channel, NEW n \in Int
    PROVE  [c EXCEPT !.ref = n] \in Channel /\ [c EXCEPT !.ref = n].key = c.key /\ [c EXCEPT !.ref = n].subs = c.subs
<1>1. [c EXCEPT !.ref = n] \in Channel
    BY DEF Channel
<1>2. [c EXCEPT !.ref = n].key = c.key /\ [c EXCEPT !.ref = n].subs = c.subs
    BY DEF Channel
<1> QED
    BY <1>1, <1>2

\* A channel whose lock is set keeps its key and its list.
LEMMA LockPatched ==
    ASSUME NEW c \in Channel, NEW l \in Thread \cup {NULL}
    PROVE  [c EXCEPT !.lock = l] \in Channel /\ [c EXCEPT !.lock = l].key = c.key /\ [c EXCEPT !.lock = l].subs = c.subs
<1>1. [c EXCEPT !.lock = l] \in Channel
    BY DEF Channel
<1>2. [c EXCEPT !.lock = l].key = c.key /\ [c EXCEPT !.lock = l].subs = c.subs
    BY DEF Channel
<1> QED
    BY <1>1, <1>2

\* A channel whose list is set keeps its key.
LEMMA SubsPatched ==
    ASSUME NEW c \in Channel, NEW q \in Seq(Sub)
    PROVE  [c EXCEPT !.subs = q] \in Channel /\ [c EXCEPT !.subs = q].key = c.key /\ [c EXCEPT !.subs = q].subs = q
<1>1. [c EXCEPT !.subs = q] \in Channel
    BY DEF Channel
<1>2. [c EXCEPT !.subs = q].key = c.key /\ [c EXCEPT !.subs = q].subs = q
    BY DEF Channel
<1> QED
    BY <1>1, <1>2

\* A thread that enters the API, goes to another step of its call, or returns.
Pcs == {"idle", "patterns", "reattach", "publish", "crashed"} \cup Joining \cup Leaving \cup Handling
OthersStay(t) == th' \in [Thread -> Place] /\ \A u \in Thread \ {t} : th'[u] = th[u]

\* A thread enters the API (a Ruby method takes the GVL).
LEMMA Enters ==
    ASSUME Typed, NEW t \in Thread, NEW w \in Place, Enter(t, w)
    PROVE  OthersStay(t) /\ th[t].pc = "idle" /\ th'[t] = w /\ gvl' \in Thread \cup {NULL}
    BY DEF Typed, Enter, OthersStay

\* A thread goes on with what it holds.
LEMMA Goes ==
    ASSUME Typed, NEW t \in Thread, NEW p \in Pcs, Goto(t, p)
    PROVE  /\ OthersStay(t) /\ gvl' = gvl
           /\ th'[t].pc = p /\ th'[t].s = th[t].s /\ th'[t].ch = th[t].ch /\ th'[t].key = th[t].key /\ th'[t].m = th[t].m
<1> DEFINE w == [th[t] EXCEPT !.pc = p]
<1>1. th[t] \in Place /\ th \in [Thread -> Place]
    BY DEF Typed
<1>2. w \in Place
    BY <1>1 DEF Place, Pcs
<1>3. w.pc = p /\ w.s = th[t].s /\ w.ch = th[t].ch /\ w.key = th[t].key /\ w.m = th[t].m
    BY <1>1 DEF Place
<1>4. th' = [th EXCEPT ![t] = w] /\ gvl' = gvl
    BY DEF Goto
<1> HIDE DEF w
<1> QED
    BY <1>1, <1>2, <1>3, <1>4 DEF OthersStay

\* A thread returns from the API or from a task, and drops what it held.
LEMMA Returns ==
    ASSUME Typed, NEW t \in Thread, Return(t)
    PROVE  OthersStay(t) /\ th'[t] = NoWork /\ gvl' \in Thread \cup {NULL}
<1>1. NoWork \in Place
    BY DEF NoWork, Place
<1> QED
    BY <1>1 DEF Typed, Return, OthersStay

\* Freeing a reference of subscription s, whose record was changed to v.
LEMMA Frees ==
    ASSUME Typed, NEW s \in Sub, NEW v \in Subscription, v.ref = sub[s].ref,
           NEW sb, sb = [sub EXCEPT ![s] = v], fio_subscription_free(s, sb, chan)
    PROVE  /\ sub' \in [Sub -> Subscription] /\ \A x \in Sub \ {s} : sub'[x] = sub[x] /\ ended'[x] = ended[x]
           /\ sub'[s].parent = v.parent /\ sub'[s].lock = v.lock /\ sub'[s].active = v.active
           /\ sub'[s].ref = sub[s].ref - 1
           /\ chan' \in [Chan -> Channel]
           /\ \A a \in Chan : chan'[a].key = chan[a].key /\ chan'[a].subs = chan[a].subs
           /\ ended' \in [Sub -> Nat] /\ ended'[s] = IF sub[s].ref = 1 THEN ended[s] + 1 ELSE ended[s]
<1>1. sub \in [Sub -> Subscription] /\ chan \in [Chan -> Channel] /\ ended \in [Sub -> Nat]
    BY DEF Typed
<1>2. sb \in [Sub -> Subscription] /\ sb[s] = v /\ \A x \in Sub \ {s} : sb[x] = sub[x]
    BY <1>1
<1> DEFINE w == [v EXCEPT !.ref = v.ref - 1]
<1>3. w \in Subscription
    BY DEF Subscription
<1>4. w.parent = v.parent /\ w.lock = v.lock /\ w.active = v.active /\ w.ref = v.ref - 1
    BY DEF Subscription
<1>5. sub' = [sb EXCEPT ![s] = w]
    BY <1>2 DEF fio_subscription_free
<1> HIDE DEF w
<1>6. /\ chan' \in [Chan -> Channel]
      /\ \A a \in Chan : chan'[a].key = chan[a].key /\ chan'[a].subs = chan[a].subs
  <2> DEFINE x == sub[s].parent
             c == [chan[x] EXCEPT !.ref = chan[x].ref - 1]
  <2>1. x \in Chan => c \in Channel /\ c.key = chan[x].key /\ c.subs = chan[x].subs
    <3>1. SUFFICES ASSUME x \in Chan PROVE c \in Channel /\ c.key = chan[x].key /\ c.subs = chan[x].subs
      OBVIOUS
    <3>2. chan[x] \in Channel /\ chan[x].ref - 1 \in Int
      BY <1>1, <3>1 DEF Channel
    <3> QED
      BY <3>2, RefPatched, Zenon
  <2>2. chan' = chan \/ chan' = [chan EXCEPT ![x] = c]
    BY DEF fio_subscription_free, fio_channel_free
  <2> HIDE DEF x, c
  <2> QED
    BY <1>1, <2>1, <2>2
<1>7. /\ ended' \in [Sub -> Nat] /\ \A x \in Sub \ {s} : ended'[x] = ended[x]
      /\ ended'[s] = IF sub[s].ref = 1 THEN ended[s] + 1 ELSE ended[s]
    BY <1>1, <1>2 DEF fio_subscription_free
<1>8. /\ sub' \in [Sub -> Subscription] /\ sub'[s] = w /\ \A x \in Sub \ {s} : sub'[x] = sub[x]
    BY <1>2, <1>3, <1>5
<1> QED
    BY <1>4, <1>6, <1>7, <1>8

\* A subscription the step leaves as it was.
LEMMA SubKept ==
    ASSUME Sound, SameKeys, NEW s \in Sub, sub'[s].parent = sub[s].parent, sub'[s].active = sub[s].active,
           sub'[s].ref = sub[s].ref, life'[s] = life[s], ended'[s] = ended[s]
    PROVE  SubAgrees(s)'
<1>1. SubAgrees(s)
    BY DEF Sound
<1> QED
    BY <1>1, PubSubAssumption DEF SubAgrees, SameKeys

\* A step of thread t that has nothing to do with messages.
Aside(t) ==
    /\ urgent' = urgent /\ tasks' = tasks /\ got' = got /\ sent' = sent
    /\ th[t].pc \notin {"publish", "patterns"} \cup Handling
    /\ th'[t].pc \notin {"publish", "patterns", "crashed"} \cup Handling
    /\ OthersKept(t)
    /\ th'[t].pc \in Joining \cup Leaving =>
              \/ th[t].pc \in Joining \cup Leaving /\ th'[t].s = th[t].s
              \/ life[th'[t].s] \in {"none", "live"}
    /\ \A s \in Sub : sub'[s].ref = sub[s].ref + Own(s)' - Own(s)

\* A step aside from the queues of messages keeps the invariant when it keeps what it may
\* disturb.
LEMMA AsideKept ==
    ASSUME Sane, NEW t \in Thread, Aside(t), SameParents, SameKeys, Typed', ThreadAgrees(t)',
           \A a \in Chan : ChannelAgrees(a)', \A k \in Key : KeyAgrees(k)', \A s \in Sub : SubAgrees(s)'
    PROVE  Sane'
<1>1. Sound /\ CountsAgree /\ ~Crashed /\ Typed
    BY DEF Sane, Sound
<1>2. SameFor(Handling) /\ SameFor({"publish", "patterns"})
    BY DEF Aside, SameFor, OthersKept
<1>3. \A s \in Sub, m \in Msg : CallAgrees(s, m)' /\ (Untouched(s, m) => Untouched(s, m)')
    BY <1>1, <1>2, CallKept DEF Aside
<1>4. \A a \in Chan, m \in Msg : PostAgrees(a, m)'
  <2>1. \A a \in Chan, m \in Msg : Queued(a, m)' <=> Queued(a, m)
    BY DEF Queued, Aside
  <2> QED
    BY <1>1, <1>2, <1>3, <2>1, PostKept DEF Aside
<1>5. CountsAgree'
    BY <1>1, <1>2, CountKept DEF Aside
<1>6. ThreadsApart'
    BY <1>1, ApartKept DEF Aside, OthersKept
<1>7. \A u \in Thread : ThreadAgrees(u)'
    BY <1>1, ThreadsKept DEF Aside
<1>8. ~Crashed'
    BY <1>1 DEF Crashed, Aside, OthersKept
<1>9. IsInjective(urgent)' /\ IsInjective(tasks)'
    BY <1>1 DEF Aside, Sound, IsInjective
<1> QED
    BY <1>3, <1>4, <1>5, <1>6, <1>7, <1>8, <1>9 DEF Sane, Sound

-----------------------------------------------------------------------------
(* fio_subscribe.                                                          *)

\* What a subscription still unknown to the post office owns.
LEMMA Unknown ==
    ASSUME Sane, NEW s \in Sub, life[s] \in {"none", "subscribing"}
    PROVE  sub[s].ref = Own(s) /\ sub[s].parent = NULL
<1>1. SubAgrees(s) /\ CountAgrees(s) /\ \A m \in Msg : CallAgrees(s, m)
    BY DEF Sane, Sound, CountsAgree
<1>2. sub[s].parent = NULL
    BY <1>1 DEF SubAgrees
<1>3. \A m \in Msg : Untouched(s, m)
    BY <1>1, <1>2 DEF CallAgrees
<1>4. CallsFor(tasks, s) = {}
  <2>1. SUFFICES ASSUME NEW i \in DOMAIN tasks, tasks[i].s = s PROVE FALSE
    BY DEF CallsFor
  <2>2. tasks[i] \in Call /\ i \in 1 .. Len(tasks)
    BY <2>1 DEF Sane, Sound, Typed
  <2>3. tasks[i] = [s |-> s, m |-> tasks[i].m] /\ tasks[i].m \in Msg
    BY <2>1, <2>2 DEF Call
  <2> QED
    BY <2>2, <2>3, <1>3 DEF Untouched, Waits, Contains
<1>5. Handlers(s) = {}
  <2>1. SUFFICES ASSUME NEW t \in Handlers(s) PROVE FALSE
    OBVIOUS
  <2>2. ThreadAgrees(t) /\ th[t].pc \in Handling /\ th[t].s = s
    BY <2>1 DEF Handlers, Sane, Sound
  <2> QED
    BY <2>2, <1>3, <2>1 DEF ThreadAgrees, Handles, Untouched, Handlers
<1>6. sub[s].ref = Own(s) + Cardinality({}) + 0
    BY <1>1, <1>4, <1>5 DEF CountAgrees
<1> QED
    BY <1>2, <1>6, FS_EmptySet DEF Own

\* fio_subscribe makes the subscription, with one reference.
LEMMA Subscribes ==
    ASSUME Sane, NEW t \in Subscriber, NEW s \in Sub, NEW k \in Key, fio_subscribe(t, s, k)
    PROVE  Sane'
<1> DEFINE work == [NoWork EXCEPT !.pc = "insert", !.s = s, !.key = k]
<1>1. Sound /\ Typed /\ t \in Thread /\ Typed
    BY DEF Sane, Sound, Thread, Caller
<1>2. th[t].pc = "idle" /\ th' = [th EXCEPT ![t] = work] /\ gvl' \in {gvl, t}
    BY DEF fio_subscribe, Enter
<1>3. work \in Place /\ work.pc = "insert" /\ work.s = s /\ work.key = k
    BY DEF NoWork, Place, Joining
<1> HIDE DEF work
<1>4. th' \in [Thread -> Place] /\ th'[t] = work /\ \A u \in Thread \ {t} : th'[u] = th[u]
    BY <1>1, <1>2, <1>3 DEF Typed
<1>5. /\ life[s] = "none" /\ life' = [life EXCEPT ![s] = "subscribing"]
      /\ sub' = [sub EXCEPT ![s] = [sub[s] EXCEPT !.ref = 1, !.active = TRUE]]
      /\ UNCHANGED <<channels, chan, msg, urgent, tasks, engine, ended, got, due, sent, defers, attaches>>
    BY DEF fio_subscribe
<1>6. sub' \in [Sub -> Subscription] /\ sub'[s].parent = sub[s].parent
  <2> DEFINE v == [sub[s] EXCEPT !.ref = 1, !.active = TRUE]
  <2>1. sub[s] \in Subscription
    BY <1>1 DEF Typed
  <2>2. 1 \in Int /\ TRUE \in BOOLEAN
    OBVIOUS
  <2>3. v \in Subscription
    BY <2>1, <2>2, SubscriptionPatched, Zenon
  <2>4. v.parent = sub[s].parent
    BY <2>1 DEF Subscription
  <2> HIDE DEF v
  <2>5. sub' = [sub EXCEPT ![s] = v]
    BY <1>5 DEF v
  <2> QED
    BY <1>1, <2>3, <2>4, <2>5 DEF Typed
<1>7. /\ \A x \in Sub : sub'[x].parent = sub[x].parent /\ sub'[x].lock = sub[x].lock
      /\ \A x \in Sub \ {s} : sub'[x] = sub[x] /\ life'[x] = life[x]
      /\ sub'[s].ref = 1 /\ sub'[s].active /\ life'[s] = "subscribing"
    BY <1>1, <1>5 DEF Typed, Subscription
<1>8. Typed'
    BY <1>1, <1>2, <1>4, <1>5, <1>6 DEF Typed
<1>9. SameLists
    BY <1>5, <1>7 DEF SameLists
<1>10. OthersKept(t)
    BY <1>4, <1>5, <1>7 DEF OthersKept
<1>11. \A x \in Sub : sub'[x].ref = sub[x].ref + Own(x)' - Own(x)
  <2>1. sub[s].ref = 0 /\ Own(s) = 0 /\ Own(s)' = 1
    BY <1>5, <1>7, Unknown DEF Own
  <2>2. \A x \in Sub \ {s} : Own(x)' = Own(x) /\ Own(x) \in Nat /\ sub[x].ref \in Int
    BY <1>1, <1>7 DEF Own, Typed, Subscription
  <2> QED
    BY <2>1, <2>2, <1>7
<1>12. Aside(t)
    BY <1>2, <1>3, <1>4, <1>5, <1>10, <1>11 DEF Aside, Handling, Joining, Leaving
<1>13. ThreadAgrees(t)'
    BY <1>3, <1>4, <1>7 DEF ThreadAgrees, Joining, Leaving, Handling
<1>14. ASSUME NEW x \in Sub PROVE SubAgrees(x)'
  <2>1. CASE x = s
    <3>1. SubAgrees(s)
      BY <1>1 DEF Sound
    <3>2. ended'[s] = 0 /\ sub'[s].parent = NULL
      BY <3>1, <1>5, <1>7, Unknown DEF SubAgrees
    <3> QED
      BY <2>1, <3>2, <1>7, PubSubAssumption DEF SubAgrees
  <2>2. CASE x # s
    BY <2>2, <1>1, <1>5, <1>7, <1>9, ListsKept, SubKept
  <2> QED
    BY <2>1, <2>2
<1>15. \A a \in Chan : ChannelAgrees(a)'
    BY <1>1, <1>3, <1>4, <1>9, <1>10, ListedKept
<1> QED
    BY <1>1, <1>8, <1>9, <1>12, <1>13, <1>14, <1>15, ListsKept, AsideKept

\* fio_subscribe without a callback calls on_unsubscribe of a subscription nobody else
\* knows.
LEMMA SubscribesNothing ==
    ASSUME Sane, NEW t \in Subscriber, NEW s \in Sub, fio_subscribe_error(t, s)
    PROVE  Sane'
<1>1. Sound /\ Typed /\ t \in Thread
    BY DEF Sane, Sound, Thread, Caller
<1>2. /\ th[t].pc = "idle" /\ life[s] = "none" /\ life' = [life EXCEPT ![s] = "cancelled"]
      /\ ended' = [ended EXCEPT ![s] = ended[s] + 1]
      /\ UNCHANGED <<channels, chan, sub, msg, urgent, tasks, th, gvl, engine, got, due, sent, defers, attaches>>
    BY DEF fio_subscribe_error
<1>3. Typed'
    BY <1>1, <1>2 DEF Typed
<1>4. SameLists
    BY <1>2 DEF SameLists
<1>5. \A x \in Sub \ {s} : ended'[x] = ended[x] /\ life'[x] = life[x]
    BY <1>1, <1>2 DEF Typed
<1>6. life'[s] = "cancelled" /\ ended'[s] = ended[s] + 1
    BY <1>1, <1>2 DEF Typed
<1>7. sub[s].ref = 0 /\ Own(s) = 0 /\ Own(s)' = 0 /\ sub[s].parent = NULL
    BY <1>2, <1>6, Unknown DEF Own
<1>8. \A x \in Sub : sub'[x].ref = sub[x].ref + Own(x)' - Own(x)
  <2>1. \A x \in Sub \ {s} : Own(x)' = Own(x) /\ Own(x) \in Nat /\ sub[x].ref \in Int
    BY <1>1, <1>5 DEF Own, Typed, Subscription
  <2> QED
    BY <1>2, <1>7, <2>1
<1>9. Aside(t)
    BY <1>2, <1>5, <1>8 DEF Aside, OthersKept, Handling, Joining, Leaving
<1>10. ThreadAgrees(t)'
    BY <1>2 DEF ThreadAgrees, Joining, Leaving, Handling
<1>11. ASSUME NEW x \in Sub PROVE SubAgrees(x)'
  <2>1. CASE x = s
    <3>1. SubAgrees(s)
      BY <1>1 DEF Sound
    <3>2. ended[s] = 0 /\ ~sub[s].active
      BY <3>1, <1>2 DEF SubAgrees
    <3> QED
      BY <2>1, <3>2, <1>2, <1>6, <1>7, PubSubAssumption DEF SubAgrees
  <2>2. CASE x # s
    BY <2>2, <1>1, <1>2, <1>4, <1>5, ListsKept, SubKept
  <2> QED
    BY <2>1, <2>2
<1>12. \A a \in Chan : ChannelAgrees(a)'
    BY <1>1, <1>2, <1>4, <1>9, ListedKept DEF Aside
<1> QED
    BY <1>1, <1>3, <1>4, <1>9, <1>10, <1>11, <1>12, ListsKept, AsideKept

\* fio_ch_set_insert finds the channel or makes it, empty, in its collection.
LEMMA Inserts ==
    ASSUME Sane, NEW t \in Caller, set_insert(t)
    PROVE  Sane'
<1> DEFINE k == th[t].key
           free == {b \in Chan : chan[b].key = NULL}
           new == CHOOSE b \in Chan : chan[b].key = NULL /\ \A c \in Chan : chan[c].key = NULL => b <= c
<1>1. Sound /\ Typed /\ t \in Thread /\ ThreadAgrees(t)
    BY DEF Sane, Sound, Thread
<1>2. /\ th[t].pc = "insert" /\ k \in Key /\ th[t].s \in Sub /\ life[th[t].s] = "subscribing" /\ k # NULL
      /\ UNCHANGED <<sub, msg, urgent, tasks, gvl, engine, life, ended, got, due, sent, defers, attaches>>
    BY <1>1, PubSubAssumption DEF set_insert, ThreadAgrees, Joining
<1>3. PICK a \in Chan :
        /\ th' = [th EXCEPT ![t] = [th[t] EXCEPT !.pc = "lock", !.ch = a]]
        /\ \/ /\ chan[a].key = NULL /\ channels' = [channels EXCEPT ![k] = a]
              /\ chan' = [chan EXCEPT ![a] = [chan[a] EXCEPT !.key = k, !.ref = 1]]
           \/ channels' = channels /\ chan' = Destroyed(chan, th[t].tmpl)
  <2>1. CASE channels[k] = NULL
    <3>1. free # {} /\ free \in SUBSET Nat
      BY <2>1, PubSubAssumption DEF set_insert
    <3>2. \E b \in free : \A c \in free : b <= c
      <4> HIDE DEF free
      <4> QED
        BY <3>1, Least
    <3>3. new \in Chan /\ chan[new].key = NULL
      BY <3>2
    <3>4. /\ th' = [th EXCEPT ![t] = [th[t] EXCEPT !.pc = "lock", !.ch = new]]
          /\ channels' = [channels EXCEPT ![k] = new]
          /\ chan' = [chan EXCEPT ![new] = [chan[new] EXCEPT !.key = k, !.ref = 1]]
      BY <2>1 DEF set_insert
    <3> HIDE DEF new
    <3> QED
      BY <3>3, <3>4
  <2>2. CASE channels[k] # NULL
    <3>1. channels[k] \in Chan
      BY <1>1, <1>2, <2>2 DEF Typed
    <3>2. /\ th' = [th EXCEPT ![t] = [th[t] EXCEPT !.pc = "lock", !.ch = channels[k]]]
          /\ channels' = channels /\ chan' = Destroyed(chan, th[t].tmpl)
      BY <2>2 DEF set_insert
    <3> QED
      BY <3>1, <3>2
  <2> QED
    BY <2>1, <2>2
<1> HIDE DEF k, free, new
<1>4. /\ th' \in [Thread -> Place] /\ \A u \in Thread \ {t} : th'[u] = th[u]
      /\ th'[t].pc = "lock" /\ th'[t].ch = a /\ th'[t].s = th[t].s /\ th'[t].key = k
  <2>1. /\ "lock" \in {"idle", "patterns", "reattach", "publish", "crashed"} \cup Joining \cup Leaving \cup Handling
        /\ a \in Chan \cup {NULL}
    BY DEF Joining
  <2> DEFINE w == [th[t] EXCEPT !.pc = "lock", !.ch = a]
  <2>2. w = [th[t] EXCEPT !.pc = "lock", !.ch = a]
    OBVIOUS
  <2> HIDE DEF w
  <2>3. th' = [th EXCEPT ![t] = w]
    BY <1>3 DEF w
  <2>4. /\ [th EXCEPT ![t] = w] \in [Thread -> Place]
        /\ [th EXCEPT ![t] = w][t] = w /\ \A u \in Thread \ {t} : [th EXCEPT ![t] = w][u] = th[u]
        /\ w.pc = "lock" /\ w.ch = a /\ w.s = th[t].s /\ w.key = th[t].key
    <3>1. th[t] \in Place /\ th \in [Thread -> Place]
      BY <1>1 DEF Typed
    <3>2. w \in Place
      BY <3>1, <2>1, <2>2 DEF Place
    <3>3. w.pc = "lock" /\ w.ch = a /\ w.s = th[t].s /\ w.key = th[t].key
      BY <3>1, <2>2 DEF Place
    <3> QED
      BY <3>1, <3>2, <3>3, <1>1
  <2> QED
    BY <2>3, <2>4 DEF k
<1>5. /\ chan' \in [Chan -> Channel] /\ channels' \in [Key -> Chan \cup {NULL}]
      /\ \A b \in Chan : chan'[b].subs = chan[b].subs
      /\ SameKeys /\ \A j \in Key : KeyAgrees(j)'
  <2>1. chan \in [Chan -> Channel] /\ channels \in [Key -> Chan \cup {NULL}] /\ \A j \in Key : KeyAgrees(j)
    BY <1>1 DEF Typed, Sound
  <2>2. CASE channels' = channels /\ chan' = Destroyed(chan, th[t].tmpl)
    <3> DEFINE x == th[t].tmpl
               v == [chan[x] EXCEPT !.ref = chan[x].ref - 1]
    <3>1. x \in Chan => v \in Channel /\ v.key = chan[x].key /\ v.subs = chan[x].subs
      <4>1. SUFFICES ASSUME x \in Chan PROVE v \in Channel /\ v.key = chan[x].key /\ v.subs = chan[x].subs
        OBVIOUS
      <4>2. chan[x] \in Channel /\ chan[x].ref - 1 \in Int
        BY <2>1, <4>1 DEF Channel
      <4> QED
        BY <4>2, RefPatched, Zenon
    <3>2. chan' = chan \/ chan' = [chan EXCEPT ![x] = v]
      BY <2>2 DEF Destroyed, fio_channel_free
    <3> HIDE DEF x, v
    <3>3. /\ chan' \in [Chan -> Channel]
          /\ \A b \in Chan : chan'[b].key = chan[b].key /\ chan'[b].subs = chan[b].subs
      BY <2>1, <3>1, <3>2
    <3> QED
      BY <2>1, <2>2, <3>3 DEF SameKeys, KeyAgrees
  <2>3. CASE /\ chan[a].key = NULL /\ channels' = [channels EXCEPT ![k] = a]
             /\ chan' = [chan EXCEPT ![a] = [chan[a] EXCEPT !.key = k, !.ref = 1]]
    <3> DEFINE v == [chan[a] EXCEPT !.key = k, !.ref = 1]
    <3>1. v \in Channel /\ v.key = k /\ v.subs = chan[a].subs
      <4>1. chan[a] \in Channel /\ 1 \in Int
        BY <2>1
      <4> QED
        BY <4>1, <1>2 DEF Channel
    <3>2. chan' = [chan EXCEPT ![a] = v]
      BY <2>3
    <3> HIDE DEF v
    <3>3. /\ chan' \in [Chan -> Channel] /\ channels' \in [Key -> Chan \cup {NULL}]
          /\ chan'[a] = v /\ \A b \in Chan \ {a} : chan'[b] = chan[b]
      BY <2>1, <2>3, <3>1, <3>2
    <3>4. ASSUME NEW j \in Key PROVE KeyAgrees(j)'
      <4>1. CASE j = k
        BY <2>1, <2>3, <3>1, <3>3, <4>1, <1>2 DEF KeyAgrees
      <4>2. CASE j # k
        <5>1. channels'[j] = channels[j] /\ channels[j] \in Chan \cup {NULL}
          BY <2>1, <2>3, <4>2, <1>2
        <5>2. j # NULL /\ KeyAgrees(j)
          BY <2>1, PubSubAssumption
        <5>3. channels[j] # a
          BY <5>2, <2>3, PubSubAssumption DEF KeyAgrees
        <5> QED
          BY <5>1, <5>2, <5>3, <3>3 DEF KeyAgrees
      <4> QED
        BY <4>1, <4>2
    <3> QED
      BY <3>1, <3>3, <3>4, <2>3 DEF SameKeys
  <2> QED
    BY <1>3, <2>2, <2>3
<1>6. Typed'
    BY <1>1, <1>2, <1>4, <1>5 DEF Typed
<1>7. SameParents /\ \A s \in Sub : SubAgrees(s)'
    BY <1>1, <1>2, <1>5, SubKept DEF SameParents
<1>8. ASSUME NEW b \in Chan PROVE ChannelAgrees(b)'
  <2>1. ChannelAgrees(b)
    BY <1>1 DEF Sound
  <2>2. \A u \in Thread : th'[u].pc \in {"destroy", "finish"} => th'[u] = th[u]
    BY <1>4
  <2> QED
    BY <2>1, <2>2, <1>2, <1>5 DEF ChannelAgrees, IsInjective
<1>9. \A s \in Sub : sub'[s].ref = sub[s].ref + Own(s)' - Own(s)
    BY <1>1, <1>2 DEF Own, Typed, Subscription
<1>10. Aside(t)
    BY <1>2, <1>4, <1>9 DEF Aside, OthersKept, Handling, Joining, Leaving
<1>11. ThreadAgrees(t)'
    BY <1>2, <1>4 DEF ThreadAgrees, Joining, Leaving, Handling
<1> QED
    BY <1>1, <1>5, <1>6, <1>7, <1>8, <1>10, <1>11, AsideKept

\* A step that leaves lists and subscriptions alone too.
LEMMA OutsideKept ==
    ASSUME Sane, NEW t \in Thread, OthersStay(t), Typed', ThreadAgrees(t)', SameLists,
           UNCHANGED <<urgent, tasks, got, sent, sub, life, ended>>,
           th[t].pc \notin {"publish", "patterns"} \cup Handling,
           th'[t].pc \notin {"publish", "patterns", "crashed"} \cup Handling,
           th'[t].pc \in Joining \cup Leaving => th[t].pc \in Joining \cup Leaving /\ th'[t].s = th[t].s,
           th'[t].pc \in {"destroy", "finish"} => th[t].pc \in {"destroy", "finish"}
    PROVE  Sane'
<1>1. Sound /\ Typed
    BY DEF Sane, Sound
<1>2. \A s \in Sub : sub'[s].ref = sub[s].ref + Own(s)' - Own(s)
    BY <1>1 DEF Own, Typed, Subscription
<1>3. Aside(t)
    BY <1>2 DEF Aside, OthersStay, OthersKept
<1>4. \A s \in Sub : SubAgrees(s)'
    BY <1>1, ListsKept, SubKept
<1>5. \A a \in Chan : ChannelAgrees(a)'
    BY <1>1, <1>3, ListedKept DEF Aside, Leaving
<1> QED
    BY <1>1, <1>3, <1>4, <1>5, ListsKept, AsideKept

\* fio_filter_dup_lock_internal waits for the channel's lock.
LEMMA LocksChannel ==
    ASSUME Sane, NEW t \in Caller, channel_lock(t)
    PROVE  Sane'
<1> DEFINE ch == th[t].ch
           v  == [chan[ch] EXCEPT !.lock = t]
<1>1. Sound /\ Typed /\ t \in Thread /\ ThreadAgrees(t)
    BY DEF Sane, Sound, Thread
<1>2. /\ th[t].pc = "lock" /\ Goto(t, "locked") /\ chan' = [chan EXCEPT ![ch] = v]
      /\ UNCHANGED <<channels, sub, msg, urgent, tasks, engine, life, ended, got, due, sent, defers, attaches>>
    BY DEF channel_lock
<1>3. ch \in Chan /\ chan \in [Chan -> Channel]
    BY <1>1, <1>2 DEF ThreadAgrees, Typed
<1>4. v \in Channel /\ v.key = chan[ch].key /\ v.subs = chan[ch].subs
  <2>1. chan[ch] \in Channel /\ t \in Thread \cup {NULL}
    BY <1>1, <1>3
  <2> QED
    BY <2>1, LockPatched, Zenon
<1> HIDE DEF ch, v
<1>5. chan' \in [Chan -> Channel] /\ \A a \in Chan : chan'[a].key = chan[a].key /\ chan'[a].subs = chan[a].subs
    BY <1>2, <1>3, <1>4
<1>6. OthersStay(t) /\ gvl' = gvl /\ th'[t].pc = "locked" /\ th'[t].s = th[t].s /\ th'[t].ch = ch /\ th'[t].key = th[t].key
  <2>1. "locked" \in Pcs
    BY DEF Pcs, Joining
  <2> QED
    BY <2>1, <1>1, <1>2, Goes DEF ch
<1>7. Typed'
    BY <1>1, <1>2, <1>5, <1>6 DEF Typed, OthersStay
<1>8. SameLists
    BY <1>2, <1>5 DEF SameLists
<1>9. ThreadAgrees(t)'
    BY <1>1, <1>2, <1>3, <1>6 DEF ThreadAgrees, Joining, Leaving, Handling
<1> QED
    BY <1>1, <1>2, <1>6, <1>7, <1>8, <1>9, OutsideKept DEF Joining, Leaving, Handling

\* fio_filter_dup_lock_internal finds the channel still listed, or inserts again.
LEMMA Finds ==
    ASSUME Sane, NEW t \in Caller, channel_found(t)
    PROVE  Sane'
<1> DEFINE ch == th[t].ch
           s  == th[t].s
           k  == th[t].key
<1>1. Sound /\ Typed /\ t \in Thread /\ ThreadAgrees(t)
    BY DEF Sane, Sound, Thread
<1>2. /\ th[t].pc = "locked"
      /\ UNCHANGED <<channels, msg, urgent, tasks, ended, got, due, sent, defers, attaches>>
    BY DEF channel_found
<1>3. ch \in Chan /\ s \in Sub /\ k \in Key /\ life[s] = "subscribing" /\ chan \in [Chan -> Channel]
    BY <1>1, <1>2 DEF ThreadAgrees, Typed, Joining
<1>4. CASE channels[k] # ch
  <2> DEFINE v == [chan[ch] EXCEPT !.lock = NULL]
             w == [th[t] EXCEPT !.pc = "insert", !.tmpl = ch]
  <2>1. chan' = [chan EXCEPT ![ch] = v] /\ th' = [th EXCEPT ![t] = w] /\ UNCHANGED <<engine, sub, life, gvl>>
    BY <1>4 DEF channel_found
  <2>2. v \in Channel /\ v.key = chan[ch].key /\ v.subs = chan[ch].subs
    <3>1. chan[ch] \in Channel /\ NULL \in Thread \cup {NULL}
      BY <1>3
    <3> QED
      BY <3>1, LockPatched, Zenon
  <2>3. w \in Place /\ w.pc = "insert" /\ w.s = s /\ w.key = k
    <3>1. th[t] \in Place /\ "insert" \in Joining
      BY <1>1 DEF Typed, Joining
    <3>2. w \in Place
      BY <3>1, <1>3 DEF Place
    <3> QED
      BY <3>1, <3>2 DEF Place
  <2> HIDE DEF ch, s, k, v, w
  <2>4. chan' \in [Chan -> Channel] /\ \A a \in Chan : chan'[a].key = chan[a].key /\ chan'[a].subs = chan[a].subs
    BY <1>3, <2>1, <2>2
  <2>5. OthersStay(t) /\ th'[t] = w
    BY <1>1, <2>1, <2>3 DEF Typed, OthersStay
  <2>6. Typed'
    BY <1>1, <1>2, <2>1, <2>4, <2>5 DEF Typed, OthersStay
  <2>7. SameLists
    BY <1>2, <2>1, <2>4 DEF SameLists
  <2>8. ThreadAgrees(t)'
    BY <1>3, <2>1, <2>3, <2>5 DEF ThreadAgrees, Joining, Leaving, Handling
  <2> QED
    BY <1>1, <1>2, <2>1, <2>3, <2>5, <2>6, <2>7, <2>8, OutsideKept DEF Joining, Leaving, Handling, s
<1>5. CASE channels[k] = ch
  <2> DEFINE c == fio_channel_dup(chan, ch)
             v == [c[ch] EXCEPT !.subs = Append(c[ch].subs, s), !.lock = NULL]
             y == [sub[s] EXCEPT !.parent = ch]
  <2>1. /\ chan' = [c EXCEPT ![ch] = v] /\ sub' = [sub EXCEPT ![s] = y] /\ life' = [life EXCEPT ![s] = "live"]
        /\ engine' = Told(chan[ch], k) /\ Return(t)
    BY <1>5 DEF channel_found
  <2>2. c \in [Chan -> Channel] /\ \A a \in Chan : c[a].key = chan[a].key /\ c[a].subs = chan[a].subs
    <3> DEFINE x == [chan[ch] EXCEPT !.ref = chan[ch].ref + 1]
    <3>1. x \in Channel /\ x.key = chan[ch].key /\ x.subs = chan[ch].subs
      <4>1. chan[ch] \in Channel /\ chan[ch].ref + 1 \in Int
        BY <1>3 DEF Channel
      <4> QED
        BY <4>1, RefPatched, Zenon
    <3>2. c = [chan EXCEPT ![ch] = x]
      BY DEF fio_channel_dup
    <3> HIDE DEF x, c, ch
    <3> QED
      BY <1>3, <3>1, <3>2
  <2> HIDE DEF c
  <2>3. c[ch] \in Channel /\ c[ch].subs \in Seq(Sub) /\ Append(c[ch].subs, s) \in Seq(Sub)
    <3>1. c[ch] \in Channel /\ c[ch].subs \in Seq(Sub)
      BY <1>3, <2>2 DEF Channel
    <3> QED
      BY <3>1, <1>3, AppendProperties
  <2>4. v \in Channel /\ v.key = chan[ch].key /\ v.subs = Append(chan[ch].subs, s)
    <3>1. v \in Channel
      BY <2>3 DEF Channel
    <3>2. v.key = c[ch].key /\ v.subs = Append(c[ch].subs, s)
      BY <2>3 DEF Channel
    <3> QED
      BY <3>1, <3>2, <2>2, <1>3
  <2>5. y \in Subscription /\ y.parent = ch /\ y.ref = sub[s].ref /\ y.lock = sub[s].lock /\ y.active = sub[s].active
    <3>1. sub[s] \in Subscription
      BY <1>1, <1>3 DEF Typed
    <3>2. y \in Subscription
      BY <3>1, <1>3 DEF Subscription
    <3>3. y.parent = ch /\ y.ref = sub[s].ref /\ y.lock = sub[s].lock /\ y.active = sub[s].active
      BY <3>1 DEF Subscription
    <3> QED
      BY <3>2, <3>3
  <2> HIDE DEF v, y
  <2>6. engine' \in Engine
    BY <2>1, <1>1, <1>3 DEF Typed, Told, ToldOf, Engine
  <2> HIDE DEF ch, s, k
  <2>7. /\ chan' \in [Chan -> Channel] /\ chan'[ch] = v
        /\ \A a \in Chan : chan'[a].key = chan[a].key
        /\ \A a \in Chan \ {ch} : chan'[a].subs = chan[a].subs
    BY <1>3, <2>1, <2>2, <2>4
  <2>8. sub' \in [Sub -> Subscription] /\ sub'[s] = y /\ \A x \in Sub \ {s} : sub'[x] = sub[x]
    BY <1>1, <1>3, <2>1, <2>5 DEF Typed
  <2>9. life'[s] = "live" /\ \A x \in Sub \ {s} : life'[x] = life[x]
    BY <1>1, <1>3, <2>1 DEF Typed
  <2>10. OthersStay(t) /\ th'[t] = NoWork /\ gvl' \in Thread \cup {NULL}
    BY <1>1, <2>1, Returns
  <2>11. Typed'
    BY <1>1, <1>2, <1>3, <2>1, <2>6, <2>7, <2>8, <2>10 DEF Typed, OthersStay
  <2>12. sub[s].parent = NULL
    BY <1>3, Unknown
  <2>13. SameParents /\ SameKeys
    BY <2>7, <2>8, <2>12 DEF SameParents, SameKeys
  <2>14. \A j \in Key : KeyAgrees(j)'
    BY <1>1, <1>2, <2>7 DEF Sound, KeyAgrees, Typed
  <2>15. ASSUME NEW a \in Chan PROVE ChannelAgrees(a)'
    <3>1. ChannelAgrees(a) /\ chan[a].subs \in Seq(Sub) /\ a # NULL
      BY <1>1, PubSubAssumption DEF Sound, Typed, Channel
    <3>2. \A i \in DOMAIN chan[a].subs :
             /\ chan[a].subs[i] \in Sub \ {s} /\ sub[chan[a].subs[i]].parent = a
             /\ life[chan[a].subs[i]] \in {"live", "cancelling"}
             /\ \A u \in Thread : th[u].pc \in {"destroy", "finish"} => th[u].s # chan[a].subs[i]
      BY <3>1, <2>12 DEF ChannelAgrees
    <3>5. \A u \in Thread : th'[u].pc \in {"destroy", "finish"} => th'[u] = th[u] /\ th[u].s # s
      <4>1. \A u \in Thread : th[u].pc \in {"destroy", "finish"} => life[th[u].s] = "cancelling"
        BY <1>1 DEF Sound, ThreadAgrees, Leaving
      <4> QED
        BY <4>1, <2>10, <1>3 DEF OthersStay, NoWork
    <3>3. CASE a # ch
      BY <3>1, <3>2, <3>3, <3>5, <2>7, <2>8, <2>9 DEF ChannelAgrees, IsInjective
    <3>4. CASE a = ch
      <4> DEFINE q == chan[ch].subs
                 r == chan'[ch].subs
      <4>1. q \in Seq(Sub) /\ Len(q) \in Nat /\ DOMAIN q = 1 .. Len(q)
        BY <3>1, <3>4
      <4>2. r = Append(q, s)
        BY <2>7, <2>4
      <4>3. r \in Seq(Sub) /\ Len(r) = Len(q) + 1 /\ r[Len(q) + 1] = s /\ \A i \in 1 .. Len(q) : r[i] = q[i]
        BY <4>1, <4>2, <1>3, AppendProperties
      <4>4. IsInjective(q) /\ \A i \in DOMAIN q :
               /\ q[i] \in Sub \ {s} /\ sub[q[i]].parent = ch /\ life[q[i]] \in {"live", "cancelling"}
               /\ \A u \in Thread : th[u].pc \in {"destroy", "finish"} => th[u].s # q[i]
        BY <3>1, <3>2, <3>4 DEF ChannelAgrees
      <4> HIDE DEF q, r
      <4>5. \A i \in DOMAIN r : i \in 1 .. Len(q) \/ i = Len(q) + 1
        BY <4>1, <4>3
      <4>6. IsInjective(r)
        BY <4>1, <4>3, <4>4, <4>5 DEF IsInjective
      <4>7. \A i \in DOMAIN r : sub'[r[i]].parent = ch /\ life'[r[i]] \in {"live", "cancelling"}
        BY <4>1, <4>3, <4>4, <4>5, <2>8, <2>9, <2>5
      <4>8. \A i \in DOMAIN r, u \in Thread : th'[u].pc \in {"destroy", "finish"} => th'[u].s # r[i]
        BY <4>1, <4>3, <4>4, <4>5, <3>5
      <4> QED
        BY <3>4, <4>6, <4>7, <4>8 DEF ChannelAgrees, r
    <3> QED
      BY <3>3, <3>4
  <2>16. ASSUME NEW x \in Sub PROVE SubAgrees(x)'
    <3>1. SubAgrees(x)
      BY <1>1 DEF Sound
    <3>2. CASE x = s
      <4>1. sub[s].active /\ ended[s] = 0
        BY <3>1, <3>2, <1>3 DEF SubAgrees
      <4>2. chan[ch].key = k
        BY <1>1, <1>3, <1>5, PubSubAssumption DEF Sound, KeyAgrees
      <4> QED
        BY <3>2, <4>1, <4>2, <1>2, <1>3, <2>5, <2>7, <2>8, <2>9 DEF SubAgrees
    <3>3. CASE x # s
      BY <3>3, <1>1, <1>2, <2>8, <2>9, <2>13, SubKept
    <3> QED
      BY <3>2, <3>3
  <2>17. \A x \in Sub : sub'[x].ref = sub[x].ref + Own(x)' - Own(x)
    <3>1. ASSUME NEW x \in Sub PROVE Own(x)' = Own(x) /\ Own(x) \in Nat
      BY <1>3, <2>9 DEF Own
    <3>3. \A x \in Sub : sub'[x].ref = sub[x].ref /\ sub[x].ref \in Int
      BY <1>1, <2>5, <2>8 DEF Typed, Subscription
    <3> QED
      BY <3>1, <3>3
  <2>18. OthersKept(t)
    BY <1>2, <2>5, <2>8, <2>9, <2>10 DEF OthersKept, OthersStay, s
  <2>19. Aside(t)
    BY <1>2, <2>10, <2>17, <2>18 DEF Aside, NoWork, Joining, Leaving, Handling
  <2>20. ThreadAgrees(t)'
    BY <2>10 DEF ThreadAgrees, NoWork, Joining, Leaving, Handling
  <2> QED
    BY <1>1, <2>11, <2>13, <2>14, <2>15, <2>16, <2>19, <2>20, AsideKept
<1> QED
    BY <1>4, <1>5

-----------------------------------------------------------------------------
(* fio_unsubscribe, and the engines.                                       *)

\* fio_unsubscribe begins: the subscription is its caller's alone from here on.
LEMMA Unsubscribes ==
    ASSUME Sane, NEW t \in Subscriber, NEW s \in Sub, fio_unsubscribe(t, s)
    PROVE  Sane'
<1> DEFINE work == [NoWork EXCEPT !.pc = "slock", !.s = s]
<1>1. Sound /\ Typed /\ t \in Thread
    BY DEF Sane, Sound, Thread, Caller
<1>2. /\ life[s] = "live" /\ life' = [life EXCEPT ![s] = "cancelling"] /\ Enter(t, work)
      /\ UNCHANGED <<channels, chan, sub, msg, urgent, tasks, engine, ended, got, due, sent, defers, attaches>>
    BY DEF fio_unsubscribe
<1>3. work \in Place /\ work.pc = "slock" /\ work.s = s
    BY DEF NoWork, Place, Leaving
<1> HIDE DEF work
<1>4. OthersStay(t) /\ th[t].pc = "idle" /\ th'[t] = work /\ gvl' \in Thread \cup {NULL}
    BY <1>1, <1>2, <1>3, Enters
<1>5. life'[s] = "cancelling" /\ \A x \in Sub \ {s} : life'[x] = life[x]
    BY <1>1, <1>2 DEF Typed
<1>6. Typed'
    BY <1>1, <1>2, <1>4 DEF Typed, OthersStay
<1>7. SameLists
    BY <1>2 DEF SameLists
<1>8. \A x \in Sub : sub'[x].ref = sub[x].ref + Own(x)' - Own(x)
  <2>1. \A x \in Sub : Own(x)' = Own(x) /\ Own(x) \in Nat
    BY <1>2, <1>5 DEF Own
  <2>2. \A x \in Sub : sub'[x].ref = sub[x].ref /\ sub[x].ref \in Int
    BY <1>1, <1>2 DEF Typed, Subscription
  <2> QED
    BY <2>1, <2>2
<1>9. Aside(t)
    BY <1>2, <1>3, <1>4, <1>5, <1>8 DEF Aside, OthersKept, OthersStay, Handling, Joining, Leaving
<1>10. ThreadAgrees(t)'
    BY <1>3, <1>4, <1>5 DEF ThreadAgrees, Joining, Leaving, Handling
<1>11. ASSUME NEW x \in Sub PROVE SubAgrees(x)'
  <2>1. SubAgrees(x)
    BY <1>1 DEF Sound
  <2>2. CASE x = s
    BY <2>1, <2>2, <1>2, <1>5 DEF SubAgrees
  <2>3. CASE x # s
    BY <2>3, <1>1, <1>2, <1>5, <1>7, ListsKept, SubKept
  <2> QED
    BY <2>2, <2>3
<1>12. \A a \in Chan : ChannelAgrees(a)'
    BY <1>1, <1>3, <1>4, <1>7, <1>9, ListedKept DEF Aside
<1> QED
    BY <1>1, <1>6, <1>7, <1>9, <1>10, <1>11, <1>12, ListsKept, AsideKept

\* fio_unsubscribe waits for the callback that runs in another thread, and holds its lock.
LEMMA LocksSubscription ==
    ASSUME Sane, NEW t \in Caller, subscription_lock(t)
    PROVE  Sane'
<1>1. Sound /\ Typed /\ t \in Thread /\ ThreadAgrees(t)
    BY DEF Sane, Sound, Thread
<1>2. PICK s : s = th[t].s
    OBVIOUS
<1>3. /\ th[t].pc = "slock" /\ sub[s].lock = NULL /\ Goto(t, "remove")
      /\ sub' = [sub EXCEPT ![s] = [sub[s] EXCEPT !.lock = t]]
      /\ UNCHANGED <<channels, chan, msg, urgent, tasks, engine, life, ended, got, due, sent, defers, attaches>>
    BY <1>2 DEF subscription_lock, CanLock
<1>4. s \in Sub /\ life[s] = "cancelling"
    BY <1>1, <1>2, <1>3 DEF ThreadAgrees, Leaving
<1> DEFINE v == [sub[s] EXCEPT !.lock = t]
<1>5. v \in Subscription /\ v.lock = t /\ v.parent = sub[s].parent /\ v.ref = sub[s].ref /\ v.active = sub[s].active
  <2>1. sub[s] \in Subscription
    BY <1>1, <1>4 DEF Typed
  <2>2. v \in Subscription
    BY <2>1, <1>1 DEF Subscription
  <2> QED
    BY <2>1, <2>2 DEF Subscription
<1>6. sub' = [sub EXCEPT ![s] = v]
    BY <1>3
<1> HIDE DEF v
<1>7. /\ sub' \in [Sub -> Subscription] /\ sub'[s].lock = t
      /\ \A x \in Sub : /\ sub'[x].parent = sub[x].parent /\ sub'[x].ref = sub[x].ref /\ sub'[x].active = sub[x].active
                        /\ sub'[x].lock = sub[x].lock \/ sub[x].lock = NULL
  <2>1. sub \in [Sub -> Subscription]
    BY <1>1 DEF Typed
  <2>2. sub' \in [Sub -> Subscription] /\ sub'[s] = v /\ \A x \in Sub \ {s} : sub'[x] = sub[x]
    BY <2>1, <1>4, <1>5, <1>6
  <2> QED
    BY <2>2, <1>3, <1>4, <1>5
<1>8. OthersStay(t) /\ gvl' = gvl /\ th'[t].pc = "remove" /\ th'[t].s = s
  <2>1. "remove" \in Pcs
    BY DEF Pcs, Leaving
  <2> QED
    BY <2>1, <1>1, <1>2, <1>3, Goes
<1>9. Typed'
    BY <1>1, <1>3, <1>7, <1>8 DEF Typed, OthersStay
<1>10. SameLists
    BY <1>3, <1>7 DEF SameLists
<1>11. \A x \in Sub : sub'[x].ref = sub[x].ref + Own(x)' - Own(x)
  <2>1. \A x \in Sub : Own(x)' = Own(x) /\ Own(x) \in Nat
    BY <1>3 DEF Own
  <2>2. \A x \in Sub : sub'[x].ref = sub[x].ref /\ sub[x].ref \in Int
    BY <1>1, <1>7 DEF Typed, Subscription
  <2> QED
    BY <2>1, <2>2
<1>12. Aside(t)
    BY <1>2, <1>3, <1>7, <1>8, <1>11 DEF Aside, OthersKept, OthersStay, Handling, Joining, Leaving
<1>13. ThreadAgrees(t)'
    BY <1>3, <1>4, <1>7, <1>8 DEF ThreadAgrees, Joining, Leaving, Handling
<1>14. \A x \in Sub : SubAgrees(x)'
    BY <1>1, <1>3, <1>7, <1>10, ListsKept, SubKept
<1>15. \A a \in Chan : ChannelAgrees(a)'
    BY <1>1, <1>8, <1>10, <1>12, ListedKept DEF Aside
<1> QED
    BY <1>1, <1>9, <1>10, <1>12, <1>13, <1>14, <1>15, ListsKept, AsideKept

\* The list without the subscription, and the collection perhaps without the channel.
LEMMA Removes ==
    ASSUME Sane, NEW t \in Caller, subscription_remove(t)
    PROVE  Sane'
<1>1. Sound /\ Typed /\ t \in Thread /\ ThreadAgrees(t)
    BY DEF Sane, Sound, Thread
<1>2. PICK s, ch : s = th[t].s /\ ch = sub[s].parent
    OBVIOUS
<1>3. th[t].pc = "remove" /\ UNCHANGED <<sub, msg, urgent, tasks, gvl, engine, life, ended, got, due, sent, defers, attaches>>
    BY DEF subscription_remove
<1>4. s \in Sub /\ life[s] = "cancelling" /\ sub[s].lock = t
    BY <1>1, <1>2, <1>3 DEF ThreadAgrees, Leaving
<1>5. ch \in Chan /\ chan[ch].key \in Key
    BY <1>1, <1>2, <1>4 DEF Sound, SubAgrees
<1>6. PICK k : k = chan[ch].key
    OBVIOUS
<1> DEFINE r    == Kept(chan[ch].subs, Sub \ {s})
           v    == [chan[ch] EXCEPT !.subs = r]
           left == [chan EXCEPT ![ch] = v]
           x    == channels[k]
           w    == [left[x] EXCEPT !.ref = left[x].ref - 1]
           gone == [th[t] EXCEPT !.pc = "destroy", !.ch = ch, !.key = k]
           stay == [th[t] EXCEPT !.pc = "finish"]
<1>7. /\ channels' = channels \/ channels' = [channels EXCEPT ![k] = NULL]
      /\ chan' = left \/ chan' = [left EXCEPT ![x] = w]
      /\ th' = [th EXCEPT ![t] = gone] \/ th' = [th EXCEPT ![t] = stay]
  <2>1. CASE Emptied(left[ch])
    BY <1>2, <1>6, <2>1 DEF subscription_remove, fio_channel_free
  <2>2. CASE ~Emptied(left[ch])
    BY <1>2, <1>6, <2>2 DEF subscription_remove, fio_channel_free
  <2> QED
    BY <2>1, <2>2
<1>8. chan \in [Chan -> Channel] /\ channels \in [Key -> Chan \cup {NULL}] /\ k \in Key
    BY <1>1, <1>5, <1>6 DEF Typed
<1>9. chan[ch].subs \in Seq(Sub) /\ Keeps(r, chan[ch].subs, Sub \ {s}, Len(chan[ch].subs))
  <2>1. chan[ch].subs \in Seq(Sub)
    BY <1>5, <1>8 DEF Channel
  <2> QED
    BY <2>1, KeptIs
<1> HIDE DEF r
<1>10. v \in Channel /\ v.key = chan[ch].key /\ v.subs = r
  <2>1. chan[ch] \in Channel /\ r \in Seq(Sub)
    BY <1>5, <1>8, <1>9 DEF Keeps
  <2> QED
    BY <2>1, SubsPatched, Zenon
<1> HIDE DEF v
<1>11. left \in [Chan -> Channel] /\ left[ch] = v /\ \A a \in Chan \ {ch} : left[a] = chan[a]
    BY <1>5, <1>8, <1>10
<1> HIDE DEF left
<1>12. x \in Chan => w \in Channel /\ w.key = left[x].key /\ w.subs = left[x].subs
  <2>1. SUFFICES ASSUME x \in Chan PROVE w \in Channel /\ w.key = left[x].key /\ w.subs = left[x].subs
    OBVIOUS
  <2>2. left[x] \in Channel /\ left[x].ref - 1 \in Int
    BY <1>11, <2>1 DEF Channel
  <2> QED
    BY <2>2, RefPatched, Zenon
<1> HIDE DEF x, w
<1>13. /\ chan' \in [Chan -> Channel] /\ \A a \in Chan : chan'[a].key = chan[a].key
       /\ chan'[ch].subs = r /\ \A a \in Chan \ {ch} : chan'[a].subs = chan[a].subs
  <2>1. /\ chan' \in [Chan -> Channel]
        /\ \A a \in Chan : chan'[a].key = left[a].key /\ chan'[a].subs = left[a].subs
    BY <1>7, <1>11, <1>12
  <2> QED
    BY <2>1, <1>5, <1>10, <1>11
<1>14. /\ channels' \in [Key -> Chan \cup {NULL}] /\ \A j \in Key : channels'[j] \in {channels[j], NULL}
    BY <1>7, <1>8
<1>15. /\ OthersStay(t) /\ th'[t].pc \in {"destroy", "finish"} /\ th'[t].s = s
       /\ th'[t].pc = "destroy" => th'[t].ch \in Chan /\ th'[t].key \in Key
  <2>1. th[t] \in Place /\ th \in [Thread -> Place] /\ "destroy" \in Leaving /\ "finish" \in Leaving
    BY <1>1 DEF Typed, Leaving
  <2>2. gone \in Place
    BY <2>1, <1>5, <1>8 DEF Place
  <2>3. gone.pc = "destroy" /\ gone.ch = ch /\ gone.s = s /\ gone.key = k
    BY <2>1, <1>2 DEF Place
  <2>4. stay \in Place
    BY <2>1 DEF Place
  <2>5. stay.pc = "finish" /\ stay.s = s
    BY <2>1, <1>2 DEF Place
  <2> HIDE DEF gone, stay
  <2> QED
    BY <2>1, <2>2, <2>3, <2>4, <2>5, <1>1, <1>5, <1>7, <1>8 DEF OthersStay
<1>16. Typed'
    BY <1>1, <1>3, <1>13, <1>14, <1>15 DEF Typed, OthersStay
<1>17. SameParents /\ SameKeys
    BY <1>3, <1>13 DEF SameParents, SameKeys
<1>18. \A y \in Sub : sub'[y].ref = sub[y].ref + Own(y)' - Own(y)
    BY <1>1, <1>3 DEF Own, Typed, Subscription
<1>19. Aside(t)
    BY <1>2, <1>3, <1>15, <1>18 DEF Aside, OthersKept, OthersStay, Handling, Joining, Leaving
<1>20. ThreadAgrees(t)'
    BY <1>3, <1>4, <1>15 DEF ThreadAgrees, Joining, Leaving, Handling
<1>21. ASSUME NEW a \in Chan PROVE ChannelAgrees(a)'
  <2>1. ChannelAgrees(a) /\ chan[a].subs \in Seq(Sub)
    BY <1>1, <1>8 DEF Sound, Channel
  <2>2. \A u \in Thread : th'[u].pc \in {"destroy", "finish"} => th'[u] = th[u] \/ th'[u].s = s
    BY <1>15 DEF OthersStay
  <2>3. CASE a # ch
    <3>1. \A i \in DOMAIN chan[a].subs : chan[a].subs[i] # s
      BY <2>1, <2>3, <1>2 DEF ChannelAgrees
    <3> QED
      BY <2>1, <2>2, <2>3, <3>1, <1>3, <1>13 DEF ChannelAgrees, IsInjective
  <2>4. CASE a = ch
    <3>1. IsInjective(r)
      BY <2>1, <2>4, <1>9 DEF ChannelAgrees, Keeps
    <3>2. ASSUME NEW i \in DOMAIN r
          PROVE  /\ sub[r[i]].parent = ch /\ life[r[i]] \in {"live", "cancelling"}
                 /\ \A u \in Thread : th'[u].pc \in {"destroy", "finish"} => th'[u].s # r[i]
      <4>1. PICK j \in 1 .. Len(chan[ch].subs) : chan[ch].subs[j] = r[i]
        BY <1>9 DEF Keeps
      <4>2. j \in DOMAIN chan[ch].subs /\ r[i] # s
        BY <4>1, <1>9 DEF Keeps
      <4> QED
        BY <4>1, <4>2, <2>1, <2>2, <2>4 DEF ChannelAgrees
    <3> QED
      BY <3>1, <3>2, <2>4, <1>3, <1>13 DEF ChannelAgrees
  <2> QED
    BY <2>3, <2>4
<1>22. \A j \in Key : KeyAgrees(j)'
    BY <1>1, <1>8, <1>13, <1>14 DEF Sound, KeyAgrees
<1>23. \A y \in Sub : SubAgrees(y)'
    BY <1>1, <1>3, <1>17, SubKept
<1> QED
    BY <1>1, <1>16, <1>17, <1>19, <1>20, <1>21, <1>22, <1>23, AsideKept

\* The engines are told that a channel is gone.
LEMMA TellsEngines ==
    ASSUME Sane, NEW t \in Caller, fio_pubsub_on_channel_destroy(t)
    PROVE  Sane'
<1>1. Sound /\ Typed /\ t \in Thread /\ ThreadAgrees(t)
    BY DEF Sane, Sound, Thread
<1>2. /\ th[t].pc = "destroy" /\ Goto(t, "finish")
      /\ engine' = IF ~engine.attached THEN engine
                   ELSE [engine EXCEPT !.subs = @ \ {th[t].key},
                                       !.overtaken = IF Succeeded(t) THEN @ \cup {th[t].key} ELSE @]
      /\ UNCHANGED <<channels, chan, sub, msg, urgent, tasks, life, ended, got, due, sent, defers, attaches>>
    BY DEF fio_pubsub_on_channel_destroy
<1>3. OthersStay(t) /\ gvl' = gvl /\ th'[t].pc = "finish" /\ th'[t].s = th[t].s
  <2>1. "finish" \in Pcs
    BY DEF Pcs, Leaving
  <2> QED
    BY <2>1, <1>1, <1>2, Goes
<1>4. engine' \in Engine
  <2>1. th[t].key \in Key
    BY <1>1, <1>2 DEF ThreadAgrees
  <2>2. engine \in Engine
    BY <1>1 DEF Typed
  <2> QED
    BY <2>1, <2>2, <1>2 DEF Engine
<1>5. Typed'
    BY <1>1, <1>2, <1>3, <1>4 DEF Typed, OthersStay
<1>6. SameLists
    BY <1>2 DEF SameLists
<1>7. ThreadAgrees(t)'
    BY <1>1, <1>2, <1>3 DEF ThreadAgrees, Joining, Leaving, Handling
<1> QED
    BY <1>1, <1>2, <1>3, <1>5, <1>6, <1>7, OutsideKept DEF Joining, Leaving, Handling

\* fio_unsubscribe ends: the lock is released and the owner's reference dropped.
LEMMA Finishes ==
    ASSUME Sane, NEW t \in Caller, unsubscribe_finish(t)
    PROVE  Sane'
<1>1. Sound /\ Typed /\ t \in Thread /\ ThreadAgrees(t)
    BY DEF Sane, Sound, Thread
<1>2. PICK s : s = th[t].s
    OBVIOUS
<1>3. /\ th[t].pc = "finish" /\ Return(t) /\ life' = [life EXCEPT ![s] = "cancelled"]
      /\ fio_subscription_free(s, Silenced(s), chan)
      /\ UNCHANGED <<channels, msg, urgent, tasks, engine, got, due, sent, defers, attaches>>
    BY <1>2 DEF unsubscribe_finish
<1>4. s \in Sub /\ life[s] = "cancelling" /\ sub[s].lock = t
    BY <1>1, <1>2, <1>3 DEF ThreadAgrees, Leaving
<1> DEFINE v == [sub[s] EXCEPT !.lock = NULL, !.active = FALSE]
<1>5. v \in Subscription /\ v.parent = sub[s].parent /\ v.ref = sub[s].ref /\ v.lock = NULL /\ ~v.active
  <2>1. sub[s] \in Subscription
    BY <1>1, <1>4 DEF Typed
  <2>2. NULL \in Thread \cup {NULL} /\ FALSE \in BOOLEAN
    OBVIOUS
  <2>3. /\ v \in Subscription /\ v.parent = sub[s].parent /\ v.ref = sub[s].ref
        /\ v.lock = NULL /\ v.active = FALSE
    BY <2>1, <2>2, SilencePatched, Zenon
  <2> QED
    BY <2>3
<1>6. Silenced(s) = [sub EXCEPT ![s] = v]
    BY DEF Silenced
<1> HIDE DEF v
<1>7. /\ sub' \in [Sub -> Subscription] /\ \A x \in Sub \ {s} : sub'[x] = sub[x] /\ ended'[x] = ended[x]
      /\ sub'[s].parent = sub[s].parent /\ sub'[s].lock = NULL /\ ~sub'[s].active
      /\ sub'[s].ref = sub[s].ref - 1
      /\ chan' \in [Chan -> Channel]
      /\ \A a \in Chan : chan'[a].key = chan[a].key /\ chan'[a].subs = chan[a].subs
      /\ ended' \in [Sub -> Nat] /\ ended'[s] = IF sub[s].ref = 1 THEN ended[s] + 1 ELSE ended[s]
  <2>1. PICK sb : sb = Silenced(s)
    OBVIOUS
  <2> QED
    BY <2>1, <1>1, <1>3, <1>4, <1>5, <1>6, Frees
<1>8. OthersStay(t) /\ th'[t] = NoWork /\ gvl' \in Thread \cup {NULL}
    BY <1>1, <1>3, Returns
<1>9. life'[s] = "cancelled" /\ \A x \in Sub \ {s} : life'[x] = life[x]
    BY <1>1, <1>3, <1>4 DEF Typed
<1>10. Typed'
    BY <1>1, <1>3, <1>4, <1>7, <1>8 DEF Typed, OthersStay
<1>11. SameLists
    BY <1>3, <1>4, <1>7 DEF SameLists
<1>12. \A x \in Sub : sub'[x].ref = sub[x].ref + Own(x)' - Own(x)
  <2>1. \A x \in Sub : sub[x].ref \in Int
    BY <1>1 DEF Typed, Subscription
  <2>2. Own(s) = 1 /\ Own(s)' = 0
    BY <1>4, <1>9 DEF Own
  <2>3. \A x \in Sub \ {s} : Own(x)' = Own(x) /\ Own(x) \in Nat
    BY <1>9 DEF Own
  <2> QED
    BY <2>1, <2>2, <2>3, <1>7
<1>13. Aside(t)
    BY <1>2, <1>3, <1>4, <1>7, <1>8, <1>9, <1>12 DEF Aside, OthersKept, OthersStay, NoWork, Handling, Joining, Leaving
<1>14. ThreadAgrees(t)'
    BY <1>8 DEF ThreadAgrees, NoWork, Joining, Leaving, Handling
<1>15. ASSUME NEW x \in Sub PROVE SubAgrees(x)'
  <2>1. SubAgrees(x) /\ sub[x].ref \in Int
    BY <1>1 DEF Sound, Typed, Subscription
  <2>2. CASE x = s
    <3>1. ended[s] = 0
      BY <2>1, <2>2, <1>4 DEF SubAgrees
    <3>2. ended'[s] = IF sub'[s].ref = 0 THEN 1 ELSE 0
      BY <2>1, <2>2, <3>1, <1>7
    <3>3. sub'[s].parent \in Chan => chan'[sub'[s].parent].key \in Key
      BY <2>1, <2>2, <1>7 DEF SubAgrees
    <3> QED
      BY <2>2, <3>2, <3>3, <1>7, <1>9 DEF SubAgrees
  <2>3. CASE x # s
    BY <2>3, <1>1, <1>7, <1>9, <1>11, ListsKept, SubKept
  <2> QED
    BY <2>2, <2>3
<1>16. \A a \in Chan : ChannelAgrees(a)'
    BY <1>1, <1>8, <1>11, <1>13, ListedKept DEF Aside, NoWork
<1> QED
    BY <1>1, <1>10, <1>11, <1>13, <1>14, <1>15, <1>16, ListsKept, AsideKept

\* An engine is attached.
LEMMA Attaches ==
    ASSUME Sane, NEW t \in Subscriber, fio_pubsub_attach(t)
    PROVE  Sane'
<1> DEFINE work == [NoWork EXCEPT !.pc = "reattach"]
<1>1. Sound /\ Typed /\ t \in Thread
    BY DEF Sane, Sound, Thread, Caller
<1>2. /\ attaches' = attaches + 1 /\ Enter(t, work)
      /\ UNCHANGED <<channels, chan, sub, msg, urgent, tasks, life, ended, got, due, sent, defers>>
    BY DEF fio_pubsub_attach
<1>3. work \in Place /\ work.pc = "reattach"
    BY DEF NoWork, Place
<1> HIDE DEF work
<1>4. OthersStay(t) /\ th[t].pc = "idle" /\ th'[t] = work /\ gvl' \in Thread \cup {NULL}
    BY <1>1, <1>2, <1>3, Enters
<1>5. engine' \in Engine
    BY <1>1 DEF fio_pubsub_attach, NewEngine, Typed, Engine
<1>6. Typed'
    BY <1>1, <1>2, <1>4, <1>5 DEF Typed, OthersStay
<1>7. SameLists
    BY <1>2 DEF SameLists
<1>8. ThreadAgrees(t)'
    BY <1>3, <1>4 DEF ThreadAgrees, Joining, Leaving, Handling
<1> QED
    BY <1>1, <1>2, <1>3, <1>4, <1>6, <1>7, <1>8, OutsideKept DEF Joining, Leaving, Handling

\* The attached engine is told of the channels there are.
LEMMA Reattaches ==
    ASSUME Sane, NEW t \in Caller, fio_pubsub_reattach(t)
    PROVE  Sane'
<1>1. Sound /\ Typed /\ t \in Thread
    BY DEF Sane, Sound, Thread
<1>2. /\ th[t].pc = "reattach" /\ engine' = ToldOf(Announced) /\ Return(t)
      /\ UNCHANGED <<channels, chan, sub, msg, urgent, tasks, life, ended, got, due, sent, defers, attaches>>
    BY DEF fio_pubsub_reattach
<1>3. OthersStay(t) /\ th'[t] = NoWork /\ gvl' \in Thread \cup {NULL}
    BY <1>1, <1>2, Returns
<1>4. engine' \in Engine
    BY <1>1, <1>2 DEF Typed, Announced, Key, ToldOf, Engine
<1>5. Typed'
    BY <1>1, <1>2, <1>3, <1>4 DEF Typed, OthersStay
<1>6. SameLists
    BY <1>2 DEF SameLists
<1>7. ThreadAgrees(t)'
    BY <1>3 DEF ThreadAgrees, NoWork, Joining, Leaving, Handling
<1> QED
    BY <1>1, <1>2, <1>3, <1>5, <1>6, <1>7, OutsideKept DEF NoWork, Joining, Leaving, Handling

\* An engine is detached.
LEMMA Detaches ==
    ASSUME Sane, NEW t \in Subscriber, fio_pubsub_detach(t)
    PROVE  Sane'
<1>1. Sound /\ Typed /\ t \in Thread
    BY DEF Sane, Sound, Thread, Caller
<1>2. /\ th[t].pc = "idle" /\ engine' = NewEngine(FALSE)
      /\ UNCHANGED <<channels, chan, sub, msg, urgent, tasks, th, gvl, life, ended, got, due, sent, defers, attaches>>
    BY DEF fio_pubsub_detach
<1>3. engine' \in Engine
    BY <1>2 DEF NewEngine, Engine
<1>4. Typed' /\ OthersStay(t)
    BY <1>1, <1>2, <1>3 DEF Typed, OthersStay
<1>5. SameLists
    BY <1>2 DEF SameLists
<1>6. ThreadAgrees(t)'
    BY <1>2 DEF ThreadAgrees, Joining, Leaving, Handling
<1> QED
    BY <1>1, <1>2, <1>4, <1>5, <1>6, OutsideKept DEF Joining, Leaving, Handling

-----------------------------------------------------------------------------
(* The two queues.                                                         *)

\* The head of a queue without duplicates, and what is left of it.
LEMMA TailIs ==
    ASSUME NEW S, NEW q \in Seq(S), q # <<>>, IsInjective(q)
    PROVE  /\ Head(q) \in S /\ Contains(q, Head(q)) /\ Tail(q) \in Seq(S) /\ IsInjective(Tail(q))
           /\ \A x : Contains(Tail(q), x) <=> Contains(q, x) /\ x # Head(q)
<1>1. /\ Head(q) \in S /\ Tail(q) \in Seq(S) /\ Len(Tail(q)) = Len(q) - 1 /\ Len(q) \in Nat /\ Len(q) # 0
      /\ \A i \in 1 .. Len(Tail(q)) : Tail(q)[i] = q[i + 1]
      /\ Head(q) = q[1] /\ DOMAIN q = 1 .. Len(q) /\ DOMAIN Tail(q) = 1 .. Len(q) - 1
    BY HeadTailProperties, EmptySeq
<1>2. PICK n \in Nat : n = Len(q)
    BY <1>1
<1>3. PICK r : r = Tail(q)
    OBVIOUS
<1>4. /\ n # 0 /\ DOMAIN q = 1 .. n /\ DOMAIN r = 1 .. n - 1 /\ Len(r) = n - 1
      /\ \A i \in 1 .. n - 1 : r[i] = q[i + 1]
    BY <1>1, <1>2, <1>3
<1>5. \A i, j \in 1 .. n : q[i] = q[j] => i = j
    BY <1>4 DEF IsInjective
<1>6. IsInjective(r)
  <2>1. SUFFICES ASSUME NEW i \in 1 .. n - 1, NEW j \in 1 .. n - 1, r[i] = r[j] PROVE i = j
    BY <1>4 DEF IsInjective
  <2>2. i + 1 \in 1 .. n /\ j + 1 \in 1 .. n /\ q[i + 1] = q[j + 1]
    BY <1>4, <2>1
  <2>3. i + 1 = j + 1
    BY <1>5, <2>2
  <2> QED
    BY <2>3
<1>7. ASSUME NEW x PROVE Contains(r, x) <=> Contains(q, x) /\ x # Head(q)
  <2>1. ASSUME Contains(r, x) PROVE Contains(q, x) /\ x # Head(q)
    <3>1. PICK i \in 1 .. n - 1 : r[i] = x
      BY <2>1, <1>4 DEF Contains
    <3>2. i + 1 \in 1 .. n /\ q[i + 1] = x /\ 1 \in 1 .. n /\ i + 1 # 1
      BY <1>4, <3>1
    <3>3. q[1] # x
      BY <1>5, <3>2
    <3> QED
      BY <3>2, <3>3, <1>1, <1>2 DEF Contains
  <2>2. ASSUME Contains(q, x), x # Head(q) PROVE Contains(r, x)
    <3>1. PICK i \in 1 .. n : q[i] = x
      BY <2>2, <1>2 DEF Contains
    <3>2. i # 1 /\ i - 1 \in 1 .. n - 1 /\ (i - 1) + 1 = i
      BY <2>2, <3>1, <1>1
    <3>3. r[i - 1] = q[i]
      BY <3>2, <1>4
    <3> QED
      BY <3>1, <3>2, <3>3, <1>4 DEF Contains
  <2> QED
    BY <2>1, <2>2
<1>8. Contains(q, Head(q))
  <2>1. 1 \in 1 .. Len(q)
    BY <1>1
  <2> QED
    BY <2>1, <1>1 DEF Contains
<1> QED
    BY <1>1, <1>3, <1>6, <1>7, <1>8

\* Two queues with nothing in common, one after the other.
LEMMA ConcatIs ==
    ASSUME NEW S, NEW q \in Seq(S), NEW r \in Seq(S), IsInjective(q), IsInjective(r),
           \A x \in S : ~(Contains(q, x) /\ Contains(r, x))
    PROVE  /\ q \o r \in Seq(S) /\ IsInjective(q \o r)
           /\ \A x : Contains(q \o r, x) <=> Contains(q, x) \/ Contains(r, x)
<1>0. PICK n \in Nat, m \in Nat : n = Len(q) /\ m = Len(r)
    BY LenProperties
<1>1. PICK p : n = Len(q) /\ m = Len(r) /\ p = q \o r
    BY <1>0
<1>2. p \in Seq(S) /\ Len(p) = n + m /\ \A i \in 1 .. n + m : p[i] = IF i <= n THEN q[i] ELSE r[i - n]
    BY <1>1, ConcatProperties
<1>3. DOMAIN p = 1 .. n + m /\ DOMAIN q = 1 .. n /\ DOMAIN r = 1 .. m
    BY <1>1, <1>2
<1>4. \A i \in 1 .. n : p[i] = q[i] /\ i \in 1 .. n + m /\ q[i] \in S
    BY <1>1, <1>2
<1>5. \A i \in 1 .. m : p[n + i] = r[i] /\ n + i \in 1 .. n + m /\ r[i] \in S
  <2>1. SUFFICES ASSUME NEW i \in 1 .. m PROVE p[n + i] = r[i] /\ n + i \in 1 .. n + m /\ r[i] \in S
    OBVIOUS
  <2>2. n + i \in 1 .. n + m /\ ~(n + i <= n) /\ (n + i) - n = i
    OBVIOUS
  <2>3. r[i] \in S
    BY <1>1
  <2> QED
    BY <2>2, <2>3, <1>2
<1>6. \A i \in 1 .. n + m : i \in 1 .. n \/ \E j \in 1 .. m : i = n + j
  <2>1. SUFFICES ASSUME NEW i \in 1 .. n + m, i \notin 1 .. n PROVE \E j \in 1 .. m : i = n + j
    OBVIOUS
  <2>2. i - n \in 1 .. m /\ i = n + (i - n)
    BY <2>1
  <2> QED
    BY <2>2
<1>7. ASSUME NEW x PROVE Contains(p, x) <=> Contains(q, x) \/ Contains(r, x)
  <2>1. ASSUME Contains(q, x) \/ Contains(r, x) PROVE Contains(p, x)
    <3>1. (\E i \in 1 .. n : q[i] = x) \/ (\E i \in 1 .. m : r[i] = x)
      BY <2>1, <1>1 DEF Contains
    <3>2. \E i \in 1 .. n + m : p[i] = x
      BY <3>1, <1>4, <1>5
    <3> QED
      BY <3>2, <1>2 DEF Contains
  <2>2. ASSUME Contains(p, x) PROVE Contains(q, x) \/ Contains(r, x)
    <3>1. PICK i \in 1 .. n + m : p[i] = x
      BY <2>2, <1>2 DEF Contains
    <3> QED
      BY <3>1, <1>1, <1>4, <1>5, <1>6 DEF Contains
  <2> QED
    BY <2>1, <2>2
<1>8. \A i \in 1 .. n, j \in 1 .. m : q[i] # r[j]
    BY <1>1, <1>4, <1>5 DEF Contains
<1>9. IsInjective(p)
  <2>1. SUFFICES ASSUME NEW i \in 1 .. n + m, NEW j \in 1 .. n + m, p[i] = p[j] PROVE i = j
    BY <1>3 DEF IsInjective
  <2>2. CASE i \in 1 .. n /\ j \in 1 .. n
    <3>1. q[i] = q[j]
      BY <2>1, <2>2, <1>4
    <3> QED
      BY <2>2, <3>1, <1>3 DEF IsInjective
  <2>3. CASE i \notin 1 .. n /\ j \notin 1 .. n
    <3>1. PICK k \in 1 .. m, l \in 1 .. m : i = n + k /\ j = n + l
      BY <2>3, <1>6
    <3>2. r[k] = r[l]
      BY <2>1, <3>1, <1>5
    <3> QED
      BY <3>1, <3>2, <1>3 DEF IsInjective
  <2>4. CASE i \in 1 .. n /\ j \notin 1 .. n
    <3>1. PICK l \in 1 .. m : j = n + l
      BY <2>4, <1>6
    <3>2. q[i] = r[l]
      BY <2>1, <2>4, <3>1, <1>4, <1>5
    <3> QED
      BY <2>4, <3>2, <1>8
  <2>5. CASE i \notin 1 .. n /\ j \in 1 .. n
    <3>1. PICK k \in 1 .. m : i = n + k
      BY <2>5, <1>6
    <3>2. q[j] = r[k]
      BY <2>1, <2>5, <3>1, <1>4, <1>5
    <3> QED
      BY <2>5, <3>2, <1>8
  <2> QED
    BY <2>2, <2>3, <2>4, <2>5
<1> QED
    BY <1>1, <1>2, <1>7, <1>9

\* A queue with a new entry.
LEMMA AppendIs ==
    ASSUME NEW S, NEW q \in Seq(S), NEW y \in S, IsInjective(q), ~Contains(q, y)
    PROVE  /\ Append(q, y) \in Seq(S) /\ IsInjective(Append(q, y))
           /\ \A x : Contains(Append(q, y), x) <=> Contains(q, x) \/ x = y
<1>1. PICK r : r = <<y>>
    OBVIOUS
<1>2. r \in Seq(S) /\ Len(r) = 1 /\ DOMAIN r = {1} /\ r[1] = y
    BY <1>1
<1>3. IsInjective(r) /\ \A x : Contains(r, x) <=> x = y
    BY <1>2 DEF IsInjective, Contains
<1>4. Append(q, y) = q \o r
    BY <1>1, AppendIsConcat
<1> QED
    BY <1>2, <1>3, <1>4, ConcatIs

\* A task put back is still there, once.
LEMMA Rotated ==
    ASSUME NEW S, NEW q \in Seq(S), q # <<>>, IsInjective(q)
    PROVE  /\ Append(Tail(q), Head(q)) \in Seq(S) /\ IsInjective(Append(Tail(q), Head(q)))
           /\ \A x : Contains(Append(Tail(q), Head(q)), x) <=> Contains(q, x)
<1>1. /\ Head(q) \in S /\ Contains(q, Head(q)) /\ Tail(q) \in Seq(S) /\ IsInjective(Tail(q))
      /\ \A x : Contains(Tail(q), x) <=> Contains(q, x) /\ x # Head(q)
    BY TailIs
<1>2. PICK y, r : y = Head(q) /\ r = Tail(q)
    OBVIOUS
<1>3. y \in S /\ Contains(q, y) /\ r \in Seq(S) /\ IsInjective(r) /\ ~Contains(r, y)
    BY <1>1, <1>2
<1>4. /\ Append(r, y) \in Seq(S) /\ IsInjective(Append(r, y))
      /\ \A x : Contains(Append(r, y), x) <=> Contains(r, x) \/ x = y
    BY <1>3, AppendIs
<1> QED
    BY <1>1, <1>2, <1>3, <1>4

\* How many calls of a queue are for subscription s.
LEMMA CallsFinite ==
    ASSUME NEW q \in Seq(Call), NEW s
    PROVE  IsFiniteSet(CallsFor(q, s)) /\ Cardinality(CallsFor(q, s)) \in Nat
<1>1. IsFiniteSet(DOMAIN q) /\ CallsFor(q, s) \subseteq DOMAIN q
    BY FS_Interval DEF CallsFor
<1> QED
    BY <1>1, FS_Subset, FS_CardinalityType

\* The calls of a subscription once the head of the queue is taken.
LEMMA CountTail ==
    ASSUME NEW q \in Seq(Call), q # <<>>, NEW s
    PROVE  Cardinality(CallsFor(q, s))
             = Cardinality(CallsFor(Tail(q), s)) + (IF Head(q).s = s THEN 1 ELSE 0)
<1>0. PICK n \in Nat : n = Len(q)
    BY LenProperties
<1>1. PICK r : r = Tail(q) /\ n = Len(q)
    BY <1>0
<1>2. /\ r \in Seq(Call) /\ n # 0 /\ Head(q) = q[1] /\ DOMAIN q = 1 .. n /\ DOMAIN r = 1 .. n - 1
      /\ \A i \in 1 .. n - 1 : r[i] = q[i + 1]
  <2>1. /\ Head(q) \in Call /\ Tail(q) \in Seq(Call) /\ Len(Tail(q)) = Len(q) - 1 /\ Len(q) \in Nat /\ Len(q) # 0
        /\ \A i \in 1 .. Len(Tail(q)) : Tail(q)[i] = q[i + 1]
        /\ Head(q) = q[1] /\ DOMAIN q = 1 .. Len(q) /\ DOMAIN Tail(q) = 1 .. Len(q) - 1
    BY HeadTailProperties, EmptySeq
  <2> QED
    BY <2>1, <1>1
<1> DEFINE A == CallsFor(r, s)
           B == CallsFor(q, s) \ {1}
           f == [i \in A |-> i + 1]
<1>3. \A i : i \in A <=> i \in 1 .. n - 1 /\ q[i + 1].s = s
    BY <1>2 DEF CallsFor
<1>4. \A i : i \in B <=> i \in 1 .. n /\ i # 1 /\ q[i].s = s
    BY <1>2 DEF CallsFor
<1>5. f \in Surjection(A, B) /\ f \in Injection(A, B)
  <2>1. A \subseteq Nat /\ \A i \in A : f[i] = i + 1 /\ i + 1 \in B
    BY <1>2, <1>3, <1>4
  <2>2. \A j \in B : j - 1 \in A /\ f[j - 1] = j
    <3>1. SUFFICES ASSUME NEW j \in B PROVE j - 1 \in A /\ f[j - 1] = j
      OBVIOUS
    <3>2. j \in 1 .. n /\ j # 1 /\ q[j].s = s
      BY <1>4
    <3>3. j - 1 \in 1 .. n - 1 /\ (j - 1) + 1 = j
      BY <3>2
    <3> QED
      BY <3>2, <3>3, <1>3
  <2>3. f \in [A -> B]
    BY <2>1
  <2>4. \A i, j \in A : f[i] = f[j] => i = j
    BY <2>1
  <2> HIDE DEF A, B, f
  <2> QED
    BY <2>2, <2>3, <2>4 DEF Surjection, Injection, IsInjective
<1>6. IsFiniteSet(A) /\ Cardinality(A) \in Nat /\ IsFiniteSet(CallsFor(q, s)) /\ Cardinality(CallsFor(q, s)) \in Nat
    BY <1>2, CallsFinite
<1>7. Cardinality(B) = Cardinality(A)
  <2> HIDE DEF A, B, f
  <2> QED
    BY <1>5, <1>6, FS_Surjection
<1>8. Cardinality(B) = IF 1 \in CallsFor(q, s) THEN Cardinality(CallsFor(q, s)) - 1 ELSE Cardinality(CallsFor(q, s))
    BY <1>6, FS_RemoveElement
<1>9. 1 \in CallsFor(q, s) <=> Head(q).s = s
    BY <1>2 DEF CallsFor
<1> QED
    BY <1>1, <1>6, <1>7, <1>8, <1>9

\* Calls with distinct subscriptions, queued together.
LEMMA CountConcat ==
    ASSUME NEW q \in Seq(Call), NEW r \in Seq(Call), NEW s,
           \A i, j \in DOMAIN r : r[i].s = s /\ r[j].s = s => i = j
    PROVE  Cardinality(CallsFor(q \o r, s))
             = Cardinality(CallsFor(q, s)) + (IF \E i \in DOMAIN r : r[i].s = s THEN 1 ELSE 0)
<1>0. PICK n \in Nat, m \in Nat : n = Len(q) /\ m = Len(r)
    BY LenProperties
<1>1. PICK p : n = Len(q) /\ m = Len(r) /\ p = q \o r
    BY <1>0
<1>2. p \in Seq(Call) /\ Len(p) = n + m /\ \A i \in 1 .. n + m : p[i] = IF i <= n THEN q[i] ELSE r[i - n]
    BY <1>1, ConcatProperties
<1>3. DOMAIN p = 1 .. n + m /\ DOMAIN q = 1 .. n /\ DOMAIN r = 1 .. m
    BY <1>1, <1>2
<1>4. \A i \in 1 .. n : p[i] = q[i] /\ i \in 1 .. n + m
    BY <1>2
<1>5. \A i \in 1 .. n + m : i \notin 1 .. n => i - n \in 1 .. m /\ p[i] = r[i - n]
  <2>1. SUFFICES ASSUME NEW i \in 1 .. n + m, i \notin 1 .. n PROVE i - n \in 1 .. m /\ p[i] = r[i - n]
    OBVIOUS
  <2>2. ~(i <= n) /\ i - n \in 1 .. m
    BY <2>1
  <2> QED
    BY <2>2, <1>2
<1>6. IsFiniteSet(CallsFor(q, s)) /\ Cardinality(CallsFor(q, s)) \in Nat /\ \A i \in CallsFor(q, s) : i \in 1 .. n
    BY <1>3, CallsFinite DEF CallsFor
<1>7. CASE \A i \in 1 .. m : r[i].s # s
  <2>1. CallsFor(p, s) = CallsFor(q, s)
    BY <1>3, <1>4, <1>5, <1>7 DEF CallsFor
  <2> QED
    BY <2>1, <1>1, <1>3, <1>6, <1>7
<1>8. ASSUME NEW k \in 1 .. m, r[k].s = s
      PROVE  Cardinality(CallsFor(p, s)) = Cardinality(CallsFor(q, s)) + 1
  <2>1. PICK x : x = n + k
    OBVIOUS
  <2>2. x \in 1 .. n + m /\ x \notin 1 .. n /\ x - n = k
    BY <2>1
  <2>3. p[x] = r[k]
    BY <2>2, <1>5
  <2>4. ASSUME NEW i \in 1 .. n + m, i \notin 1 .. n, p[i].s = s PROVE i = x
    <3>1. i - n \in 1 .. m /\ r[i - n].s = s
      BY <2>4, <1>5
    <3>2. i - n = k
      BY <3>1, <1>3, <1>8
    <3> QED
      BY <3>2, <2>1
  <2>5. \A i : i \in CallsFor(p, s) <=> i \in CallsFor(q, s) \/ i = x
    BY <2>2, <2>3, <2>4, <1>3, <1>4, <1>8 DEF CallsFor
  <2>6. CallsFor(p, s) = CallsFor(q, s) \cup {x} /\ x \notin CallsFor(q, s)
    BY <2>2, <2>5, <1>6
  <2> QED
    BY <2>6, <1>6, FS_AddElement
<1>9. CASE \E i \in 1 .. m : r[i].s = s
    BY <1>1, <1>3, <1>8, <1>9
<1> QED
    BY <1>7, <1>9

\* The calls of a subscription once an entry is added.
LEMMA CountAppend ==
    ASSUME NEW q \in Seq(Call), NEW y \in Call, NEW s
    PROVE  Cardinality(CallsFor(Append(q, y), s))
             = Cardinality(CallsFor(q, s)) + (IF y.s = s THEN 1 ELSE 0)
<1>1. PICK r : r = <<y>>
    OBVIOUS
<1>2. r \in Seq(Call) /\ DOMAIN r = {1} /\ r[1] = y
    BY <1>1
<1>3. Append(q, y) = q \o r
    BY <1>1, AppendIsConcat
<1> QED
    BY <1>2, <1>3, CountConcat

-----------------------------------------------------------------------------
(* Messages.                                                               *)

\* A step of thread t with messages: lists are left alone.
LEMMA MessageKept ==
    ASSUME Sane, NEW t \in Thread, Typed', OthersKept(t), ThreadAgrees(t)', SameLists,
           th'[t].pc \notin {"crashed"} \cup Joining \cup Leaving,
           th'[t].pc = "patterns" => th'[t].m \notin sent,
           IsInjective(urgent)', IsInjective(tasks)', \A s \in Sub : SubAgrees(s)',
           \A a \in Chan, m \in Msg : PostAgrees(a, m)', \A s \in Sub, m \in Msg : CallAgrees(s, m)', CountsAgree'
    PROVE  Sane'
<1>1. Sound /\ ~Crashed
    BY DEF Sane
<1>2. ThreadsApart'
    BY <1>1, ApartKept DEF OthersKept
<1>3. \A u \in Thread : ThreadAgrees(u)'
    BY <1>1, ThreadsKept
<1>4. ~Crashed'
    BY <1>1 DEF Crashed, OthersKept
<1>5. \A a \in Chan : ChannelAgrees(a)'
    BY <1>1, ListedKept DEF Leaving
<1> QED
    BY <1>1, <1>2, <1>3, <1>4, <1>5, ListsKept DEF Sane, Sound

\* fio_publish posts a new message to the channel of its name.
LEMMA Publishing ==
    ASSUME Sane, NEW t \in Publisher, NEW m \in Msg, NEW k \in Name \cup Filter, fio_publish(t, m, k)
    PROVE  Sane'
<1> DEFINE ch   == channels[k]
           post == [ch |-> ch, m |-> m]
           work == [NoWork EXCEPT !.pc = "patterns", !.m = m, !.key = k]
           keeps == IF k \in Filter THEN 0 ELSE 1
<1>1. Sound /\ Typed /\ CountsAgree /\ t \in Thread /\ t \in Caller /\ k \in Key /\ k \notin Pattern
    BY PubSubAssumption DEF Sane, Sound, Thread, Caller, Key
<1>2. /\ m \notin sent /\ sent' = sent \cup {m} /\ th[t].pc = "idle"
      /\ UNCHANGED <<channels, sub, tasks, engine, life, ended, got, defers, attaches>>
    BY DEF fio_publish, Enter
<1>3. /\ \A a \in Chan : ~Posted(a, m)
      /\ \A s \in Sub : Untouched(s, m)
      /\ \A u \in Thread : th[u].pc = "patterns" => th[u].m # m
    BY <1>1, <1>2 DEF Sound, PostAgrees, CallAgrees, ThreadAgrees
<1>4. \/ ch = NULL /\ chan' = chan /\ urgent' = urgent
      \/ ch # NULL /\ chan' = fio_channel_dup(chan, ch) /\ urgent' = Append(urgent, post)
    BY DEF fio_publish
<1>5. msg' \in [Msg -> Int]
  <2>1. msg' = [msg EXCEPT ![m] = keeps] \/ msg' = [msg EXCEPT ![m] = keeps + 1]
    BY DEF fio_publish
  <2> QED
    BY <2>1, <1>1 DEF Typed
<1>6. due' \subseteq Sub \X Msg
    BY <1>1 DEF fio_publish, Typed, Listeners
<1>7. /\ OthersStay(t) /\ gvl' \in Thread \cup {NULL}
      /\ th'[t].pc \in {"idle", "patterns"}
      /\ th'[t].pc = "patterns" => th'[t].m = m /\ th'[t].key = k /\ k \in Name
  <2>1. CASE k \in Filter
    BY <2>1, <1>1, <1>2 DEF fio_publish, Typed, OthersStay
  <2>2. CASE k \notin Filter
    <3>1. work \in Place /\ work.pc = "patterns" /\ work.m = m /\ work.key = k
      BY <1>1 DEF NoWork, Place
    <3>2. Enter(t, work)
      BY <2>2 DEF fio_publish
    <3> HIDE DEF work
    <3>3. OthersStay(t) /\ th'[t] = work /\ gvl' \in Thread \cup {NULL}
      BY <3>1, <3>2, <1>1, Enters
    <3> QED
      BY <2>2, <3>1, <3>3
  <2> QED
    BY <2>1, <2>2
<1> HIDE DEF work, keeps
<1>8. chan' \in [Chan -> Channel] /\ \A a \in Chan : chan'[a].key = chan[a].key /\ chan'[a].subs = chan[a].subs
  <2> DEFINE v == [chan[ch] EXCEPT !.ref = chan[ch].ref + 1]
  <2>1. ch \in Chan \cup {NULL} /\ chan \in [Chan -> Channel]
    BY <1>1 DEF Typed
  <2>2. CASE ch = NULL
    BY <2>1, <2>2, <1>4
  <2>3. CASE ch # NULL
    <3>1. chan[ch] \in Channel /\ chan[ch].ref + 1 \in Int
      BY <2>1, <2>3 DEF Channel
    <3>2. v \in Channel /\ v.key = chan[ch].key /\ v.subs = chan[ch].subs
      BY <3>1, RefPatched, Zenon
    <3>3. chan' = [chan EXCEPT ![ch] = v]
      BY <2>3, <1>4 DEF fio_channel_dup
    <3> HIDE DEF v, ch
    <3> QED
      BY <2>1, <3>2, <3>3
  <2> QED
    BY <2>2, <2>3
<1>8a. PICK a \in Chan \cup {NULL} : a = ch
    BY <1>1 DEF Typed
<1>9. PICK e : a = ch /\ e = post
    BY <1>8a
<1>10. /\ urgent' \in Seq(Post) /\ IsInjective(urgent)'
       /\ \A b \in Chan, x \in Msg : Queued(b, x)' <=> Queued(b, x) \/ (b = a /\ x = m)
  <2>1. urgent \in Seq(Post) /\ IsInjective(urgent)
    BY <1>1 DEF Sound, Typed
  <2>2. CASE a = NULL
    BY <2>1, <2>2, <1>4, <1>9, PubSubAssumption DEF Queued
  <2>3. CASE a # NULL
    <3>1. e \in Post /\ e = [ch |-> a, m |-> m] /\ a \in Chan
      BY <2>3, <1>9 DEF Post
    <3>2. ~Contains(urgent, e)
      BY <3>1, <1>3 DEF Posted, Queued
    <3>3. urgent' = Append(urgent, e)
      BY <2>3, <1>4, <1>9
    <3>4. urgent' \in Seq(Post) /\ IsInjective(urgent)' /\ \A x : Contains(urgent', x) <=> Contains(urgent, x) \/ x = e
      BY <2>1, <3>1, <3>2, <3>3, AppendIs
    <3>5. \A b \in Chan, x \in Msg : [ch |-> b, m |-> x] = e <=> b = a /\ x = m
      BY <3>1
    <3> QED
      BY <3>4, <3>5 DEF Queued
  <2> QED
    BY <2>2, <2>3
<1>11. Typed'
    BY <1>1, <1>2, <1>5, <1>6, <1>7, <1>8, <1>10 DEF Typed, OthersStay
<1>12. SameLists /\ OthersKept(t)
    BY <1>2, <1>7, <1>8 DEF SameLists, OthersKept, OthersStay
<1>13. ThreadAgrees(t)'
    BY <1>1, <1>2, <1>7 DEF ThreadAgrees, Joining, Leaving, Handling
<1>14. SameFor(Handling) /\ \A u \in Thread : \A b, x : Publishes(u, b, x)' <=> Publishes(u, b, x)
    BY <1>2, <1>7 DEF SameFor, OthersStay, Handling, Publishes
<1>15. \A s \in Sub, x \in Msg : CallAgrees(s, x)' /\ (Untouched(s, x) => Untouched(s, x)')
    BY <1>1, <1>2, <1>12, <1>14, CallKept, ListsKept
<1>16. \A s \in Sub : SubAgrees(s)'
    BY <1>1, <1>2, <1>12, ListsKept, SubKept
<1>17. CountsAgree'
  <2>1. \A s \in Sub : sub'[s].ref = sub[s].ref + Own(s)' - Own(s)
    BY <1>1, <1>2 DEF Own, Typed, Subscription
  <2> QED
    BY <2>1, <1>1, <1>2, <1>14, CountKept
<1>18. \A b \in Chan, x \in Msg : Ahead(b, x) => Ahead(b, x)'
    BY <1>2, <1>15 DEF Ahead
<1>19. a # NULL => chan[a].key = k
    BY <1>1, <1>9 DEF Sound, KeyAgrees
<1>20. ASSUME NEW b \in Chan, NEW x \in Msg PROVE PostAgrees(b, x)'
  <2>1. PostAgrees(b, x)
    BY <1>1 DEF Sound
  <2>2. CASE x # m
    <3>1. Posted(b, x)' <=> Posted(b, x)
      BY <2>2, <1>10, <1>14 DEF Posted
    <3>2. \A u \in Thread : th'[u].pc = "patterns" /\ th'[u].m = x => th[u].pc = "patterns" /\ th[u].m = x
      BY <2>2, <1>7 DEF OthersStay
    <3> QED
      BY <2>1, <2>2, <3>1, <3>2, <1>2, <1>8, <1>10, <1>14, <1>18 DEF PostAgrees, Fresh
  <2>3. CASE x = m
    <3>1. Ahead(b, m)
      BY <1>3 DEF Ahead
    <3>2. Posted(b, m)' <=> b = a
      BY <1>3, <1>10, <1>14 DEF Posted
    <3>3. \A u \in Thread : ~Publishes(u, b, m)'
      BY <1>3, <1>14 DEF Posted
    <3>4. b = a => chan'[b].key = k
      BY <1>8, <1>19, PubSubAssumption
    <3> QED
      BY <2>3, <3>1, <3>2, <3>3, <3>4, <1>1, <1>2, <1>18 DEF PostAgrees, Fresh
  <2> QED
    BY <2>2, <2>3
<1>21. th'[t].pc \notin {"crashed"} \cup Joining \cup Leaving /\ (th'[t].pc = "patterns" => th'[t].m \notin sent)
    BY <1>2, <1>7 DEF Joining, Leaving
<1>22. IsInjective(tasks)'
    BY <1>1, <1>2 DEF Sound, IsInjective
<1> QED
    BY <1>1, <1>10, <1>11, <1>12, <1>13, <1>15, <1>16, <1>17, <1>20, <1>21, <1>22, MessageKept

\* SetToSeq lists every member of a finite set once.
LEMMA SetToSeqIs ==
    ASSUME NEW S, IsFiniteSet(S)
    PROVE  SetToSeq(S) \in Seq(S) /\ IsInjective(SetToSeq(S)) /\ \A x : Contains(SetToSeq(S), x) <=> x \in S
<1>1. PICK n \in Nat : n = Cardinality(S)
    BY FS_CardinalityType
<1>2. \E f \in [1 .. n -> S] : IsInjective(f)
  <2>1. PICK f : f \in Bijection(1 .. n, S)
    BY <1>1, FS_CardinalityType DEF ExistsBijection
  <2> QED
    BY <2>1 DEF Bijection, Injection
<1>3. PICK q : q = SetToSeq(S)
    OBVIOUS
<1>4. q \in [1 .. n -> S] /\ IsInjective(q)
    BY <1>1, <1>2, <1>3 DEF SetToSeq
<1>5. q \in Injection(1 .. n, S)
    BY <1>4 DEF Injection
<1>6. Cardinality(1 .. n) = n
    BY FS_Interval
<1>7. q \in Surjection(1 .. n, S)
    BY <1>1, <1>5, <1>6, FS_Injection
<1>8. q \in Seq(S) /\ Len(q) = n
    BY <1>4
<1>9. \A x : Contains(q, x) <=> x \in S
    BY <1>4, <1>7, <1>8 DEF Contains, Surjection
<1> QED
    BY <1>3, <1>4, <1>8, <1>9

\* What publish_patterns queues: the posts of the patterns that match.
Hit(t)      == {p \in Pattern : <<p, th[t].key>> \in Matches /\ channels[p] # NULL}
HitPosts(t) == {[ch |-> channels[p], m |-> th[t].m] : p \in Hit(t)}

\* The patterns a name matches are finitely many, and so are the posts to them.
LEMMA HitFinite ==
    ASSUME NEW t
    PROVE  Cardinality(Hit(t)) \in Nat /\ IsFiniteSet(HitPosts(t))
<1>1. IsFiniteSet(Hit(t)) /\ Cardinality(Hit(t)) \in Nat
  <2>1. Hit(t) \subseteq Pattern
    BY DEF Hit
  <2> QED
    BY <2>1, PubSubAssumption, FS_Subset, FS_CardinalityType
<1>2. [p \in Hit(t) |-> [ch |-> channels[p], m |-> th[t].m]] \in Surjection(Hit(t), HitPosts(t))
    BY DEF Surjection, HitPosts
<1> QED
    BY <1>1, <1>2, FS_Surjection

\* fio_publish2process posts the message to every matching pattern that has a channel.
LEMMA Patterns ==
    ASSUME Sane, NEW t \in Caller, publish_patterns(t)
    PROVE  Sane'
<1> DEFINE hit == Hit(t)
           q   == SetToSeq(HitPosts(t))
<1>1. Sound /\ Typed /\ CountsAgree /\ t \in Thread /\ ThreadAgrees(t)
    BY DEF Sane, Sound, Thread
<1>2. PICK m : m = th[t].m
    OBVIOUS
<1>3. /\ th[t].pc = "patterns" /\ Return(t) /\ urgent' = urgent \o q
      /\ UNCHANGED <<channels, sub, tasks, engine, life, ended, got, due, sent, defers, attaches>>
    BY DEF publish_patterns, Hit, HitPosts
<1>4. m \in sent /\ m \in Msg
    BY <1>1, <1>2, <1>3 DEF ThreadAgrees, Typed
<1>5. chan' \in [Chan -> Channel] /\ \A a \in Chan : chan'[a].key = chan[a].key /\ chan'[a].subs = chan[a].subs
  <2>1. chan' = [a \in Chan |-> IF \E p \in hit : channels[p] = a
                                THEN [chan[a] EXCEPT !.ref = chan[a].ref + 1] ELSE chan[a]]
    BY DEF publish_patterns, Hit
  <2> DEFINE v(a) == [chan[a] EXCEPT !.ref = chan[a].ref + 1]
  <2>2. ASSUME NEW a \in Chan PROVE chan[a] \in Channel /\ v(a) \in Channel /\ v(a).key = chan[a].key /\ v(a).subs = chan[a].subs
    <3>1. chan[a] \in Channel /\ chan[a].ref + 1 \in Int
      BY <1>1 DEF Typed, Channel
    <3> QED
      BY <3>1, RefPatched, Zenon
  <2>3. \A a \in Chan : chan'[a] \in {v(a), chan[a]}
    BY <2>1
  <2>4. DOMAIN chan' = Chan /\ chan' = [a \in Chan |-> chan'[a]]
    BY <2>1
  <2> HIDE DEF v
  <2>5. \A a \in Chan : chan'[a] \in Channel /\ chan'[a].key = chan[a].key /\ chan'[a].subs = chan[a].subs
    BY <2>2, <2>3
  <2> QED
    BY <2>4, <2>5
<1>6. msg' \in [Msg -> Int]
  <2>1. PICK n \in Nat : n = Cardinality(hit)
    BY HitFinite
  <2>2. msg' = [msg EXCEPT ![m] = msg[m] + n - 1]
    BY <2>1, <1>2 DEF publish_patterns, Hit
  <2> QED
    BY <2>2, <1>1, <1>4 DEF Typed
<1>7. OthersStay(t) /\ th'[t] = NoWork /\ gvl' \in Thread \cup {NULL}
    BY <1>1, <1>3, Returns
<1>8. \A u \in Thread \ {t} : th[u].pc = "patterns" => th[u].m # m
    BY <1>1, <1>2, <1>3 DEF Sound, ThreadsApart
<1>9. ASSUME NEW p \in hit
      PROVE  channels[p] \in Chan /\ chan[channels[p]].key \in Pattern /\ Fresh(channels[p], m)
  <2>1. p \in Pattern /\ p \in Key /\ channels[p] # NULL
    BY DEF Hit, Key
  <2>2. channels[p] \in Chan /\ chan[channels[p]].key = p
    BY <1>1, <2>1 DEF Sound, Typed, KeyAgrees
  <2>3. PostAgrees(channels[p], m)
    BY <1>1, <1>4, <2>2 DEF Sound
  <2> QED
    BY <2>1, <2>2, <2>3, <1>1, <1>2, <1>3 DEF PostAgrees
<1>10. q \in Seq(HitPosts(t)) /\ IsInjective(q) /\ \A x : Contains(q, x) <=> x \in HitPosts(t)
    BY HitFinite, SetToSeqIs
<1>11. HitPosts(t) \subseteq Post
    BY <1>2, <1>4, <1>9 DEF HitPosts, Post
<1>12. q \in Seq(Post)
    BY <1>10, <1>11
<1>13. PICK r : r = q
    OBVIOUS
<1>14. \A b \in Chan, x \in Msg : Contains(r, [ch |-> b, m |-> x]) <=> x = m /\ \E p \in hit : channels[p] = b
    BY <1>2, <1>10, <1>13 DEF HitPosts
<1>15. ASSUME NEW y \in Post, Contains(r, y) PROVE ~Contains(urgent, y)
  <2>1. PICK b \in Chan, x \in Msg : y = [ch |-> b, m |-> x]
    BY DEF Post
  <2>2. x = m /\ Fresh(b, m)
    BY <1>9, <1>14, <1>15, <2>1
  <2> QED
    BY <2>1, <2>2 DEF Fresh, Posted, Queued
<1> HIDE DEF q, hit
<1>16. /\ urgent' \in Seq(Post) /\ IsInjective(urgent)'
       /\ \A x : Contains(urgent', x) <=> Contains(urgent, x) \/ Contains(r, x)
  <2>1. urgent \in Seq(Post) /\ IsInjective(urgent) /\ r \in Seq(Post) /\ IsInjective(r) /\ urgent' = urgent \o r
    BY <1>1, <1>3, <1>10, <1>12, <1>13 DEF Sound, Typed
  <2>2. \A x \in Post : ~(Contains(urgent, x) /\ Contains(r, x))
    BY <1>15
  <2> QED
    BY <2>1, <2>2, ConcatIs
<1>17. \A b \in Chan, x \in Msg : Queued(b, x)' <=> Queued(b, x) \/ (x = m /\ \E p \in hit : channels[p] = b)
  <2>1. SUFFICES ASSUME NEW b \in Chan, NEW x \in Msg
                 PROVE  Queued(b, x)' <=> Queued(b, x) \/ (x = m /\ \E p \in hit : channels[p] = b)
    OBVIOUS
  <2>2. PICK y : y = [ch |-> b, m |-> x]
    OBVIOUS
  <2>3. Contains(urgent', y) <=> Contains(urgent, y) \/ Contains(r, y)
    BY <1>16
  <2>4. Contains(r, y) <=> x = m /\ \E p \in hit : channels[p] = b
    BY <1>14, <2>2
  <2> QED
    BY <2>2, <2>3, <2>4 DEF Queued
<1>18. Typed'
    BY <1>1, <1>3, <1>5, <1>6, <1>7, <1>16 DEF Typed, OthersStay
<1>19. SameLists /\ OthersKept(t)
    BY <1>3, <1>5, <1>7 DEF SameLists, OthersKept, OthersStay
<1>20. SameFor(Handling) /\ \A u \in Thread : \A b, x : Publishes(u, b, x)' <=> Publishes(u, b, x)
    BY <1>3, <1>7 DEF SameFor, OthersStay, Handling, Publishes, NoWork
<1>21. \A s \in Sub, x \in Msg : CallAgrees(s, x)' /\ (Untouched(s, x) => Untouched(s, x)')
    BY <1>1, <1>3, <1>19, <1>20, CallKept, ListsKept
<1>22. \A s \in Sub : SubAgrees(s)'
    BY <1>1, <1>3, <1>19, ListsKept, SubKept
<1>23. CountsAgree'
  <2>1. \A s \in Sub : sub'[s].ref = sub[s].ref + Own(s)' - Own(s)
    BY <1>1, <1>3 DEF Own, Typed, Subscription
  <2> QED
    BY <2>1, <1>1, <1>3, <1>20, CountKept
<1>24. \A b \in Chan, x \in Msg : Ahead(b, x) => Ahead(b, x)'
    BY <1>3, <1>21 DEF Ahead
<1>25. ASSUME NEW b \in Chan, NEW x \in Msg PROVE PostAgrees(b, x)'
  <2>1. PostAgrees(b, x)
    BY <1>1 DEF Sound
  <2>2. \A u \in Thread : th'[u].pc = "patterns" /\ th'[u].m = x => x # m /\ th[u].pc = "patterns" /\ th[u].m = x
    BY <1>7, <1>8 DEF OthersStay, NoWork
  <2>3. CASE x = m /\ \E p \in hit : channels[p] = b
    <3>1. Fresh(b, m) /\ chan[b].key \in Key
      BY <2>3, <1>9 DEF Key
    <3>2. \A u \in Thread : ~Publishes(u, b, m)'
      BY <3>1, <1>20 DEF Fresh, Posted
    <3>3. Ahead(b, m)'
      BY <3>1, <1>4, <1>24 DEF Fresh
    <3> QED
      BY <2>2, <2>3, <3>1, <3>2, <3>3, <1>3, <1>4, <1>5 DEF PostAgrees
  <2>4. CASE ~(x = m /\ \E p \in hit : channels[p] = b)
    <3>1. (Queued(b, x)' <=> Queued(b, x)) /\ (Posted(b, x)' <=> Posted(b, x))
      BY <2>4, <1>17, <1>20 DEF Posted
    <3> QED
      BY <2>1, <2>2, <3>1, <1>3, <1>5, <1>20, <1>24 DEF PostAgrees, Fresh
  <2> QED
    BY <2>3, <2>4
<1>26. ThreadAgrees(t)'
    BY <1>7 DEF ThreadAgrees, NoWork, Joining, Leaving, Handling
<1>27. th'[t].pc \notin {"crashed", "patterns"} \cup Joining \cup Leaving
    BY <1>7 DEF NoWork, Joining, Leaving
<1>28. IsInjective(tasks)'
    BY <1>1, <1>3 DEF Sound, IsInjective
<1> QED
    BY <1>1, <1>16, <1>18, <1>19, <1>21, <1>22, <1>23, <1>25, <1>26, <1>27, <1>28, MessageKept

\* The task of a channel is put back, or taken with the channel's lock.
LEMMA TakesPost ==
    ASSUME Sane, NEW w \in Worker, fio_publish2channel_task(w)
    PROVE  Sane'
<1>1. Sound /\ Typed /\ CountsAgree /\ w \in Thread
    BY DEF Sane, Sound, Thread
<1>2. PICK e : e = Head(urgent)
    OBVIOUS
<1>3. /\ th[w].pc = "idle" /\ urgent # <<>> /\ urgent \in Seq(Post) /\ IsInjective(urgent)
      /\ UNCHANGED <<channels, sub, msg, tasks, gvl, engine, life, ended, got, due, sent, defers, attaches>>
    BY <1>1 DEF fio_publish2channel_task, Sound, Typed
<1>4. /\ e \in Post /\ Contains(urgent, e) /\ Tail(urgent) \in Seq(Post) /\ IsInjective(Tail(urgent))
      /\ \A x : Contains(Tail(urgent), x) <=> Contains(urgent, x) /\ x # e
    BY <1>2, <1>3, TailIs
<1>5. PICK a \in Chan, m \in Msg : e = [ch |-> a, m |-> m]
    BY <1>4 DEF Post
<1>6. Queued(a, m) /\ e.ch = a /\ e.m = m
    BY <1>4, <1>5 DEF Queued
<1> DEFINE work == [NoWork EXCEPT !.pc = "publish", !.ch = a, !.m = m]
           v    == [chan[a] EXCEPT !.lock = w]
<1>7. \/ urgent' = Append(Tail(urgent), e) /\ chan' = chan /\ th' = th
      \/ urgent' = Tail(urgent) /\ chan' = [chan EXCEPT ![a] = v] /\ th' = [th EXCEPT ![w] = work]
    BY <1>2, <1>6 DEF fio_publish2channel_task
<1>8. v \in Channel /\ v.key = chan[a].key /\ v.subs = chan[a].subs
  <2>1. chan[a] \in Channel /\ w \in Thread \cup {NULL}
    BY <1>1 DEF Typed
  <2> QED
    BY <2>1, LockPatched, Zenon
<1>9. work \in Place /\ work.pc = "publish" /\ work.ch = a /\ work.m = m
    BY DEF NoWork, Place
<1> HIDE DEF work, v
<1>10. chan' \in [Chan -> Channel] /\ \A b \in Chan : chan'[b].key = chan[b].key /\ chan'[b].subs = chan[b].subs
  <2>1. chan \in [Chan -> Channel]
    BY <1>1 DEF Typed
  <2>2. CASE chan' = chan
    BY <2>1, <2>2
  <2>3. CASE chan' = [chan EXCEPT ![a] = v]
    BY <2>1, <2>3, <1>8
  <2> QED
    BY <1>7, <2>2, <2>3
<1>11. OthersStay(w)
  <2>1. th \in [Thread -> Place]
    BY <1>1 DEF Typed
  <2>2. CASE th' = th
    BY <2>1, <2>2 DEF OthersStay
  <2>3. CASE th' = [th EXCEPT ![w] = work]
    BY <2>1, <2>3, <1>1, <1>9 DEF OthersStay
  <2> QED
    BY <1>7, <2>2, <2>3
<1>12. urgent' \in Seq(Post) /\ IsInjective(urgent)'
  <2>1. Append(Tail(urgent), e) \in Seq(Post) /\ IsInjective(Append(Tail(urgent), e))
    BY <1>2, <1>3, Rotated
  <2> QED
    BY <1>4, <1>7, <2>1
<1>13. Typed'
    BY <1>1, <1>3, <1>10, <1>11, <1>12 DEF Typed, OthersStay
<1>14. SameLists /\ OthersKept(w)
    BY <1>3, <1>10, <1>11 DEF SameLists, OthersKept, OthersStay
<1>15. th'[w].pc \in {"idle", "publish"}
    BY <1>3, <1>7, <1>9, <1>11, <1>1 DEF Typed
<1>16. ThreadAgrees(w)'
    BY <1>1, <1>3, <1>7, <1>9 DEF ThreadAgrees, Typed, Joining, Leaving, Handling
<1>17. SameFor(Handling) /\ SameFor({"patterns"})
    BY <1>3, <1>11, <1>15 DEF SameFor, OthersStay, Handling
<1>18. \A s \in Sub, x \in Msg : CallAgrees(s, x)' /\ (Untouched(s, x) => Untouched(s, x)')
    BY <1>1, <1>3, <1>14, <1>17, CallKept, ListsKept
<1>19. \A s \in Sub : SubAgrees(s)'
    BY <1>1, <1>3, <1>14, ListsKept, SubKept
<1>20. CountsAgree'
  <2>1. \A s \in Sub : sub'[s].ref = sub[s].ref + Own(s)' - Own(s)
    BY <1>1, <1>3 DEF Own, Typed, Subscription
  <2> QED
    BY <2>1, <1>1, <1>3, <1>17, CountKept
<1>21. ASSUME NEW b \in Chan, NEW x \in Msg
       PROVE  /\ Posted(b, x)' <=> Posted(b, x)
              /\ Queued(b, x)' => \A t \in Thread : ~Publishes(t, b, x)'
              /\ \A t, u \in Thread : Publishes(t, b, x)' /\ Publishes(u, b, x)' => t = u
  <2>1. PostAgrees(b, x) /\ PostAgrees(a, m)
    BY <1>1 DEF Sound
  <2>2. [ch |-> b, m |-> x] = e <=> b = a /\ x = m
    BY <1>5
  <2>3. CASE urgent' = Append(Tail(urgent), e) /\ th' = th
    <3>1. Queued(b, x)' <=> Queued(b, x)
      BY <2>3, <1>2, <1>3, Rotated DEF Queued
    <3>2. \A t \in Thread : Publishes(t, b, x)' <=> Publishes(t, b, x)
      BY <2>3 DEF Publishes
    <3> QED
      BY <3>1, <3>2, <2>1 DEF PostAgrees, Posted
  <2>4. CASE urgent' = Tail(urgent) /\ th' = [th EXCEPT ![w] = work]
    <3>1. Queued(b, x)' <=> Queued(b, x) /\ ~(b = a /\ x = m)
      BY <2>2, <2>4, <1>4 DEF Queued
    <3>2. \A t \in Thread : Publishes(t, b, x)' <=> Publishes(t, b, x) \/ (t = w /\ b = a /\ x = m)
      BY <2>4, <1>1, <1>3, <1>9 DEF Publishes, Typed
    <3>3. \A t \in Thread : ~Publishes(t, a, m)
      BY <2>1, <1>6 DEF PostAgrees
    <3>4. Posted(b, x)' <=> Posted(b, x)
      BY <3>1, <3>2, <1>1, <1>6 DEF Posted
    <3> QED
      BY <3>1, <3>2, <3>3, <3>4, <2>1 DEF PostAgrees
  <2> QED
    BY <1>7, <2>3, <2>4
<1>22. \A b \in Chan, x \in Msg : Ahead(b, x) => Ahead(b, x)'
    BY <1>3, <1>18 DEF Ahead
<1>23. ASSUME NEW b \in Chan, NEW x \in Msg PROVE PostAgrees(b, x)'
  <2>1. PostAgrees(b, x)
    BY <1>1 DEF Sound
  <2>2. \A u \in Thread : th'[u].pc = "patterns" => th'[u] = th[u]
    BY <1>17 DEF SameFor
  <2> QED
    BY <2>1, <2>2, <1>3, <1>10, <1>21, <1>22 DEF PostAgrees, Fresh
<1>24. IsInjective(tasks)'
    BY <1>1, <1>3 DEF Sound, IsInjective
<1>25. th'[w].pc \notin {"crashed", "patterns"} \cup Joining \cup Leaving
    BY <1>15 DEF Joining, Leaving
<1> QED
    BY <1>1, <1>12, <1>13, <1>14, <1>16, <1>18, <1>19, <1>20, <1>23, <1>24, <1>25, MessageKept

\* A call for every subscription listed that has a callback of its own.
LEMMA Delivers ==
    ASSUME Sane, NEW w \in Worker, fio_publish2channel(w)
    PROVE  Sane'
<1>1. Sound /\ Typed /\ CountsAgree /\ w \in Thread /\ ThreadAgrees(w)
    BY DEF Sane, Sound, Thread
<1>2. PICK a, m : a = th[w].ch /\ m = th[w].m
    OBVIOUS
<1>3. PICK q : q = Kept(chan[a].subs, Sub \ Mock)
    OBVIOUS
<1> DEFINE r == [i \in DOMAIN q |-> [s |-> q[i], m |-> m]]
           c == fio_channel_free(chan, a)
           v == [c[a] EXCEPT !.lock = NULL]
<1>4. /\ th[w].pc = "publish" /\ Return(w) /\ tasks' = tasks \o r /\ sub' = Counted(ToSet(q))
      /\ chan' = [c EXCEPT ![a] = v] /\ msg' = [msg EXCEPT ![m] = msg[m] + Len(q) - 1]
      /\ UNCHANGED <<channels, urgent, engine, life, ended, got, due, sent, defers, attaches>>
    BY <1>2, <1>3 DEF fio_publish2channel
<1>5. a \in Chan /\ m \in Msg
    BY <1>1, <1>2, <1>4 DEF ThreadAgrees
<1>6. chan[a].subs \in Seq(Sub) /\ ChannelAgrees(a) /\ PostAgrees(a, m)
    BY <1>1, <1>5 DEF Sound, Typed, Channel
<1>7. Publishes(w, a, m) /\ Posted(a, m) /\ Ahead(a, m) /\ m \in sent
    BY <1>1, <1>2, <1>4, <1>6 DEF Publishes, Posted, PostAgrees
<1>8. /\ q \in Seq(Sub) /\ IsInjective(q) /\ DOMAIN q = 1 .. Len(q) /\ Len(q) \in Nat
      /\ \A i \in DOMAIN q : q[i] \in Sub /\ sub[q[i]].parent = a /\ life[q[i]] # "cancelled"
  <2>1. Keeps(q, chan[a].subs, Sub \ Mock, Len(chan[a].subs))
    BY <1>3, <1>6, KeptIs
  <2>2. q \in Seq(Sub) /\ IsInjective(q)
    BY <2>1, <1>6 DEF Keeps, ChannelAgrees
  <2>3. ASSUME NEW i \in DOMAIN q PROVE sub[q[i]].parent = a /\ life[q[i]] # "cancelled"
    <3>1. PICK j \in 1 .. Len(chan[a].subs) : chan[a].subs[j] = q[i]
      BY <2>1 DEF Keeps
    <3> QED
      BY <3>1, <1>6 DEF ChannelAgrees
  <2> QED
    BY <2>2, <2>3
<1>9. /\ r \in Seq(Call) /\ IsInjective(r) /\ DOMAIN r = DOMAIN q
      /\ \A s \in Sub, x \in Msg : Contains(r, [s |-> s, m |-> x]) <=> x = m /\ s \in ToSet(q)
      /\ \A i \in DOMAIN r : r[i].s = q[i]
  <2>1. \A i \in 1 .. Len(q) : r[i] = [s |-> q[i], m |-> m] /\ r[i] \in Call
    BY <1>5, <1>8 DEF Call
  <2>2. r \in Seq(Call) /\ Len(r) = Len(q) /\ DOMAIN r = 1 .. Len(q)
    BY <2>1, <1>8
  <2> HIDE DEF r
  <2>3. IsInjective(r)
    BY <2>1, <2>2, <1>8 DEF IsInjective
  <2>4. ASSUME NEW s \in Sub, NEW x \in Msg PROVE Contains(r, [s |-> s, m |-> x]) <=> x = m /\ s \in ToSet(q)
    BY <2>1, <2>2, <1>8 DEF Contains, ToSet
  <2> QED
    BY <2>1, <2>2, <2>3, <2>4, <1>8
<1>10. \A s \in ToSet(q) : s \in Sub /\ sub[s].parent = a /\ life[s] # "cancelled" /\ Untouched(s, m)
    BY <1>7, <1>8 DEF ToSet, Ahead
<1> HIDE DEF r
<1>11. chan' \in [Chan -> Channel] /\ \A b \in Chan : chan'[b].key = chan[b].key /\ chan'[b].subs = chan[b].subs
  <2> DEFINE x == [chan[a] EXCEPT !.ref = chan[a].ref - 1]
  <2>1. chan[a] \in Channel /\ chan[a].ref - 1 \in Int /\ chan \in [Chan -> Channel]
    BY <1>1, <1>5 DEF Typed, Channel
  <2>2. x \in Channel /\ x.key = chan[a].key /\ x.subs = chan[a].subs
    BY <2>1, RefPatched, Zenon
  <2>3. c = [chan EXCEPT ![a] = x]
    BY DEF fio_channel_free
  <2> HIDE DEF x, c
  <2>4. c \in [Chan -> Channel] /\ \A b \in Chan : c[b].key = chan[b].key /\ c[b].subs = chan[b].subs
    BY <2>1, <2>2, <2>3
  <2>5. v \in Channel /\ v.key = c[a].key /\ v.subs = c[a].subs
    <3>1. c[a] \in Channel /\ NULL \in Thread \cup {NULL}
      BY <2>4, <1>5
    <3> QED
      BY <3>1, LockPatched, Zenon
  <2> HIDE DEF v
  <2> QED
    BY <2>4, <2>5, <1>4, <1>5
<1> HIDE DEF c, v
<1>12. /\ sub' \in [Sub -> Subscription]
       /\ \A s \in Sub : /\ sub'[s].parent = sub[s].parent /\ sub'[s].lock = sub[s].lock /\ sub'[s].active = sub[s].active
                         /\ sub'[s].ref = sub[s].ref + (IF s \in ToSet(q) THEN 1 ELSE 0)
  <2>1. sub' = [s \in Sub |-> IF s \in ToSet(q) THEN [sub[s] EXCEPT !.ref = sub[s].ref + 1] ELSE sub[s]]
    BY <1>4 DEF Counted
  <2> DEFINE y(s) == [sub[s] EXCEPT !.ref = sub[s].ref + 1]
  <2>2. ASSUME NEW s \in Sub
        PROVE  /\ sub[s] \in Subscription /\ sub[s].ref \in Int /\ y(s) \in Subscription
               /\ y(s).parent = sub[s].parent /\ y(s).lock = sub[s].lock /\ y(s).active = sub[s].active
               /\ y(s).ref = sub[s].ref + 1
    <3>1. sub[s] \in Subscription
      BY <1>1 DEF Typed
    <3>2. sub[s].ref \in Int /\ y(s) \in Subscription
      BY <3>1 DEF Subscription
    <3>3. y(s).parent = sub[s].parent /\ y(s).lock = sub[s].lock /\ y(s).active = sub[s].active
      BY <3>1 DEF Subscription
    <3>4. y(s).ref = sub[s].ref + 1
      BY <3>1 DEF Subscription
    <3> QED
      BY <3>1, <3>2, <3>3, <3>4
  <2>3. \A s \in Sub : sub'[s] = IF s \in ToSet(q) THEN y(s) ELSE sub[s]
    BY <2>1
  <2>4. sub' = [s \in Sub |-> sub'[s]]
    BY <2>1
  <2> HIDE DEF y
  <2>5. \A s \in Sub : sub'[s] \in Subscription
    BY <2>2, <2>3
  <2> QED
    BY <2>2, <2>3, <2>4, <2>5
<1>13. /\ tasks' \in Seq(Call) /\ IsInjective(tasks)'
       /\ \A x : Contains(tasks', x) <=> Contains(tasks, x) \/ Contains(r, x)
  <2>1. tasks \in Seq(Call) /\ IsInjective(tasks)
    BY <1>1 DEF Sound, Typed
  <2>2. ASSUME NEW x \in Call, Contains(tasks, x), Contains(r, x) PROVE FALSE
    <3>1. PICK s \in Sub, y \in Msg : x = [s |-> s, m |-> y]
      BY DEF Call
    <3>2. Untouched(s, m) /\ y = m
      BY <3>1, <2>2, <1>9, <1>10
    <3> QED
      BY <3>1, <3>2, <2>2 DEF Untouched, Waits
  <2> QED
    BY <2>1, <2>2, <1>4, <1>9, ConcatIs
<1>14. \A s \in Sub, x \in Msg : Waits(s, x)' <=> Waits(s, x) \/ (x = m /\ s \in ToSet(q))
  <2>1. SUFFICES ASSUME NEW s \in Sub, NEW x \in Msg
                 PROVE  Waits(s, x)' <=> Waits(s, x) \/ (x = m /\ s \in ToSet(q))
    OBVIOUS
  <2>2. PICK y : y = [s |-> s, m |-> x]
    OBVIOUS
  <2>3. Contains(tasks', y) <=> Contains(tasks, y) \/ Contains(r, y)
    BY <1>13
  <2>4. Contains(r, y) <=> x = m /\ s \in ToSet(q)
    BY <1>9, <2>2
  <2> QED
    BY <2>2, <2>3, <2>4 DEF Waits
<1>15. OthersStay(w) /\ th'[w] = NoWork /\ gvl' \in Thread \cup {NULL}
    BY <1>1, <1>4, Returns
<1>16. Typed'
  <2>1. msg' \in [Msg -> Int]
    <3>1. PICK n \in Nat : n = Len(q)
      BY <1>8
    <3> QED
      BY <3>1, <1>1, <1>4, <1>5 DEF Typed
  <2> QED
    BY <2>1, <1>1, <1>4, <1>11, <1>12, <1>13, <1>15 DEF Typed, OthersStay
<1>17. SameLists /\ OthersKept(w)
    BY <1>4, <1>11, <1>12, <1>15 DEF SameLists, OthersKept, OthersStay
<1>18. \A t \in Thread : \A s, x : Handles(t, s, x)' <=> Handles(t, s, x)
    BY <1>4, <1>15 DEF Handles, Handling, OthersStay, NoWork
<1>19. \A t \in Thread : th'[t].pc \in Handling \cup {"patterns"} => th'[t] = th[t]
    BY <1>15 DEF OthersStay, Handling, NoWork
<1>20. \A s \in Sub, x \in Msg : ~(x = m /\ s \in ToSet(q)) => (Untouched(s, x)' <=> Untouched(s, x))
    BY <1>4, <1>14, <1>18 DEF Untouched
<1>21. ASSUME NEW s \in Sub, NEW x \in Msg PROVE CallAgrees(s, x)'
  <2>1. CallAgrees(s, x)
    BY <1>1 DEF Sound
  <2>2. CASE x = m /\ s \in ToSet(q)
    <3>1. Untouched(s, x) /\ sub'[s].parent = a /\ a # NULL
      BY <2>2, <1>5, <1>10, <1>12, PubSubAssumption
    <3>2. got'[<<s, x>>] = 0 /\ \A t \in Thread : ~Handles(t, s, x)'
      BY <3>1, <1>4, <1>18 DEF Untouched
    <3> QED
      BY <2>2, <3>1, <3>2, <1>4, <1>7 DEF CallAgrees
  <2>3. CASE ~(x = m /\ s \in ToSet(q))
    <3>1. (Waits(s, x)' <=> Waits(s, x)) /\ (Untouched(s, x)' <=> Untouched(s, x))
      BY <2>3, <1>14, <1>20
    <3>2. \A t \in Thread : Handles(t, s, x)' => th'[t] = th[t]
      BY <1>19 DEF Handles
    <3> QED
      BY <2>1, <3>1, <3>2, <1>4, <1>12, <1>18 DEF CallAgrees
  <2> QED
    BY <2>2, <2>3
<1>22. ASSUME NEW b \in Chan, NEW x \in Msg PROVE PostAgrees(b, x)'
  <2>1. PostAgrees(b, x)
    BY <1>1 DEF Sound
  <2>2. Queued(b, x)' <=> Queued(b, x)
    BY <1>4 DEF Queued
  <2>3. \A t \in Thread : Publishes(t, b, x)' <=> Publishes(t, b, x) /\ t # w
    BY <1>15 DEF Publishes, OthersStay, NoWork
  <2>4. CASE b = a /\ x = m
    <3>1. ~Posted(b, x)'
      BY <2>2, <2>3, <2>4, <1>1, <1>6, <1>7 DEF Posted, PostAgrees
    <3>2. \A t \in Thread : ~(th[t].pc = "patterns" /\ th[t].m = x /\ chan[b].key \in Pattern)
      BY <2>4, <1>6, <1>7 DEF PostAgrees, Fresh
    <3>3. \A t \in Thread : ~(th'[t].pc = "patterns" /\ th'[t].m = x /\ chan'[b].key \in Pattern)
      BY <3>2, <1>11, <1>19
    <3> QED
      BY <3>1, <3>3 DEF PostAgrees, Posted
  <2>5. CASE ~(b = a /\ x = m)
    <3>1. ~Publishes(w, b, x)
      BY <2>5, <1>7 DEF Publishes
    <3>2. (Posted(b, x)' <=> Posted(b, x)) /\ \A t \in Thread : Publishes(t, b, x)' <=> Publishes(t, b, x)
      BY <2>2, <2>3, <3>1 DEF Posted
    <3>3. Ahead(b, x) => Ahead(b, x)'
      <4>1. ASSUME NEW s \in Sub, sub'[s].parent = b, Ahead(b, x) PROVE Untouched(s, x)'
        <5>1. sub[s].parent = b /\ Untouched(s, x)
          BY <4>1, <1>12 DEF Ahead
        <5>2. ~(x = m /\ s \in ToSet(q))
          BY <5>1, <2>5, <1>10
        <5> QED
          BY <5>1, <5>2, <1>20
      <4> QED
        BY <4>1 DEF Ahead
    <3> QED
      BY <2>1, <2>2, <3>2, <3>3, <1>4, <1>11, <1>19 DEF PostAgrees, Fresh
  <2> QED
    BY <2>4, <2>5
<1>23. CountsAgree'
  <2>1. SUFFICES ASSUME NEW s \in Sub PROVE CountAgrees(s)'
    BY DEF CountsAgree
  <2>2. CountAgrees(s) /\ tasks \in Seq(Call)
    BY <1>1 DEF CountsAgree, Typed
  <2>3. \A i, j \in DOMAIN r : r[i].s = s /\ r[j].s = s => i = j
    BY <1>8, <1>9 DEF IsInjective
  <2>4. (\E i \in DOMAIN r : r[i].s = s) <=> s \in ToSet(q)
    BY <1>9 DEF ToSet
  <2>5. Cardinality(CallsFor(tasks', s)) = Cardinality(CallsFor(tasks, s)) + (IF s \in ToSet(q) THEN 1 ELSE 0)
    BY <2>2, <2>3, <2>4, <1>4, <1>9, CountConcat
  <2>6. Handlers(s)' = Handlers(s) /\ Own(s)' = Own(s) /\ Own(s) \in Nat
    BY <1>4, <1>15 DEF Handlers, Handling, OthersStay, NoWork, Own
  <2>7. Cardinality(CallsFor(tasks, s)) \in Nat
    BY <2>2, CallsFinite
  <2>8. CallsFor(tasks, s)' = CallsFor(tasks', s)
    BY DEF CallsFor
  <2>9. PICK n, n1, o, d, h :
          /\ n = Cardinality(CallsFor(tasks, s)) /\ n1 = Cardinality(CallsFor(tasks', s)) /\ o = Own(s)
          /\ d = (IF s \in ToSet(q) THEN 1 ELSE 0) /\ h = (IF Handlers(s) = {} THEN 0 ELSE 1)
    OBVIOUS
  <2>10. n \in Nat /\ o \in Nat /\ sub[s].ref = o + n + h /\ n1 = n + d /\ sub'[s].ref = sub[s].ref + d /\ d \in Nat /\ h \in Nat
    BY <2>2, <2>5, <2>6, <2>7, <2>9, <1>12 DEF CountAgrees
  <2>11. sub'[s].ref = o + n1 + h
    BY <2>10
  <2> QED
    BY <2>6, <2>8, <2>9, <2>11 DEF CountAgrees
<1>24. ASSUME NEW s \in Sub PROVE SubAgrees(s)'
  <2>1. SubAgrees(s)
    BY <1>1 DEF Sound
  <2>2. s \notin ToSet(q) => sub'[s].ref = sub[s].ref
    BY <1>12, <1>1 DEF Typed, Subscription
  <2>3. CASE s \notin ToSet(q)
    BY <2>2, <2>3, <1>1, <1>4, <1>12, <1>17, ListsKept, SubKept
  <2>4. CASE s \in ToSet(q) /\ life[s] # "cancelled"
    BY <2>1, <2>4, <1>4, <1>11, <1>12 DEF SubAgrees
  <2> QED
    BY <2>3, <2>4, <1>10
<1>25. IsInjective(urgent)'
    BY <1>1, <1>4 DEF Sound, IsInjective
<1>26. ThreadAgrees(w)'
    BY <1>15 DEF ThreadAgrees, NoWork, Joining, Leaving, Handling
<1>27. th'[w].pc \notin {"crashed", "patterns"} \cup Joining \cup Leaving
    BY <1>15 DEF NoWork, Joining, Leaving
<1> QED
    BY <1>1, <1>13, <1>16, <1>17, <1>21, <1>22, <1>23, <1>24, <1>25, <1>26, <1>27, MessageKept

\* Who handles a message of subscription s holds its lock: one thread at a time.
LEMMA Alone ==
    ASSUME Sound, NEW s \in Sub
    PROVE  /\ \A t, u \in Handlers(s) : t = u
           /\ sub[s].lock = NULL => Handlers(s) = {}
<1>1. \A t \in Handlers(s) : sub[s].lock = t /\ t # NULL
    BY PubSubAssumption DEF Sound, ThreadAgrees, Handlers, Thread, Caller
<1> QED
    BY <1>1

\* The subscription's callback is put back, called, or dropped.
LEMMA TakesCall ==
    ASSUME Sane, NEW w \in Worker, fio_perform_subscription_callback(w)
    PROVE  Sane'
<1>1. Sound /\ Typed /\ CountsAgree /\ w \in Thread
    BY DEF Sane, Sound, Thread
<1>2. PICK e : e = Head(tasks)
    OBVIOUS
<1>3. /\ th[w].pc = "idle" /\ tasks # <<>> /\ tasks \in Seq(Call) /\ IsInjective(tasks)
      /\ UNCHANGED <<channels, urgent, engine, life, got, due, sent, defers, attaches>>
    BY <1>1 DEF fio_perform_subscription_callback, Sound, Typed
<1>4. /\ e \in Call /\ Contains(tasks, e) /\ Tail(tasks) \in Seq(Call) /\ IsInjective(Tail(tasks))
      /\ \A x : Contains(Tail(tasks), x) <=> Contains(tasks, x) /\ x # e
    BY <1>2, <1>3, TailIs
<1>5. PICK s \in Sub, m \in Msg : e = [s |-> s, m |-> m]
    BY <1>4 DEF Call
<1>6. Waits(s, m) /\ e.s = s /\ e.m = m
    BY <1>4, <1>5 DEF Waits
<1> DEFINE work == [NoWork EXCEPT !.pc = "callback", !.s = s, !.m = m]
           v    == [sub[s] EXCEPT !.lock = w]
<1>7. \/ tasks' = Append(Tail(tasks), e) /\ UNCHANGED <<chan, sub, msg, th, gvl, ended>>
      \/ /\ sub[s].lock = NULL /\ sub[s].active /\ tasks' = Tail(tasks)
         /\ sub' = [sub EXCEPT ![s] = v] /\ th' = [th EXCEPT ![w] = work] /\ UNCHANGED <<chan, msg, gvl, ended>>
      \/ /\ sub[s].lock = NULL /\ ~sub[s].active /\ tasks' = Tail(tasks)
         /\ msg' = Released(m) /\ fio_subscription_free(s, sub, chan) /\ UNCHANGED <<th, gvl>>
    BY <1>2, <1>6 DEF fio_perform_subscription_callback
<1>8. /\ sub \in [Sub -> Subscription] /\ sub[s] \in Subscription /\ SubAgrees(s) /\ CallAgrees(s, m) /\ CountAgrees(s)
      /\ th \in [Thread -> Place]
    BY <1>1 DEF Sound, Typed, CountsAgree
<1>9. Cardinality(CallsFor(tasks, s)) = Cardinality(CallsFor(Tail(tasks), s)) + 1
      /\ \A x \in Sub \ {s} : Cardinality(CallsFor(Tail(tasks), x)) = Cardinality(CallsFor(tasks, x))
  <2>1. \A x \in Sub : Cardinality(CallsFor(tasks, x)) = Cardinality(CallsFor(Tail(tasks), x)) + (IF e.s = x THEN 1 ELSE 0)
    BY <1>2, <1>3, CountTail
  <2>2. \A x \in Sub : Cardinality(CallsFor(Tail(tasks), x)) \in Nat
    BY <1>4, CallsFinite
  <2> QED
    BY <2>1, <2>2, <1>6
<1>10. Cardinality(CallsFor(tasks, s)) \in Nat /\ Cardinality(CallsFor(Tail(tasks), s)) \in Nat
    BY <1>3, <1>4, CallsFinite
<1>11. \A x \in Sub, y \in Msg : [s |-> x, m |-> y] = e <=> x = s /\ y = m
    BY <1>5
<1>12. th[w].pc \notin Handling
    BY <1>3 DEF Handling

\* Put back.
<1>20. ASSUME tasks' = Append(Tail(tasks), e), UNCHANGED <<chan, sub, msg, th, gvl, ended>> PROVE Sane'
  <2>1. /\ tasks' \in Seq(Call) /\ IsInjective(tasks)' /\ \A x : Contains(tasks', x) <=> Contains(tasks, x)
    BY <1>2, <1>3, <1>20, Rotated
  <2>2. ASSUME NEW x \in Sub, NEW y \in Msg PROVE Waits(x, y)' <=> Waits(x, y)
    <3>1. PICK z : z = [s |-> x, m |-> y]
      OBVIOUS
    <3>2. Contains(tasks', z) <=> Contains(tasks, z)
      BY <2>1
    <3> QED
      BY <3>1, <3>2 DEF Waits
  <2>3. ASSUME NEW x \in Sub, NEW y \in Msg PROVE (Untouched(x, y)' <=> Untouched(x, y)) /\ CallAgrees(x, y)'
    <3>1. \A t \in Thread : Handles(t, x, y)' <=> Handles(t, x, y)
      BY <1>20 DEF Handles
    <3>2. Untouched(x, y)' <=> Untouched(x, y)
      BY <3>1, <2>2, <1>3 DEF Untouched
    <3>3. CallAgrees(x, y)
      BY <1>1 DEF Sound
    <3> QED
      BY <3>1, <3>2, <3>3, <2>2, <1>3, <1>20 DEF CallAgrees
  <2>4. ASSUME NEW x \in Sub PROVE CountAgrees(x)'
    <3>1. Cardinality(CallsFor(tasks', x)) = Cardinality(CallsFor(tasks, x))
      <4>1. Cardinality(CallsFor(tasks', x)) = Cardinality(CallsFor(Tail(tasks), x)) + (IF e.s = x THEN 1 ELSE 0)
        BY <1>4, <1>20, CountAppend
      <4>2. Cardinality(CallsFor(tasks, x)) = Cardinality(CallsFor(Tail(tasks), x)) + (IF e.s = x THEN 1 ELSE 0)
        BY <1>2, <1>3, CountTail
      <4> QED
        BY <4>1, <4>2
    <3>2. CountAgrees(x) /\ CallsFor(tasks, x)' = CallsFor(tasks', x)
      BY <1>1 DEF CountsAgree, CallsFor
    <3> QED
      BY <3>1, <3>2, <1>3, <1>20 DEF CountAgrees, Handlers, Own
  <2>5. Typed'
    BY <2>1, <1>1, <1>3, <1>20 DEF Typed
  <2>6. SameLists /\ OthersKept(w) /\ SameFor({"publish", "patterns"}) /\ SameParents /\ SameKeys
    BY <1>3, <1>20 DEF SameLists, OthersKept, SameFor, SameParents, SameKeys
  <2>7. \A a \in Chan, y \in Msg : Queued(a, y)' <=> Queued(a, y)
    BY <1>3 DEF Queued
  <2>8. \A a \in Chan, y \in Msg : PostAgrees(a, y)'
    BY <2>3, <2>6, <2>7, <1>1, <1>3, PostKept
  <2>9. \A x \in Sub : SubAgrees(x)'
    BY <1>1, <1>3, <1>20, <2>6, SubKept
  <2>10. IsInjective(urgent)' /\ ThreadAgrees(w)'
    BY <1>1, <1>3, <1>20 DEF Sound, ThreadAgrees, IsInjective
  <2>11. th'[w].pc \notin {"crashed", "patterns"} \cup Joining \cup Leaving
    BY <1>3, <1>20 DEF Joining, Leaving
  <2> QED
    BY <2>1, <2>3, <2>4, <2>5, <2>6, <2>8, <2>9, <2>10, <2>11, <1>1, MessageKept DEF CountsAgree

\* Called.
<1>30. ASSUME sub[s].lock = NULL, sub[s].active, tasks' = Tail(tasks), sub' = [sub EXCEPT ![s] = v],
              th' = [th EXCEPT ![w] = work], UNCHANGED <<chan, msg, gvl, ended>>
       PROVE  Sane'
  <2>1. work \in Place /\ work.pc = "callback" /\ work.s = s /\ work.m = m
    BY DEF NoWork, Place, Handling
  <2>2. v \in Subscription /\ v.lock = w /\ v.parent = sub[s].parent /\ v.ref = sub[s].ref /\ v.active = sub[s].active
    <3>1. v \in Subscription
      BY <1>1, <1>8 DEF Subscription
    <3>2. v.lock = w /\ v.parent = sub[s].parent /\ v.ref = sub[s].ref /\ v.active = sub[s].active
      BY <1>8 DEF Subscription
    <3> QED
      BY <3>1, <3>2
  <2> HIDE DEF work, v
  <2>3. OthersStay(w) /\ th'[w] = work
    BY <2>1, <1>1, <1>8, <1>30 DEF OthersStay
  <2>4. /\ sub' \in [Sub -> Subscription] /\ sub'[s].lock = w
        /\ \A x \in Sub : sub'[x].parent = sub[x].parent /\ sub'[x].ref = sub[x].ref /\ sub'[x].active = sub[x].active
        /\ \A x \in Sub \ {s} : sub'[x].lock = sub[x].lock
    BY <2>2, <1>8, <1>30
  <2>5. life[s] \in {"live", "cancelling"} /\ m \in sent /\ sub[s].parent # NULL
    <3>1. ~(sub[s].parent = NULL \/ m \notin sent)
      BY <1>6, <1>8 DEF CallAgrees, Untouched
    <3> QED
      BY <3>1, <1>8, <1>30 DEF SubAgrees
  <2>6. \A x \in Sub, y \in Msg : Waits(x, y)' <=> Waits(x, y) /\ ~(x = s /\ y = m)
    BY <1>4, <1>11, <1>30 DEF Waits
  <2>7. \A t \in Thread : \A x, y : Handles(t, x, y)' <=> Handles(t, x, y) \/ (t = w /\ x = s /\ y = m)
    BY <2>1, <2>3, <1>1, <1>12 DEF Handles, Handling, OthersStay
  <2>8. \A x \in Sub, y \in Msg : ~(x = s /\ y = m) => (Untouched(x, y)' <=> Untouched(x, y))
    BY <2>6, <2>7, <1>3 DEF Untouched
  <2>9. ~Untouched(s, m) /\ got[<<s, m>>] = 0 /\ \A t \in Thread : ~Handles(t, s, m)
    BY <1>6, <1>8 DEF Untouched, CallAgrees
  <2>10. ASSUME NEW x \in Sub, NEW y \in Msg PROVE CallAgrees(x, y)'
    <3>1. CallAgrees(x, y)
      BY <1>1 DEF Sound
    <3>2. CASE x = s /\ y = m
      <4>1. ~Waits(x, y)' /\ got'[<<x, y>>] = 0
        BY <2>6, <2>9, <3>2, <1>3
      <4>2. \A t \in Thread : Handles(t, x, y)' => th'[t].pc = "callback"
        BY <2>1, <2>3, <2>7, <2>9, <3>2
      <4>3. sub'[x].parent # NULL /\ y \in sent'
        BY <2>4, <2>5, <3>2, <1>3
      <4> QED
        BY <4>1, <4>2, <4>3 DEF CallAgrees
    <3>3. CASE ~(x = s /\ y = m)
      <4>1. (Waits(x, y)' <=> Waits(x, y)) /\ (Untouched(x, y)' <=> Untouched(x, y))
        BY <2>6, <2>8, <3>3
      <4>2. \A t \in Thread : Handles(t, x, y)' => Handles(t, x, y) /\ th'[t] = th[t]
        BY <2>3, <2>7, <3>3, <1>12 DEF OthersStay, Handles
      <4> QED
        BY <3>1, <4>1, <4>2, <2>4, <1>3 DEF CallAgrees
    <3> QED
      BY <3>2, <3>3
  <2>11. ASSUME NEW x \in Sub PROVE CountAgrees(x)'
    <3>1. CountAgrees(x) /\ sub'[x].ref = sub[x].ref /\ Own(x)' = Own(x) /\ CallsFor(tasks, x)' = CallsFor(Tail(tasks), x)
      BY <2>4, <1>1, <1>3, <1>30 DEF CountsAgree, CallsFor, Own
    <3>2. CASE x = s
      <4>1. Handlers(s) = {} /\ w \in Handlers(x)'
        BY <2>1, <2>3, <3>2, <1>1, <1>30, Alone DEF Handlers, Handling
      <4>2. Own(x) \in Nat
        BY DEF Own
      <4> QED
        BY <3>1, <3>2, <4>1, <4>2, <1>9, <1>10 DEF CountAgrees
    <3>3. CASE x # s
      <4>1. Handlers(x)' = Handlers(x)
        BY <2>1, <2>3, <3>3, <1>1, <1>12 DEF Handlers, OthersStay
      <4> QED
        BY <3>1, <3>3, <4>1, <1>9 DEF CountAgrees
    <3> QED
      BY <3>2, <3>3
  <2>12. Typed'
    BY <2>3, <2>4, <1>1, <1>3, <1>4, <1>30 DEF Typed, OthersStay
  <2>13. SameLists /\ OthersKept(w) /\ SameParents /\ SameKeys
    BY <2>3, <2>4, <1>3, <1>30 DEF SameLists, OthersKept, OthersStay, SameParents, SameKeys
  <2>14. SameFor({"publish", "patterns"})
    BY <2>1, <2>3, <1>3 DEF SameFor, OthersStay
  <2>15. \A x \in Sub, y \in Msg : Untouched(x, y) => Untouched(x, y)'
    BY <2>8, <2>9
  <2>16. \A a \in Chan, y \in Msg : Queued(a, y)' <=> Queued(a, y)
    BY <1>3 DEF Queued
  <2>17. \A a \in Chan, y \in Msg : PostAgrees(a, y)'
    BY <2>13, <2>14, <2>15, <2>16, <1>1, <1>3, PostKept
  <2>18. \A x \in Sub : SubAgrees(x)'
    BY <2>4, <2>13, <1>1, <1>3, <1>30, SubKept
  <2>19. IsInjective(urgent)' /\ IsInjective(tasks)'
    BY <1>1, <1>3, <1>4, <1>30 DEF Sound, IsInjective
  <2>20. ThreadAgrees(w)'
    BY <2>1, <2>3, <2>4, <2>5, <1>3 DEF ThreadAgrees, Handling, Joining, Leaving
  <2>21. th'[w].pc \notin {"crashed", "patterns"} \cup Joining \cup Leaving
    BY <2>1, <2>3 DEF Joining, Leaving
  <2> QED
    BY <2>10, <2>11, <2>12, <2>13, <2>17, <2>18, <2>19, <2>20, <2>21, <1>1, MessageKept DEF CountsAgree

\* Dropped.
<1>40. ASSUME sub[s].lock = NULL, ~sub[s].active, tasks' = Tail(tasks), msg' = Released(m),
              fio_subscription_free(s, sub, chan), UNCHANGED <<th, gvl>>
       PROVE  Sane'
  <2>1. /\ sub' \in [Sub -> Subscription] /\ \A x \in Sub \ {s} : sub'[x] = sub[x] /\ ended'[x] = ended[x]
        /\ sub'[s].parent = sub[s].parent /\ sub'[s].lock = sub[s].lock /\ sub'[s].active = sub[s].active
        /\ sub'[s].ref = sub[s].ref - 1
        /\ chan' \in [Chan -> Channel]
        /\ \A a \in Chan : chan'[a].key = chan[a].key /\ chan'[a].subs = chan[a].subs
        /\ ended' \in [Sub -> Nat] /\ ended'[s] = IF sub[s].ref = 1 THEN ended[s] + 1 ELSE ended[s]
    <3>1. PICK y : y = sub[s]
      OBVIOUS
    <3>2. y \in Subscription /\ y.ref = sub[s].ref /\ sub = [sub EXCEPT ![s] = y]
      BY <3>1, <1>8
    <3> QED
      BY <3>1, <3>2, <1>1, <1>40, Frees
  <2> HIDE DEF work, v
  <2>2. life[s] = "cancelled" /\ sub[s].parent # NULL
    <3>1. sub[s].parent # NULL
      BY <1>6, <1>8 DEF CallAgrees, Untouched
    <3> QED
      BY <3>1, <1>1, <1>8, <1>40 DEF SubAgrees, Typed
  <2>3. \A x \in Sub, y \in Msg : Waits(x, y)' <=> Waits(x, y) /\ ~(x = s /\ y = m)
    BY <1>4, <1>11, <1>40 DEF Waits
  <2>4. \A t \in Thread : \A x, y : Handles(t, x, y)' <=> Handles(t, x, y)
    BY <1>40 DEF Handles
  <2>5. \A x \in Sub, y \in Msg : Untouched(x, y) => Untouched(x, y)'
    BY <2>3, <2>4, <1>3 DEF Untouched
  <2>6. \A x \in Sub : sub'[x].parent = sub[x].parent /\ sub'[x].lock = sub[x].lock /\ sub'[x].active = sub[x].active
    BY <2>1
  <2>7. ASSUME NEW x \in Sub, NEW y \in Msg PROVE CallAgrees(x, y)'
    <3>1. CallAgrees(x, y)
      BY <1>1 DEF Sound
    <3> QED
      BY <3>1, <2>3, <2>4, <2>5, <2>6, <1>3, <1>40 DEF CallAgrees
  <2>8. Handlers(s) = {} /\ sub[s].ref = Cardinality(CallsFor(tasks, s))
    <3>1. Handlers(s) = {} /\ Own(s) = 0
      BY <2>2, <1>1, <1>40, Alone DEF Own
    <3> QED
      BY <3>1, <1>8, <1>10 DEF CountAgrees
  <2>9. ASSUME NEW x \in Sub PROVE CountAgrees(x)'
    <3>1. CountAgrees(x) /\ Own(x)' = Own(x) /\ CallsFor(tasks, x)' = CallsFor(Tail(tasks), x) /\ Handlers(x)' = Handlers(x)
      BY <1>1, <1>3, <1>40 DEF CountsAgree, CallsFor, Own, Handlers
    <3>2. CASE x = s
      <4>1. Own(s) = 0
        BY <2>2 DEF Own
      <4>2. sub'[s].ref = Cardinality(CallsFor(Tail(tasks), s))
        BY <2>1, <2>8, <1>9, <1>10
      <4> QED
        BY <3>1, <3>2, <4>1, <4>2, <2>8, <1>10 DEF CountAgrees
    <3>3. CASE x # s
      <4>1. sub'[x].ref = sub[x].ref
        BY <2>1, <3>3
      <4> QED
        BY <3>1, <3>3, <4>1, <1>9 DEF CountAgrees
    <3> QED
      BY <3>2, <3>3
  <2>10. msg' \in [Msg -> Int]
    BY <1>1, <1>40 DEF Released, Typed
  <2>11. Typed'
    BY <2>1, <2>10, <1>1, <1>3, <1>4, <1>40 DEF Typed
  <2>12. SameLists /\ OthersKept(w) /\ SameParents /\ SameKeys /\ SameFor({"publish", "patterns"})
    BY <2>1, <2>6, <1>3, <1>40 DEF SameLists, OthersKept, SameParents, SameKeys, SameFor
  <2>13. \A a \in Chan, y \in Msg : Queued(a, y)' <=> Queued(a, y)
    BY <1>3 DEF Queued
  <2>14. \A a \in Chan, y \in Msg : PostAgrees(a, y)'
    BY <2>5, <2>12, <2>13, <1>1, <1>3, PostKept
  <2>15. ASSUME NEW x \in Sub PROVE SubAgrees(x)'
    <3>1. CASE x = s
      <4>1. sub[s].ref \in Nat /\ sub[s].ref # 0
        BY <2>8, <1>9, <1>10
      <4>2. ended[s] = 0
        BY <4>1, <2>2, <1>8 DEF SubAgrees
      <4>3. ended'[s] = IF sub'[s].ref = 0 THEN 1 ELSE 0
        BY <4>1, <4>2, <2>1
      <4> QED
        BY <3>1, <4>3, <2>1, <2>2, <1>3, <1>8 DEF SubAgrees
    <3>2. CASE x # s
      BY <3>2, <2>1, <2>12, <1>1, <1>3, SubKept
    <3> QED
      BY <3>1, <3>2
  <2>16. IsInjective(urgent)' /\ IsInjective(tasks)'
    BY <1>1, <1>3, <1>4, <1>40 DEF Sound, IsInjective
  <2>17. ThreadAgrees(w)'
    BY <1>3, <1>40 DEF ThreadAgrees, Handling, Joining, Leaving
  <2>18. th'[w].pc \notin {"crashed", "patterns"} \cup Joining \cup Leaving
    BY <1>3, <1>40 DEF Joining, Leaving
  <2> QED
    BY <2>7, <2>9, <2>11, <2>12, <2>14, <2>15, <2>16, <2>17, <2>18, <1>1, MessageKept DEF CountsAgree
<1> QED
    BY <1>7, <1>20, <1>30, <1>40

\* The callback of a call that was taken runs: the one time it does.
LEMMA Runs ==
    ASSUME Sane, NEW w \in Worker, on_message(w)
    PROVE  Sane'
<1>1. Sound /\ Typed /\ CountsAgree /\ w \in Thread /\ ThreadAgrees(w)
    BY DEF Sane, Sound, Thread
<1>2. PICK s, m : s = th[w].s /\ m = th[w].m
    OBVIOUS
<1>3. /\ th[w].pc = "callback" /\ s \in Sub /\ m \in Msg /\ Handles(w, s, m)
      /\ UNCHANGED <<channels, chan, sub, msg, urgent, tasks, engine, life, ended, due, sent, defers, attaches>>
    BY <1>1, <1>2 DEF on_message, ThreadAgrees, Handling, Handles
<1>4. got \in [Sub \X Msg -> Nat] /\ got' = [got EXCEPT ![<<s, m>>] = got[<<s, m>>] + 1]
    BY <1>1, <1>2 DEF on_message, Typed
<1>5. PICK p : p = <<s, m>>
    OBVIOUS
<1>6. CallAgrees(s, m) /\ p \in Sub \X Msg /\ got[p] = 0 /\ got[<<s, m>>] = 0
    BY <1>1, <1>3, <1>5 DEF Sound, CallAgrees
<1>7. got' \in [Sub \X Msg -> Nat] /\ got'[<<s, m>>] = 1
    BY <1>3, <1>4, <1>5, <1>6
<1>8. \A x \in Sub, y \in Msg : ~(x = s /\ y = m) => got'[<<x, y>>] = got[<<x, y>>]
    BY <1>3, <1>4
<1>9. gvl' \in Thread \cup {NULL}
    BY <1>1 DEF on_message, Typed
<1> DEFINE work == [th[w] EXCEPT !.pc = "running"]
<1>10. work \in Place /\ work.pc = "running" /\ work.s = s /\ work.m = m
  <2>1. PICK x \in Place : x = th[w]
    BY <1>1 DEF Typed
  <2>2. work \in Place /\ work.pc = "running" /\ work.s = x.s /\ work.m = x.m
    BY <2>1 DEF Place, Handling
  <2> QED
    BY <2>1, <2>2, <1>2
<1>11. OthersStay(w) /\ th'[w] = work
  <2>1. th' = [th EXCEPT ![w] = work] /\ th \in [Thread -> Place]
    BY <1>1 DEF on_message, Typed
  <2> QED
    BY <2>1, <1>1, <1>10 DEF OthersStay
<1> HIDE DEF work
<1>12. \A t \in Thread : \A x, y : Handles(t, x, y)' <=> Handles(t, x, y)
    BY <1>2, <1>3, <1>10, <1>11 DEF Handles, OthersStay, Handling
<1>13. \A x \in Sub, y \in Msg : Waits(x, y)' <=> Waits(x, y)
    BY <1>3 DEF Waits
<1>14. \A x \in Sub, y \in Msg : ~(x = s /\ y = m) => (Untouched(x, y)' <=> Untouched(x, y))
    BY <1>8, <1>12, <1>13 DEF Untouched
<1>15. ~Untouched(s, m)
    BY <1>1, <1>3 DEF Untouched
<1>16. \A t \in Thread : th[t].pc \in Handling /\ th[t].s = s => t = w
  <2>1. \A t \in Thread : ThreadAgrees(t)
    BY <1>1 DEF Sound
  <2> QED
    BY <2>1, <1>1, <1>2, <1>3 DEF ThreadAgrees, Handling
<1>17. ASSUME NEW x \in Sub, NEW y \in Msg PROVE CallAgrees(x, y)'
  <2>1. CallAgrees(x, y)
    BY <1>1 DEF Sound
  <2>2. CASE x = s /\ y = m
    <3>1. ~Waits(x, y)' /\ got'[<<x, y>>] = 1
      <4>1. ~Waits(s, m)
        BY <1>1, <1>3, <1>6 DEF CallAgrees
      <4> QED
        BY <4>1, <1>3, <1>7, <1>13, <2>2
    <3>2. \A t \in Thread : Handles(t, x, y)' => th'[t].pc = "running"
      BY <1>10, <1>11, <1>12, <1>16, <2>2 DEF Handles
    <3>3. sub'[x].parent # NULL /\ y \in sent'
      BY <1>3, <1>15, <2>1, <2>2 DEF CallAgrees
    <3> QED
      BY <3>1, <3>2, <3>3 DEF CallAgrees
  <2>3. CASE ~(x = s /\ y = m)
    <3>1. \A t \in Thread : Handles(t, x, y)' => Handles(t, x, y) /\ th'[t] = th[t]
      BY <1>2, <1>11, <1>12, <2>3 DEF OthersStay, Handles
    <3>2. got'[<<x, y>>] = got[<<x, y>>] /\ (Untouched(x, y)' <=> Untouched(x, y)) /\ (Waits(x, y)' <=> Waits(x, y))
      BY <1>8, <1>13, <1>14, <2>3
    <3> QED
      BY <2>1, <3>1, <3>2, <1>3 DEF CallAgrees
  <2> QED
    BY <2>2, <2>3
<1>18. ASSUME NEW x \in Sub PROVE CountAgrees(x)'
  <2>1. Handlers(x)' = Handlers(x)
    BY <1>2, <1>3, <1>10, <1>11 DEF Handlers, OthersStay, Handling
  <2>2. CountAgrees(x) /\ Own(x)' = Own(x) /\ CallsFor(tasks, x)' = CallsFor(tasks, x)
    BY <1>1, <1>3 DEF CountsAgree, CallsFor, Own
  <2> QED
    BY <2>1, <2>2, <1>3 DEF CountAgrees
<1>19. Typed'
    BY <1>1, <1>3, <1>7, <1>9, <1>11 DEF Typed, OthersStay
<1>20. SameLists /\ OthersKept(w) /\ SameParents /\ SameKeys
    BY <1>3, <1>11 DEF SameLists, OthersKept, OthersStay, SameParents, SameKeys
<1>21. SameFor({"publish", "patterns"})
    BY <1>3, <1>10, <1>11 DEF SameFor, OthersStay
<1>22. \A x \in Sub, y \in Msg : Untouched(x, y) => Untouched(x, y)'
    BY <1>14, <1>15
<1>23. \A a \in Chan, y \in Msg : Queued(a, y)' <=> Queued(a, y)
    BY <1>3 DEF Queued
<1>24. \A a \in Chan, y \in Msg : PostAgrees(a, y)'
    BY <1>20, <1>21, <1>22, <1>23, <1>1, <1>3, PostKept
<1>25. \A x \in Sub : SubAgrees(x)'
    BY <1>20, <1>1, <1>3, SubKept
<1>26. IsInjective(urgent)' /\ IsInjective(tasks)'
    BY <1>1, <1>3 DEF Sound, IsInjective
<1>27. ThreadAgrees(w)'
  <2>1. sub[s].lock = w /\ life[s] \in {"live", "cancelling"}
    BY <1>1, <1>2, <1>3 DEF ThreadAgrees, Handling
  <2> QED
    BY <2>1, <1>3, <1>10, <1>11 DEF ThreadAgrees, Handling, Joining, Leaving
<1>28. th'[w].pc \notin {"crashed", "patterns"} \cup Joining \cup Leaving
    BY <1>10, <1>11 DEF Joining, Leaving
<1> QED
    BY <1>17, <1>18, <1>19, <1>20, <1>24, <1>25, <1>26, <1>27, <1>28, <1>1, MessageKept DEF CountsAgree

\* A callback that cannot lock its connection puts its call back and unlocks the subscription.
LEMMA Defers ==
    ASSUME Sane, NEW w \in Worker, fio_message_defer(w)
    PROVE  Sane'
<1>1. Sound /\ Typed /\ CountsAgree /\ w \in Thread /\ ThreadAgrees(w)
    BY DEF Sane, Sound, Thread
<1>2. PICK s, m : s = th[w].s /\ m = th[w].m
    OBVIOUS
<1>3. /\ th[w].pc = "callback" /\ Return(w) /\ defers' = defers + 1
      /\ UNCHANGED <<channels, chan, msg, urgent, engine, life, ended, got, due, sent, attaches>>
    BY DEF fio_message_defer
<1>4. s \in Sub /\ m \in Msg /\ Handles(w, s, m) /\ sub[s].lock = w
    BY <1>1, <1>2, <1>3 DEF ThreadAgrees, Handling, Handles
<1>5. PICK e : e = [s |-> s, m |-> m]
    OBVIOUS
<1>6. e \in Call /\ e.s = s /\ e.m = m /\ tasks' = Append(tasks, e)
    BY <1>2, <1>4, <1>5 DEF Call, fio_message_defer, Requeued
<1>7. CallAgrees(s, m) /\ ~Waits(s, m) /\ got[<<s, m>>] = 0
  <2>1. CallAgrees(s, m)
    BY <1>1, <1>4 DEF Sound
  <2> QED
    BY <2>1, <1>1, <1>3, <1>4 DEF CallAgrees
<1>8. tasks \in Seq(Call) /\ IsInjective(tasks) /\ ~Contains(tasks, e)
    BY <1>1, <1>5, <1>7 DEF Typed, Sound, Waits
<1>9. tasks' \in Seq(Call) /\ IsInjective(tasks') /\ \A x : Contains(tasks', x) <=> Contains(tasks, x) \/ x = e
    BY <1>6, <1>8, AppendIs
<1> DEFINE v == [sub[s] EXCEPT !.lock = NULL]
<1>10. v \in Subscription /\ v.lock = NULL /\ v.parent = sub[s].parent /\ v.ref = sub[s].ref /\ v.active = sub[s].active
  <2>1. sub[s] \in Subscription
    BY <1>1, <1>4 DEF Typed
  <2> QED
    BY <2>1 DEF Subscription
<1> HIDE DEF v
<1>11. /\ sub' \in [Sub -> Subscription]
       /\ \A x \in Sub : sub'[x].parent = sub[x].parent /\ sub'[x].ref = sub[x].ref /\ sub'[x].active = sub[x].active
       /\ \A x \in Sub \ {s} : sub'[x].lock = sub[x].lock
  <2>1. sub' = [sub EXCEPT ![s] = v] /\ sub \in [Sub -> Subscription]
    BY <1>1, <1>2 DEF fio_message_defer, Unlocked, Typed, v
  <2> QED
    BY <2>1, <1>4, <1>10
<1>12. OthersStay(w) /\ th'[w] = NoWork /\ gvl' \in Thread \cup {NULL}
    BY <1>1, <1>3, Returns
<1>13. ASSUME NEW x \in Sub, NEW y \in Msg PROVE Waits(x, y)' <=> Waits(x, y) \/ (x = s /\ y = m)
  <2>1. PICK z : z = [s |-> x, m |-> y]
    OBVIOUS
  <2>2. (Contains(tasks', z) <=> Contains(tasks, z) \/ z = e) /\ (z = e <=> x = s /\ y = m)
    BY <2>1, <1>5, <1>9
  <2> QED
    BY <2>1, <2>2 DEF Waits
<1>14. \A t \in Thread : \A x, y : Handles(t, x, y)' <=> Handles(t, x, y) /\ t # w
    BY <1>12 DEF Handles, OthersStay, Handling, NoWork
<1>15. \A t \in Thread : th[t].pc \in Handling /\ th[t].s = s => t = w
  <2>1. \A t \in Thread : ThreadAgrees(t)
    BY <1>1 DEF Sound
  <2> QED
    BY <2>1, <1>1, <1>2, <1>4 DEF ThreadAgrees, Handling
<1>16. \A x \in Sub, y \in Msg : Handles(w, x, y) => x = s /\ y = m
    BY <1>2 DEF Handles
<1>17. \A x \in Sub, y \in Msg : ~(x = s /\ y = m) => (Untouched(x, y)' <=> Untouched(x, y))
    BY <1>1, <1>3, <1>13, <1>14, <1>16 DEF Untouched
<1>18. ~Untouched(s, m)
    BY <1>1, <1>4 DEF Untouched
<1>19. ASSUME NEW x \in Sub, NEW y \in Msg PROVE CallAgrees(x, y)'
  <2>1. CallAgrees(x, y)
    BY <1>1 DEF Sound
  <2>2. CASE x = s /\ y = m
    <3>1. got'[<<x, y>>] = 0
      BY <1>3, <1>7, <2>2
    <3>2. \A t \in Thread : ~Handles(t, x, y)'
      BY <1>14, <1>15, <2>2 DEF Handles
    <3>3. sub'[x].parent # NULL /\ y \in sent'
      BY <1>3, <1>11, <1>18, <2>1, <2>2 DEF CallAgrees
    <3> QED
      BY <3>1, <3>2, <3>3 DEF CallAgrees
  <2>3. CASE ~(x = s /\ y = m)
    <3>1. \A t \in Thread : Handles(t, x, y)' => Handles(t, x, y) /\ th'[t] = th[t]
      BY <1>12, <1>14 DEF OthersStay
    <3>2. (Untouched(x, y)' <=> Untouched(x, y)) /\ (Waits(x, y)' <=> Waits(x, y)) /\ sub'[x].parent = sub[x].parent
      BY <1>11, <1>13, <1>17, <2>3
    <3> QED
      BY <2>1, <3>1, <3>2, <1>3 DEF CallAgrees
  <2> QED
    BY <2>2, <2>3
<1>20. ASSUME NEW x \in Sub PROVE CountAgrees(x)'
  <2>1. CountAgrees(x) /\ Own(x)' = Own(x) /\ CallsFor(tasks, x)' = CallsFor(tasks', x) /\ sub'[x].ref = sub[x].ref
    BY <1>1, <1>3, <1>11 DEF CountsAgree, CallsFor, Own
  <2>2. Cardinality(CallsFor(tasks', x)) = Cardinality(CallsFor(tasks, x)) + (IF s = x THEN 1 ELSE 0)
    BY <1>6, <1>8, CountAppend
  <2>3. Cardinality(CallsFor(tasks, x)) \in Nat /\ Own(x) \in Nat
    BY <1>8, CallsFinite DEF Own
  <2>4. CASE x = s
    <3>1. Handlers(x)' = {} /\ Handlers(x) # {}
      BY <1>1, <1>4, <1>12, <1>15, <2>4 DEF Handlers, Handles, OthersStay, NoWork, Handling
    <3> QED
      BY <3>1, <2>1, <2>2, <2>3, <2>4 DEF CountAgrees
  <2>5. CASE x # s
    <3>1. Handlers(x)' = Handlers(x)
      BY <1>2, <1>12, <2>5 DEF Handlers, OthersStay, NoWork, Handling
    <3> QED
      BY <3>1, <2>1, <2>2, <2>3, <2>5 DEF CountAgrees
  <2> QED
    BY <2>4, <2>5
<1>21. Typed'
    BY <1>1, <1>3, <1>9, <1>11, <1>12 DEF Typed, OthersStay
<1>22. SameLists /\ OthersKept(w) /\ SameParents /\ SameKeys
    BY <1>3, <1>4, <1>11, <1>12 DEF SameLists, OthersKept, OthersStay, SameParents, SameKeys
<1>23. SameFor({"publish", "patterns"})
    BY <1>3, <1>12 DEF SameFor, OthersStay, NoWork
<1>24. \A x \in Sub, y \in Msg : Untouched(x, y) => Untouched(x, y)'
    BY <1>17, <1>18
<1>25. \A a \in Chan, y \in Msg : Queued(a, y)' <=> Queued(a, y)
    BY <1>3 DEF Queued
<1>26. \A a \in Chan, y \in Msg : PostAgrees(a, y)'
    BY <1>22, <1>23, <1>24, <1>25, <1>1, <1>3, PostKept
<1>27. \A x \in Sub : SubAgrees(x)'
    BY <1>11, <1>22, <1>1, <1>3, SubKept
<1>28. IsInjective(urgent)' /\ IsInjective(tasks)'
    BY <1>1, <1>3, <1>9 DEF Sound, IsInjective
<1>29. ThreadAgrees(w)'
    BY <1>12 DEF ThreadAgrees, NoWork, Handling, Joining, Leaving
<1>30. th'[w].pc \notin {"crashed", "patterns"} \cup Joining \cup Leaving
    BY <1>12 DEF NoWork, Joining, Leaving
<1> QED
    BY <1>19, <1>20, <1>21, <1>22, <1>26, <1>27, <1>28, <1>29, <1>30, <1>1, MessageKept DEF CountsAgree

\* The callback returned: the message, the lock and the call's reference are released.
LEMMA Answers ==
    ASSUME Sane, NEW w \in Worker, callback_done(w)
    PROVE  Sane'
<1>1. Sound /\ Typed /\ CountsAgree /\ w \in Thread /\ ThreadAgrees(w)
    BY DEF Sane, Sound, Thread
<1>2. PICK s, m : s = th[w].s /\ m = th[w].m
    OBVIOUS
<1>3. /\ th[w].pc = "running" /\ Return(w) /\ msg' = Released(m)
      /\ fio_subscription_free(s, Unlocked(s), chan)
      /\ UNCHANGED <<channels, urgent, tasks, engine, life, got, due, sent, defers, attaches>>
    BY <1>2 DEF callback_done
<1>4. s \in Sub /\ m \in Msg /\ Handles(w, s, m) /\ sub[s].lock = w /\ life[s] \in {"live", "cancelling"}
    BY <1>1, <1>2, <1>3 DEF ThreadAgrees, Handling, Handles
<1> DEFINE v == [sub[s] EXCEPT !.lock = NULL]
<1>5. v \in Subscription /\ v.lock = NULL /\ v.parent = sub[s].parent /\ v.ref = sub[s].ref /\ v.active = sub[s].active
  <2>1. sub[s] \in Subscription
    BY <1>1, <1>4 DEF Typed
  <2> QED
    BY <2>1 DEF Subscription
<1>6. Unlocked(s) = [sub EXCEPT ![s] = v]
    BY DEF Unlocked
<1> HIDE DEF v
<1>7. /\ sub' \in [Sub -> Subscription] /\ \A x \in Sub \ {s} : sub'[x] = sub[x] /\ ended'[x] = ended[x]
      /\ sub'[s].parent = sub[s].parent /\ sub'[s].lock = NULL /\ sub'[s].active = sub[s].active
      /\ sub'[s].ref = sub[s].ref - 1
      /\ chan' \in [Chan -> Channel]
      /\ \A a \in Chan : chan'[a].key = chan[a].key /\ chan'[a].subs = chan[a].subs
      /\ ended' \in [Sub -> Nat] /\ ended'[s] = IF sub[s].ref = 1 THEN ended[s] + 1 ELSE ended[s]
  <2>1. PICK sb : sb = Unlocked(s)
    OBVIOUS
  <2> QED
    BY <2>1, <1>1, <1>3, <1>4, <1>5, <1>6, Frees
<1>8. OthersStay(w) /\ th'[w] = NoWork /\ gvl' \in Thread \cup {NULL}
    BY <1>1, <1>3, Returns
<1>9. \A x \in Sub, y \in Msg : Waits(x, y)' <=> Waits(x, y)
    BY <1>3 DEF Waits
<1>10. \A t \in Thread : \A x, y : Handles(t, x, y)' <=> Handles(t, x, y) /\ t # w
    BY <1>8 DEF Handles, OthersStay, Handling, NoWork
<1>11. \A t \in Thread : th[t].pc \in Handling /\ th[t].s = s => t = w
  <2>1. \A t \in Thread : ThreadAgrees(t)
    BY <1>1 DEF Sound
  <2> QED
    BY <2>1, <1>1, <1>2, <1>4 DEF ThreadAgrees, Handling
<1>12. ASSUME NEW x \in Sub, NEW y \in Msg
       PROVE  CallAgrees(x, y)' /\ (Untouched(x, y) => Untouched(x, y)')
  <2>1. CallAgrees(x, y)
    BY <1>1 DEF Sound
  <2>2. \A t \in Thread : Handles(t, x, y)' => Handles(t, x, y) /\ th'[t] = th[t]
    BY <1>8, <1>10 DEF OthersStay
  <2>3. (Untouched(x, y) => Untouched(x, y)') /\ (Waits(x, y)' <=> Waits(x, y)) /\ sub'[x].parent = sub[x].parent
    BY <1>3, <1>7, <1>9, <1>10 DEF Untouched
  <2> QED
    BY <2>1, <2>2, <2>3, <1>3 DEF CallAgrees
<1>13. Own(s) = 1 /\ \A x \in Sub : Own(x)' = Own(x)
    BY <1>3, <1>4 DEF Own
<1>14. Cardinality(CallsFor(tasks, s)) \in Nat /\ CountAgrees(s) /\ Handlers(s) # {}
    BY <1>1, <1>4, CallsFinite DEF CountsAgree, Handlers, Handles, Typed
<1>15. sub[s].ref \in Nat /\ sub[s].ref >= 2
    BY <1>13, <1>14 DEF CountAgrees
<1>16. ASSUME NEW x \in Sub PROVE CountAgrees(x)'
  <2>1. CountAgrees(x) /\ CallsFor(tasks, x)' = CallsFor(tasks, x)
    BY <1>1, <1>3 DEF CountsAgree, CallsFor
  <2>2. CASE x = s
    <3>1. Handlers(x)' = {}
      BY <1>8, <1>11, <2>2 DEF Handlers, OthersStay, NoWork, Handling
    <3> QED
      BY <3>1, <2>1, <2>2, <1>7, <1>13, <1>14 DEF CountAgrees
  <2>3. CASE x # s
    <3>1. Handlers(x)' = Handlers(x)
      BY <1>2, <1>8, <2>3 DEF Handlers, OthersStay, NoWork, Handling
    <3> QED
      BY <3>1, <2>1, <2>3, <1>7, <1>13 DEF CountAgrees
  <2> QED
    BY <2>2, <2>3
<1>17. msg' \in [Msg -> Int]
  <2>1. msg \in [Msg -> Int] /\ msg' = [msg EXCEPT ![m] = msg[m] - 1]
    BY <1>1, <1>3 DEF Released, Typed
  <2>2. PICK n \in Int : n = msg[m] - 1
    BY <2>1, <1>4
  <2> QED
    BY <2>1, <2>2, <1>4
<1>18. Typed'
    BY <1>1, <1>3, <1>7, <1>8, <1>17 DEF Typed, OthersStay
<1>19. SameLists /\ OthersKept(w) /\ SameParents /\ SameKeys
    BY <1>3, <1>4, <1>7, <1>8 DEF SameLists, OthersKept, OthersStay, SameParents, SameKeys
<1>20. SameFor({"publish", "patterns"})
    BY <1>3, <1>8 DEF SameFor, OthersStay, NoWork
<1>21. \A a \in Chan, y \in Msg : Queued(a, y)' <=> Queued(a, y)
    BY <1>3 DEF Queued
<1>22. \A a \in Chan, y \in Msg : PostAgrees(a, y)'
    BY <1>12, <1>19, <1>20, <1>21, <1>1, <1>3, PostKept
<1>23. ASSUME NEW x \in Sub PROVE SubAgrees(x)'
  <2>1. CASE x = s
    <3>1. SubAgrees(s) /\ ended[s] = 0
      BY <1>1, <1>4 DEF Sound, SubAgrees
    <3>2. ended'[s] = 0
      BY <3>1, <1>7, <1>15
    <3> QED
      BY <2>1, <3>1, <3>2, <1>3, <1>4, <1>7 DEF SubAgrees
  <2>2. CASE x # s
    BY <2>2, <1>1, <1>3, <1>7, <1>19, SubKept
  <2> QED
    BY <2>1, <2>2
<1>24. IsInjective(urgent)' /\ IsInjective(tasks)'
    BY <1>1, <1>3 DEF Sound, IsInjective
<1>25. ThreadAgrees(w)'
    BY <1>8 DEF ThreadAgrees, NoWork, Handling, Joining, Leaving
<1>26. th'[w].pc \notin {"crashed", "patterns"} \cup Joining \cup Leaving
    BY <1>8 DEF NoWork, Joining, Leaving
<1> QED
    BY <1>12, <1>16, <1>18, <1>19, <1>22, <1>23, <1>24, <1>25, <1>26, <1>1, MessageKept DEF CountsAgree

-----------------------------------------------------------------------------
(* Reading freed memory, and doing nothing.                                *)

\* A read of freed memory stops every thread and leaves what they had done as it was.
LEMMA Crashes ==
    ASSUME Sane, NEW t \in Thread, use_after_free(t)
    PROVE  Sound' /\ \A u \in Thread : th'[u].pc = "crashed"
<1> DEFINE work == [NoWork EXCEPT !.pc = "crashed"]
<1>1. work \in Place /\ work.pc = "crashed"
    BY DEF NoWork, Place
<1> HIDE DEF work
<1>2. /\ Sound /\ Typed /\ th' \in [Thread -> Place] /\ \A u \in Thread : th'[u].pc = "crashed"
      /\ UNCHANGED <<channels, chan, sub, msg, urgent, tasks, gvl, engine, life, ended, got, due, sent, defers, attaches>>
  <2>1. th' = [u \in Thread |-> work]
    BY DEF use_after_free, work
  <2> QED
    BY <2>1, <1>1 DEF use_after_free, Sane, Sound
<1>3. Typed'
    BY <1>2 DEF Typed
<1>4. IsInjective(urgent)' /\ IsInjective(tasks)'
    BY <1>2 DEF Sound, IsInjective
<1>5. ThreadsApart' /\ \A u \in Thread : ThreadAgrees(u)'
    BY <1>2 DEF ThreadsApart, ThreadAgrees, Joining, Leaving, Handling
<1>6. \A a \in Chan : ChannelAgrees(a)'
    BY <1>2 DEF Sound, ChannelAgrees, IsInjective
<1>7. (\A k \in Key : KeyAgrees(k)') /\ \A s \in Sub : SubAgrees(s)'
    BY <1>2 DEF Sound, KeyAgrees, SubAgrees
<1>8. \A s \in Sub, m \in Msg : (Waits(s, m)' <=> Waits(s, m)) /\ \A u \in Thread : ~Handles(u, s, m)'
    BY <1>2 DEF Waits, Handles, Handling
<1>9. ASSUME NEW s \in Sub, NEW m \in Msg PROVE CallAgrees(s, m)' /\ (Untouched(s, m) => Untouched(s, m)')
  <2>1. CallAgrees(s, m)
    BY <1>2 DEF Sound
  <2> QED
    BY <2>1, <1>2, <1>8 DEF CallAgrees, Untouched
<1>10. ASSUME NEW a \in Chan, NEW m \in Msg PROVE PostAgrees(a, m)'
  <2>1. PostAgrees(a, m)
    BY <1>2 DEF Sound
  <2>2. (Queued(a, m)' <=> Queued(a, m)) /\ \A u \in Thread : ~Publishes(u, a, m)' /\ th'[u].pc # "patterns"
    BY <1>2 DEF Queued, Publishes
  <2>3. Ahead(a, m) => Ahead(a, m)'
    BY <1>2, <1>9 DEF Ahead
  <2> QED
    BY <2>1, <2>2, <2>3, <1>2 DEF PostAgrees, Posted
<1> QED
    BY <1>2, <1>3, <1>4, <1>5, <1>6, <1>7, <1>9, <1>10 DEF Sound

\* A step of no thread.
LEMMA Stays ==
    ASSUME Inv, UNCHANGED vars
    PROVE  Inv'
<1>1. /\ channels' = channels /\ chan' = chan /\ sub' = sub /\ msg' = msg /\ urgent' = urgent /\ tasks' = tasks
      /\ th' = th /\ gvl' = gvl /\ engine' = engine /\ life' = life /\ ended' = ended /\ got' = got
      /\ due' = due /\ sent' = sent /\ defers' = defers /\ attaches' = attaches
    BY DEF vars
<1>2. Sound'
  <2>1. Typed' /\ IsInjective(urgent)' /\ IsInjective(tasks)' /\ ThreadsApart'
    BY <1>1 DEF Inv, Sound, Typed, IsInjective, ThreadsApart
  <2>2. \A t \in Thread : ThreadAgrees(t)'
    BY <1>1 DEF Inv, Sound, ThreadAgrees
  <2>3. (\A a \in Chan : ChannelAgrees(a)') /\ (\A k \in Key : KeyAgrees(k)') /\ \A s \in Sub : SubAgrees(s)'
    BY <1>1 DEF Inv, Sound, ChannelAgrees, IsInjective, KeyAgrees, SubAgrees
  <2>4. \A s \in Sub, m \in Msg : /\ Waits(s, m)' <=> Waits(s, m)
                                  /\ \A t \in Thread : Handles(t, s, m)' <=> Handles(t, s, m)
    BY <1>1 DEF Waits, Handles
  <2>5. \A s \in Sub, m \in Msg : CallAgrees(s, m)' /\ (Untouched(s, m)' <=> Untouched(s, m))
    BY <2>4, <1>1 DEF Inv, Sound, CallAgrees, Untouched
  <2>6. SameFor({"publish", "patterns"}) /\ SameParents /\ SameKeys /\ \A a \in Chan, m \in Msg : Queued(a, m)' <=> Queued(a, m)
    BY <1>1 DEF SameFor, SameParents, SameKeys, Queued
  <2>7. \A a \in Chan, m \in Msg : PostAgrees(a, m)'
    BY <2>5, <2>6, <1>1, PostKept DEF Inv
  <2> QED
    BY <2>1, <2>2, <2>3, <2>5, <2>7 DEF Sound
<1>3. OnUnsubscribeIsLast'
    BY <1>1 DEF Inv, OnUnsubscribeIsLast, Held
<1>4. CASE Sane
  <2>1. CountsAgree'
    BY <1>1, <1>4 DEF Sane, CountsAgree, CountAgrees, Own, CallsFor, Handlers
  <2>2. ~Crashed'
    BY <1>1, <1>4 DEF Sane, Crashed
  <2> QED
    BY <1>2, <1>3, <2>1, <2>2 DEF Inv, Sane
<1>5. CASE \A t \in Thread : th[t].pc = "crashed"
    BY <1>1, <1>2, <1>3, <1>5 DEF Inv
<1> QED
    BY <1>4, <1>5 DEF Inv

-----------------------------------------------------------------------------
(* The theorems.                                                           *)

\* on_unsubscribe was called of a subscription whose count is zero: no call is queued
\* and none is being handled, since each would count.
LEMMA LastOfAll ==
    ASSUME Sane
    PROVE  OnUnsubscribeIsLast
<1> SUFFICES ASSUME NEW s \in Sub, ended[s] > 0
             PROVE  /\ ended[s] = 1 /\ life[s] = "cancelled"
                    /\ \A i \in DOMAIN tasks : tasks[i].s # s
                    /\ \A w \in Worker : ~(Held(w, {"callback", "running"}) /\ th[w].s = s)
    BY DEF OnUnsubscribeIsLast
<1>1. SubAgrees(s) /\ CountAgrees(s) /\ tasks \in Seq(Call)
    BY DEF Sane, Sound, CountsAgree, Typed
<1>2. ended[s] = 1 /\ life[s] = "cancelled" /\ sub[s].ref = 0
    BY <1>1 DEF SubAgrees
<1>3. IsFiniteSet(CallsFor(tasks, s)) /\ Cardinality(CallsFor(tasks, s)) \in Nat
    BY <1>1, CallsFinite
<1>4. Cardinality(CallsFor(tasks, s)) = 0 /\ Handlers(s) = {}
    BY <1>1, <1>2, <1>3 DEF CountAgrees, Own
<1>5. CallsFor(tasks, s) = {}
    BY <1>3, <1>4, FS_EmptySet
<1> QED
    BY <1>2, <1>4, <1>5 DEF CallsFor, Handlers, Handling, Held, Thread

\* Nobody has subscribed to or published anything.
LEMMA Initially == Init => Inv /\ Sane
<1> SUFFICES ASSUME Init PROVE Inv /\ Sane
    OBVIOUS
<1>1. NoWork \in Place /\ NoWork.pc = "idle"
    BY DEF NoWork, Place
<1>2. \A t \in Thread : th[t] = NoWork
    BY DEF Init
<1>3. tasks = <<>> /\ urgent = <<>> /\ tasks \in Seq(Call) /\ urgent \in Seq(Post)
    BY DEF Init
<1>4. /\ chan \in [Chan -> Channel] /\ \A a \in Chan : chan[a].key = NULL /\ chan[a].subs = <<>>
  <2>1. PICK c : c = [key |-> NULL, ref |-> 0, subs |-> <<>>, lock |-> NULL]
    OBVIOUS
  <2>2. c \in Channel /\ c.key = NULL /\ c.subs = <<>>
    BY <2>1 DEF Channel
  <2> QED
    BY <2>1, <2>2 DEF Init
<1>5. /\ sub \in [Sub -> Subscription]
      /\ \A s \in Sub : sub[s].parent = NULL /\ sub[s].ref = 0 /\ sub[s].active = FALSE
  <2>1. PICK v : v = [parent |-> NULL, ref |-> 0, lock |-> NULL, active |-> FALSE]
    OBVIOUS
  <2>2. v \in Subscription /\ v.parent = NULL /\ v.ref = 0 /\ v.active = FALSE
    BY <2>1 DEF Subscription
  <2> QED
    BY <2>1, <2>2 DEF Init
<1>6. engine \in Engine
    BY DEF Init, Engine
<1>7. \A s \in Sub : life[s] = "none" /\ ended[s] = 0 /\ \A m \in Msg : got[<<s, m>>] = 0
    BY DEF Init
<1>8. Typed
  <2>1. /\ channels \in [Key -> Chan \cup {NULL}] /\ msg \in [Msg -> Int] /\ th \in [Thread -> Place]
        /\ gvl \in Thread \cup {NULL}
    BY <1>1 DEF Init
  <2>2. /\ life \in [Sub -> {"none", "subscribing", "live", "cancelling", "cancelled"}]
        /\ ended \in [Sub -> Nat] /\ got \in [Sub \X Msg -> Nat]
        /\ due \subseteq Sub \X Msg /\ sent \subseteq Msg /\ defers \in Nat /\ attaches \in Nat
    BY DEF Init
  <2> QED
    BY <1>3, <1>4, <1>5, <1>6, <2>1, <2>2 DEF Typed
<1>9. \A x : ~Contains(tasks, x) /\ ~Contains(urgent, x)
    BY <1>3 DEF Contains
<1>10. ASSUME NEW s \in Sub, NEW m \in Msg PROVE CallAgrees(s, m) /\ Untouched(s, m)
  <2>1. ~Waits(s, m) /\ \A t \in Thread : ~Handles(t, s, m)
    BY <1>1, <1>2, <1>9 DEF Waits, Handles, Handling
  <2> QED
    BY <2>1, <1>7 DEF CallAgrees, Untouched
<1>11. ASSUME NEW a \in Chan, NEW m \in Msg PROVE PostAgrees(a, m)
    BY <1>1, <1>2, <1>9 DEF PostAgrees, Posted, Queued, Publishes
<1>12. ThreadsApart /\ \A t \in Thread : ThreadAgrees(t)
    BY <1>1, <1>2 DEF ThreadsApart, ThreadAgrees, Joining, Leaving, Handling
<1>13. \A a \in Chan : ChannelAgrees(a)
    BY <1>4 DEF ChannelAgrees, IsInjective
<1>14. (\A k \in Key : KeyAgrees(k)) /\ \A s \in Sub : SubAgrees(s)
  <2>1. NULL \notin Chan
    BY PubSubAssumption
  <2> QED
    BY <2>1, <1>5, <1>7 DEF KeyAgrees, SubAgrees, Init
<1>15. IsInjective(urgent) /\ IsInjective(tasks)
    BY <1>3 DEF IsInjective
<1>16. Sound
    BY <1>8, <1>10, <1>11, <1>12, <1>13, <1>14, <1>15 DEF Sound
<1>17. ASSUME NEW s \in Sub PROVE CountAgrees(s)
  <2>1. CallsFor(tasks, s) = {} /\ Handlers(s) = {} /\ Own(s) = 0
    BY <1>1, <1>2, <1>3, <1>7 DEF CallsFor, Handlers, Own, Handling
  <2>2. Cardinality(CallsFor(tasks, s)) = 0
    BY <2>1, FS_EmptySet
  <2> QED
    BY <2>1, <2>2, <1>5 DEF CountAgrees
<1>18. Sane
    BY <1>1, <1>2, <1>16, <1>17 DEF Sane, CountsAgree, Crashed
<1> QED
    BY <1>16, <1>18, LastOfAll DEF Inv

\* After a crash nothing happens.
LEMMA Stopped ==
    ASSUME \A t \in Thread : th[t].pc = "crashed", Next
    PROVE  UNCHANGED vars
<1>1. \A t \in Thread : th[t].pc = "crashed" /\ th[t].pc \notin {"idle", "insert", "lock", "locked", "slock", "remove",
         "destroy", "finish", "patterns", "reattach", "publish", "callback", "running"}
    OBVIOUS
<1>2. \A t \in Thread : ~ReadsFreed(t)
    BY <1>1 DEF ReadsFreed
<1>3. \A t \in Caller : ~Progress(t)
  <2>1. \A t \in Caller : t \in Thread
    BY DEF Thread
  <2> SUFFICES ASSUME NEW t \in Caller PROVE ~Progress(t)
    OBVIOUS
  <2>2. ~set_insert(t) /\ ~channel_lock(t) /\ ~channel_found(t) /\ ~subscription_lock(t) /\ ~subscription_remove(t)
    BY <2>1, <1>1 DEF set_insert, channel_lock, channel_found, subscription_lock, subscription_remove
  <2>3. ~fio_pubsub_on_channel_destroy(t) /\ ~unsubscribe_finish(t) /\ ~publish_patterns(t) /\ ~fio_pubsub_reattach(t)
    BY <2>1, <1>1 DEF fio_pubsub_on_channel_destroy, unsubscribe_finish, publish_patterns, fio_pubsub_reattach
  <2>4. ~use_after_free(t)
    BY <2>1, <1>2 DEF use_after_free
  <2> QED
    BY <2>2, <2>3, <2>4 DEF Progress
<1>4. \A w \in Worker : ~Perform(w) /\ ~fio_message_defer(w)
  <2>1. \A w \in Worker : w \in Thread
    BY DEF Thread
  <2> QED
    BY <2>1, <1>1, <1>2 DEF Perform, fio_publish2channel_task, fio_publish2channel, fio_perform_subscription_callback,
       on_message, callback_done, use_after_free, fio_message_defer
<1>5. \A t \in Subscriber, s \in Sub : /\ ~fio_subscribe_error(t, s) /\ ~fio_unsubscribe(t, s)
                                       /\ \A k \in Key : ~fio_subscribe(t, s, k)
    BY <1>1 DEF fio_subscribe, fio_subscribe_error, fio_unsubscribe, Enter, Caller, Thread
<1>6. \A t \in Subscriber : ~fio_pubsub_attach(t) /\ ~fio_pubsub_detach(t)
    BY <1>1 DEF fio_pubsub_attach, fio_pubsub_detach, Enter, Caller, Thread
<1>7. \A t \in Publisher, m \in Msg, k \in Name \cup Filter : ~fio_publish(t, m, k)
    BY <1>1 DEF fio_publish, Enter, Caller, Thread
<1> QED
    BY <1>3, <1>4, <1>5, <1>6, <1>7 DEF Next, Rest

\* Every step of a program that has read no freed memory.
LEMMA Step == Inv /\ [Next]_vars => Inv'
<1> SUFFICES ASSUME Inv, [Next]_vars PROVE Inv'
    OBVIOUS
<1>1. CASE UNCHANGED vars
    BY <1>1, Stays
<1>2. CASE Next /\ \A t \in Thread : th[t].pc = "crashed"
    BY <1>2, Stopped, Stays
<1>3. ASSUME Next, Sane PROVE Inv'
  <2>1. ASSUME Sane' PROVE Inv'
    <3>1. OnUnsubscribeIsLast'
      BY <2>1, LastOfAll, PTL
    <3> QED
      BY <2>1, <3>1 DEF Inv, Sane
  <2>2. ASSUME NEW t \in Thread, use_after_free(t) PROVE Inv'
    <3>1. Sound' /\ \A u \in Thread : th'[u].pc = "crashed"
      BY <1>3, <2>2, Crashes
    <3>2. OnUnsubscribeIsLast'
      <4>1. \A w \in Worker : ~Held(w, {"callback", "running"})'
        BY <3>1 DEF Held, Thread
      <4>2. ended' = ended /\ life' = life /\ tasks' = tasks
        BY <2>2 DEF use_after_free
      <4> QED
        BY <1>3, <4>1, <4>2, LastOfAll DEF OnUnsubscribeIsLast
    <3> QED
      BY <3>1, <3>2 DEF Inv
  <2>3. ASSUME NEW t \in Subscriber, NEW s \in Sub, NEW k \in Key, fio_subscribe(t, s, k) PROVE Inv'
    BY <1>3, <2>1, <2>3, Subscribes
  <2>4. ASSUME NEW t \in Subscriber, NEW s \in Sub, fio_subscribe_error(t, s) \/ fio_unsubscribe(t, s) PROVE Inv'
    BY <1>3, <2>1, <2>4, SubscribesNothing, Unsubscribes
  <2>5. ASSUME NEW t \in Subscriber, fio_pubsub_attach(t) \/ fio_pubsub_detach(t) PROVE Inv'
    BY <1>3, <2>1, <2>5, Attaches, Detaches
  <2>6. ASSUME NEW t \in Publisher, NEW m \in Msg, NEW k \in Name \cup Filter, fio_publish(t, m, k) PROVE Inv'
    BY <1>3, <2>1, <2>6, Publishing
  <2>7. ASSUME NEW t \in Caller, Progress(t) PROVE Inv'
    <3>1. CASE use_after_free(t)
      BY <2>2, <2>7, <3>1 DEF Thread
    <3>2. CASE set_insert(t) \/ channel_lock(t) \/ channel_found(t)
      BY <1>3, <2>1, <2>7, <3>2, Inserts, LocksChannel, Finds
    <3>3. CASE subscription_lock(t) \/ subscription_remove(t) \/ unsubscribe_finish(t)
      BY <1>3, <2>1, <2>7, <3>3, LocksSubscription, Removes, Finishes
    <3>4. CASE fio_pubsub_on_channel_destroy(t) \/ publish_patterns(t) \/ fio_pubsub_reattach(t)
      BY <1>3, <2>1, <2>7, <3>4, TellsEngines, Patterns, Reattaches
    <3> QED
      BY <2>7, <3>1, <3>2, <3>3, <3>4 DEF Progress
  <2>8. ASSUME NEW w \in Worker, Perform(w) \/ fio_message_defer(w) PROVE Inv'
    <3>1. CASE use_after_free(w)
      BY <2>2, <2>8, <3>1 DEF Thread
    <3>2. CASE fio_publish2channel_task(w) \/ fio_publish2channel(w)
      BY <1>3, <2>1, <2>8, <3>2, TakesPost, Delivers
    <3>3. CASE fio_perform_subscription_callback(w)
      BY <1>3, <2>1, <2>8, <3>3, TakesCall
    <3>4. CASE on_message(w) \/ callback_done(w) \/ fio_message_defer(w)
      BY <1>3, <2>1, <2>8, <3>4, Runs, Answers, Defers
    <3> QED
      BY <2>8, <3>1, <3>2, <3>3, <3>4 DEF Perform
  <2>9. CASE Rest
    BY <2>9, Stays DEF Rest
  <2> QED
    BY <1>3, <2>3, <2>4, <2>5, <2>6, <2>7, <2>8, <2>9 DEF Next
<1> QED
    BY <1>1, <1>2, <1>3 DEF Inv

\* The post office's invariant, for any names, patterns, subscriptions, messages and threads.
THEOREM Always == Spec => []Inv
    BY Initially, Step, PTL DEF Spec

\* fio_perform_subscription_callback gives a subscription every message at most once,
\* however calls are put back and however many of its channels match, and none runs in any
\* thread once fio_unsubscribe returned.
THEOREM DeliveredOnce == Spec => []DeliveredOnceWhileSubscribed
<1>1. Inv => DeliveredOnceWhileSubscribed
  <2> SUFFICES ASSUME Inv PROVE DeliveredOnceWhileSubscribed
    OBVIOUS
  <2>1. SilentAfterUnsubscribe
    BY DEF Inv, Sound, ThreadAgrees, SilentAfterUnsubscribe, Held, Handling, Thread
  <2>2. DeliveredAtMostOnce
    <3>1. SUFFICES ASSUME NEW p \in Sub \X Msg PROVE got[p] <= 1
      BY DEF DeliveredAtMostOnce
    <3>2. PICK s \in Sub, m \in Msg : p = <<s, m>>
      OBVIOUS
    <3> QED
      BY <3>2 DEF Inv, Sound, CallAgrees
  <2> QED
    BY <2>1, <2>2 DEF DeliveredOnceWhileSubscribed
<1> QED
    BY <1>1, Always, PTL

\* fio_subscription_free calls on_unsubscribe once, when the subscription is cancelled and
\* no task will touch it again, whichever thread drops the last reference.
THEOREM UnsubscribeLast == Spec => []OnUnsubscribeIsLast
<1>1. Inv => OnUnsubscribeIsLast
    BY DEF Inv
<1> QED
    BY <1>1, Always, PTL

-----------------------------------------------------------------------------
(* References, when whoever subscribes or unsubscribes does it alone: one  *)
(* thread, or Ruby methods, which hold the GVL until they return.          *)

OneSubscribes == \A t, u \in Subscriber : t = u \/ (t \in RubyCaller /\ u \in RubyCaller)
Busy          == Joining \cup Leaving \cup {"reattach"}

Listed(s) == \E i \in DOMAIN chan[sub[s].parent].subs : chan[sub[s].parent].subs[i] = s
Serves(k) == channels[k] # NULL /\ chan[channels[k]].subs # <<>>

\* What a thread found out under a lock is still so when it uses it.
TurnAgrees(t) ==
    LET w == th[t] IN
    /\ w.pc \in Busy => t \in Subscriber /\ (t \in RubyCaller => gvl = t)
    /\ w.pc = "insert" => w.tmpl = STACK
    /\ w.pc \in {"lock", "locked"} => channels[w.key] = w.ch
    /\ w.pc \in {"locked", "publish"} => chan[w.ch].lock = t
    /\ w.pc \in {"slock", "remove"} => Listed(w.s)
    /\ w.pc = "destroy" => w.ch = sub[w.s].parent /\ channels[w.key] = NULL

\* Every stage of a subscription that is not final has its thread or its place on a list.
StageAgrees(s) ==
    /\ life[s] = "subscribing" => \E t \in Thread : th[t].pc \in Joining /\ th[t].s = s
    /\ life[s] = "cancelling" => \E t \in Thread : th[t].pc \in Leaving /\ th[t].s = s
    /\ life[s] = "live" => Listed(s)

\* Who listens can be found, and what is found has listeners or is about to.
Collected(a) == chan[a].subs # <<>> => channels[chan[a].key] = a
Used(k) == channels[k] # NULL /\ k \notin Filter =>
             Serves(k) \/ \E t \in Thread : th[t].pc \in {"lock", "locked"} /\ th[t].key = k

Orderly ==
    /\ \A t \in Thread : TurnAgrees(t)
    /\ \A s \in Sub : StageAgrees(s)
    /\ \A a \in Chan : Collected(a)
    /\ \A k \in Key : Used(k)

\* References of a channel and of a message.
Among(q, S)   == {i \in DOMAIN q : q[i] \in S}
PostsTo(a)    == {x \in Post : x.ch = a}
PostsOf(m)    == {x \in Post : x.m = m}
CallsOf(m)    == {x \in Call : x.m = m}
InCollection(a) == \E k \in Key : channels[k] = a
Holders(a)    == {s \in Sub : sub[s].ref > 0 /\ sub[s].parent = a}
Posting(a)    == {w \in Worker : th[w].pc = "publish" /\ th[w].ch = a}
Sending(m)    == \E t \in Caller : th[t].pc = "patterns" /\ th[t].m = m
Bearers(m)    == {w \in Worker : th[w].pc \in {"publish"} \cup Handling /\ th[w].m = m}
Has(S, x)     == IF x \in S THEN 1 ELSE 0
Collects(a)   == IF InCollection(a) THEN 1 ELSE 0
Posts(a)      == IF Posting(a) = {} THEN 0 ELSE 1
Sends(m)      == IF Sending(m) THEN 1 ELSE 0

ChannelCount(a) ==
    /\ IsFiniteSet(Holders(a))
    /\ chan[a].ref = Collects(a) + Cardinality(Holders(a))
                     + Cardinality(Among(urgent, PostsTo(a))) + Posts(a)

MessageCount(m) ==
    /\ IsFiniteSet(Bearers(m))
    /\ msg[m] = Sends(m) + Cardinality(Among(urgent, PostsOf(m)))
                + Cardinality(Among(tasks, CallsOf(m))) + Cardinality(Bearers(m))

-----------------------------------------------------------------------------
\* A part of a queue is finite.
LEMMA AmongFinite ==
    ASSUME NEW V, NEW q \in Seq(V), NEW S
    PROVE  IsFiniteSet(Among(q, S)) /\ Cardinality(Among(q, S)) \in Nat
<1>1. Len(q) \in Nat /\ DOMAIN q = 1 .. Len(q)
    BY LenProperties
<1>2. IsFiniteSet(1 .. Len(q)) /\ Among(q, S) \in SUBSET (1 .. Len(q))
    BY <1>1, FS_Interval DEF Among
<1> QED
    BY <1>2, FS_Subset, FS_CardinalityType

\* The members of S in two queues, one behind the other.
LEMMA AmongConcat ==
    ASSUME NEW V, NEW q \in Seq(V), NEW r \in Seq(V), NEW S
    PROVE  Cardinality(Among(q \o r, S)) = Cardinality(Among(q, S)) + Cardinality(Among(r, S))
<1>0. PICK n \in Nat, m \in Nat : n = Len(q) /\ m = Len(r)
    BY LenProperties
<1>1. PICK p : p = q \o r
    OBVIOUS
<1>2. /\ DOMAIN p = 1 .. n + m /\ DOMAIN q = 1 .. n /\ DOMAIN r = 1 .. m
      /\ \A i \in 1 .. n + m : p[i] = IF i <= n THEN q[i] ELSE r[i - n]
    BY <1>0, <1>1, ConcatProperties, LenProperties
<1> DEFINE A == Among(r, S)
           B == {i \in n + 1 .. n + m : p[i] \in S}
           f == [i \in A |-> i + n]
<1>3. \A i : i \in A <=> i \in 1 .. m /\ r[i] \in S
    BY <1>2 DEF Among
<1>4. \A i \in 1 .. m : i + n \in n + 1 .. n + m /\ p[i + n] = r[i]
  <2>1. SUFFICES ASSUME NEW i \in 1 .. m PROVE i + n \in n + 1 .. n + m /\ p[i + n] = r[i]
    OBVIOUS
  <2>2. i + n \in 1 .. n + m /\ ~(i + n <= n) /\ (i + n) - n = i
    OBVIOUS
  <2> QED
    BY <2>2, <1>2
<1>5. \A i \in n + 1 .. n + m : i - n \in 1 .. m /\ p[i] = r[i - n]
  <2>1. SUFFICES ASSUME NEW i \in n + 1 .. n + m PROVE i - n \in 1 .. m /\ p[i] = r[i - n]
    OBVIOUS
  <2>2. i \in 1 .. n + m /\ ~(i <= n)
    OBVIOUS
  <2> QED
    BY <2>2, <1>2
<1>6. f \in [A -> B] /\ \A i, j \in A : f[i] = f[j] => i = j
  <2>1. ASSUME NEW i \in A PROVE i \in Nat /\ i + n \in B
    <3>1. i \in 1 .. m /\ r[i] \in S
      BY <1>3
    <3>2. i + n \in n + 1 .. n + m /\ p[i + n] \in S
      BY <3>1, <1>4
    <3> QED
      BY <3>1, <3>2
  <2> HIDE DEF A, B
  <2> QED
    BY <2>1
<1>7. \A j \in B : \E i \in A : f[i] = j
  <2>1. SUFFICES ASSUME NEW j \in B PROVE \E i \in A : f[i] = j
    OBVIOUS
  <2>2. j - n \in A /\ (j - n) + n = j
    BY <2>1, <1>3, <1>5
  <2> QED
    BY <2>2
<1>8. IsFiniteSet(A) /\ Cardinality(A) \in Nat /\ IsFiniteSet(Among(q, S)) /\ Cardinality(Among(q, S)) \in Nat
    BY AmongFinite
<1>9. IsFiniteSet(B) /\ Cardinality(B) = Cardinality(A)
  <2>1. f \in Surjection(A, B) /\ f \in Injection(A, B)
    BY <1>6, <1>7 DEF Surjection, Injection, IsInjective
  <2> HIDE DEF A, B, f
  <2> QED
    BY <2>1, <1>8, FS_Surjection
<1>10. Among(p, S) = Among(q, S) \cup B /\ Among(q, S) \cap B = {}
  <2>1. \A i : i \in Among(p, S) <=> i \in 1 .. n + m /\ p[i] \in S
    BY <1>2 DEF Among
  <2>2. \A i : i \in Among(q, S) <=> i \in 1 .. n /\ q[i] \in S
    BY <1>2 DEF Among
  <2>3. \A i \in 1 .. n : i \in 1 .. n + m /\ p[i] = q[i] /\ i \notin n + 1 .. n + m
    BY <1>2
  <2>4. \A i : i \in 1 .. n + m <=> i \in 1 .. n \/ i \in n + 1 .. n + m
    OBVIOUS
  <2> QED
    BY <2>1, <2>2, <2>3, <2>4
<1> HIDE DEF A, B
<1>11. Cardinality(Among(q, S) \cup B) = Cardinality(Among(q, S)) + Cardinality(B) - Cardinality(Among(q, S) \cap B)
    BY <1>8, <1>9, FS_Union
<1>12. Cardinality(Among(q, S) \cap B) = 0
    BY <1>10, FS_EmptySet
<1>13. Cardinality(Among(p, S)) = Cardinality(Among(q, S) \cup B)
    BY <1>10
<1>14. Cardinality(Among(p, S)) = Cardinality(Among(q, S)) + Cardinality(A)
    BY <1>8, <1>9, <1>11, <1>12, <1>13
<1> QED
    BY <1>1, <1>14 DEF A

\* A queue of one.
LEMMA AmongOne ==
    ASSUME NEW y, NEW S
    PROVE  Cardinality(Among(<<y>>, S)) = Has(S, y)
<1>1. DOMAIN <<y>> = {1} /\ <<y>>[1] = y
    OBVIOUS
<1>2. Among(<<y>>, S) = IF y \in S THEN {1} ELSE {}
    BY <1>1 DEF Among
<1> QED
    BY <1>2, FS_Singleton, FS_EmptySet DEF Has

\* A queue with one entry more, with its head taken, with its head put back.
LEMMA AmongAppend ==
    ASSUME NEW V, NEW q \in Seq(V), NEW y \in V, NEW S
    PROVE  Cardinality(Among(Append(q, y), S)) = Cardinality(Among(q, S)) + Has(S, y)
<1>1. Append(q, y) = q \o <<y>> /\ <<y>> \in Seq(V)
    BY AppendIsConcat
<1>2. Cardinality(Among(q \o <<y>>, S)) = Cardinality(Among(q, S)) + Cardinality(Among(<<y>>, S))
    BY <1>1, AmongConcat
<1> QED
    BY <1>1, <1>2, AmongOne

LEMMA AmongTail ==
    ASSUME NEW V, NEW q \in Seq(V), q # <<>>, NEW S
    PROVE  /\ Cardinality(Among(q, S)) = Has(S, Head(q)) + Cardinality(Among(Tail(q), S))
           /\ Head(q) \in V /\ Tail(q) \in Seq(V)
<1>1. Head(q) \in V /\ Tail(q) \in Seq(V) /\ Len(q) \in Nat \ {0} /\ <<Head(q)>> \in Seq(V)
    BY HeadTailProperties, EmptySeq
<1>2. q = <<Head(q)>> \o Tail(q)
  <2>1. 1 \in 1 .. Len(q) /\ Len(q) \in 1 .. Len(q) /\ Head(q) = q[1]
    BY <1>1
  <2>2. SubSeq(q, 1, Len(q)) = <<q[1]>> \o SubSeq(q, 1 + 1, Len(q))
    BY <2>1, SubSeqRecursiveFirst
  <2> QED
    BY <2>1, <2>2, SubSeqFull, TailIsSubSeq
<1>3. Cardinality(Among(<<Head(q)>> \o Tail(q), S)) = Cardinality(Among(<<Head(q)>>, S)) + Cardinality(Among(Tail(q), S))
    BY <1>1, AmongConcat
<1> QED
    BY <1>1, <1>2, <1>3, AmongOne

LEMMA AmongRotated ==
    ASSUME NEW V, NEW q \in Seq(V), q # <<>>, NEW S
    PROVE  Cardinality(Among(Append(Tail(q), Head(q)), S)) = Cardinality(Among(q, S))
<1>1. /\ Head(q) \in V /\ Tail(q) \in Seq(V)
      /\ Cardinality(Among(q, S)) = Has(S, Head(q)) + Cardinality(Among(Tail(q), S))
    BY AmongTail
<1>2. Cardinality(Among(Append(Tail(q), Head(q)), S)) = Cardinality(Among(Tail(q), S)) + Has(S, Head(q))
    BY <1>1, AmongAppend
<1>3. Cardinality(Among(Tail(q), S)) \in Nat /\ Has(S, Head(q)) \in Nat
    BY <1>1, AmongFinite DEF Has
<1> QED
    BY <1>1, <1>2, <1>3

\* Where nothing is a member of S, and where everything is.
LEMMA AmongNone ==
    ASSUME NEW q, NEW S, \A i \in DOMAIN q : q[i] \notin S
    PROVE  Cardinality(Among(q, S)) = 0
<1>1. Among(q, S) = {}
    BY DEF Among
<1> QED
    BY <1>1, FS_EmptySet

LEMMA AmongAll ==
    ASSUME NEW V, NEW q \in Seq(V), NEW S, \A i \in DOMAIN q : q[i] \in S
    PROVE  Cardinality(Among(q, S)) = Len(q)
<1>1. Among(q, S) = 1 .. Len(q) /\ Len(q) \in Nat
    BY LenProperties DEF Among
<1> QED
    BY <1>1, FS_Interval

\* A set that one element enters or leaves, or none.
Nearly(A, B, x) == B \subseteq A \cup {x} /\ A \subseteq B \cup {x}

LEMMA SetChange ==
    ASSUME NEW A, NEW B, NEW x, IsFiniteSet(A), Nearly(A, B, x)
    PROVE  /\ IsFiniteSet(B) /\ Cardinality(A) \in Nat /\ Cardinality(B) \in Nat
           /\ Cardinality(B) = Cardinality(A) + Has(B, x) - Has(A, x)
<1>1. CASE x \in A /\ x \in B
  <2>1. B = A
    BY <1>1 DEF Nearly
  <2> QED
    BY <2>1, <1>1, FS_CardinalityType DEF Has
<1>2. CASE x \notin A /\ x \notin B
    BY <1>2, FS_CardinalityType DEF Has, Nearly
<1>3. CASE x \in A /\ x \notin B
  <2>1. B = A \ {x}
    BY <1>3 DEF Nearly
  <2> QED
    BY <2>1, <1>3, FS_RemoveElement, FS_CardinalityType DEF Has, Nearly
<1>4. CASE x \notin A /\ x \in B
  <2>1. B = A \cup {x}
    BY <1>4 DEF Nearly
  <2> QED
    BY <2>1, <1>4, FS_AddElement, FS_CardinalityType DEF Has, Nearly
<1> QED
    BY <1>1, <1>2, <1>3, <1>4

-----------------------------------------------------------------------------
\* Whoever subscribes, unsubscribes or attaches an engine does it alone.
LEMMA OneBusy ==
    ASSUME OneSubscribes, Orderly, NEW t \in Thread, NEW u \in Thread, th[t].pc \in Busy, th[u].pc \in Busy
    PROVE  t = u
    BY DEF OneSubscribes, Orderly, TurnAgrees

LEMMA NoneBusy ==
    ASSUME OneSubscribes, Orderly, NEW t \in Subscriber, th[t].pc \notin Busy, t \in RubyCaller => gvl = NULL
    PROVE  \A u \in Thread : th[u].pc \notin Busy
<1>1. SUFFICES ASSUME NEW u \in Thread, th[u].pc \in Busy PROVE FALSE
    OBVIOUS
<1>2. u \in Subscriber /\ (u \in RubyCaller => gvl = u) /\ u # NULL /\ u # t
    BY <1>1, PubSubAssumption DEF Orderly, TurnAgrees
<1> QED
    BY <1>2 DEF OneSubscribes

\* Threads other than t keep the locks they hold; only t subscribes or unsubscribes.
OthersWait(t) ==
    /\ \A u \in Thread \ {t} : th'[u] = th[u] /\ th[u].pc \notin Busy
    /\ \A a \in Chan : chan'[a].lock = chan[a].lock \/ chan[a].lock \in {NULL, t}

LEMMA TurnsKept ==
    ASSUME Sane, Orderly, NEW t \in Thread, OthersWait(t), TurnAgrees(t)'
    PROVE  \A u \in Thread : TurnAgrees(u)'
<1>1. SUFFICES ASSUME NEW u \in Thread, u # t PROVE TurnAgrees(u)'
    OBVIOUS
<1>2. TurnAgrees(u) /\ ThreadAgrees(u) /\ th'[u] = th[u] /\ th[u].pc \notin Busy /\ u # NULL
    BY <1>1, PubSubAssumption DEF Sane, Sound, Orderly, OthersWait
<1>3. th[u].pc = "publish" => th[u].ch \in Chan /\ chan'[th[u].ch].lock = u
    BY <1>1, <1>2 DEF ThreadAgrees, TurnAgrees, OthersWait
<1> QED
    BY <1>2, <1>3 DEF TurnAgrees, Busy, Joining, Leaving

\* A step that leaves lists and collections alone, by a thread that neither
\* subscribes nor unsubscribes.
LEMMA OrderKept ==
    ASSUME Sane, Orderly, NEW t \in Thread, OthersStay(t), SameLists,
           th[t].pc \notin Busy, th'[t].pc \notin Busy, th'[t].pc = "publish" => chan'[th'[t].ch].lock = t,
           \A s \in Sub : life'[s] = life[s] \/ life'[s] = "cancelled",
           \A a \in Chan : chan'[a].lock = chan[a].lock \/ chan[a].lock \in {NULL, t},
           gvl' = gvl \/ gvl \in {NULL, t}
    PROVE  Orderly'
<1>1. \A s \in Sub : sub[s].parent \in Chan => (Listed(s)' <=> Listed(s))
    BY DEF SameLists, Listed
<1>2. \A k \in Key : Serves(k)' <=> Serves(k)
  <2>1. \A k \in Key : channels[k] \in Chan \cup {NULL}
    BY DEF Sane, Sound, Typed
  <2> QED
    BY <2>1 DEF SameLists, Serves
<1>3. \A u \in Thread : th'[u].pc \in Busy \/ th[u].pc \in Busy => th'[u] = th[u]
    BY DEF OthersStay
<1>4. ASSUME NEW u \in Thread PROVE TurnAgrees(u)'
  <2>1. TurnAgrees(u) /\ ThreadAgrees(u) /\ ThreadAgrees(t) /\ u # NULL
    BY PubSubAssumption DEF Sane, Sound, Orderly
  <2>2. CASE u = t
    BY <2>2 DEF TurnAgrees, Busy, Joining, Leaving
  <2>3. CASE u # t
    <3>1. th'[u] = th[u]
      BY <2>3 DEF OthersStay
    <3>2. th[u].pc \in {"locked", "publish"} => chan'[th[u].ch].lock = u
      BY <2>1, <2>3 DEF ThreadAgrees, TurnAgrees
    <3>3. th[u].pc \in Busy => u \in Subscriber /\ (u \in RubyCaller => gvl' = u)
      BY <2>1, <2>3 DEF TurnAgrees
    <3>4. th[u].pc \in {"slock", "remove"} => Listed(th[u].s)'
      <4>1. SUFFICES ASSUME th[u].pc \in {"slock", "remove"} PROVE Listed(th[u].s)'
        OBVIOUS
      <4>2. th[u].s \in Sub /\ life[th[u].s] = "cancelling" /\ Listed(th[u].s)
        BY <2>1, <4>1 DEF ThreadAgrees, TurnAgrees, Leaving
      <4>3. sub[th[u].s].parent \in Chan
        BY <4>2 DEF Sane, Sound, SubAgrees
      <4> QED
        BY <4>2, <4>3, <3>1, <1>1
    <3>5. th[u].pc = "destroy" => sub'[th[u].s].parent = sub[th[u].s].parent
      BY <2>1 DEF ThreadAgrees, Leaving, SameLists
    <3> QED
      BY <2>1, <3>1, <3>2, <3>3, <3>4, <3>5 DEF TurnAgrees, SameLists
  <2> QED
    BY <2>2, <2>3
<1>5. ASSUME NEW s \in Sub PROVE StageAgrees(s)'
  <2>1. StageAgrees(s) /\ SubAgrees(s)
    BY DEF Sane, Sound, Orderly
  <2>2. CASE life'[s] = "cancelled"
    BY <2>2 DEF StageAgrees
  <2>3. CASE life'[s] = life[s]
    <3>1. \A u \in Thread : th[u].pc \in Joining \cup Leaving => th'[u] = th[u]
      BY <1>3 DEF Busy
    <3>2. life[s] = "live" => Listed(s)'
      BY <2>1, <1>1 DEF StageAgrees, SubAgrees
    <3> QED
      BY <2>1, <2>3, <3>1, <3>2 DEF StageAgrees
  <2> QED
    BY <2>2, <2>3
<1>6. ASSUME NEW a \in Chan PROVE Collected(a)'
    BY DEF Orderly, Collected, SameLists
<1>7. ASSUME NEW k \in Key PROVE Used(k)'
  <2>1. \A u \in Thread : th[u].pc \in {"lock", "locked"} => th'[u] = th[u]
    BY <1>3 DEF Busy, Joining
  <2> QED
    BY <2>1, <1>2 DEF Orderly, Used, SameLists
<1> QED
    BY <1>4, <1>5, <1>6, <1>7 DEF Orderly

\* What a step of which subscription s is part does to the count of channel a.
ChannelMoves(a, s) ==
    chan'[a].ref - chan[a].ref
      = (Collects(a)' - Collects(a)) + (Has(Holders(a)', s) - Has(Holders(a), s))
        + (Cardinality(Among(urgent', PostsTo(a))) - Cardinality(Among(urgent, PostsTo(a))))
        + (Posts(a)' - Posts(a))

\* The references of channel a, when at most subscription s comes or goes.
LEMMA ChannelCounted ==
    ASSUME Typed, Typed', NEW a \in Chan, ChannelCount(a), NEW s, Nearly(Holders(a), Holders(a)', s), ChannelMoves(a, s)
    PROVE  ChannelCount(a)'
<1> DEFINE H == Holders(a)'
<1>1. PICK n \in Nat, n1 \in Nat : n = Cardinality(Among(urgent, PostsTo(a))) /\ n1 = Cardinality(Among(urgent', PostsTo(a)))
    BY AmongFinite DEF Typed
<1>2. IsFiniteSet(H) /\ Cardinality(Holders(a)) \in Nat /\ Cardinality(H) \in Nat
      /\ Cardinality(H) = Cardinality(Holders(a)) + Has(H, s) - Has(Holders(a), s)
    BY SetChange DEF ChannelCount
<1>3. PICK i \in Nat, i1 \in Nat : i = Collects(a) /\ i1 = Collects(a)'
    BY DEF Collects
<1>4. PICK x \in Nat, x1 \in Nat : x = Has(Holders(a), s) /\ x1 = Has(H, s)
    BY DEF Has
<1>5. PICK p \in Nat, p1 \in Nat : p = Posts(a) /\ p1 = Posts(a)'
    BY DEF Posts
<1>6. PICK h \in Nat, h1 \in Nat : h = Cardinality(Holders(a)) /\ h1 = Cardinality(H) /\ h1 - h = x1 - x
    BY <1>2, <1>4
<1>7. PICK r \in Int, r1 \in Int : r = chan[a].ref /\ r1 = chan'[a].ref /\ r = i + h + n + p
  <2>0. chan'[a].ref \in Int
    BY DEF Typed, Channel
  <2>1. chan[a].ref = i + h + n + p
    BY <1>1, <1>3, <1>5, <1>6 DEF ChannelCount
  <2> QED
    BY <2>0, <2>1
<1>8. r1 - r = (i1 - i) + (x1 - x) + (n1 - n) + (p1 - p)
    BY <1>1, <1>3, <1>4, <1>5, <1>7 DEF ChannelMoves
<1>9. r1 = i1 + h1 + n1 + p1
  <2>1. h1 - h = x1 - x
    BY <1>6
  <2>2. r = i + h + n + p
    BY <1>7
  <2> QED
    BY <2>1, <2>2, <1>8
<1>10. i1 = Collects(a)' /\ p1 = Posts(a)' /\ n1 = Cardinality(Among(urgent, PostsTo(a)))'
    BY <1>1, <1>3, <1>5 DEF PostsTo
<1>11. chan'[a].ref = Collects(a)' + Cardinality(H) + Cardinality(Among(urgent, PostsTo(a)))' + Posts(a)'
    BY <1>6, <1>7, <1>9, <1>10
<1> QED
    BY <1>2, <1>11 DEF ChannelCount

\* What a step of thread w does to the count of message m.
MessageMoves(m, w) ==
    msg'[m] - msg[m]
      = (Sends(m)' - Sends(m)) + (Has(Bearers(m)', w) - Has(Bearers(m), w))
        + (Cardinality(Among(urgent', PostsOf(m))) - Cardinality(Among(urgent, PostsOf(m))))
        + (Cardinality(Among(tasks', CallsOf(m))) - Cardinality(Among(tasks, CallsOf(m))))

\* The references of message m, when at most one thread takes it or drops it.
LEMMA MessageCounted ==
    ASSUME Typed, Typed', NEW m \in Msg, MessageCount(m), NEW w, Nearly(Bearers(m), Bearers(m)', w), MessageMoves(m, w)
    PROVE  MessageCount(m)'
<1> DEFINE H == Bearers(m)'
<1>1. PICK n \in Nat, n1 \in Nat : n = Cardinality(Among(urgent, PostsOf(m))) /\ n1 = Cardinality(Among(urgent', PostsOf(m)))
    BY AmongFinite DEF Typed
<1>2. IsFiniteSet(H) /\ Cardinality(Bearers(m)) \in Nat /\ Cardinality(H) \in Nat
      /\ Cardinality(H) = Cardinality(Bearers(m)) + Has(H, w) - Has(Bearers(m), w)
    BY SetChange DEF MessageCount
<1>3. PICK i \in Nat, i1 \in Nat : i = Sends(m) /\ i1 = Sends(m)'
    BY DEF Sends
<1>4. PICK x \in Nat, x1 \in Nat : x = Has(Bearers(m), w) /\ x1 = Has(H, w)
    BY DEF Has
<1>5. PICK p \in Nat, p1 \in Nat : p = Cardinality(Among(tasks, CallsOf(m))) /\ p1 = Cardinality(Among(tasks', CallsOf(m)))
    BY AmongFinite DEF Typed
<1>6. PICK h \in Nat, h1 \in Nat : h = Cardinality(Bearers(m)) /\ h1 = Cardinality(H) /\ h1 - h = x1 - x
    BY <1>2, <1>4
<1>7. PICK r \in Int, r1 \in Int : r = msg[m] /\ r1 = msg'[m] /\ r = i + h + n + p
  <2>0. msg'[m] \in Int
    BY DEF Typed
  <2>1. msg[m] = i + h + n + p
    BY <1>1, <1>3, <1>5, <1>6 DEF MessageCount
  <2> QED
    BY <2>0, <2>1
<1>8. r1 - r = (i1 - i) + (x1 - x) + (n1 - n) + (p1 - p)
    BY <1>1, <1>3, <1>4, <1>5, <1>7 DEF MessageMoves
<1>9. r1 = i1 + h1 + n1 + p1
  <2>1. h1 - h = x1 - x
    BY <1>6
  <2>2. r = i + h + n + p
    BY <1>7
  <2> QED
    BY <2>1, <2>2, <1>8
<1>10. /\ i1 = Sends(m)' /\ n1 = Cardinality(Among(urgent, PostsOf(m)))'
       /\ p1 = Cardinality(Among(tasks, CallsOf(m)))'
    BY <1>1, <1>3, <1>5 DEF PostsOf, CallsOf
<1>11. msg'[m] = Sends(m)' + Cardinality(Among(urgent, PostsOf(m)))' + Cardinality(Among(tasks, CallsOf(m)))' + Cardinality(H)
    BY <1>6, <1>7, <1>9, <1>10
<1> QED
    BY <1>2, <1>11 DEF MessageCount

\* A step that neither takes nor drops a reference to a channel, or to a message.
LEMMA RefsKept ==
    ASSUME \A a \in Chan : ChannelCount(a), channels' = channels, urgent' = urgent,
           \A a \in Chan : chan'[a].ref = chan[a].ref,
           \A w \in Worker : th[w].pc = "publish" \/ th'[w].pc = "publish" => th'[w] = th[w],
           \A s \in Sub : /\ sub'[s].parent = sub[s].parent
                          /\ sub[s].parent \in Chan => (sub'[s].ref > 0 <=> sub[s].ref > 0)
    PROVE  \A a \in Chan : ChannelCount(a)'
<1> SUFFICES ASSUME NEW a \in Chan PROVE ChannelCount(a)'
    OBVIOUS
<1>1. InCollection(a)' <=> InCollection(a)
    BY DEF InCollection
<1>2. Holders(a)' = Holders(a)
    BY DEF Holders
<1>3. Posting(a)' = Posting(a)
    BY DEF Posting
<1>4. Among(urgent, PostsTo(a))' = Among(urgent, PostsTo(a))
    BY DEF Among, PostsTo
<1> QED
    BY <1>1, <1>2, <1>3, <1>4 DEF ChannelCount, Collects, Posts

LEMMA MessagesKept ==
    ASSUME \A m \in Msg : MessageCount(m), urgent' = urgent, tasks' = tasks, msg' = msg,
           NEW t \in Thread, OthersStay(t), 
           th[t].pc \notin {"publish", "patterns"} \cup Handling,
           th'[t].pc \notin {"publish", "patterns"} \cup Handling
    PROVE  \A m \in Msg : MessageCount(m)'
<1> SUFFICES ASSUME NEW m \in Msg PROVE MessageCount(m)'
    OBVIOUS
<1>1. Sending(m)' <=> Sending(m)
    BY DEF Sending, OthersStay, Thread
<1>2. Bearers(m)' = Bearers(m)
    BY DEF Bearers, OthersStay, Thread
<1>3. Among(urgent, PostsOf(m))' = Among(urgent, PostsOf(m)) /\ Among(tasks, CallsOf(m))' = Among(tasks, CallsOf(m))
    BY DEF Among, PostsOf, CallsOf
<1> QED
    BY <1>1, <1>2, <1>3 DEF MessageCount, Sends

Counts == (\A a \in Chan : ChannelCount(a)) /\ (\A m \in Msg : MessageCount(m))

\* A channel that is held is not freed.
LEMMA StillLive ==
    ASSUME Sane, NEW a \in Chan, ChannelCount(a),
           \/ InCollection(a) \/ Posting(a) # {}
           \/ \E s \in Sub : sub[s].parent = a /\ sub[s].ref > 0
           \/ \E i \in DOMAIN urgent : urgent[i].ch = a
    PROVE  Live(a)
<1>1. PICK n \in Nat : n = Cardinality(Among(urgent, PostsTo(a))) /\ (n = 0 <=> Among(urgent, PostsTo(a)) = {})
  <2>1. urgent \in Seq(Post)
    BY DEF Sane, Sound, Typed
  <2> QED
    BY <2>1, AmongFinite, FS_EmptySet
<1>2. PICK h \in Nat : h = Cardinality(Holders(a)) /\ (h = 0 <=> Holders(a) = {})
    BY FS_EmptySet, FS_CardinalityType DEF ChannelCount
<1>3. chan[a].ref = Collects(a) + h + n + Posts(a)
    BY <1>1, <1>2 DEF ChannelCount
<1>4. (\E s \in Sub : sub[s].parent = a /\ sub[s].ref > 0) => h # 0
    BY <1>2 DEF Holders
<1>5. (\E i \in DOMAIN urgent : urgent[i].ch = a) => n # 0
  <2>1. SUFFICES ASSUME NEW i \in DOMAIN urgent, urgent[i].ch = a PROVE n # 0
    OBVIOUS
  <2>2. urgent[i] \in Post
    BY <2>1 DEF Sane, Sound, Typed
  <2> QED
    BY <1>1, <2>1, <2>2 DEF Among, PostsTo
<1>6. chan[a].ref > 0
    BY <1>3, <1>4, <1>5 DEF Collects, Posts
<1> QED
    BY <1>6 DEF Live

-----------------------------------------------------------------------------
(* Steps that subscribe, unsubscribe and attach engines.                   *)

Tidy == Sane /\ Orderly /\ Counts

\* Thread t keeps working on the subscription it works on, or leaves it in order.
StaysOn(t) ==
    \A s \in Sub :
        \/ StageAgrees(s)'
        \/ /\ life'[s] = life[s]
           /\ th[t].s = s /\ th[t].pc \in Joining => th'[t].pc \in Joining /\ th'[t].s = s
           /\ th[t].s = s /\ th[t].pc \in Leaving => th'[t].pc \in Leaving /\ th'[t].s = s

LEMMA StagesKept ==
    ASSUME Sane, Orderly, NEW t \in Thread, OthersWait(t), StaysOn(t), \A s \in Sub : life[s] = "live" => (Listed(s) => Listed(s)')
    PROVE  \A s \in Sub : StageAgrees(s)'
<1>1. SUFFICES ASSUME NEW s \in Sub, life'[s] = life[s], ~StageAgrees(s)' PROVE FALSE
    BY DEF StaysOn
<1>2. StageAgrees(s)
    BY DEF Orderly
<1>3. life[s] = "subscribing" => \E u \in Thread : th'[u].pc \in Joining /\ th'[u].s = s
  <2>1. SUFFICES ASSUME life[s] = "subscribing" PROVE \E u \in Thread : th'[u].pc \in Joining /\ th'[u].s = s
    OBVIOUS
  <2>2. PICK u \in Thread : th[u].pc \in Joining /\ th[u].s = s
    BY <1>2, <2>1 DEF StageAgrees
  <2>3. CASE u = t
    BY <1>1, <2>2, <2>3 DEF StaysOn
  <2>4. CASE u # t
    BY <2>2, <2>4 DEF OthersWait
  <2> QED
    BY <2>3, <2>4
<1>4. life[s] = "cancelling" => \E u \in Thread : th'[u].pc \in Leaving /\ th'[u].s = s
  <2>1. SUFFICES ASSUME life[s] = "cancelling" PROVE \E u \in Thread : th'[u].pc \in Leaving /\ th'[u].s = s
    OBVIOUS
  <2>2. PICK u \in Thread : th[u].pc \in Leaving /\ th[u].s = s
    BY <1>2, <2>1 DEF StageAgrees
  <2>3. CASE u = t
    BY <1>1, <2>2, <2>3 DEF StaysOn
  <2>4. CASE u # t
    BY <2>2, <2>4 DEF OthersWait
  <2> QED
    BY <2>3, <2>4
<1>5. life[s] = "live" => Listed(s)'
    BY <1>2 DEF StageAgrees
<1> QED
    BY <1>1, <1>3, <1>4, <1>5 DEF StageAgrees

\* Such a step when it leaves lists and collections alone.
LEMMA TurnTaken ==
    ASSUME Sane, Orderly, NEW t \in Thread, OthersWait(t), TurnAgrees(t)', StaysOn(t), SameLists,
           th[t].pc \in {"lock", "locked"} => th'[t].pc \in {"lock", "locked"} /\ th'[t].key = th[t].key
    PROVE  Orderly'
<1>1. \A u \in Thread : TurnAgrees(u)'
    BY TurnsKept
<1>2. \A s \in Sub : StageAgrees(s)'
  <2>1. ASSUME NEW s \in Sub, life[s] = "live", Listed(s) PROVE Listed(s)'
    <3>1. sub[s].parent \in Chan
      BY <2>1 DEF Sane, Sound, SubAgrees
    <3> QED
      BY <3>1, <2>1 DEF Listed, SameLists
  <2> QED
    BY <2>1, StagesKept
<1>3. \A a \in Chan : Collected(a)'
    BY DEF Orderly, Collected, SameLists
<1>4. ASSUME NEW k \in Key PROVE Used(k)'
  <2>1. Used(k) /\ channels[k] \in Chan \cup {NULL}
    BY DEF Orderly, Sane, Sound, Typed
  <2>2. Serves(k)' <=> Serves(k)
    BY <2>1 DEF SameLists, Serves
  <2>3. \A u \in Thread : th[u].pc \in {"lock", "locked"} => th'[u].pc \in {"lock", "locked"} /\ th'[u].key = th[u].key
    BY DEF OthersWait
  <2> QED
    BY <2>1, <2>2, <2>3 DEF Used, SameLists
<1> QED
    BY <1>1, <1>2, <1>3, <1>4 DEF Orderly

\* fio_subscribe makes the subscription.
LEMMA TidySubscribes ==
    ASSUME OneSubscribes, Tidy, Sane', NEW t \in Subscriber, NEW s \in Sub, NEW k \in Key, fio_subscribe(t, s, k)
    PROVE  Tidy'
<1> DEFINE work == [NoWork EXCEPT !.pc = "insert", !.s = s, !.key = k]
<1>1. Sane /\ Sound /\ Typed /\ Typed' /\ Orderly /\ t \in Thread
    BY DEF Tidy, Sane, Sound, Thread, Caller
<1>2. /\ life[s] = "none" /\ life' = [life EXCEPT ![s] = "subscribing"]
      /\ sub' = [sub EXCEPT ![s].ref = 1, ![s].active = TRUE] /\ Enter(t, work)
      /\ UNCHANGED <<channels, chan, msg, urgent, tasks, engine, ended, got, due, sent, defers, attaches>>
    BY DEF fio_subscribe
<1>3. work \in Place /\ work.pc = "insert" /\ work.s = s /\ work.tmpl = STACK
    BY DEF NoWork, Place, Joining
<1> HIDE DEF work
<1>4. OthersStay(t) /\ th[t].pc = "idle" /\ th'[t] = work
    BY <1>1, <1>2, <1>3, Enters
<1>5. (t \in RubyCaller => gvl = NULL /\ gvl' = t) /\ th[t].pc \notin Busy
    BY <1>2, <1>4 DEF Enter, Busy, Joining, Leaving
<1>6. OthersWait(t)
  <2>1. \A u \in Thread : th[u].pc \notin Busy
    BY <1>1, <1>5, NoneBusy
  <2> QED
    BY <1>2, <1>4, <2>1 DEF OthersWait, OthersStay
<1>7. /\ \A x \in Sub \ {s} : sub'[x] = sub[x] /\ life'[x] = life[x]
      /\ sub'[s].parent = sub[s].parent /\ sub'[s].ref = 1 /\ life'[s] = "subscribing"
  <2>1. sub \in [Sub -> Subscription] /\ life \in [Sub -> {"none", "subscribing", "live", "cancelling", "cancelled"}]
    BY <1>1 DEF Typed
  <2> QED
    BY <1>2, <2>1 DEF Subscription
<1>8. SameLists
    BY <1>2, <1>7 DEF SameLists
<1>9. TurnAgrees(t)'
    BY <1>3, <1>4, <1>5 DEF TurnAgrees
<1>10. StaysOn(t)
  <2>1. StageAgrees(s)'
    BY <1>1, <1>3, <1>4, <1>7 DEF StageAgrees, Joining
  <2> QED
    BY <2>1, <1>4, <1>7 DEF StaysOn, Joining, Leaving
<1>11. Orderly'
    BY <1>1, <1>2, <1>4, <1>6, <1>8, <1>9, <1>10, TurnTaken
<1>12. \A a \in Chan : ChannelCount(a)'
  <2>1. sub[s].parent = NULL /\ NULL \notin Chan
    BY <1>1, <1>2, PubSubAssumption DEF Sound, SubAgrees
  <2>2. \A w \in Worker : th[w].pc = "publish" \/ th'[w].pc = "publish" => th'[w] = th[w]
    BY <1>3, <1>4 DEF OthersStay, Thread
  <2> QED
    BY <1>2, <1>7, <2>1, <2>2, RefsKept DEF Tidy, Counts
<1>13. \A m \in Msg : MessageCount(m)'
    BY <1>1, <1>2, <1>3, <1>4, MessagesKept DEF Tidy, Counts, Handling
<1> QED
    BY <1>11, <1>12, <1>13 DEF Tidy, Counts

\* fio_subscribe refuses: the subscription is cancelled at once.
LEMMA TidySubscribesNothing ==
    ASSUME Tidy, Sane', NEW t \in Subscriber, NEW s \in Sub, fio_subscribe_error(t, s)
    PROVE  Tidy'
<1>1. Sane /\ Sound /\ Typed /\ Orderly /\ t \in Thread
    BY DEF Tidy, Sane, Sound, Thread, Caller
<1>2. /\ th[t].pc = "idle" /\ life[s] = "none" /\ life' = [life EXCEPT ![s] = "cancelled"]
      /\ UNCHANGED <<channels, chan, sub, msg, urgent, tasks, th, gvl, engine>>
    BY DEF fio_subscribe_error
<1>3. \A x \in Sub : life'[x] = life[x] \/ life'[x] = "cancelled"
    BY <1>1, <1>2 DEF Typed
<1>4. SameLists /\ OthersStay(t)
    BY <1>1, <1>2 DEF SameLists, OthersStay, Typed
<1>5. Orderly'
    BY <1>1, <1>2, <1>3, <1>4, OrderKept DEF Busy, Joining, Leaving
<1>6. \A a \in Chan : ChannelCount(a)'
    BY <1>2, RefsKept DEF Tidy, Counts
<1>7. \A m \in Msg : MessageCount(m)'
    BY <1>1, <1>2, <1>4, MessagesKept DEF Tidy, Counts, Handling
<1> QED
    BY <1>5, <1>6, <1>7 DEF Tidy, Counts

\* A thread that subscribes, unsubscribes or attaches an engine is the only one.
LEMMA AloneBusy ==
    ASSUME OneSubscribes, Orderly, NEW t \in Thread, th[t].pc \in Busy
    PROVE  \A u \in Thread \ {t} : th[u].pc \notin Busy
    BY OneBusy

\* A channel that was never used holds nothing and is held by nothing.
LEMMA Unused ==
    ASSUME Tidy, NEW a \in Chan, chan[a].key = NULL
    PROVE  /\ chan[a].subs = <<>> /\ chan[a].ref = 0 /\ ~InCollection(a) /\ Holders(a) = {}
           /\ Among(urgent, PostsTo(a)) = {} /\ Posting(a) = {}
<1>1. Sound /\ Typed /\ ChannelCount(a) /\ NULL \notin Key
    BY PubSubAssumption DEF Tidy, Sane, Sound, Counts
<1>2. \A s \in Sub : sub[s].parent # a
    BY <1>1 DEF Sound, SubAgrees
<1>3. chan[a].subs = <<>>
  <2>1. \A i \in DOMAIN chan[a].subs : chan[a].subs[i] \in Sub /\ sub[chan[a].subs[i]].parent = a
    BY <1>1 DEF Sound, ChannelAgrees, Typed, Channel
  <2>2. chan[a].subs \in Seq(Sub) /\ DOMAIN chan[a].subs = {}
    BY <2>1, <1>1, <1>2 DEF Typed, Channel
  <2>3. Len(chan[a].subs) = 0
    <3>1. PICK n \in Nat : n = Len(chan[a].subs) /\ DOMAIN chan[a].subs = 1 .. n
      BY <2>2, LenProperties
    <3>2. n # 0 => 1 \in 1 .. n
      BY <3>1
    <3> QED
      BY <2>2, <3>1, <3>2
  <2> QED
    BY <2>2, <2>3, EmptySeq
<1>4. ~InCollection(a)
    BY <1>1, PubSubAssumption DEF InCollection, Sound, KeyAgrees
<1>5. Holders(a) = {}
    BY <1>2 DEF Holders
<1>6. \A m \in Msg : ~Posted(a, m)
    BY <1>1 DEF Sound, PostAgrees
<1>7. Among(urgent, PostsTo(a)) = {}
  <2>1. SUFFICES ASSUME NEW i \in DOMAIN urgent, urgent[i] \in Post, urgent[i].ch = a PROVE FALSE
    BY DEF Among, PostsTo
  <2>2. PICK m \in Msg : urgent[i] = [ch |-> a, m |-> m]
    BY <2>1 DEF Post
  <2> QED
    BY <2>2, <1>6, <1>1 DEF Posted, Queued, Contains, Typed
<1>8. Posting(a) = {}
  <2>1. SUFFICES ASSUME NEW w \in Worker, th[w].pc = "publish", th[w].ch = a PROVE FALSE
    BY DEF Posting
  <2>2. w \in Thread /\ th[w].m \in Msg
    BY <2>1, <1>1 DEF Sound, ThreadAgrees, Thread
  <2> QED
    BY <2>1, <2>2, <1>6 DEF Posted, Publishes
<1>9. chan[a].ref = 0
    BY <1>1, <1>4, <1>5, <1>7, <1>8, FS_EmptySet DEF ChannelCount, Collects, Posts
<1> QED
    BY <1>3, <1>4, <1>5, <1>7, <1>8, <1>9

\* A channel's record with one field set.
LEMMA ChannelFields ==
    ASSUME NEW c \in Channel, NEW v
    PROVE  /\ [c EXCEPT !.ref = v].ref = v /\ [c EXCEPT !.ref = v].key = c.key
           /\ [c EXCEPT !.ref = v].subs = c.subs /\ [c EXCEPT !.ref = v].lock = c.lock
           /\ [c EXCEPT !.lock = v].lock = v /\ [c EXCEPT !.lock = v].key = c.key
           /\ [c EXCEPT !.lock = v].subs = c.subs /\ [c EXCEPT !.lock = v].ref = c.ref
           /\ [c EXCEPT !.subs = v].subs = v /\ [c EXCEPT !.subs = v].key = c.key
           /\ [c EXCEPT !.subs = v].ref = c.ref /\ [c EXCEPT !.subs = v].lock = c.lock
    BY DEF Channel

\* fio_ch_set_insert makes a channel in its collection.
LEMMA TidyMakes ==
    ASSUME OneSubscribes, Tidy, Sane', NEW t \in Thread, NEW a \in Chan, th[t].pc = "insert",
           channels[th[t].key] = NULL, chan[a].key = NULL, channels' = [channels EXCEPT ![th[t].key] = a],
           chan' = [chan EXCEPT ![a] = [chan[a] EXCEPT !.key = th[t].key, !.ref = 1]],
           OthersStay(t), th'[t].pc = "lock", th'[t].ch = a, th'[t].s = th[t].s, th'[t].key = th[t].key,
           UNCHANGED <<sub, msg, urgent, tasks, gvl, engine, life>>
    PROVE  Tidy'
<1>0. PICK k : k = th[t].key
    OBVIOUS
<1>1. Sane /\ Sound /\ Typed /\ Orderly /\ Counts /\ Typed'
    BY DEF Tidy, Sane, Sound
<1>2. k \in Key /\ TurnAgrees(t) /\ a # NULL
    BY <1>0, <1>1, PubSubAssumption DEF Sound, ThreadAgrees, Joining, Orderly
<1>3. /\ \A u \in Thread \ {t} : th'[u] = th[u] /\ th[u].pc \notin Busy
    BY <1>1, AloneBusy DEF OthersStay, Busy, Joining
<1>4. /\ chan'[a].key = k /\ chan'[a].ref = 1 /\ chan'[a].subs = chan[a].subs /\ chan'[a].lock = chan[a].lock
      /\ \A b \in Chan \ {a} : chan'[b] = chan[b]
  <2>1. chan[a] \in Channel /\ chan \in [Chan -> Channel]
    BY <1>1 DEF Typed
  <2> QED
    BY <2>1, <1>0 DEF Channel
<1>5. channels[k] = NULL /\ channels'[k] = a /\ \A j \in Key \ {k} : channels'[j] = channels[j] /\ channels[j] \in Chan \cup {NULL}
    BY <1>0, <1>1, <1>2 DEF Typed
<1>6. /\ chan[a].subs = <<>> /\ chan[a].ref = 0 /\ ~InCollection(a) /\ Holders(a) = {}
      /\ Among(urgent, PostsTo(a)) = {} /\ Posting(a) = {}
    BY Unused
<1>7. \A u \in Thread : TurnAgrees(u)'
  <2>1. OthersWait(t)
    BY <1>3, <1>4 DEF OthersWait
  <2>2. TurnAgrees(t)'
    BY <1>0, <1>2, <1>5 DEF TurnAgrees, Busy, Joining, Leaving
  <2> QED
    BY <1>1, <2>1, <2>2, TurnsKept
<1>8. \A s \in Sub : StageAgrees(s)'
  <2>1. OthersWait(t)
    BY <1>3, <1>4 DEF OthersWait
  <2>2. StaysOn(t)
    BY DEF StaysOn, Joining, Leaving
  <2>3. ASSUME NEW s \in Sub, life[s] = "live", Listed(s) PROVE Listed(s)'
    <3>1. sub[s].parent \in Chan
      BY <2>3, <1>1 DEF Sound, SubAgrees
    <3> QED
      BY <2>3, <3>1, <1>4 DEF Listed
  <2> QED
    BY <1>1, <2>1, <2>2, <2>3, StagesKept
<1>9. ASSUME NEW b \in Chan PROVE Collected(b)'
  <2>1. CASE b = a
    BY <2>1, <1>4, <1>6 DEF Collected
  <2>2. CASE b # a
    <3>1. SUFFICES ASSUME chan[b].subs # <<>> PROVE channels'[chan[b].key] = b
      BY <2>2, <1>4 DEF Collected
    <3>2. channels[chan[b].key] = b /\ chan[b].key \in Key \cup {NULL}
      BY <3>1, <1>1 DEF Orderly, Collected, Typed, Channel
    <3>3. chan[b].key # NULL
      BY <3>1, Unused
    <3> QED
      BY <3>2, <3>3, <1>2, <1>5, PubSubAssumption
  <2> QED
    BY <2>1, <2>2
<1>10. \A j \in Key : Serves(j)' <=> Serves(j)
  <2>1. ~Serves(k) /\ ~Serves(k)'
    BY <1>4, <1>5, <1>6 DEF Serves
  <2>2. \A j \in Key \ {k} : channels[j] # a
    BY <1>6 DEF InCollection
  <2> QED
    BY <2>1, <2>2, <1>4, <1>5 DEF Serves
<1>11. ASSUME NEW j \in Key PROVE Used(j)'
  <2>1. Used(j)
    BY <1>1 DEF Orderly
  <2>2. CASE j = k
    BY <2>2, <1>0 DEF Used
  <2>3. CASE j # k
    <3>1. \A u \in Thread : th[u].pc \in {"lock", "locked"} => th'[u] = th[u]
      BY <1>3
    <3> QED
      BY <2>1, <2>3, <3>1, <1>5, <1>10 DEF Used
  <2> QED
    BY <2>2, <2>3
<1>12. ASSUME NEW b \in Chan PROVE ChannelCount(b)'
  <2>1. Holders(b)' = Holders(b) /\ Posting(b)' = Posting(b) /\ Among(urgent, PostsTo(b))' = Among(urgent, PostsTo(b))
    <3>1. Holders(b)' = Holders(b)
      BY DEF Holders
    <3>2. Posting(b)' = Posting(b)
      <4>1. \A w \in Worker : w \in Thread /\ (th[w].pc = "publish" \/ th'[w].pc = "publish" => th'[w] = th[w])
        BY <1>3 DEF Thread
      <4> QED
        BY <4>1 DEF Posting
    <3> QED
      BY <3>1, <3>2 DEF Among, PostsTo
  <2>2. CASE b = a
    <3>1. InCollection(a)'
      BY <1>2, <1>5 DEF InCollection
    <3>2. Collects(a)' = 1 /\ Posts(a)' = 0 /\ IsFiniteSet(Holders(a)') /\ Cardinality(Holders(a)') = 0
      BY <2>1, <2>2, <3>1, <1>6, FS_EmptySet DEF Collects, Posts
    <3>3. Cardinality(Among(urgent, PostsTo(a)))' = 0
      BY <2>1, <2>2, <1>6, FS_EmptySet
    <3> QED
      BY <2>2, <3>2, <3>3, <1>4 DEF ChannelCount
  <2>3. CASE b # a
    <3>1. InCollection(b)' <=> InCollection(b)
      <4>1. channels[k] # b
        BY <1>5, PubSubAssumption
      <4> QED
        BY <4>1, <2>3, <1>2, <1>5 DEF InCollection
    <3>2. Collects(b)' = Collects(b) /\ Posts(b)' = Posts(b)
      BY <2>1, <3>1 DEF Collects, Posts
    <3> QED
      BY <2>1, <2>3, <3>2, <1>1, <1>4 DEF Counts, ChannelCount
  <2> QED
    BY <2>2, <2>3
<1>13. \A m \in Msg : MessageCount(m)'
    BY <1>1, MessagesKept DEF Counts, Handling
<1> QED
    BY <1>7, <1>8, <1>9, <1>11, <1>12, <1>13 DEF Tidy, Orderly, Counts

\* A step of a thread that is busy and leaves lists, collections, engines and subscriptions alone.
LEMMA TidyGoes ==
    ASSUME OneSubscribes, Tidy, Sane', NEW t \in Thread, th[t].pc \in Busy \ {"destroy", "reattach"},
           OthersStay(t), th'[t].pc \in Busy, th'[t].s = th[t].s, th'[t].key = th[t].key,
           th[t].pc \in Joining <=> th'[t].pc \in Joining, th[t].pc \in Leaving <=> th'[t].pc \in Leaving,
           th[t].pc \in {"lock", "locked"} => th'[t].pc \in {"lock", "locked"},
           SameLists, UNCHANGED <<msg, urgent, tasks, engine, life>>,
           \A s \in Sub : sub'[s].parent = sub[s].parent /\ sub'[s].ref = sub[s].ref,
           \A a \in Chan : chan'[a].ref = chan[a].ref,
           \A a \in Chan : chan'[a].lock = chan[a].lock \/ chan[a].lock \in {NULL, t},
           TurnAgrees(t)'
    PROVE  Tidy'
<1>1. Sane /\ Sound /\ Orderly /\ Counts
    BY DEF Tidy, Sane
<1>2. \A u \in Thread \ {t} : th'[u] = th[u] /\ th[u].pc \notin Busy
    BY <1>1, AloneBusy DEF OthersStay
<1>3. OthersWait(t)
    BY <1>2 DEF OthersWait
<1>4. StaysOn(t)
    BY DEF StaysOn
<1>5. Orderly'
    BY <1>1, <1>3, <1>4, TurnTaken
<1>6. \A a \in Chan : ChannelCount(a)'
  <2>1. \A w \in Worker : th[w].pc = "publish" \/ th'[w].pc = "publish" => th'[w] = th[w]
    BY <1>2 DEF Thread, Busy, Joining, Leaving
  <2>2. channels' = channels
    BY DEF SameLists
  <2> QED
    BY <1>1, <2>1, <2>2, RefsKept DEF Counts
<1>7. \A m \in Msg : MessageCount(m)'
  <2>1. th[t].pc \notin {"publish", "patterns"} \cup Handling /\ th'[t].pc \notin {"publish", "patterns"} \cup Handling
    BY DEF Busy, Joining, Leaving, Handling
  <2> QED
    BY <1>1, <2>1, MessagesKept DEF Counts
<1> QED
    BY <1>5, <1>6, <1>7 DEF Tidy, Counts

\* fio_ch_set_insert finds the channel or makes it.
LEMMA TidyInserts ==
    ASSUME OneSubscribes, Tidy, Sane', NEW t \in Caller, set_insert(t)
    PROVE  Tidy'
<1> DEFINE free == {b \in Chan : chan[b].key = NULL}
           new  == CHOOSE b \in Chan : chan[b].key = NULL /\ \A c \in Chan : chan[c].key = NULL => b <= c
<1>0. PICK k : k = th[t].key
    OBVIOUS
<1>1. Sane /\ Sound /\ Typed /\ Orderly /\ t \in Thread /\ ThreadAgrees(t) /\ TurnAgrees(t)
    BY DEF Tidy, Sane, Sound, Orderly, Thread
<1>2. /\ th[t].pc = "insert" /\ k \in Key /\ th[t].tmpl = STACK
      /\ UNCHANGED <<sub, msg, urgent, tasks, gvl, engine, life, ended, got, due, sent, defers, attaches>>
    BY <1>0, <1>1 DEF set_insert, ThreadAgrees, TurnAgrees, Joining
<1>3. ASSUME NEW a \in Chan, th' = [th EXCEPT ![t] = [th[t] EXCEPT !.pc = "lock", !.ch = a]]
      PROVE  OthersStay(t) /\ th'[t].pc = "lock" /\ th'[t].ch = a /\ th'[t].s = th[t].s /\ th'[t].key = k
  <2> DEFINE w == [th[t] EXCEPT !.pc = "lock", !.ch = a]
  <2>1. th[t] \in Place /\ th \in [Thread -> Place]
    BY <1>1 DEF Typed
  <2>2. w \in Place
    BY <2>1 DEF Place, Joining
  <2>3. w.pc = "lock" /\ w.ch = a /\ w.s = th[t].s /\ w.key = th[t].key
    BY <2>1 DEF Place
  <2>4. th' = [th EXCEPT ![t] = w]
    BY <1>3
  <2> HIDE DEF w
  <2> QED
    BY <2>1, <2>2, <2>3, <2>4, <1>0, <1>1 DEF OthersStay
<1>4. CASE channels[k] = NULL
  <2>1. free # {} /\ free \in SUBSET Nat
    BY <1>0, <1>4, PubSubAssumption DEF set_insert
  <2>2. \E b \in free : \A c \in free : b <= c
    <3> HIDE DEF free
    <3> QED
      BY <2>1, Least
  <2>3. new \in Chan /\ chan[new].key = NULL
    BY <2>2
  <2>4. /\ th' = [th EXCEPT ![t] = [th[t] EXCEPT !.pc = "lock", !.ch = new]]
        /\ channels' = [channels EXCEPT ![k] = new]
        /\ chan' = [chan EXCEPT ![new] = [chan[new] EXCEPT !.key = k, !.ref = 1]]
    BY <1>0, <1>4 DEF set_insert
  <2>5. PICK a \in Chan : /\ chan[a].key = NULL /\ channels' = [channels EXCEPT ![k] = a]
                          /\ chan' = [chan EXCEPT ![a] = [chan[a] EXCEPT !.key = k, !.ref = 1]]
                          /\ th' = [th EXCEPT ![t] = [th[t] EXCEPT !.pc = "lock", !.ch = a]]
    <3> HIDE DEF new, free
    <3> QED
      BY <2>3, <2>4
  <2>6. OthersStay(t) /\ th'[t].pc = "lock" /\ th'[t].ch = a /\ th'[t].s = th[t].s /\ th'[t].key = k
    BY <1>3, <2>5
  <2> HIDE DEF free, new
  <2> QED
    BY <1>0, <1>1, <1>2, <1>4, <2>5, <2>6, TidyMakes
<1>5. CASE channels[k] # NULL
  <2>1. PICK a \in Chan : a = channels[k]
    BY <1>1, <1>2, <1>5 DEF Typed
  <2>2. th' = [th EXCEPT ![t] = [th[t] EXCEPT !.pc = "lock", !.ch = a]] /\ channels' = channels /\ chan' = chan
    BY <1>0, <1>2, <1>5, <2>1 DEF set_insert, Destroyed
  <2>3. OthersStay(t) /\ th'[t].pc = "lock" /\ th'[t].ch = a /\ th'[t].s = th[t].s /\ th'[t].key = k
    BY <1>3, <2>2
  <2>4. SameLists
    BY <1>2, <2>2 DEF SameLists
  <2>5. TurnAgrees(t)'
    BY <1>1, <1>2, <2>1, <2>2, <2>3 DEF TurnAgrees, Busy, Joining, Leaving
  <2>6. /\ th[t].pc \in Busy \ {"destroy", "reattach"} /\ th'[t].pc \in Busy
        /\ th[t].pc \in Joining /\ th'[t].pc \in Joining /\ th[t].pc \notin Leaving /\ th'[t].pc \notin Leaving
    BY <1>2, <2>3 DEF Busy, Joining, Leaving
  <2> QED
    BY <1>0, <1>1, <1>2, <2>2, <2>3, <2>4, <2>5, <2>6, TidyGoes
<1> QED
    BY <1>4, <1>5

\* fio_filter_dup_lock_internal takes the channel's lock.
LEMMA TidyLocksChannel ==
    ASSUME OneSubscribes, Tidy, Sane', NEW t \in Caller, channel_lock(t)
    PROVE  Tidy'
<1>0. PICK ch : ch = th[t].ch
    OBVIOUS
<1>1. Sane /\ Sound /\ Typed /\ Orderly /\ t \in Thread /\ ThreadAgrees(t) /\ TurnAgrees(t)
    BY DEF Tidy, Sane, Sound, Orderly, Thread
<1>2. /\ th[t].pc = "lock" /\ Goto(t, "locked") /\ chan[ch].lock = NULL
      /\ chan' = [chan EXCEPT ![ch] = [chan[ch] EXCEPT !.lock = t]]
      /\ UNCHANGED <<channels, sub, msg, urgent, tasks, engine, life, ended, got, due, sent, defers, attaches>>
    BY <1>0 DEF channel_lock
<1>3. ch \in Chan /\ chan \in [Chan -> Channel] /\ chan[ch] \in Channel
    BY <1>0, <1>1, <1>2 DEF ThreadAgrees, Typed
<1>4. /\ chan'[ch].lock = t
      /\ \A a \in Chan : /\ chan'[a].key = chan[a].key /\ chan'[a].subs = chan[a].subs /\ chan'[a].ref = chan[a].ref
                         /\ chan'[a].lock = chan[a].lock \/ chan[a].lock = NULL
  <2> DEFINE v == [chan[ch] EXCEPT !.lock = t]
  <2>1. v.lock = t /\ v.key = chan[ch].key /\ v.subs = chan[ch].subs /\ v.ref = chan[ch].ref
    BY <1>3, ChannelFields
  <2>2. chan' = [chan EXCEPT ![ch] = v]
    BY <1>2
  <2> HIDE DEF v
  <2> QED
    BY <1>2, <1>3, <2>1, <2>2
<1>5. OthersStay(t) /\ gvl' = gvl /\ th'[t].pc = "locked" /\ th'[t].s = th[t].s /\ th'[t].ch = ch /\ th'[t].key = th[t].key
  <2>1. "locked" \in Pcs
    BY DEF Pcs, Joining
  <2> QED
    BY <2>1, <1>0, <1>1, <1>2, Goes
<1>6. SameLists
    BY <1>2, <1>4 DEF SameLists
<1>7. TurnAgrees(t)'
    BY <1>0, <1>1, <1>2, <1>4, <1>5 DEF TurnAgrees, Busy, Joining, Leaving
<1>8. /\ th[t].pc \in Busy \ {"destroy", "reattach"} /\ th'[t].pc \in Busy
      /\ th[t].pc \in Joining /\ th'[t].pc \in Joining /\ th[t].pc \notin Leaving /\ th'[t].pc \notin Leaving
    BY <1>2, <1>5 DEF Busy, Joining, Leaving
<1> QED
    BY <1>1, <1>2, <1>4, <1>5, <1>6, <1>7, <1>8, TidyGoes

\* fio_filter_dup_lock_internal finds the channel in its collection, as nobody else removed
\* it, and fio_subscribe lists the subscription.
LEMMA TidyFinds ==
    ASSUME OneSubscribes, Tidy, Sane', NEW t \in Caller, channel_found(t)
    PROVE  Tidy'
<1>0. PICK ch, s, k : ch = th[t].ch /\ s = th[t].s /\ k = th[t].key
    OBVIOUS
<1>1. Sane /\ Sound /\ Typed /\ Typed' /\ Orderly /\ Counts /\ t \in Thread /\ ThreadAgrees(t) /\ TurnAgrees(t)
    BY DEF Tidy, Sane, Sound, Orderly, Thread
<1>2. /\ th[t].pc = "locked" /\ channels[k] = ch /\ ch \in Chan /\ s \in Sub /\ k \in Key /\ life[s] = "subscribing"
      /\ chan[ch].lock = t
      /\ UNCHANGED <<channels, msg, urgent, tasks, ended, got, due, sent, defers, attaches>>
    BY <1>0, <1>1 DEF channel_found, ThreadAgrees, TurnAgrees, Joining
<1> DEFINE c == fio_channel_dup(chan, ch)
           v == [c[ch] EXCEPT !.subs = Append(c[ch].subs, s), !.lock = NULL]
<1>3. /\ chan' = [c EXCEPT ![ch] = v] /\ sub' = [sub EXCEPT ![s] = [sub[s] EXCEPT !.parent = ch]]
      /\ life' = [life EXCEPT ![s] = "live"]
      /\ Return(t)
  <2> DEFINE d == th[t].ch
             e == fio_channel_dup(chan, d)
             w == [e[d] EXCEPT !.subs = Append(e[d].subs, th[t].s), !.lock = NULL]
  <2>1. /\ chan' = [e EXCEPT ![d] = w] /\ sub' = [sub EXCEPT ![th[t].s] = [sub[th[t].s] EXCEPT !.parent = d]]
        /\ life' = [life EXCEPT ![th[t].s] = "live"]
        /\ Return(t)
    <3>1. channels[th[t].key] = th[t].ch
      BY <1>0, <1>2
    <3> QED
      BY <3>1 DEF channel_found
  <2> QED
    BY <2>1, <1>0
<1>4. /\ chan'[ch].ref = chan[ch].ref + 1 /\ chan'[ch].lock = NULL /\ chan'[ch].key = chan[ch].key
      /\ chan'[ch].subs = Append(chan[ch].subs, s)
      /\ \A b \in Chan \ {ch} : chan'[b] = chan[b]
  <2>1. chan \in [Chan -> Channel] /\ chan[ch] \in Channel
    BY <1>1, <1>2 DEF Typed
  <2>2. PICK r : r = chan[ch].ref + 1
    OBVIOUS
  <2>3. PICK x : x = [chan[ch] EXCEPT !.ref = r]
    OBVIOUS
  <2>4. c = [chan EXCEPT ![ch] = x]
    BY <2>2, <2>3 DEF fio_channel_dup
  <2>5. c[ch] = x /\ c \in [Chan -> {c[b] : b \in Chan}] /\ \A b \in Chan \ {ch} : c[b] = chan[b]
    BY <2>1, <2>4, <1>2
  <2>6. v = [x EXCEPT !.subs = Append(chan[ch].subs, s), !.lock = NULL]
    BY <2>1, <2>3, <2>5, ChannelFields
  <2>7. v.ref = r /\ v.lock = NULL /\ v.key = chan[ch].key /\ v.subs = Append(chan[ch].subs, s)
    BY <2>1, <2>3, <2>6 DEF Channel
  <2> HIDE DEF c, v
  <2> QED
    BY <1>2, <1>3, <2>2, <2>5, <2>7
<1> HIDE DEF c, v
<1>5. /\ sub'[s].parent = ch /\ sub'[s].ref = 1 /\ sub[s].ref = 1 /\ sub[s].parent = NULL
      /\ \A x \in Sub \ {s} : sub'[x] = sub[x]
      /\ life'[s] = "live" /\ \A x \in Sub \ {s} : life'[x] = life[x]
  <2>1. sub[s].ref = 1 /\ sub[s].parent = NULL
    BY <1>1, <1>2, Unknown DEF Own
  <2>2. sub[s] \in Subscription /\ sub \in [Sub -> Subscription] /\ life \in [Sub -> {"none", "subscribing", "live", "cancelling", "cancelled"}]
    BY <1>1, <1>2 DEF Typed
  <2> QED
    BY <1>2, <1>3, <2>1, <2>2 DEF Subscription
<1>6. OthersStay(t) /\ th'[t].pc = "idle" /\ \A u \in Thread \ {t} : th'[u] = th[u] /\ th[u].pc \notin Busy
    BY <1>1, <1>2, <1>3, Returns, AloneBusy DEF OthersStay, NoWork, Busy, Joining
<1>7. chan[ch].key = k /\ k # NULL /\ ch # NULL
    BY <1>1, <1>2, PubSubAssumption DEF Sound, KeyAgrees
<1>8. OthersWait(t)
  <2>1. \A b \in Chan : chan'[b].lock = chan[b].lock \/ chan[b].lock = t
    BY <1>2, <1>4
  <2> QED
    BY <2>1, <1>6 DEF OthersWait
<1>9. \A u \in Thread : TurnAgrees(u)'
  <2>1. TurnAgrees(t)'
    BY <1>6 DEF TurnAgrees, Busy, Joining, Leaving
  <2> QED
    BY <2>1, <1>1, <1>8, TurnsKept
<1>10. \A j \in DOMAIN chan[ch].subs : j \in DOMAIN chan'[ch].subs /\ chan'[ch].subs[j] = chan[ch].subs[j]
  <2>1. chan[ch].subs \in Seq(Sub)
    BY <1>1, <1>2 DEF Typed, Channel
  <2>2. PICK q \in Seq(Sub), n \in Nat : q = chan[ch].subs /\ n = Len(q) /\ DOMAIN q = 1 .. n
    BY <2>1, LenProperties
  <2>3. /\ Append(q, s) \in Seq(Sub) /\ Len(Append(q, s)) = n + 1 /\ \A i \in 1 .. n : Append(q, s)[i] = q[i]
        /\ DOMAIN Append(q, s) = 1 .. n + 1
    BY <2>2, <1>2, AppendProperties
  <2> QED
    BY <2>2, <2>3, <1>4
<1>11. \E j \in DOMAIN chan'[ch].subs : chan'[ch].subs[j] = s
  <2>1. chan[ch].subs \in Seq(Sub)
    BY <1>1, <1>2 DEF Typed, Channel
  <2>2. PICK q \in Seq(Sub), n \in Nat : q = chan[ch].subs /\ n = Len(q) /\ DOMAIN q = 1 .. n
    BY <2>1, LenProperties
  <2>3. Append(q, s)[n + 1] = s /\ DOMAIN Append(q, s) = 1 .. n + 1 /\ n + 1 \in 1 .. n + 1
    BY <2>2, <1>2, AppendProperties
  <2> QED
    BY <2>2, <2>3, <1>4
<1>12. \A x \in Sub : StageAgrees(x)'
  <2>1. StageAgrees(s)'
    BY <1>5, <1>11 DEF StageAgrees, Listed
  <2>2. StaysOn(t)
    BY <2>1, <1>0, <1>2, <1>5 DEF StaysOn, Leaving
  <2>3. ASSUME NEW x \in Sub, life[x] = "live", Listed(x) PROVE Listed(x)'
    <3>1. x # s /\ sub[x].parent \in Chan
      BY <2>3, <1>1, <1>2 DEF Sound, SubAgrees
    <3>2. sub'[x].parent = sub[x].parent
      BY <3>1, <1>5
    <3>3. \A b \in Chan : \A i \in DOMAIN chan[b].subs : i \in DOMAIN chan'[b].subs /\ chan'[b].subs[i] = chan[b].subs[i]
      BY <1>4, <1>10
    <3> QED
      BY <2>3, <3>1, <3>2, <3>3, <1>4 DEF Listed
  <2> QED
    BY <1>1, <1>8, <2>2, <2>3, StagesKept
<1>13. ASSUME NEW b \in Chan PROVE Collected(b)'
    BY <1>1, <1>2, <1>4, <1>7 DEF Orderly, Collected
<1>14. Serves(k)' /\ \A j \in Key \ {k} : Serves(j)' <=> Serves(j)
  <2>1. chan'[ch].subs # <<>>
    BY <1>11
  <2>2. ASSUME NEW j \in Key \ {k} PROVE channels[j] # ch /\ channels[j] \in Chan \cup {NULL}
    BY <1>1, <1>7 DEF Sound, KeyAgrees, Typed
  <2>3. Serves(k)'
    BY <2>1, <1>2, <1>7 DEF Serves
  <2> QED
    BY <2>2, <2>3, <1>2, <1>4 DEF Serves
<1>15. ASSUME NEW j \in Key PROVE Used(j)'
  <2>1. CASE j = k
    BY <2>1, <1>14 DEF Used
  <2>2. CASE j # k
    <3>1. \A u \in Thread : th[u].pc \in {"lock", "locked"} /\ th[u].key = j => th'[u] = th[u]
      BY <2>2, <1>0, <1>6
    <3> QED
      BY <2>2, <3>1, <1>1, <1>2, <1>14 DEF Orderly, Used
  <2> QED
    BY <2>1, <2>2
<1>16. ASSUME NEW b \in Chan PROVE ChannelCount(b)'
  <2>1. Collects(b)' = Collects(b) /\ Collects(b) \in Int
    BY <1>2 DEF Collects, InCollection
  <2>2. Posts(b)' = Posts(b) /\ Posts(b) \in Int
    <3>1. \A w \in Worker : w \in Thread /\ (th[w].pc = "publish" \/ th'[w].pc = "publish" => th'[w] = th[w])
      BY <1>2, <1>6 DEF Thread
    <3>2. Posting(b)' = Posting(b)
      BY <3>1 DEF Posting
    <3> QED
      BY <3>2 DEF Posts
  <2>3. Has(Holders(b)', s) - Has(Holders(b), s) = IF b = ch THEN 1 ELSE 0
    <3>1. s \notin Holders(b)
      BY <1>5, PubSubAssumption DEF Holders
    <3>2. s \in Holders(b)' <=> b = ch
      BY <1>2, <1>5 DEF Holders
    <3> QED
      BY <3>1, <3>2 DEF Has
  <2>4. Nearly(Holders(b), Holders(b)', s)
    BY <1>5 DEF Nearly, Holders
  <2>5. PICK n \in Int : n = Cardinality(Among(urgent, PostsTo(b))) /\ n = Cardinality(Among(urgent', PostsTo(b)))
    BY <1>1, <1>2, AmongFinite DEF Typed
  <2>6. chan'[b].ref - chan[b].ref = IF b = ch THEN 1 ELSE 0
    <3>1. chan[b].ref \in Int
      BY <1>1 DEF Typed, Channel
    <3> QED
      BY <3>1, <1>4
  <2>7. ChannelMoves(b, s)
    BY <2>1, <2>2, <2>3, <2>5, <2>6 DEF ChannelMoves
  <2> QED
    BY <2>4, <2>7, <1>1, ChannelCounted DEF Counts
<1>17. \A m \in Msg : MessageCount(m)'
    BY <1>1, <1>2, <1>6, MessagesKept DEF Counts, Handling
<1> QED
    BY <1>9, <1>12, <1>13, <1>15, <1>16, <1>17 DEF Tidy, Orderly, Counts

\* fio_unsubscribe begins.
LEMMA TidyUnsubscribes ==
    ASSUME OneSubscribes, Tidy, Sane', NEW t \in Subscriber, NEW s \in Sub, fio_unsubscribe(t, s)
    PROVE  Tidy'
<1> DEFINE work == [NoWork EXCEPT !.pc = "slock", !.s = s]
<1>1. Sane /\ Sound /\ Typed /\ Orderly /\ t \in Thread
    BY DEF Tidy, Sane, Sound, Thread, Caller
<1>2. /\ life[s] = "live" /\ life' = [life EXCEPT ![s] = "cancelling"] /\ Enter(t, work)
      /\ UNCHANGED <<channels, chan, sub, msg, urgent, tasks, engine, ended, got, due, sent, defers, attaches>>
    BY DEF fio_unsubscribe
<1>3. work \in Place /\ work.pc = "slock" /\ work.s = s
    BY DEF NoWork, Place, Leaving
<1> HIDE DEF work
<1>4. OthersStay(t) /\ th[t].pc = "idle" /\ th'[t] = work
    BY <1>1, <1>2, <1>3, Enters
<1>5. (t \in RubyCaller => gvl = NULL /\ gvl' = t) /\ th[t].pc \notin Busy
    BY <1>2, <1>4 DEF Enter, Busy, Joining, Leaving
<1>6. OthersWait(t)
  <2>1. \A u \in Thread : th[u].pc \notin Busy
    BY <1>1, <1>5, NoneBusy
  <2> QED
    BY <1>2, <1>4, <2>1 DEF OthersWait, OthersStay
<1>7. life'[s] = "cancelling" /\ \A x \in Sub \ {s} : life'[x] = life[x]
    BY <1>1, <1>2 DEF Typed
<1>8. SameLists /\ Listed(s)'
  <2>1. Listed(s)
    BY <1>1, <1>2 DEF Orderly, StageAgrees
  <2> QED
    BY <2>1, <1>2 DEF SameLists, Listed
<1>9. TurnAgrees(t)'
    BY <1>3, <1>4, <1>5, <1>8 DEF TurnAgrees
<1>10. StaysOn(t)
  <2>1. StageAgrees(s)'
    BY <1>1, <1>3, <1>4, <1>7 DEF StageAgrees, Leaving
  <2> QED
    BY <2>1, <1>4, <1>7 DEF StaysOn, Joining, Leaving
<1>11. Orderly'
    BY <1>1, <1>2, <1>4, <1>6, <1>8, <1>9, <1>10, TurnTaken
<1>12. \A a \in Chan : ChannelCount(a)'
  <2>1. \A w \in Worker : th[w].pc = "publish" \/ th'[w].pc = "publish" => th'[w] = th[w]
    BY <1>3, <1>4 DEF OthersStay, Thread
  <2> QED
    BY <1>2, <2>1, RefsKept DEF Tidy, Counts
<1>13. \A m \in Msg : MessageCount(m)'
    BY <1>1, <1>2, <1>3, <1>4, MessagesKept DEF Tidy, Counts, Handling
<1> QED
    BY <1>11, <1>12, <1>13 DEF Tidy, Counts

\* fio_unsubscribe takes the subscription's lock.
LEMMA TidyLocksSubscription ==
    ASSUME OneSubscribes, Tidy, Sane', NEW t \in Caller, subscription_lock(t)
    PROVE  Tidy'
<1>0. PICK s : s = th[t].s
    OBVIOUS
<1>1. Sane /\ Sound /\ Typed /\ Orderly /\ t \in Thread /\ ThreadAgrees(t) /\ TurnAgrees(t)
    BY DEF Tidy, Sane, Sound, Orderly, Thread
<1>2. /\ th[t].pc = "slock" /\ Goto(t, "remove") /\ sub' = [sub EXCEPT ![s] = [sub[s] EXCEPT !.lock = t]]
      /\ UNCHANGED <<channels, chan, msg, urgent, tasks, engine, life, ended, got, due, sent, defers, attaches>>
    BY <1>0 DEF subscription_lock
<1>3. s \in Sub /\ Listed(s)
    BY <1>0, <1>1, <1>2 DEF ThreadAgrees, TurnAgrees, Leaving
<1>4. \A x \in Sub : sub'[x].parent = sub[x].parent /\ sub'[x].ref = sub[x].ref
  <2>1. sub[s] \in Subscription /\ sub \in [Sub -> Subscription]
    BY <1>1, <1>3 DEF Typed
  <2> QED
    BY <1>2, <1>3, <2>1 DEF Subscription
<1>5. OthersStay(t) /\ gvl' = gvl /\ th'[t].pc = "remove" /\ th'[t].s = s /\ th'[t].key = th[t].key
  <2>1. "remove" \in Pcs
    BY DEF Pcs, Leaving
  <2> QED
    BY <2>1, <1>0, <1>1, <1>2, Goes
<1>6. SameLists
    BY <1>2, <1>4 DEF SameLists
<1>7. TurnAgrees(t)'
  <2>1. Listed(s)'
    BY <1>2, <1>3, <1>4 DEF Listed
  <2> QED
    BY <1>1, <1>2, <1>5, <2>1 DEF TurnAgrees, Busy, Joining, Leaving
<1>8. /\ th[t].pc \in Busy \ {"destroy", "reattach"} /\ th'[t].pc \in Busy
      /\ th[t].pc \notin Joining /\ th'[t].pc \notin Joining /\ th[t].pc \in Leaving /\ th'[t].pc \in Leaving
    BY <1>2, <1>5 DEF Busy, Joining, Leaving
<1> QED
    BY <1>0, <1>1, <1>2, <1>4, <1>5, <1>6, <1>7, <1>8, TidyGoes

\* fio_pubsub_on_channel_destroy tells the engine.
LEMMA TidyTells ==
    ASSUME OneSubscribes, Tidy, Sane', NEW t \in Caller, fio_pubsub_on_channel_destroy(t)
    PROVE  Tidy'
<1>0. PICK k : k = th[t].key
    OBVIOUS
<1>1. Sane /\ Sound /\ Typed /\ Orderly /\ t \in Thread /\ ThreadAgrees(t) /\ TurnAgrees(t)
    BY DEF Tidy, Sane, Sound, Orderly, Thread
<1>2. /\ th[t].pc = "destroy" /\ Goto(t, "finish")
      /\ UNCHANGED <<channels, chan, sub, msg, urgent, tasks, life, ended, got, due, sent, defers, attaches>>
    BY <1>0 DEF fio_pubsub_on_channel_destroy
<1>3. OthersStay(t) /\ gvl' = gvl /\ th'[t].pc = "finish" /\ th'[t].s = th[t].s
  <2>1. "finish" \in Pcs
    BY DEF Pcs, Leaving
  <2> QED
    BY <2>1, <1>1, <1>2, Goes
<1>4. \A u \in Thread \ {t} : th'[u] = th[u] /\ th[u].pc \notin Busy
    BY <1>1, <1>2, <1>3, AloneBusy DEF OthersStay, Busy, Leaving
<1>5. OthersWait(t) /\ SameLists
    BY <1>2, <1>4 DEF OthersWait, SameLists
<1>6. TurnAgrees(t)' /\ StaysOn(t)
    BY <1>1, <1>2, <1>3 DEF TurnAgrees, StaysOn, Busy, Joining, Leaving
<1>7. Orderly'
    BY <1>1, <1>2, <1>5, <1>6, TurnTaken
<1>8. \A a \in Chan : ChannelCount(a)'
  <2>1. \A w \in Worker : th[w].pc = "publish" \/ th'[w].pc = "publish" => th'[w] = th[w]
    BY <1>2, <1>3, <1>4 DEF Thread
  <2> QED
    BY <1>2, <2>1, RefsKept DEF Tidy, Counts
<1>9. \A m \in Msg : MessageCount(m)'
    BY <1>1, <1>2, <1>3, MessagesKept DEF Tidy, Counts, Handling
<1> QED
    BY <1>7, <1>8, <1>9 DEF Tidy, Counts

\* A reference of a subscription is dropped, and with the last one its channel's.
LEMMA FreesCounted ==
    ASSUME Tidy, Typed', NEW s \in Sub, NEW v \in Subscription, v.ref = sub[s].ref, v.parent = sub[s].parent,
           sub[s].ref > 0, sub[s].parent \in Chan, NEW sb, sb = [sub EXCEPT ![s] = v], fio_subscription_free(s, sb, chan),
           channels' = channels, urgent' = urgent,
           \A w \in Worker : th[w].pc = "publish" \/ th'[w].pc = "publish" => th'[w] = th[w]
    PROVE  /\ \A a \in Chan : ChannelCount(a)'
           /\ \A a \in Chan : chan'[a].lock = chan[a].lock
<1>1. Sound /\ Typed /\ Counts
    BY DEF Tidy, Sane, Sound
<1>2. /\ \A x \in Sub \ {s} : sub'[x] = sub[x]
      /\ sub'[s].parent = sub[s].parent /\ sub'[s].ref = sub[s].ref - 1
    BY <1>1, Frees
<1>3. PICK p : p = sub[s].parent
    OBVIOUS
<1>4. PICK r \in Int : r = sub[s].ref
    BY <1>1 DEF Typed, Subscription
<1>5. IF r = 1 THEN chan' = [chan EXCEPT ![p] = [chan[p] EXCEPT !.ref = chan[p].ref - 1]] ELSE chan' = chan
  <2>1. sb[s].ref = r
    BY <1>1, <1>4 DEF Typed
  <2> QED
    BY <1>3, <2>1 DEF fio_subscription_free, fio_channel_free
<1>6. p \in Chan /\ chan \in [Chan -> Channel] /\ chan[p] \in Channel
    BY <1>1, <1>3 DEF Typed
<1>7. /\ \A a \in Chan : chan'[a].lock = chan[a].lock
      /\ \A a \in Chan : chan'[a].ref - chan[a].ref = IF a = p /\ r = 1 THEN -1 ELSE 0
  <2>0. \A a \in Chan : chan[a].ref \in Int
    BY <1>6 DEF Channel
  <2>1. CASE r = 1
    <3> DEFINE w == [chan[p] EXCEPT !.ref = chan[p].ref - 1]
    <3>1. w.lock = chan[p].lock /\ w.ref = chan[p].ref - 1
      BY <1>6, ChannelFields
    <3>2. chan' = [chan EXCEPT ![p] = w]
      BY <1>5, <2>1
    <3> HIDE DEF w
    <3> QED
      BY <2>0, <2>1, <3>1, <3>2, <1>6
  <2>2. CASE r # 1
    BY <2>0, <2>2, <1>5
  <2> QED
    BY <2>1, <2>2
<1>8. ASSUME NEW a \in Chan PROVE ChannelCount(a)'
  <2>1. Collects(a)' = Collects(a) /\ Collects(a) \in Int
    BY DEF Collects, InCollection
  <2>2. Posts(a)' = Posts(a) /\ Posts(a) \in Int
    <3>1. Posting(a)' = Posting(a)
      BY DEF Posting
    <3> QED
      BY <3>1 DEF Posts
  <2>3. Has(Holders(a)', s) - Has(Holders(a), s) = IF a = p /\ r = 1 THEN -1 ELSE 0
    <3>1. s \in Holders(a) <=> a = p
      BY <1>3 DEF Holders
    <3>2. s \in Holders(a)' <=> a = p /\ r # 1
      BY <1>2, <1>3, <1>4 DEF Holders
    <3> QED
      BY <3>1, <3>2 DEF Has
  <2>4. Nearly(Holders(a), Holders(a)', s)
    BY <1>2 DEF Nearly, Holders
  <2>5. PICK n \in Int : n = Cardinality(Among(urgent, PostsTo(a))) /\ n = Cardinality(Among(urgent', PostsTo(a)))
    BY <1>1, AmongFinite DEF Typed
  <2>6. ChannelMoves(a, s)
    BY <2>1, <2>2, <2>3, <2>5, <1>7 DEF ChannelMoves
  <2> QED
    BY <2>4, <2>6, <1>1, ChannelCounted DEF Counts
<1> QED
    BY <1>7, <1>8

\* fio_unsubscribe ends.
LEMMA TidyFinishes ==
    ASSUME OneSubscribes, Tidy, Sane', NEW t \in Caller, unsubscribe_finish(t)
    PROVE  Tidy'
<1>0. PICK s : s = th[t].s
    OBVIOUS
<1>1. Sane /\ Sound /\ Typed /\ Typed' /\ Orderly /\ t \in Thread /\ ThreadAgrees(t)
    BY DEF Tidy, Sane, Sound, Orderly, Thread
<1>2. /\ th[t].pc = "finish" /\ Return(t) /\ life' = [life EXCEPT ![s] = "cancelled"]
      /\ fio_subscription_free(s, Silenced(s), chan)
      /\ UNCHANGED <<channels, msg, urgent, tasks, engine, got, due, sent, defers, attaches>>
    BY <1>0 DEF unsubscribe_finish
<1>3. s \in Sub /\ life[s] = "cancelling" /\ sub[s].parent \in Chan
    BY <1>0, <1>1, <1>2 DEF Sound, SubAgrees, ThreadAgrees, Leaving
<1>4. sub[s].ref > 0
  <2>1. Own(s) = 1 /\ Cardinality(CallsFor(tasks, s)) \in Nat /\ CountAgrees(s)
    BY <1>1, <1>3, CallsFinite DEF Own, Typed, Sane, CountsAgree
  <2> QED
    BY <2>1 DEF CountAgrees
<1> DEFINE v == [sub[s] EXCEPT !.lock = NULL, !.active = FALSE]
<1>5. v \in Subscription /\ v.parent = sub[s].parent /\ v.ref = sub[s].ref
  <2>1. sub[s] \in Subscription /\ NULL \in Thread \cup {NULL} /\ FALSE \in BOOLEAN
    BY <1>1, <1>3 DEF Typed
  <2> QED
    BY <2>1, SilencePatched, Zenon
<1>6. Silenced(s) = [sub EXCEPT ![s] = v]
    BY DEF Silenced
<1> HIDE DEF v
<1>7. OthersStay(t) /\ th'[t].pc = "idle"
    BY <1>1, <1>2, Returns DEF NoWork
<1>8. \A u \in Thread \ {t} : th'[u] = th[u] /\ th[u].pc \notin Busy
    BY <1>1, <1>2, <1>7, AloneBusy DEF OthersStay, Busy, Leaving
<1>9. /\ \A a \in Chan : ChannelCount(a)'
      /\ \A a \in Chan : chan'[a].lock = chan[a].lock
  <2>1. \A w \in Worker : th[w].pc = "publish" \/ th'[w].pc = "publish" => th'[w] = th[w]
    BY <1>2, <1>7, <1>8 DEF Thread
  <2>2. PICK sb : sb = Silenced(s)
    OBVIOUS
  <2> QED
    BY <2>1, <2>2, <1>1, <1>2, <1>3, <1>4, <1>5, <1>6, FreesCounted
<1>10. SameLists
  <2>1. PICK sb : sb = Silenced(s)
    OBVIOUS
  <2>2. /\ \A x \in Sub \ {s} : sub'[x] = sub[x]
        /\ sub'[s].parent = sub[s].parent
        /\ \A a \in Chan : chan'[a].key = chan[a].key /\ chan'[a].subs = chan[a].subs
    BY <2>1, <1>1, <1>2, <1>3, <1>5, <1>6, Frees
  <2> QED
    BY <2>2, <1>2 DEF SameLists
<1>11. OthersWait(t)
    BY <1>8, <1>9 DEF OthersWait
<1>12. TurnAgrees(t)' /\ StaysOn(t)
  <2>1. life'[s] = "cancelled" /\ \A x \in Sub \ {s} : life'[x] = life[x]
    BY <1>1, <1>2, <1>3 DEF Typed
  <2> QED
    BY <2>1, <1>0, <1>2, <1>7 DEF TurnAgrees, StaysOn, StageAgrees, Busy, Joining, Leaving
<1>13. Orderly'
    BY <1>1, <1>2, <1>10, <1>11, <1>12, TurnTaken
<1>14. \A m \in Msg : MessageCount(m)'
    BY <1>1, <1>2, <1>7, MessagesKept DEF Tidy, Counts, Handling
<1> QED
    BY <1>9, <1>13, <1>14 DEF Tidy, Counts

\* fio_unsubscribe leaves the channel's list and, as the last, takes the channel out of its
\* collection, where it still is.
LEMMA TidyRemoves ==
    ASSUME OneSubscribes, Tidy, Sane', NEW t \in Caller, subscription_remove(t)
    PROVE  Tidy'
<1>0. PICK s, ch, k : s = th[t].s /\ ch = sub[s].parent /\ k = chan[ch].key
    OBVIOUS
<1>1. Sane /\ Sound /\ Typed /\ Typed' /\ Orderly /\ Counts /\ t \in Thread /\ ThreadAgrees(t) /\ TurnAgrees(t)
    BY DEF Tidy, Sane, Sound, Orderly, Thread
<1>2. /\ th[t].pc = "remove" /\ s \in Sub /\ life[s] = "cancelling" /\ Listed(s)
      /\ UNCHANGED <<sub, msg, urgent, tasks, gvl, engine, life, ended, got, due, sent, defers, attaches>>
    BY <1>0, <1>1 DEF subscription_remove, ThreadAgrees, TurnAgrees, Leaving
<1>3. ch \in Chan /\ k \in Key /\ k # NULL /\ ch # NULL /\ chan \in [Chan -> Channel] /\ chan[ch] \in Channel
  <2>1. SubAgrees(s)
    BY <1>1, <1>2 DEF Sound
  <2>2. ch \in Chan /\ k \in Key
    BY <2>1, <1>0, <1>2 DEF SubAgrees
  <2> QED
    BY <2>2, <1>1, PubSubAssumption DEF Typed
<1>4. channels[k] = ch /\ \A j \in Key \ {k} : channels[j] # ch /\ channels[j] \in Chan \cup {NULL}
  <2>1. chan[ch].subs # <<>>
    BY <1>0, <1>2 DEF Listed
  <2>2. channels[k] = ch
    BY <2>1, <1>0, <1>1, <1>3 DEF Orderly, Collected
  <2>3. \A j \in Key : channels[j] = ch => j = k
    BY <1>0, <1>1, <1>3 DEF Sound, KeyAgrees
  <2> QED
    BY <2>2, <2>3, <1>1 DEF Typed
<1>5. PICK q, r : q = chan[ch].subs /\ r = Kept(q, Sub \ {s}) /\ Keeps(r, q, Sub \ {s}, Len(q)) /\ DOMAIN q = 1 .. Len(q)
  <2>1. chan[ch].subs \in Seq(Sub)
    BY <1>3 DEF Channel
  <2> QED
    BY <2>1, KeptIs, LenProperties
<1> DEFINE v    == [chan[ch] EXCEPT !.subs = r]
           left == [chan EXCEPT ![ch] = v]
           last == r = <<>> /\ k \notin Filter
           w    == [v EXCEPT !.ref = v.ref - 1]
           gone == [th[t] EXCEPT !.pc = "destroy", !.ch = ch, !.key = k]
           stay == [th[t] EXCEPT !.pc = "finish"]
<1>6. v \in Channel /\ v.key = k /\ v.subs = r /\ v.ref = chan[ch].ref /\ v.lock = chan[ch].lock
  <2>1. r \in Seq(Sub)
    BY <1>5 DEF Keeps
  <2> QED
    BY <2>1, <1>0, <1>3, SubsPatched, ChannelFields
<1>7. w.key = k /\ w.subs = r /\ w.ref = chan[ch].ref - 1 /\ w.lock = chan[ch].lock
  <2> HIDE DEF v
  <2> QED
    BY <1>6, ChannelFields
<1>8. left[ch] = v /\ left = [chan EXCEPT ![ch] = v]
    BY <1>3
<1>9. IF last THEN channels' = [channels EXCEPT ![k] = NULL] /\ chan' = [left EXCEPT ![ch] = [left[ch] EXCEPT !.ref = left[ch].ref - 1]] /\ th' = [th EXCEPT ![t] = gone]
      ELSE channels' = channels /\ chan' = left /\ th' = [th EXCEPT ![t] = stay]
  <2>1. Emptied(left[ch]) <=> last
    <3> HIDE DEF v, left
    <3> QED
      BY <1>6, <1>8 DEF Emptied
  <2>2. left = [chan EXCEPT ![ch].subs = Kept(@, Sub \ {s})]
    BY <1>5
  <2> HIDE DEF left, last
  <2>3. CASE last
    <3>1. /\ channels' = [channels EXCEPT ![k] = NULL] /\ th' = [th EXCEPT ![t] = gone]
          /\ chan' = IF channels[k] = NULL THEN left ELSE fio_channel_free(left, channels[k])
      BY <2>1, <2>2, <2>3, <1>0 DEF subscription_remove
    <3>2. chan' = fio_channel_free(left, ch)
      BY <3>1, <1>3, <1>4
    <3> QED
      BY <2>3, <3>1, <3>2 DEF fio_channel_free
  <2>4. CASE ~last
    BY <2>1, <2>2, <2>4, <1>0 DEF subscription_remove
  <2> QED
    BY <2>3, <2>4
<1>10. channels'[k] = (IF last THEN NULL ELSE ch) /\ \A j \in Key \ {k} : channels'[j] = channels[j]
  <2> HIDE DEF last
  <2> QED
    BY <1>1, <1>3, <1>4, <1>9 DEF Typed
<1>11. /\ chan'[ch].key = k /\ chan'[ch].subs = r /\ chan'[ch].lock = chan[ch].lock
       /\ chan'[ch].ref = (IF last THEN chan[ch].ref - 1 ELSE chan[ch].ref)
       /\ \A b \in Chan \ {ch} : chan'[b] = chan[b]
  <2>1. left[ch] = v /\ \A b \in Chan \ {ch} : left[b] = chan[b]
    BY <1>3
  <2>2. left \in [Chan -> Channel]
    BY <1>3, <1>6
  <2> HIDE DEF left, last, v
  <2>3. CASE last
    <3>1. chan' = [left EXCEPT ![ch] = w]
      BY <1>9, <2>1, <2>3
    <3> HIDE DEF w
    <3> QED
      BY <1>3, <1>7, <2>1, <2>2, <2>3, <3>1
  <2>4. CASE ~last
    BY <1>6, <1>9, <2>1, <2>4
  <2> QED
    BY <2>3, <2>4
<1>12. /\ OthersStay(t) /\ th'[t].pc = (IF last THEN "destroy" ELSE "finish") /\ th'[t].s = s
       /\ last => th'[t].ch = ch /\ th'[t].key = k
  <2>1. th[t] \in Place /\ th \in [Thread -> Place]
    BY <1>1 DEF Typed
  <2>2. gone \in Place /\ gone.pc = "destroy" /\ gone.s = s /\ gone.ch = ch /\ gone.key = k
    <3>1. gone \in Place
      BY <2>1, <1>3 DEF Place, Leaving
    <3> QED
      BY <3>1, <2>1, <1>0 DEF Place
  <2>3. stay \in Place /\ stay.pc = "finish" /\ stay.s = s
    <3>1. stay \in Place
      BY <2>1 DEF Place, Leaving
    <3> QED
      BY <3>1, <2>1, <1>0 DEF Place
  <2> HIDE DEF gone, stay, last
  <2> QED
    BY <1>1, <1>9, <2>1, <2>2, <2>3 DEF OthersStay
<1> HIDE DEF v, left, w, gone, stay
<1>13. \A u \in Thread \ {t} : th'[u] = th[u] /\ th[u].pc \notin Busy
  <2> HIDE DEF last
  <2> QED
    BY <1>1, <1>2, <1>12, AloneBusy DEF OthersStay, Busy, Leaving
<1>14. OthersWait(t)
  <2> HIDE DEF last
  <2> QED
    BY <1>3, <1>11, <1>13 DEF OthersWait
<1>15. \A u \in Thread : TurnAgrees(u)'
  <2>1. TurnAgrees(t)'
    <3> HIDE DEF last
    <3> QED
      BY <1>0, <1>1, <1>2, <1>3, <1>10, <1>12 DEF TurnAgrees, Busy, Joining, Leaving
  <2> QED
    BY <2>1, <1>1, <1>14, TurnsKept
<1>16. \A x \in Sub : StageAgrees(x)'
  <2>1. StaysOn(t)
    <3> HIDE DEF last
    <3> QED
      BY <1>0, <1>2, <1>12 DEF StaysOn, Joining, Leaving
  <2>2. ASSUME NEW x \in Sub, life[x] = "live", Listed(x) PROVE Listed(x)'
    <3>1. x # s /\ sub[x].parent \in Chan
      BY <2>2, <1>1, <1>2 DEF Sound, SubAgrees
    <3>2. CASE sub[x].parent # ch
      <4> HIDE DEF last
      <4> QED
        BY <2>2, <3>1, <3>2, <1>2, <1>11 DEF Listed
    <3>3. CASE sub[x].parent = ch
      <4>1. PICK i \in DOMAIN q : q[i] = x
        BY <2>2, <3>3, <1>5 DEF Listed
      <4>2. PICK y \in DOMAIN r : r[y] = x
        BY <4>1, <3>1, <1>5 DEF Keeps
      <4> HIDE DEF last
      <4> QED
        BY <4>2, <3>3, <1>2, <1>11 DEF Listed
    <3> QED
      BY <3>2, <3>3
  <2> QED
    BY <2>1, <2>2, <1>1, <1>14, StagesKept
<1>17. ASSUME NEW b \in Chan PROVE Collected(b)'
  <2>1. CASE b = ch
    BY <2>1, <1>10, <1>11 DEF Collected
  <2>2. CASE b # ch
    <3>1. SUFFICES ASSUME chan[b].subs # <<>> PROVE channels'[chan[b].key] = b
      BY <2>2, <1>11 DEF Collected
    <3>2. channels[chan[b].key] = b /\ chan[b].key \in Key \cup {NULL}
      BY <3>1, <1>1 DEF Orderly, Collected, Typed, Channel
    <3>3. chan[b].key # NULL
      BY <3>1, Unused
    <3>4. chan[b].key \in Key \ {k}
      BY <2>2, <3>2, <3>3, <1>4
    <3> QED
      BY <3>2, <3>4, <1>10
  <2> QED
    BY <2>1, <2>2
<1>18. /\ \A j \in Key \ {k} : Serves(j)' <=> Serves(j)
       /\ Serves(k)' <=> ~last /\ r # <<>>
  <2>1. Serves(k)' <=> ~last /\ r # <<>>
    <3> HIDE DEF last
    <3> QED
      BY <1>3, <1>10, <1>11 DEF Serves
  <2>2. \A j \in Key \ {k} : Serves(j)' <=> Serves(j)
    <3> HIDE DEF last
    <3> QED
      BY <1>4, <1>10, <1>11 DEF Serves
  <2> QED
    BY <2>1, <2>2
<1>19. ASSUME NEW j \in Key PROVE Used(j)'
  <2>1. CASE j = k
    BY <2>1, <1>10, <1>18 DEF Used
  <2>2. CASE j # k
    <3>1. \A u \in Thread : th[u].pc \in {"lock", "locked"} => th'[u] = th[u]
      BY <1>2, <1>13
    <3> QED
      BY <2>2, <3>1, <1>1, <1>10, <1>18 DEF Orderly, Used
  <2> QED
    BY <2>1, <2>2
<1>20. ASSUME NEW b \in Chan PROVE ChannelCount(b)'
  <2>1. Holders(b)' = Holders(b) /\ Posting(b)' = Posting(b) /\ Among(urgent, PostsTo(b))' = Among(urgent, PostsTo(b))
    <3>1. \A u \in Worker : u \in Thread /\ (th[u].pc = "publish" \/ th'[u].pc = "publish" => th'[u] = th[u])
      BY <1>2, <1>12, <1>13 DEF Thread
    <3> HIDE DEF last
    <3>2. Posting(b)' = Posting(b)
      BY <3>1 DEF Posting
    <3>3. Holders(b)' = Holders(b)
      BY <1>2 DEF Holders
    <3> QED
      BY <3>2, <3>3, <1>2 DEF Among, PostsTo
  <2>2. InCollection(b)' <=> InCollection(b) /\ ~(b = ch /\ last)
    <3> HIDE DEF last
    <3> QED
      BY <1>3, <1>4, <1>10, PubSubAssumption DEF InCollection
  <2>3. CASE b = ch /\ last
    <3>1. InCollection(b)
      BY <2>3, <1>3, <1>4 DEF InCollection
    <3>2. Collects(b) = 1 /\ Collects(b)' = 0 /\ Posts(b)' = Posts(b)
      BY <2>1, <2>2, <2>3, <3>1 DEF Collects, Posts
    <3>3. PICK h \in Nat, n \in Nat, p \in Nat : h = Cardinality(Holders(b)) /\ n = Cardinality(Among(urgent, PostsTo(b))) /\ p = Posts(b)
      BY <1>1, FS_CardinalityType, AmongFinite DEF Counts, ChannelCount, Posts, Typed
    <3>4. chan[b].ref = 1 + h + n + p /\ IsFiniteSet(Holders(b))
      BY <3>2, <3>3, <1>1 DEF Counts, ChannelCount
    <3>5. chan'[b].ref = h + n + p
      <4>1. chan'[b].ref = chan[b].ref - 1
        BY <2>3, <1>11
      <4>2. (1 + h + n + p) - 1 = h + n + p
        OBVIOUS
      <4> QED
        BY <3>4, <4>1, <4>2
    <3> QED
      BY <2>1, <3>2, <3>3, <3>4, <3>5 DEF ChannelCount
  <2>4. CASE ~(b = ch /\ last)
    <3>1. Collects(b)' = Collects(b) /\ Posts(b)' = Posts(b)
      BY <2>1, <2>2, <2>4 DEF Collects, Posts
    <3>2. chan'[b].ref = chan[b].ref
      BY <2>4, <1>11
    <3> QED
      BY <2>1, <3>1, <3>2, <1>1 DEF Counts, ChannelCount
  <2> QED
    BY <2>3, <2>4
<1>21. \A m \in Msg : MessageCount(m)'
  <2>1. th'[t].pc \in {"destroy", "finish"}
    BY <1>12
  <2> QED
    BY <2>1, <1>1, <1>2, <1>12, MessagesKept DEF Counts, Handling
<1> QED
  BY <1>15, <1>16, <1>17, <1>19, <1>20, <1>21 DEF Tidy, Orderly, Counts

\* fio_pubsub_attach adds the engine, which was told nothing yet.
LEMMA TidyAttaches ==
    ASSUME OneSubscribes, Tidy, Sane', NEW t \in Subscriber, fio_pubsub_attach(t)
    PROVE  Tidy'
<1> DEFINE work == [NoWork EXCEPT !.pc = "reattach"]
<1>1. Sane /\ Sound /\ Typed /\ Orderly /\ t \in Thread
    BY DEF Tidy, Sane, Sound, Thread, Caller
<1>2. /\ Enter(t, work)
      /\ UNCHANGED <<channels, chan, sub, msg, urgent, tasks, life, ended, got, due, sent, defers>>
    BY DEF fio_pubsub_attach
<1>3. work \in Place /\ work.pc = "reattach"
    BY DEF NoWork, Place
<1> HIDE DEF work
<1>4. OthersStay(t) /\ th[t].pc = "idle" /\ th'[t] = work
    BY <1>1, <1>2, <1>3, Enters
<1>5. (t \in RubyCaller => gvl = NULL /\ gvl' = t) /\ th[t].pc \notin Busy
    BY <1>2, <1>4 DEF Enter, Busy, Joining, Leaving
<1>6. \A u \in Thread : th[u].pc \notin Busy
    BY <1>1, <1>5, NoneBusy
<1>7. OthersWait(t) /\ SameLists
    BY <1>2, <1>4, <1>6 DEF OthersWait, OthersStay, SameLists
<1>8. TurnAgrees(t)' /\ StaysOn(t)
    BY <1>2, <1>3, <1>4, <1>5 DEF TurnAgrees, StaysOn, Busy, Joining, Leaving
<1>9. Orderly'
    BY <1>1, <1>4, <1>7, <1>8, TurnTaken
<1>10. \A a \in Chan : ChannelCount(a)'
  <2>1. \A w \in Worker : th[w].pc = "publish" \/ th'[w].pc = "publish" => th'[w] = th[w]
    BY <1>3, <1>4 DEF OthersStay, Thread
  <2> QED
    BY <1>2, <2>1, RefsKept DEF Tidy, Counts
<1>11. \A m \in Msg : MessageCount(m)'
    BY <1>1, <1>2, <1>3, <1>4, MessagesKept DEF Tidy, Counts, Handling
<1> QED
    BY <1>9, <1>10, <1>11 DEF Tidy, Counts

\* fio_pubsub_reattach announces the names and patterns in use.
LEMMA TidyReattaches ==
    ASSUME OneSubscribes, Tidy, Sane', NEW t \in Caller, fio_pubsub_reattach(t)
    PROVE  Tidy'
<1>1. Sane /\ Sound /\ Typed /\ Orderly /\ t \in Thread /\ TurnAgrees(t)
    BY DEF Tidy, Sane, Sound, Orderly, Thread
<1>2. /\ th[t].pc = "reattach" /\ Return(t)
      /\ UNCHANGED <<channels, chan, sub, msg, urgent, tasks, life, ended, got, due, sent, defers, attaches>>
    BY DEF fio_pubsub_reattach
<1>3. OthersStay(t) /\ th'[t].pc = "idle"
    BY <1>1, <1>2, Returns DEF NoWork
<1>4. \A u \in Thread \ {t} : th'[u] = th[u] /\ th[u].pc \notin Busy
    BY <1>1, <1>2, <1>3, AloneBusy DEF OthersStay, Busy
<1>5. OthersWait(t) /\ SameLists
    BY <1>2, <1>4 DEF OthersWait, SameLists
<1>6. TurnAgrees(t)' /\ StaysOn(t)
    BY <1>2, <1>3 DEF TurnAgrees, StaysOn, Busy, Joining, Leaving
<1>7. Orderly'
    BY <1>1, <1>2, <1>5, <1>6, TurnTaken
<1>8. \A a \in Chan : ChannelCount(a)'
  <2>1. \A w \in Worker : th[w].pc = "publish" \/ th'[w].pc = "publish" => th'[w] = th[w]
    BY <1>2, <1>3, <1>4 DEF Thread
  <2> QED
    BY <1>2, <2>1, RefsKept DEF Tidy, Counts
<1>9. \A m \in Msg : MessageCount(m)'
    BY <1>1, <1>2, <1>3, MessagesKept DEF Tidy, Counts, Handling
<1> QED
    BY <1>7, <1>8, <1>9 DEF Tidy, Counts

\* fio_pubsub_detach.
LEMMA TidyDetaches ==
    ASSUME OneSubscribes, Tidy, Sane', NEW t \in Subscriber, fio_pubsub_detach(t)
    PROVE  Tidy'
<1>1. Sane /\ Sound /\ Typed /\ Orderly /\ t \in Thread
    BY DEF Tidy, Sane, Sound, Thread, Caller
<1>2. /\ th[t].pc = "idle" /\ (t \in RubyCaller => gvl = NULL)
      /\ UNCHANGED <<channels, chan, sub, msg, urgent, tasks, th, gvl, life, ended, got, due, sent, defers, attaches>>
    BY DEF fio_pubsub_detach
<1>3. \A u \in Thread : th[u].pc \notin Busy
    BY <1>1, <1>2, NoneBusy DEF Busy, Joining, Leaving
<1>4. OthersWait(t) /\ SameLists /\ OthersStay(t)
    BY <1>1, <1>2, <1>3 DEF OthersWait, SameLists, OthersStay, Typed
<1>5. TurnAgrees(t)' /\ StaysOn(t)
    BY <1>2 DEF TurnAgrees, StaysOn, Busy, Joining, Leaving
<1>6. Orderly'
    BY <1>1, <1>2, <1>4, <1>5, TurnTaken
<1>7. \A a \in Chan : ChannelCount(a)'
    BY <1>2, RefsKept DEF Tidy, Counts
<1>8. \A m \in Msg : MessageCount(m)'
    BY <1>1, <1>2, <1>4, MessagesKept DEF Tidy, Counts, Handling
<1> QED
    BY <1>6, <1>7, <1>8 DEF Tidy, Counts

\* The counts of channels a step adds n references to, with as many posts.
LEMMA ChannelPosted ==
    ASSUME Tidy, Typed', NEW a \in Chan, channels' = channels, sub' = sub,
           \A w \in Worker : th[w].pc = "publish" \/ th'[w].pc = "publish" => th'[w] = th[w],
           NEW n \in Nat, chan'[a].ref = chan[a].ref + n,
           Cardinality(Among(urgent', PostsTo(a))) = Cardinality(Among(urgent, PostsTo(a))) + n
    PROVE  ChannelCount(a)'
<1>1. Typed /\ ChannelCount(a)
    BY DEF Tidy, Sane, Sound, Counts
<1>2. Holders(a)' = Holders(a) /\ Posting(a)' = Posting(a) /\ (InCollection(a)' <=> InCollection(a))
    BY DEF Holders, Posting, InCollection
<1>3. PICK i \in Nat, p \in Nat : i = Collects(a) /\ i = Collects(a)' /\ p = Posts(a) /\ p = Posts(a)'
    BY <1>2 DEF Collects, Posts
<1>4. PICK h \in Nat : h = Cardinality(Holders(a)) /\ h = Cardinality(Holders(a)')
    BY <1>1, <1>2, FS_CardinalityType DEF ChannelCount
<1>5. PICK x \in Nat : x = Cardinality(Among(urgent, PostsTo(a)))
    BY <1>1, AmongFinite DEF Typed
<1>6. chan[a].ref = i + h + x + p
    BY <1>1, <1>3, <1>4, <1>5 DEF ChannelCount
<1>7. chan'[a].ref = i + h + (x + n) + p
    BY <1>6
<1>8. Cardinality(Among(urgent, PostsTo(a)))' = x + n
    BY <1>5 DEF PostsTo
<1> QED
    BY <1>1, <1>2, <1>3, <1>4, <1>7, <1>8 DEF ChannelCount

\* A message nobody published is nowhere.
LEMMA Unsent ==
    ASSUME Tidy, NEW m \in Msg, m \notin sent
    PROVE  /\ ~Sending(m) /\ Bearers(m) = {} /\ msg[m] = 0
           /\ Cardinality(Among(urgent, PostsOf(m))) = 0 /\ Cardinality(Among(tasks, CallsOf(m))) = 0
<1>1. Sound /\ Typed /\ MessageCount(m)
    BY DEF Tidy, Sane, Sound, Counts
<1>2. \A a \in Chan : ~Posted(a, m)
    BY <1>1 DEF Sound, PostAgrees
<1>3. \A s \in Sub : ~Waits(s, m) /\ \A u \in Thread : ~Handles(u, s, m)
    BY <1>1 DEF Sound, CallAgrees, Untouched
<1>4. ~Sending(m)
    BY <1>1 DEF Sending, Sound, ThreadAgrees, Thread
<1>5. Bearers(m) = {}
  <2>1. SUFFICES ASSUME NEW w \in Worker, th[w].pc \in {"publish"} \cup Handling, th[w].m = m PROVE FALSE
    BY DEF Bearers
  <2>2. w \in Thread /\ ThreadAgrees(w)
    BY <1>1 DEF Sound, Thread
  <2>3. CASE th[w].pc = "publish"
    BY <2>1, <2>2, <2>3, <1>2 DEF ThreadAgrees, Posted, Publishes
  <2>4. CASE th[w].pc \in Handling
    BY <2>1, <2>2, <2>4, <1>3 DEF ThreadAgrees, Handles
  <2> QED
    BY <2>1, <2>3, <2>4
<1>6. Cardinality(Among(urgent, PostsOf(m))) = 0
  <2>1. ASSUME NEW i \in DOMAIN urgent PROVE urgent[i] \notin PostsOf(m)
    <3>1. urgent[i] \in Post
      BY <1>1 DEF Typed
    <3>2. SUFFICES ASSUME urgent[i].m = m PROVE FALSE
      BY DEF PostsOf
    <3>3. PICK a \in Chan : urgent[i] = [ch |-> a, m |-> m]
      BY <3>1, <3>2 DEF Post
    <3> QED
      BY <3>3, <1>1, <1>2 DEF Posted, Queued, Contains, Typed
  <2> QED
    BY <2>1, AmongNone
<1>7. Cardinality(Among(tasks, CallsOf(m))) = 0
  <2>1. ASSUME NEW i \in DOMAIN tasks PROVE tasks[i] \notin CallsOf(m)
    <3>1. tasks[i] \in Call
      BY <1>1 DEF Typed
    <3>2. SUFFICES ASSUME tasks[i].m = m PROVE FALSE
      BY DEF CallsOf
    <3>3. PICK s \in Sub : tasks[i] = [s |-> s, m |-> m]
      BY <3>1, <3>2 DEF Call
    <3> QED
      BY <3>3, <1>1, <1>3 DEF Waits, Contains, Typed
  <2> QED
    BY <2>1, AmongNone
<1>8. msg[m] = 0
    BY <1>1, <1>4, <1>5, <1>6, <1>7, FS_EmptySet DEF MessageCount, Sends
<1> QED
    BY <1>4, <1>5, <1>6, <1>7, <1>8

\* fio_publish posts the message to the channel of its name or filter.
LEMMA TidyPublishes ==
    ASSUME Tidy, Sane', NEW t \in Publisher, NEW m \in Msg, NEW k \in Name \cup Filter, fio_publish(t, m, k)
    PROVE  Tidy'
<1> DEFINE work == [NoWork EXCEPT !.pc = "patterns", !.m = m, !.key = k]
<1>0. PICK ch, keeps : ch = channels[k] /\ keeps = IF k \in Filter THEN 0 ELSE 1
    OBVIOUS
<1>1. Sane /\ Sound /\ Typed /\ Typed' /\ Orderly /\ Counts /\ t \in Thread /\ t \in Caller /\ k \in Key
    BY DEF Tidy, Sane, Sound, Thread, Caller, Key
<1>2. /\ m \notin sent /\ th[t].pc = "idle"
      /\ UNCHANGED <<channels, sub, tasks, engine, life, ended, got, defers, attaches>>
    BY DEF fio_publish, Enter
<1>3. \/ ch = NULL /\ msg' = [msg EXCEPT ![m] = keeps] /\ chan' = chan /\ urgent' = urgent
      \/ /\ ch # NULL /\ msg' = [msg EXCEPT ![m] = keeps + 1]
         /\ chan' = fio_channel_dup(chan, ch) /\ urgent' = Append(urgent, [ch |-> ch, m |-> m])
    BY <1>0 DEF fio_publish
<1>4. /\ OthersStay(t) /\ (gvl' = gvl \/ gvl \in {NULL, t})
      /\ IF k \in Filter THEN th'[t].pc = "idle" ELSE th'[t].pc = "patterns" /\ th'[t].m = m
  <2>1. CASE k \in Filter
    BY <2>1, <1>1, <1>2 DEF fio_publish, Typed, OthersStay
  <2>2. CASE k \notin Filter
    <3>1. work \in Place /\ work.pc = "patterns" /\ work.m = m
      BY <1>1 DEF NoWork, Place
    <3>2. Enter(t, work)
      BY <2>2 DEF fio_publish
    <3> HIDE DEF work
    <3>3. OthersStay(t) /\ th'[t] = work
      BY <3>1, <3>2, <1>1, Enters
    <3> QED
      BY <2>2, <3>1, <3>2, <3>3 DEF Enter
  <2> QED
    BY <2>1, <2>2
<1> HIDE DEF work
<1>5. ch \in Chan \cup {NULL} /\ chan \in [Chan -> Channel] /\ NULL \notin Chan
    BY <1>0, <1>1, PubSubAssumption DEF Typed
<1>6. \A a \in Chan : /\ chan'[a].key = chan[a].key /\ chan'[a].subs = chan[a].subs /\ chan'[a].lock = chan[a].lock
                      /\ chan'[a].ref = chan[a].ref + (IF a = ch THEN 1 ELSE 0)
  <2>0. \A a \in Chan : chan[a].ref \in Int
    BY <1>5 DEF Channel
  <2>1. CASE ch = NULL
    BY <2>0, <2>1, <1>3, <1>5
  <2>2. CASE ch # NULL
    <3> DEFINE w == [chan[ch] EXCEPT !.ref = chan[ch].ref + 1]
    <3>1. w.lock = chan[ch].lock /\ w.ref = chan[ch].ref + 1 /\ w.key = chan[ch].key /\ w.subs = chan[ch].subs
      <4>1. chan[ch] \in Channel
        BY <2>2, <1>5
      <4> QED
        BY <4>1, ChannelFields
    <3>2. chan' = [chan EXCEPT ![ch] = w]
      BY <1>3, <2>2 DEF fio_channel_dup
    <3> HIDE DEF w
    <3> QED
      BY <2>0, <2>2, <3>1, <3>2, <1>5
  <2> QED
    BY <2>1, <2>2
<1>7. SameLists
    BY <1>2, <1>6 DEF SameLists
<1>8. Orderly'
  <2>1. th[t].pc \notin Busy /\ th'[t].pc \notin Busy /\ th'[t].pc # "publish"
    BY <1>2, <1>4 DEF Busy, Joining, Leaving
  <2> QED
    BY <2>1, <1>1, <1>2, <1>4, <1>6, <1>7, OrderKept
<1>9. ASSUME NEW S
      PROVE  Cardinality(Among(urgent', S)) = Cardinality(Among(urgent, S)) + (IF ch # NULL THEN Has(S, [ch |-> ch, m |-> m]) ELSE 0)
  <2>1. urgent \in Seq(Post) /\ Cardinality(Among(urgent, S)) \in Nat
    BY <1>1, AmongFinite DEF Typed
  <2>2. CASE ch = NULL
    BY <2>1, <2>2, <1>3
  <2>3. CASE ch # NULL
    <3>1. [ch |-> ch, m |-> m] \in Post
      BY <2>3, <1>5 DEF Post
    <3> QED
      BY <2>1, <2>3, <3>1, <1>3, AmongAppend
  <2> QED
    BY <2>2, <2>3
<1>10. ASSUME NEW a \in Chan PROVE ChannelCount(a)'
  <2>1. \A w \in Worker : th[w].pc = "publish" \/ th'[w].pc = "publish" => th'[w] = th[w]
    BY <1>2, <1>4 DEF OthersStay, Thread
  <2>2. PICK n \in Nat : n = IF a = ch THEN 1 ELSE 0
    OBVIOUS
  <2>3. ch # NULL => Has(PostsTo(a), [ch |-> ch, m |-> m]) = n
    BY <1>5, <2>2 DEF Has, PostsTo, Post
  <2>4. a = ch => ch # NULL
    BY <1>5
  <2>5. Cardinality(Among(urgent', PostsTo(a))) = Cardinality(Among(urgent, PostsTo(a))) + n
    BY <1>9, <2>2, <2>3, <2>4
  <2> QED
    BY <2>1, <2>2, <2>5, <1>1, <1>2, <1>6, ChannelPosted
<1>11. ASSUME NEW x \in Msg PROVE MessageCount(x)'
  <2>1. Bearers(x)' = Bearers(x)
    <3>1. \A w \in Worker : w \in Thread /\ (th'[w] = th[w] \/ (w = t /\ th'[w].pc \in {"idle", "patterns"}))
      BY <1>4 DEF OthersStay, Thread
    <3> QED
      BY <3>1, <1>2 DEF Bearers, Handling
  <2>2. CASE x # m
    <3>1. Sending(x)' <=> Sending(x)
      BY <2>2, <1>2, <1>4 DEF Sending, OthersStay, Thread
    <3>2. PICK n \in Nat : n = Cardinality(Among(urgent, PostsOf(x))) /\ n = Cardinality(Among(urgent, PostsOf(x)))'
      <4>1. ch # NULL => Has(PostsOf(x), [ch |-> ch, m |-> m]) = 0
        BY <2>2 DEF Has, PostsOf
      <4>2. Cardinality(Among(urgent, PostsOf(x))) \in Nat
        BY <1>1, AmongFinite DEF Typed
      <4>3. Cardinality(Among(urgent', PostsOf(x))) = Cardinality(Among(urgent, PostsOf(x)))
        BY <1>9, <4>1, <4>2
      <4> QED
        BY <4>2, <4>3 DEF PostsOf
    <3>3. msg'[x] = msg[x]
      BY <2>2, <1>1, <1>3 DEF Typed
    <3>4. Among(tasks, CallsOf(x))' = Among(tasks, CallsOf(x))
      BY <1>2 DEF Among, CallsOf
    <3> QED
      BY <2>1, <3>1, <3>2, <3>3, <3>4, <1>1 DEF Counts, MessageCount, Sends
  <2>3. CASE x = m
    <3>1. /\ ~Sending(m) /\ Bearers(m) = {} /\ msg[m] = 0
          /\ Cardinality(Among(urgent, PostsOf(m))) = 0 /\ Cardinality(Among(tasks, CallsOf(m))) = 0
      BY <1>2, Unsent
    <3>2. Sends(m)' = keeps
      <4>1. Sending(m)' <=> k \notin Filter
        BY <3>1, <1>1, <1>4 DEF Sending, OthersStay, Thread
      <4> QED
        BY <4>1, <1>0 DEF Sends
    <3>3. ch # NULL => Has(PostsOf(m), [ch |-> ch, m |-> m]) = 1
      BY <1>5 DEF Has, PostsOf, Post
    <3>4. Cardinality(Among(urgent, PostsOf(m)))' = IF ch # NULL THEN 1 ELSE 0
      <4>1. Cardinality(Among(urgent', PostsOf(m))) = IF ch # NULL THEN 1 ELSE 0
        BY <1>9, <3>1, <3>3
      <4> QED
        BY <4>1 DEF PostsOf
    <3>5. Cardinality(Among(tasks, CallsOf(m)))' = 0
      <4>1. Among(tasks, CallsOf(m))' = Among(tasks, CallsOf(m))
        BY <1>2 DEF Among, CallsOf
      <4> QED
        BY <3>1, <4>1
    <3>6. IsFiniteSet(Bearers(m)') /\ Cardinality(Bearers(m)') = 0
      BY <2>1, <2>3, <3>1, FS_EmptySet
    <3>7. msg'[m] = keeps + (IF ch # NULL THEN 1 ELSE 0)
      BY <1>0, <1>1, <1>3 DEF Typed
    <3>8. keeps \in Nat
      BY <1>0
    <3> QED
      BY <2>3, <3>2, <3>4, <3>5, <3>6, <3>7, <3>8 DEF MessageCount
  <2> QED
    BY <2>2, <2>3
<1> QED
    BY <1>8, <1>10, <1>11 DEF Tidy, Counts

\* A queue without duplicates in which at most y is a member of S.
LEMMA AmongOnce ==
    ASSUME NEW V, NEW q \in Seq(V), IsInjective(q), NEW S, NEW y, \A i \in DOMAIN q : q[i] \in S => q[i] = y
    PROVE  Cardinality(Among(q, S)) = IF y \in S /\ Contains(q, y) THEN 1 ELSE 0
<1>1. DOMAIN q = 1 .. Len(q)
    BY LenProperties
<1>2. CASE y \in S /\ Contains(q, y)
  <2>1. PICK i \in DOMAIN q : q[i] = y
    BY <1>1, <1>2 DEF Contains
  <2>2. Among(q, S) = {i}
    BY <1>2, <2>1 DEF Among, IsInjective
  <2> QED
    BY <1>2, <2>2, FS_Singleton
<1>3. CASE ~(y \in S /\ Contains(q, y))
  <2>1. \A i \in DOMAIN q : q[i] \notin S
    BY <1>1, <1>3 DEF Contains
  <2> QED
    BY <2>1, <1>3, AmongNone
<1> QED
    BY <1>2, <1>3

\* One post for every pattern that matches, as a channel serves one pattern.
LEMMA HitsCounted ==
    ASSUME Sound, NEW t \in Thread
    PROVE  /\ Cardinality(HitPosts(t)) = Cardinality(Hit(t)) /\ Cardinality(Hit(t)) \in Nat
           /\ Len(SetToSeq(HitPosts(t))) = Cardinality(Hit(t))
<1> DEFINE f == [p \in Hit(t) |-> [ch |-> channels[p], m |-> th[t].m]]
<1>1. IsFiniteSet(Hit(t)) /\ Cardinality(Hit(t)) \in Nat
  <2>1. Hit(t) \subseteq Pattern
    BY DEF Hit
  <2> QED
    BY <2>1, PubSubAssumption, FS_Subset, FS_CardinalityType
<1>2. f \in Surjection(Hit(t), HitPosts(t))
    BY DEF Surjection, HitPosts
<1>3. f \in Injection(Hit(t), HitPosts(t))
  <2>1. ASSUME NEW p \in Hit(t), NEW r \in Hit(t), f[p] = f[r] PROVE p = r
    <3>1. channels[p] = channels[r] /\ channels[p] # NULL /\ p \in Key /\ r \in Key
      BY <2>1 DEF Hit, Key
    <3>2. KeyAgrees(p) /\ KeyAgrees(r)
      BY <3>1 DEF Sound
    <3> QED
      BY <3>1, <3>2 DEF KeyAgrees
  <2>2. f \in [Hit(t) -> HitPosts(t)]
    BY DEF HitPosts
  <2> HIDE DEF f
  <2> QED
    BY <2>1, <2>2 DEF Injection, IsInjective
<1> HIDE DEF f
<1>4. Cardinality(HitPosts(t)) = Cardinality(Hit(t)) /\ IsFiniteSet(HitPosts(t))
    BY <1>1, <1>2, <1>3, FS_Surjection
<1>5. PICK n \in Nat, S \in {HitPosts(t)} : n = Cardinality(Hit(t)) /\ S = HitPosts(t)
    BY <1>1
<1>6. Len(SetToSeq(S)) = n
  <2>1. \E g \in [1 .. n -> S] : IsInjective(g)
    <3>1. PICK g : g \in Bijection(1 .. n, S)
      BY <1>4, <1>5, FS_CardinalityType DEF ExistsBijection
    <3> QED
      BY <3>1 DEF Bijection, Injection
  <2>2. PICK q : q = SetToSeq(S)
    OBVIOUS
  <2>3. q \in [1 .. n -> S]
    BY <1>4, <1>5, <2>1, <2>2 DEF SetToSeq
  <2> QED
    BY <2>2, <2>3
<1> QED
    BY <1>4, <1>5, <1>6

\* fio_publish2process posts the message to the channels of the patterns and lets it go.
LEMMA TidyPatterns ==
    ASSUME Tidy, Sane', NEW t \in Caller, publish_patterns(t)
    PROVE  Tidy'
<1>0. PICK m, q, n : m = th[t].m /\ q = SetToSeq(HitPosts(t)) /\ n = Cardinality(Hit(t)) /\ n \in Nat
  <2>1. Cardinality(Hit(t)) \in Nat
    BY HitFinite
  <2> QED
    BY <2>1
<1>1. Sane /\ Sound /\ Typed /\ Typed' /\ Orderly /\ Counts /\ t \in Thread /\ ThreadAgrees(t)
    BY DEF Tidy, Sane, Sound, Thread
<1>2. /\ th[t].pc = "patterns" /\ Return(t) /\ urgent' = urgent \o q
      /\ UNCHANGED <<channels, sub, tasks, engine, life, ended, got, due, sent, defers, attaches>>
    BY <1>0 DEF publish_patterns, HitPosts, Hit
<1>3. m \in Msg
    BY <1>0, <1>1, <1>2 DEF ThreadAgrees, Typed
<1>4. OthersStay(t) /\ th'[t].pc = "idle" /\ (gvl' = gvl \/ gvl \in {NULL, t})
  <2>1. OthersStay(t) /\ th'[t] = NoWork
    BY <1>1, <1>2, Returns
  <2>2. gvl' = gvl \/ gvl \in {NULL, t}
    BY <1>2 DEF Return
  <2> QED
    BY <2>1, <2>2 DEF NoWork
<1>5. \A p \in Hit(t) : channels[p] \in Chan
    BY <1>1 DEF Hit, Typed, Key
<1>6. q \in Seq(Post) /\ IsInjective(q) /\ (\A x : Contains(q, x) <=> x \in HitPosts(t)) /\ Len(q) = n
      /\ \A i \in DOMAIN q : q[i] \in Post /\ q[i].m = m
  <2>1. q \in Seq(HitPosts(t)) /\ IsInjective(q) /\ (\A x : Contains(q, x) <=> x \in HitPosts(t))
    BY <1>0, HitFinite, SetToSeqIs
  <2>2. HitPosts(t) \subseteq Post
    BY <1>0, <1>3, <1>5 DEF HitPosts, Post
  <2>3. Len(q) = n
    BY <1>0, <1>1, HitsCounted
  <2>4. \A y \in HitPosts(t) : y.m = m
    BY <1>0 DEF HitPosts
  <2> QED
    BY <2>1, <2>2, <2>3, <2>4
<1>7. \A a \in Chan : /\ chan'[a].key = chan[a].key /\ chan'[a].subs = chan[a].subs /\ chan'[a].lock = chan[a].lock
                      /\ chan'[a].ref = chan[a].ref + (IF \E p \in Hit(t) : channels[p] = a THEN 1 ELSE 0)
  <2> SUFFICES ASSUME NEW a \in Chan
               PROVE  /\ chan'[a].key = chan[a].key /\ chan'[a].subs = chan[a].subs /\ chan'[a].lock = chan[a].lock
                      /\ chan'[a].ref = chan[a].ref + (IF \E p \in Hit(t) : channels[p] = a THEN 1 ELSE 0)
    OBVIOUS
  <2>1. chan'[a] = IF \E p \in Hit(t) : channels[p] = a THEN [chan[a] EXCEPT !.ref = chan[a].ref + 1] ELSE chan[a]
    BY DEF publish_patterns, Hit
  <2>2. chan[a] \in Channel /\ chan[a].ref \in Int
    BY <1>1 DEF Typed, Channel
  <2>3. CASE \E p \in Hit(t) : channels[p] = a
    <3> DEFINE w == [chan[a] EXCEPT !.ref = chan[a].ref + 1]
    <3>1. w.lock = chan[a].lock /\ w.ref = chan[a].ref + 1 /\ w.key = chan[a].key /\ w.subs = chan[a].subs
      BY <2>2, ChannelFields
    <3>2. chan'[a] = w
      BY <2>1, <2>3
    <3> HIDE DEF w
    <3> QED
      BY <2>3, <3>1, <3>2
  <2>4. CASE ~\E p \in Hit(t) : channels[p] = a
    BY <2>1, <2>2, <2>4
  <2> QED
    BY <2>3, <2>4
<1>8. SameLists
    BY <1>2, <1>7 DEF SameLists
<1>9. Orderly'
  <2>1. th[t].pc \notin Busy /\ th'[t].pc \notin Busy /\ th'[t].pc # "publish"
    BY <1>2, <1>4 DEF Busy, Joining, Leaving
  <2> QED
    BY <2>1, <1>1, <1>2, <1>4, <1>7, <1>8, OrderKept
<1>10. \A S : Cardinality(Among(urgent', S)) = Cardinality(Among(urgent, S)) + Cardinality(Among(q, S))
    BY <1>1, <1>2, <1>6, AmongConcat DEF Typed
<1>11. ASSUME NEW a \in Chan PROVE ChannelCount(a)'
  <2>1. \A w \in Worker : th[w].pc = "publish" \/ th'[w].pc = "publish" => th'[w] = th[w]
    BY <1>2, <1>4 DEF OthersStay, Thread
  <2>2. PICK x \in Nat : x = IF \E p \in Hit(t) : channels[p] = a THEN 1 ELSE 0
    OBVIOUS
  <2>3. PICK y : y = [ch |-> a, m |-> m]
    OBVIOUS
  <2>4. Cardinality(Among(q, PostsTo(a))) = IF y \in PostsTo(a) /\ Contains(q, y) THEN 1 ELSE 0
    <3>1. \A i \in DOMAIN q : q[i] \in PostsTo(a) => q[i] = y
      BY <1>6, <2>3 DEF PostsTo, Post
    <3> QED
      BY <3>1, <1>6, AmongOnce
  <2>5. y \in PostsTo(a)
    BY <2>3, <1>3 DEF PostsTo, Post
  <2>6. Contains(q, y) <=> \E p \in Hit(t) : channels[p] = a
    <3>1. y \in HitPosts(t) <=> \E p \in Hit(t) : channels[p] = a
      BY <1>0, <2>3 DEF HitPosts
    <3> QED
      BY <3>1, <1>6
  <2>7. Cardinality(Among(q, PostsTo(a))) = x
    BY <2>2, <2>4, <2>5, <2>6
  <2>8. Cardinality(Among(urgent', PostsTo(a))) = Cardinality(Among(urgent, PostsTo(a))) + x
    BY <1>10, <2>7
  <2>9. chan'[a].ref = chan[a].ref + x
    BY <1>7, <2>2
  <2> QED
    BY <2>1, <2>8, <2>9, <1>1, <1>2, ChannelPosted
<1>12. ASSUME NEW x \in Msg PROVE MessageCount(x)'
  <2>1. Bearers(x)' = Bearers(x)
    <3>1. \A w \in Worker : w \in Thread /\ (th'[w] = th[w] \/ (w = t /\ th'[w].pc = "idle"))
      BY <1>4 DEF OthersStay, Thread
    <3> QED
      BY <3>1, <1>2 DEF Bearers, Handling
  <2>2. PICK b \in Nat, c \in Nat, u \in Nat :
          /\ b = Cardinality(Bearers(x)) /\ b = Cardinality(Bearers(x)')
          /\ c = Cardinality(Among(tasks, CallsOf(x))) /\ c = Cardinality(Among(tasks, CallsOf(x)))'
          /\ u = Cardinality(Among(urgent, PostsOf(x)))
    <3>1. Cardinality(Bearers(x)) \in Nat /\ Cardinality(Among(tasks, CallsOf(x))) \in Nat /\ Cardinality(Among(urgent, PostsOf(x))) \in Nat
      BY <1>1, FS_CardinalityType, AmongFinite DEF Counts, MessageCount, Typed
    <3>2. Among(tasks, CallsOf(x))' = Among(tasks, CallsOf(x))
      BY <1>2 DEF Among, CallsOf
    <3> QED
      BY <3>1, <3>2, <2>1
  <2>3. msg[x] = Sends(x) + u + c + b /\ IsFiniteSet(Bearers(x))
    BY <1>1, <2>2 DEF Counts, MessageCount
  <2>4. CASE x # m
    <3>1. Sends(x)' = Sends(x)
      <4>1. Sending(x)' <=> Sending(x)
        BY <2>4, <1>0, <1>2, <1>4 DEF Sending, OthersStay, Thread
      <4> QED
        BY <4>1 DEF Sends
    <3>2. Cardinality(Among(urgent, PostsOf(x)))' = u
      <4>1. \A i \in DOMAIN q : q[i] \notin PostsOf(x)
        BY <2>4, <1>6 DEF PostsOf
      <4>2. Cardinality(Among(urgent', PostsOf(x))) = u
        BY <4>1, <1>10, <2>2, AmongNone
      <4> QED
        BY <4>2 DEF PostsOf
    <3>3. msg'[x] = msg[x]
      BY <2>4, <1>0, <1>1 DEF Typed, publish_patterns
    <3> QED
      BY <2>1, <2>2, <2>3, <3>1, <3>2, <3>3 DEF MessageCount
  <2>5. CASE x = m
    <3>1. Sends(m) = 1 /\ Sends(m)' = 0
      <4>1. Sending(m)
        BY <1>0, <1>2 DEF Sending
      <4>2. ~Sending(m)'
        BY <1>0, <1>1, <1>2, <1>4 DEF Sending, OthersStay, Thread, Sound, ThreadsApart
      <4> QED
        BY <4>1, <4>2 DEF Sends
    <3>2. Cardinality(Among(urgent, PostsOf(m)))' = u + n
      <4>1. \A i \in DOMAIN q : q[i] \in PostsOf(m)
        BY <1>6 DEF PostsOf
      <4>2. Cardinality(Among(q, PostsOf(m))) = n
        BY <4>1, <1>6, AmongAll
      <4>3. Cardinality(Among(urgent', PostsOf(m))) = u + n
        BY <4>2, <1>10, <2>2, <2>5
      <4> QED
        BY <4>3 DEF PostsOf
    <3>3. msg'[m] = msg[m] + n - 1
      BY <1>0, <1>1, <1>3 DEF Typed, publish_patterns, Hit
    <3>4. msg[m] = 1 + u + c + b
      BY <2>3, <2>5, <3>1
    <3>5. msg'[m] = 0 + (u + n) + c + b
      BY <1>0, <3>3, <3>4
    <3> QED
      BY <2>1, <2>2, <2>3, <2>5, <3>1, <3>2, <3>5 DEF MessageCount
  <2> QED
    BY <2>4, <2>5
<1> QED
    BY <1>9, <1>11, <1>12 DEF Tidy, Counts

-----------------------------------------------------------------------------
(* The two tasks.                                                          *)

\* What a worker's step does to message m: b bearers, u posts and c calls more.
MessageShift(m, w, b, u, c) ==
    /\ Has(Bearers(m)', w) = Has(Bearers(m), w) + b
    /\ Cardinality(Among(urgent', PostsOf(m))) = Cardinality(Among(urgent, PostsOf(m))) + u
    /\ Cardinality(Among(tasks', CallsOf(m))) = Cardinality(Among(tasks, CallsOf(m))) + c
    /\ msg'[m] = msg[m] + b + u + c

LEMMA MessageShifted ==
    ASSUME Tidy, Typed', NEW m \in Msg, NEW w \in Worker, OthersStay(w), th[w].pc # "patterns", th'[w].pc # "patterns",
           NEW b \in Int, NEW u \in Int, NEW c \in Int, MessageShift(m, w, b, u, c)
    PROVE  MessageCount(m)'
<1>1. Typed /\ MessageCount(m) /\ w \in Thread
    BY DEF Tidy, Sane, Sound, Counts, Thread
<1>2. Sends(m)' = Sends(m) /\ Sends(m) \in Nat
  <2>1. \A x \in Caller : th[x].pc = "patterns" \/ th'[x].pc = "patterns" => th'[x] = th[x]
    BY DEF OthersStay, Thread
  <2>2. Sending(m)' <=> Sending(m)
    BY <2>1 DEF Sending
  <2> QED
    BY <2>2 DEF Sends
<1>3. Nearly(Bearers(m), Bearers(m)', w)
    BY DEF Nearly, Bearers, OthersStay, Thread
<1>4. PICK h \in Nat, h1 \in Nat : h = Has(Bearers(m), w) /\ h1 = Has(Bearers(m)', w)
    BY DEF Has
<1>5. PICK p \in Nat, p1 \in Nat, q \in Nat, q1 \in Nat :
        /\ p = Cardinality(Among(urgent, PostsOf(m))) /\ p1 = Cardinality(Among(urgent', PostsOf(m)))
        /\ q = Cardinality(Among(tasks, CallsOf(m))) /\ q1 = Cardinality(Among(tasks', CallsOf(m)))
    BY <1>1, AmongFinite DEF Typed
<1>6. PICK x \in Int, x1 \in Int : x = msg[m] /\ x1 = msg'[m]
    BY <1>1 DEF Typed
<1>7. h1 = h + b /\ p1 = p + u /\ q1 = q + c /\ x1 = x + b + u + c
    BY <1>4, <1>5, <1>6 DEF MessageShift
<1>8. x1 - x = (h1 - h) + (p1 - p) + (q1 - q)
    BY <1>7
<1>9. MessageMoves(m, w)
    BY <1>2, <1>4, <1>5, <1>6, <1>8 DEF MessageMoves
<1> QED
    BY <1>1, <1>3, <1>9, MessageCounted

\* fio_publish2channel_task waits for the channel's lock, or takes it.
LEMMA TidyTakesPost ==
    ASSUME Tidy, Sane', NEW w \in Worker, fio_publish2channel_task(w)
    PROVE  Tidy'
<1>0. PICK task : task = Head(urgent)
    OBVIOUS
<1>1. Sane /\ Sound /\ Typed /\ Typed' /\ Orderly /\ Counts /\ w \in Thread
    BY DEF Tidy, Sane, Sound, Thread
<1>2. /\ th[w].pc = "idle" /\ urgent # <<>>
      /\ UNCHANGED <<channels, sub, msg, tasks, gvl, engine, life, ended, got, due, sent, defers, attaches>>
    BY DEF fio_publish2channel_task
<1>3. /\ task \in Post /\ task.ch \in Chan /\ task.m \in Msg
      /\ \A S : Cardinality(Among(urgent, S)) = Has(S, task) + Cardinality(Among(Tail(urgent), S))
      /\ Tail(urgent) \in Seq(Post)
  <2>1. urgent \in Seq(Post) /\ urgent # <<>>
    BY <1>1, <1>2 DEF Typed
  <2>2. ASSUME NEW S
        PROVE  Cardinality(Among(urgent, S)) = Has(S, task) + Cardinality(Among(Tail(urgent), S))
    BY <2>1, <1>0, AmongTail
  <2>3. task \in Post /\ Tail(urgent) \in Seq(Post)
    BY <2>1, <1>0, AmongTail
  <2>4. task.ch \in Chan /\ task.m \in Msg
    BY <2>3 DEF Post
  <2> QED
    BY <2>2, <2>3, <2>4
<1>4. CASE chan[task.ch].lock # NULL
  <2>1. urgent' = Append(Tail(urgent), task) /\ UNCHANGED <<chan, th>>
    BY <1>0, <1>4 DEF fio_publish2channel_task
  <2>2. SameLists /\ OthersStay(w)
    BY <1>1, <1>2, <2>1 DEF SameLists, OthersStay, Typed
  <2>3. Orderly'
    BY <1>1, <1>2, <2>1, <2>2, OrderKept DEF Busy, Joining, Leaving
  <2>4. \A S : Cardinality(Among(urgent', S)) = Cardinality(Among(urgent, S))
    BY <1>0, <1>1, <1>2, <2>1, AmongRotated DEF Typed
  <2>5. ASSUME NEW a \in Chan PROVE ChannelCount(a)'
    <3>1. PICK n \in Nat : n = 0
      OBVIOUS
    <3>2. Cardinality(Among(urgent', PostsTo(a))) = Cardinality(Among(urgent, PostsTo(a))) + n
      BY <1>1, <2>4, <3>1, AmongFinite DEF Typed
    <3>3. chan'[a].ref = chan[a].ref + n
      BY <1>1, <2>1, <3>1 DEF Typed, Channel
    <3> QED
      BY <3>2, <3>3, <1>1, <1>2, <2>1, ChannelPosted
  <2>6. ASSUME NEW m \in Msg PROVE MessageCount(m)'
    <3>1. Sending(m)' <=> Sending(m)
      BY <2>1 DEF Sending
    <3>2. Bearers(m)' = Bearers(m)
      BY <2>1 DEF Bearers
    <3>3. Cardinality(Among(urgent, PostsOf(m)))' = Cardinality(Among(urgent, PostsOf(m)))
      BY <2>4 DEF PostsOf
    <3>4. Cardinality(Among(tasks, CallsOf(m)))' = Cardinality(Among(tasks, CallsOf(m)))
      BY <1>2 DEF CallsOf
    <3> QED
      BY <3>1, <3>2, <3>3, <3>4, <1>1, <1>2 DEF Counts, MessageCount, Sends
  <2> QED
    BY <2>3, <2>5, <2>6 DEF Tidy, Counts
<1>5. CASE chan[task.ch].lock = NULL
  <2> DEFINE work == [NoWork EXCEPT !.pc = "publish", !.ch = task.ch, !.m = task.m]
             v    == [chan[task.ch] EXCEPT !.lock = w]
  <2>1. urgent' = Tail(urgent) /\ chan' = [chan EXCEPT ![task.ch] = v] /\ th' = [th EXCEPT ![w] = work]
    BY <1>0, <1>5 DEF fio_publish2channel_task
  <2>2. work \in Place /\ work.pc = "publish" /\ work.ch = task.ch /\ work.m = task.m
    BY <1>3 DEF NoWork, Place
  <2> HIDE DEF work
  <2>3. OthersStay(w) /\ th'[w] = work
    BY <1>1, <2>1, <2>2 DEF OthersStay, Typed
  <2>4. chan \in [Chan -> Channel] /\ chan[task.ch] \in Channel
    BY <1>1, <1>3 DEF Typed
  <2>5. v.lock = w /\ v.key = chan[task.ch].key /\ v.subs = chan[task.ch].subs /\ v.ref = chan[task.ch].ref
    BY <2>4, ChannelFields
  <2> HIDE DEF v
  <2>6. /\ chan'[task.ch].lock = w
        /\ \A a \in Chan : /\ chan'[a].key = chan[a].key /\ chan'[a].subs = chan[a].subs /\ chan'[a].ref = chan[a].ref
                           /\ chan'[a].lock = chan[a].lock \/ chan[a].lock = NULL
    BY <1>3, <1>5, <2>1, <2>4, <2>5
  <2>7. SameLists
    BY <1>2, <2>6 DEF SameLists
  <2>8. Orderly'
    <3>1. th[w].pc \notin Busy /\ th'[w].pc \notin Busy /\ chan'[th'[w].ch].lock = w
      BY <1>2, <2>2, <2>3, <2>6 DEF Busy, Joining, Leaving
    <3> QED
      BY <3>1, <1>1, <1>2, <2>3, <2>6, <2>7, OrderKept
  <2>9. ASSUME NEW a \in Chan PROVE ChannelCount(a)'
    <3>1. Collects(a)' = Collects(a) /\ Collects(a) \in Int
      BY <1>2 DEF Collects, InCollection
    <3>2. Posts(a)' - Posts(a) = Has(PostsTo(a), task)
      <4>1. Has(PostsTo(a), task) = IF a = task.ch THEN 1 ELSE 0
        BY <1>3 DEF Has, PostsTo
      <4>2. \A x \in Worker \ {w} : th'[x] = th[x]
        BY <2>3 DEF OthersStay, Thread
      <4>3. CASE a = task.ch
        <5>1. Posting(a) = {}
          <6>1. \A x \in Worker : th[x].pc = "publish" => chan[th[x].ch].lock = x /\ x \in Thread /\ x # NULL
            BY <1>1, PubSubAssumption DEF Orderly, TurnAgrees, Thread
          <6> QED
            BY <6>1, <4>3, <1>5 DEF Posting
        <5>2. w \in Posting(a)'
          BY <4>3, <2>2, <2>3 DEF Posting
        <5>3. Posts(a)' = 1 /\ Posts(a) = 0
          BY <5>1, <5>2 DEF Posts
        <5> QED
          BY <4>1, <4>3, <5>3
      <4>4. CASE a # task.ch
        <5>1. Posting(a)' = Posting(a)
          BY <4>2, <4>4, <1>2, <2>2, <2>3 DEF Posting
        <5>2. Posts(a)' = Posts(a) /\ Posts(a) \in Int
          BY <5>1 DEF Posts
        <5> QED
          BY <4>1, <4>4, <5>2
      <4> QED
        BY <4>3, <4>4
    <3>3. Holders(a)' = Holders(a)
      BY <1>2 DEF Holders
    <3>4. Nearly(Holders(a), Holders(a)', w) /\ Has(Holders(a)', w) = Has(Holders(a), w) /\ Has(Holders(a), w) \in Int
      BY <3>3 DEF Nearly, Has
    <3>5. PICK n \in Int, x \in Int :
            /\ n = Cardinality(Among(urgent', PostsTo(a))) /\ x = Has(PostsTo(a), task)
            /\ Cardinality(Among(urgent, PostsTo(a))) = x + n
      <4>1. Cardinality(Among(urgent', PostsTo(a))) \in Int /\ Has(PostsTo(a), task) \in Int
        <5>1. urgent' \in Seq(Post)
          BY <1>3, <2>1
        <5>2. Cardinality(Among(urgent', PostsTo(a))) \in Int
          BY <5>1, AmongFinite
        <5> QED
          BY <5>2 DEF Has
      <4>2. Cardinality(Among(urgent, PostsTo(a))) = Has(PostsTo(a), task) + Cardinality(Among(urgent', PostsTo(a)))
        BY <1>3, <2>1
      <4> QED
        BY <4>1, <4>2
    <3>6. PICK r \in Int : r = chan[a].ref /\ r = chan'[a].ref
      BY <2>4, <2>6 DEF Channel
    <3>7. ChannelMoves(a, w)
      <4>1. r - r = 0 + 0 + (n - (x + n)) + x
        OBVIOUS
      <4> QED
        BY <3>1, <3>2, <3>4, <3>5, <3>6, <4>1 DEF ChannelMoves
    <3> QED
      BY <3>4, <3>7, <1>1, ChannelCounted DEF Counts
  <2>10. ASSUME NEW m \in Msg PROVE MessageCount(m)'
    <3>1. PICK x \in Int : x = Has(PostsOf(m), task) /\ x = IF m = task.m THEN 1 ELSE 0
      BY <1>3 DEF Has, PostsOf
    <3>2. w \notin Bearers(m) /\ (w \in Bearers(m)' <=> m = task.m)
      BY <1>2, <2>2, <2>3 DEF Bearers, Handling
    <3>3. Has(Bearers(m)', w) = Has(Bearers(m), w) + x
      BY <3>1, <3>2 DEF Has
    <3>4. PICK n \in Nat : n = Cardinality(Among(urgent', PostsOf(m))) /\ Cardinality(Among(urgent, PostsOf(m))) = x + n
      BY <1>1, <1>3, <2>1, <3>1, AmongFinite
    <3>5. Cardinality(Among(urgent', PostsOf(m))) = Cardinality(Among(urgent, PostsOf(m))) + (-x)
      BY <3>4
    <3>6. Cardinality(Among(tasks', CallsOf(m))) = Cardinality(Among(tasks, CallsOf(m))) + 0
      BY <1>1, <1>2, AmongFinite DEF Typed
    <3>7. msg'[m] = msg[m] + x + (-x) + 0
      BY <1>1, <1>2 DEF Typed
    <3>8. -x \in Int /\ th[w].pc # "patterns" /\ th'[w].pc # "patterns" /\ 0 \in Int
      BY <1>2, <2>2, <2>3
    <3>9. MessageShift(m, w, x, -x, 0)
      BY <3>3, <3>5, <3>6, <3>7 DEF MessageShift
    <3> QED
      BY <3>8, <3>9, <1>1, <2>3, MessageShifted
  <2> QED
    BY <2>8, <2>9, <2>10 DEF Tidy, Counts
<1> QED
    BY <1>4, <1>5

\* on_message runs the callback.
LEMMA TidyRuns ==
    ASSUME Tidy, Sane', NEW w \in Worker, on_message(w)
    PROVE  Tidy'
<1>0. PICK s, m : s = th[w].s /\ m = th[w].m
    OBVIOUS
<1>1. Sane /\ Sound /\ Typed /\ Typed' /\ Orderly /\ Counts /\ w \in Thread
    BY DEF Tidy, Sane, Sound, Thread
<1>2. /\ th[w].pc = "callback" /\ (gvl' = gvl \/ gvl \in {NULL, w})
      /\ UNCHANGED <<channels, chan, sub, msg, urgent, tasks, engine, life, ended, due, sent, defers, attaches>>
    BY DEF on_message
<1> DEFINE work == [th[w] EXCEPT !.pc = "running"]
<1>3. OthersStay(w) /\ th'[w].pc = "running" /\ th'[w].m = m
  <2>1. th' = [th EXCEPT ![w] = work] /\ th \in [Thread -> Place] /\ th[w] \in Place
    BY <1>1 DEF on_message, Typed
  <2>2. work \in Place /\ work.pc = "running" /\ work.m = m
    <3>1. work \in Place
      BY <2>1 DEF Place, Handling
    <3> QED
      BY <3>1, <2>1, <1>0 DEF Place
  <2> HIDE DEF work
  <2> QED
    BY <2>1, <2>2, <1>1 DEF OthersStay
<1> HIDE DEF work
<1>4. SameLists
    BY <1>2 DEF SameLists
<1>5. Orderly'
    BY <1>1, <1>2, <1>3, <1>4, OrderKept DEF Busy, Joining, Leaving
<1>6. \A a \in Chan : ChannelCount(a)'
  <2>1. \A u \in Worker : th[u].pc = "publish" \/ th'[u].pc = "publish" => th'[u] = th[u]
    BY <1>2, <1>3 DEF OthersStay, Thread
  <2> QED
    BY <2>1, <1>1, <1>2, RefsKept DEF Counts
<1>7. ASSUME NEW x \in Msg PROVE MessageCount(x)'
  <2>1. Sending(x)' <=> Sending(x)
    BY <1>2, <1>3 DEF Sending, OthersStay, Thread
  <2>2. Bearers(x)' = Bearers(x)
    BY <1>0, <1>2, <1>3 DEF Bearers, Handling, OthersStay, Thread
  <2>3. Among(urgent, PostsOf(x))' = Among(urgent, PostsOf(x)) /\ Among(tasks, CallsOf(x))' = Among(tasks, CallsOf(x))
    BY <1>2 DEF Among, PostsOf, CallsOf
  <2> QED
    BY <2>1, <2>2, <2>3, <1>1, <1>2 DEF Counts, MessageCount, Sends
<1> QED
    BY <1>5, <1>6, <1>7 DEF Tidy, Counts

\* The callback returned: the message and the call's reference are dropped.
LEMMA TidyAnswers ==
    ASSUME Tidy, Sane', NEW w \in Worker, callback_done(w)
    PROVE  Tidy'
<1>0. PICK s, m : s = th[w].s /\ m = th[w].m
    OBVIOUS
<1>1. Sane /\ Sound /\ Typed /\ Typed' /\ Orderly /\ Counts /\ w \in Thread /\ ThreadAgrees(w)
    BY DEF Tidy, Sane, Sound, Thread
<1>2. /\ th[w].pc = "running" /\ Return(w) /\ msg' = Released(m)
      /\ fio_subscription_free(s, Unlocked(s), chan)
      /\ UNCHANGED <<channels, urgent, tasks, engine, life, got, due, sent, defers, attaches>>
    BY <1>0 DEF callback_done
<1>3. s \in Sub /\ m \in Msg /\ life[s] \in {"live", "cancelling"} /\ sub[s].parent \in Chan
    BY <1>0, <1>1, <1>2 DEF Sound, SubAgrees, ThreadAgrees, Handling
<1>4. sub[s].ref > 0
  <2>1. Own(s) = 1 /\ Cardinality(CallsFor(tasks, s)) \in Nat /\ CountAgrees(s)
    BY <1>1, <1>3, CallsFinite DEF Own, Typed, Sane, CountsAgree
  <2> QED
    BY <2>1 DEF CountAgrees
<1> DEFINE v == [sub[s] EXCEPT !.lock = NULL]
<1>5. v \in Subscription /\ v.parent = sub[s].parent /\ v.ref = sub[s].ref
  <2>1. sub[s] \in Subscription
    BY <1>1, <1>3 DEF Typed
  <2> QED
    BY <2>1 DEF Subscription
<1>6. Unlocked(s) = [sub EXCEPT ![s] = v]
    BY DEF Unlocked
<1> HIDE DEF v
<1>7. OthersStay(w) /\ th'[w].pc = "idle" /\ (gvl' = gvl \/ gvl \in {NULL, w})
  <2>1. OthersStay(w) /\ th'[w] = NoWork
    BY <1>1, <1>2, Returns
  <2>2. gvl' = gvl \/ gvl \in {NULL, w}
    BY <1>2 DEF Return
  <2> QED
    BY <2>1, <2>2 DEF NoWork
<1>8. PICK sb : sb = Unlocked(s)
    OBVIOUS
<1>9. /\ \A a \in Chan : ChannelCount(a)'
      /\ \A a \in Chan : chan'[a].lock = chan[a].lock
  <2>1. \A u \in Worker : th[u].pc = "publish" \/ th'[u].pc = "publish" => th'[u] = th[u]
    BY <1>2, <1>7 DEF OthersStay, Thread
  <2> QED
    BY <2>1, <1>1, <1>2, <1>3, <1>4, <1>5, <1>6, <1>8, FreesCounted
<1>10. SameLists
  <2>1. /\ \A x \in Sub \ {s} : sub'[x] = sub[x]
        /\ sub'[s].parent = sub[s].parent
        /\ \A a \in Chan : chan'[a].key = chan[a].key /\ chan'[a].subs = chan[a].subs
    BY <1>1, <1>2, <1>3, <1>5, <1>6, <1>8, Frees
  <2> QED
    BY <2>1, <1>2 DEF SameLists
<1>11. Orderly'
    BY <1>1, <1>2, <1>7, <1>9, <1>10, OrderKept DEF Busy, Joining, Leaving
<1>12. ASSUME NEW x \in Msg PROVE MessageCount(x)'
  <2>1. PICK b \in Int : b = IF x = m THEN -1 ELSE 0
    OBVIOUS
  <2>2. w \notin Bearers(x)' /\ (w \in Bearers(x) <=> x = m)
    BY <1>0, <1>2, <1>7 DEF Bearers, Handling
  <2>3. Has(Bearers(x)', w) = Has(Bearers(x), w) + b
    BY <2>1, <2>2 DEF Has
  <2>4. Cardinality(Among(urgent', PostsOf(x))) = Cardinality(Among(urgent, PostsOf(x))) + 0
    BY <1>1, <1>2, AmongFinite DEF Typed
  <2>5. Cardinality(Among(tasks', CallsOf(x))) = Cardinality(Among(tasks, CallsOf(x))) + 0
    BY <1>1, <1>2, AmongFinite DEF Typed
  <2>6. msg'[x] = msg[x] + b + 0 + 0
    BY <2>1, <1>1, <1>2 DEF Typed, Released
  <2>7. 0 \in Int /\ th[w].pc # "patterns" /\ th'[w].pc # "patterns"
    BY <1>2, <1>7
  <2>8. MessageShift(x, w, b, 0, 0)
    BY <2>3, <2>4, <2>5, <2>6 DEF MessageShift
  <2> QED
    BY <2>7, <2>8, <1>1, <1>7, MessageShifted
<1> QED
    BY <1>9, <1>11, <1>12 DEF Tidy, Counts

\* The protocol is locked: the call goes back to the queue with its references.
LEMMA TidyDefers ==
    ASSUME Tidy, Sane', NEW w \in Worker, fio_message_defer(w)
    PROVE  Tidy'
<1>0. PICK s, m, e : s = th[w].s /\ m = th[w].m /\ e = [s |-> s, m |-> m]
    OBVIOUS
<1>1. Sane /\ Sound /\ Typed /\ Typed' /\ Orderly /\ Counts /\ w \in Thread /\ ThreadAgrees(w)
    BY DEF Tidy, Sane, Sound, Thread
<1>2. /\ th[w].pc = "callback" /\ Return(w) /\ sub' = Unlocked(s) /\ tasks' = Append(tasks, e)
      /\ UNCHANGED <<channels, chan, msg, urgent, engine, life, ended, got, due, sent, attaches>>
    BY <1>0 DEF fio_message_defer, Requeued
<1>3. s \in Sub /\ m \in Msg /\ e \in Call
    BY <1>0, <1>1, <1>2 DEF ThreadAgrees, Handling, Call
<1> DEFINE v == [sub[s] EXCEPT !.lock = NULL]
<1>4. v \in Subscription /\ v.parent = sub[s].parent /\ v.ref = sub[s].ref
  <2>1. sub[s] \in Subscription
    BY <1>1, <1>3 DEF Typed
  <2> QED
    BY <2>1 DEF Subscription
<1>5. sub' = [sub EXCEPT ![s] = v]
    BY <1>2 DEF Unlocked
<1> HIDE DEF v
<1>6. \A x \in Sub : sub'[x].parent = sub[x].parent /\ sub'[x].ref = sub[x].ref
    BY <1>1, <1>3, <1>4, <1>5 DEF Typed
<1>7. OthersStay(w) /\ th'[w].pc = "idle" /\ (gvl' = gvl \/ gvl \in {NULL, w})
  <2>1. OthersStay(w) /\ th'[w] = NoWork
    BY <1>1, <1>2, Returns
  <2>2. gvl' = gvl \/ gvl \in {NULL, w}
    BY <1>2 DEF Return
  <2> QED
    BY <2>1, <2>2 DEF NoWork
<1>8. SameLists
    BY <1>2, <1>6 DEF SameLists
<1>9. Orderly'
    BY <1>1, <1>2, <1>7, <1>8, OrderKept DEF Busy, Joining, Leaving
<1>10. \A a \in Chan : ChannelCount(a)'
  <2>1. \A u \in Worker : th[u].pc = "publish" \/ th'[u].pc = "publish" => th'[u] = th[u]
    BY <1>2, <1>7 DEF OthersStay, Thread
  <2> QED
    BY <2>1, <1>1, <1>2, <1>6, RefsKept DEF Counts
<1>11. ASSUME NEW x \in Msg PROVE MessageCount(x)'
  <2>1. PICK b \in Int : b = (IF x = m THEN 1 ELSE 0) /\ b = Has(CallsOf(x), e)
    BY <1>0, <1>3 DEF Has, CallsOf
  <2>2. w \notin Bearers(x)' /\ (w \in Bearers(x) <=> x = m)
    BY <1>0, <1>2, <1>7 DEF Bearers, Handling
  <2>3. Has(Bearers(x)', w) = Has(Bearers(x), w) + (-b)
    BY <2>1, <2>2 DEF Has
  <2>4. Cardinality(Among(urgent', PostsOf(x))) = Cardinality(Among(urgent, PostsOf(x))) + 0
    BY <1>1, <1>2, AmongFinite DEF Typed
  <2>5. Cardinality(Among(tasks', CallsOf(x))) = Cardinality(Among(tasks, CallsOf(x))) + b
    BY <2>1, <1>1, <1>2, <1>3, AmongAppend DEF Typed
  <2>6. msg'[x] = msg[x] + (-b) + 0 + b
    BY <2>1, <1>1, <1>2 DEF Typed
  <2>7. 0 \in Int /\ -b \in Int /\ th[w].pc # "patterns" /\ th'[w].pc # "patterns"
    BY <1>2, <1>7
  <2>8. MessageShift(x, w, -b, 0, b)
    BY <2>3, <2>4, <2>5, <2>6 DEF MessageShift
  <2> QED
    BY <2>7, <2>8, <1>1, <1>7, MessageShifted
<1> QED
    BY <1>9, <1>10, <1>11 DEF Tidy, Counts

\* fio_perform_subscription_callback puts the call back, takes it, or drops it.
LEMMA TidyTakesCall ==
    ASSUME Tidy, Sane', NEW w \in Worker, fio_perform_subscription_callback(w)
    PROVE  Tidy'
<1>0. PICK e, s, m : e = Head(tasks) /\ s = e.s /\ m = e.m
    OBVIOUS
<1>1. Sane /\ Sound /\ Typed /\ Typed' /\ Orderly /\ Counts /\ w \in Thread
    BY DEF Tidy, Sane, Sound, Thread
<1>2. /\ th[w].pc = "idle" /\ tasks \in Seq(Call) /\ tasks # <<>>
      /\ UNCHANGED <<channels, urgent, engine, life, got, due, sent, defers, attaches>>
    BY <1>1 DEF fio_perform_subscription_callback, Typed
<1>3. /\ e \in Call /\ Tail(tasks) \in Seq(Call)
      /\ \A S : Cardinality(Among(tasks, S)) = Has(S, e) + Cardinality(Among(Tail(tasks), S))
  <2>1. ASSUME NEW S
        PROVE  Cardinality(Among(tasks, S)) = Has(S, e) + Cardinality(Among(Tail(tasks), S))
    BY <1>0, <1>2, AmongTail
  <2>2. e \in Call /\ Tail(tasks) \in Seq(Call)
    BY <1>0, <1>2, AmongTail
  <2> QED
    BY <2>1, <2>2
<1>4. s \in Sub /\ m \in Msg /\ e = [s |-> s, m |-> m]
    BY <1>0, <1>3 DEF Call
<1>5. ASSUME NEW x \in Msg
      PROVE  Cardinality(Among(urgent', PostsOf(x))) = Cardinality(Among(urgent, PostsOf(x))) + 0
    BY <1>1, <1>2, AmongFinite DEF Typed
<1>6. ASSUME NEW x \in Msg, tasks' = Tail(tasks)
      PROVE  Cardinality(Among(tasks', CallsOf(x))) = Cardinality(Among(tasks, CallsOf(x))) + (IF x = m THEN -1 ELSE 0)
  <2>1. Has(CallsOf(x), e) = IF x = m THEN 1 ELSE 0
    BY <1>3, <1>4 DEF Has, CallsOf
  <2>2. PICK n \in Nat : n = Cardinality(Among(tasks', CallsOf(x)))
    BY <1>3, <1>6, AmongFinite
  <2>3. Cardinality(Among(tasks, CallsOf(x))) = Has(CallsOf(x), e) + n
    BY <1>3, <1>6, <2>2
  <2> QED
    BY <2>1, <2>2, <2>3
<1>7. CASE sub[s].lock # NULL
  <2>1. tasks' = Append(Tail(tasks), e) /\ UNCHANGED <<chan, sub, msg, th, gvl, ended>>
    BY <1>0, <1>7 DEF fio_perform_subscription_callback
  <2>2. SameLists /\ OthersStay(w)
    BY <1>1, <1>2, <2>1 DEF SameLists, OthersStay, Typed
  <2>3. Orderly'
    BY <1>1, <1>2, <2>1, <2>2, OrderKept DEF Busy, Joining, Leaving
  <2>4. \A a \in Chan : ChannelCount(a)'
    BY <1>1, <1>2, <2>1, RefsKept DEF Counts
  <2>5. ASSUME NEW x \in Msg PROVE MessageCount(x)'
    <3>1. Sending(x)' <=> Sending(x)
      BY <2>1 DEF Sending
    <3>2. Bearers(x)' = Bearers(x)
      BY <2>1 DEF Bearers
    <3>3. Among(urgent, PostsOf(x))' = Among(urgent, PostsOf(x))
      BY <1>2 DEF Among, PostsOf
    <3>4. Cardinality(Among(tasks, CallsOf(x)))' = Cardinality(Among(tasks, CallsOf(x)))
      <4>1. Cardinality(Among(tasks', CallsOf(x))) = Cardinality(Among(tasks, CallsOf(x)))
        BY <1>0, <1>2, <2>1, AmongRotated
      <4> QED
        BY <4>1 DEF CallsOf
    <3> QED
      BY <3>1, <3>2, <3>3, <3>4, <1>1, <2>1 DEF Counts, MessageCount, Sends
  <2> QED
    BY <2>3, <2>4, <2>5 DEF Tidy, Counts
<1>8. CASE sub[s].lock = NULL /\ sub[s].active
  <2> DEFINE work == [NoWork EXCEPT !.pc = "callback", !.s = s, !.m = m]
             v    == [sub[s] EXCEPT !.lock = w]
  <2>1. tasks' = Tail(tasks) /\ sub' = [sub EXCEPT ![s] = v] /\ th' = [th EXCEPT ![w] = work] /\ UNCHANGED <<chan, msg, gvl, ended>>
    BY <1>0, <1>8 DEF fio_perform_subscription_callback
  <2>2. work \in Place /\ work.pc = "callback" /\ work.m = m
    BY <1>4 DEF NoWork, Place, Handling
  <2>3. v.parent = sub[s].parent /\ v.ref = sub[s].ref
    BY <1>1, <1>4 DEF Typed, Subscription
  <2> HIDE DEF work, v
  <2>4. OthersStay(w) /\ th'[w] = work
    BY <1>1, <2>1, <2>2 DEF OthersStay, Typed
  <2>5. \A x \in Sub : sub'[x].parent = sub[x].parent /\ sub'[x].ref = sub[x].ref
    BY <1>1, <1>4, <2>1, <2>3 DEF Typed
  <2>6. SameLists
    BY <1>2, <2>1, <2>5 DEF SameLists
  <2>7. Orderly'
    BY <1>1, <1>2, <2>1, <2>2, <2>4, <2>6, OrderKept DEF Busy, Joining, Leaving
  <2>8. \A a \in Chan : ChannelCount(a)'
    <3>1. \A u \in Worker : th[u].pc = "publish" \/ th'[u].pc = "publish" => th'[u] = th[u]
      BY <1>2, <2>2, <2>4 DEF OthersStay, Thread
    <3> QED
      BY <3>1, <1>1, <1>2, <2>1, <2>5, RefsKept DEF Counts
  <2>9. ASSUME NEW x \in Msg PROVE MessageCount(x)'
    <3>1. PICK b \in Int : b = IF x = m THEN 1 ELSE 0
      OBVIOUS
    <3>2. w \notin Bearers(x) /\ (w \in Bearers(x)' <=> x = m)
      BY <1>2, <2>2, <2>4 DEF Bearers, Handling
    <3>3. Has(Bearers(x)', w) = Has(Bearers(x), w) + b
      BY <3>1, <3>2 DEF Has
    <3>4. Cardinality(Among(tasks', CallsOf(x))) = Cardinality(Among(tasks, CallsOf(x))) + (-b)
      BY <1>6, <2>1, <3>1
    <3>5. msg'[x] = msg[x] + b + 0 + (-b)
      BY <1>1, <2>1 DEF Typed
    <3>6. 0 \in Int /\ -b \in Int /\ th[w].pc # "patterns" /\ th'[w].pc # "patterns"
      BY <1>2, <2>2, <2>4
    <3>7. MessageShift(x, w, b, 0, -b)
      BY <1>5, <3>3, <3>4, <3>5 DEF MessageShift
    <3> QED
      BY <3>6, <3>7, <1>1, <2>4, MessageShifted
  <2> QED
    BY <2>7, <2>8, <2>9 DEF Tidy, Counts
<1>9. CASE sub[s].lock = NULL /\ ~sub[s].active
  <2>1. /\ tasks' = Tail(tasks) /\ msg' = Released(m) /\ fio_subscription_free(s, sub, chan)
        /\ UNCHANGED <<th, gvl>>
    BY <1>0, <1>9 DEF fio_perform_subscription_callback
  <2>2. PICK v \in Subscription, sb \in {sub} : v = sub[s] /\ sb = sub /\ sb = [sub EXCEPT ![s] = v]
    BY <1>1, <1>4 DEF Typed
  <2>3. sub[s].parent \in Chan
    <3>1. Waits(s, m)
      <4>1. DOMAIN tasks = 1 .. Len(tasks) /\ 1 \in 1 .. Len(tasks) /\ tasks[1] = e
        BY <1>0, <1>2, HeadTailProperties, LenProperties, EmptySeq
      <4> QED
        BY <4>1, <1>4 DEF Waits, Contains
    <3>2. sub[s].parent # NULL
      BY <3>1, <1>1, <1>4 DEF Sound, CallAgrees, Untouched
    <3> QED
      BY <3>2, <1>1, <1>4 DEF Typed, Subscription
  <2>4. sub[s].ref > 0
    <3>1. Cardinality(CallsFor(tasks, s)) = Cardinality(CallsFor(Tail(tasks), s)) + 1
      BY <1>0, <1>2, CountTail
    <3>2. Cardinality(CallsFor(Tail(tasks), s)) \in Nat
      BY <1>3, CallsFinite
    <3>3. CountAgrees(s) /\ Own(s) \in Nat
      BY <1>1, <1>4 DEF Sane, CountsAgree, Own
    <3> QED
      BY <3>1, <3>2, <3>3 DEF CountAgrees
  <2>5. OthersStay(w) /\ th'[w].pc = "idle"
    BY <1>1, <1>2, <2>1 DEF OthersStay, Typed
  <2>6. fio_subscription_free(s, sb, chan)
    BY <2>1, <2>2
  <2>7. /\ \A a \in Chan : ChannelCount(a)'
        /\ \A a \in Chan : chan'[a].lock = chan[a].lock
    BY <2>1, <2>2, <2>3, <2>4, <2>6, <1>1, <1>2, <1>4, FreesCounted
  <2>8. SameLists
    <3>1. /\ \A x \in Sub \ {s} : sub'[x] = sub[x]
          /\ sub'[s].parent = sub[s].parent
          /\ \A a \in Chan : chan'[a].key = chan[a].key /\ chan'[a].subs = chan[a].subs
      BY <2>2, <2>6, <1>1, <1>4, Frees
    <3> QED
      BY <3>1, <1>2 DEF SameLists
  <2>9. Orderly'
    BY <1>1, <1>2, <2>1, <2>5, <2>7, <2>8, OrderKept DEF Busy, Joining, Leaving
  <2>10. ASSUME NEW x \in Msg PROVE MessageCount(x)'
    <3>1. PICK c \in Int : c = IF x = m THEN -1 ELSE 0
      OBVIOUS
    <3>2. Has(Bearers(x)', w) = Has(Bearers(x), w) + 0
      <4>1. Bearers(x)' = Bearers(x)
        BY <2>1 DEF Bearers
      <4> QED
        BY <4>1 DEF Has
    <3>3. Cardinality(Among(tasks', CallsOf(x))) = Cardinality(Among(tasks, CallsOf(x))) + c
      BY <1>6, <2>1, <3>1
    <3>4. msg'[x] = msg[x] + 0 + 0 + c
      BY <3>1, <1>1, <1>4, <2>1 DEF Typed, Released
    <3>5. 0 \in Int /\ th[w].pc # "patterns" /\ th'[w].pc # "patterns"
      BY <1>2, <2>5
    <3>6. MessageShift(x, w, 0, 0, c)
      BY <1>5, <3>2, <3>3, <3>4 DEF MessageShift
    <3> QED
      BY <3>5, <3>6, <1>1, <2>5, MessageShifted
  <2> QED
    BY <2>7, <2>9, <2>10 DEF Tidy, Counts
<1> QED
    BY <1>7, <1>8, <1>9

\* fio_publish2channel makes a call for every subscription listed, then unlocks and
\* drops the channel.
LEMMA TidyDelivers ==
    ASSUME Tidy, Sane', NEW w \in Worker, fio_publish2channel(w)
    PROVE  Tidy'
<1>0. PICK a, m : a = th[w].ch /\ m = th[w].m
    OBVIOUS
<1>1. Sane /\ Sound /\ Typed /\ Typed' /\ Orderly /\ Counts /\ w \in Thread /\ ThreadAgrees(w) /\ TurnAgrees(w) /\ w # NULL
    BY PubSubAssumption DEF Tidy, Sane, Sound, Orderly, Thread
<1>2. PICK q : q = Kept(chan[a].subs, Sub \ Mock)
    OBVIOUS
<1>3. /\ th[w].pc = "publish" /\ Return(w) /\ sub' = Counted(ToSet(q)) /\ msg' = [msg EXCEPT ![m] = msg[m] + Len(q) - 1]
      /\ tasks' = tasks \o [i \in DOMAIN q |-> [s |-> q[i], m |-> m]]
      /\ chan' = [fio_channel_free(chan, a) EXCEPT ![a].lock = NULL]
      /\ UNCHANGED <<channels, urgent, engine, life, ended, got, due, sent, defers, attaches>>
    BY <1>0, <1>2 DEF fio_publish2channel
<1>4. a \in Chan /\ m \in Msg /\ chan[a].lock = w
    BY <1>0, <1>1, <1>3 DEF ThreadAgrees, TurnAgrees
<1>5. /\ q \in Seq(Sub) /\ DOMAIN q = 1 .. Len(q) /\ Len(q) \in Nat
      /\ \A i \in DOMAIN q : q[i] \in Sub /\ sub[q[i]].ref > 0
  <2>1. chan[a].subs \in Seq(Sub) /\ ChannelAgrees(a)
    BY <1>1, <1>4 DEF Sound, Typed, Channel
  <2>2. Keeps(q, chan[a].subs, Sub \ Mock, Len(chan[a].subs))
    BY <1>2, <2>1, KeptIs
  <2>3. q \in Seq(Sub)
    BY <2>2 DEF Keeps
  <2>4. ASSUME NEW i \in DOMAIN q PROVE q[i] \in Sub /\ sub[q[i]].ref > 0
    <3>1. q[i] \in Sub
      BY <2>3, <2>4
    <3>2. PICK j \in 1 .. Len(chan[a].subs) : chan[a].subs[j] = q[i]
      BY <2>2, <2>4 DEF Keeps
    <3>3. life[q[i]] \in {"live", "cancelling"}
      BY <3>2, <2>1 DEF ChannelAgrees
    <3>4. Own(q[i]) = 1 /\ Cardinality(CallsFor(tasks, q[i])) \in Nat /\ CountAgrees(q[i])
      BY <3>1, <3>3, <1>1, CallsFinite DEF Own, Typed, Sane, CountsAgree
    <3> QED
      BY <3>1, <3>4 DEF CountAgrees
  <2> QED
    BY <2>3, <2>4
<1>6. \A s \in Sub : sub'[s].parent = sub[s].parent /\ (sub'[s].ref > 0 <=> sub[s].ref > 0)
  <2>1. SUFFICES ASSUME NEW s \in Sub PROVE sub'[s].parent = sub[s].parent /\ (sub'[s].ref > 0 <=> sub[s].ref > 0)
    OBVIOUS
  <2>2. sub[s] \in Subscription /\ sub[s].ref \in Int
    BY <1>1 DEF Typed, Subscription
  <2>3. CASE s \in ToSet(q)
    <3>1. sub[s].ref > 0
      BY <2>3, <1>5 DEF ToSet
    <3>2. sub'[s] = [sub[s] EXCEPT !.ref = sub[s].ref + 1]
      BY <2>3, <1>3 DEF Counted
    <3>3. sub'[s].parent = sub[s].parent /\ sub'[s].ref = sub[s].ref + 1
      BY <3>2, <2>2 DEF Subscription
    <3> QED
      BY <3>1, <3>3, <2>2
  <2>4. CASE s \notin ToSet(q)
    BY <2>4, <1>3 DEF Counted
  <2> QED
    BY <2>3, <2>4
<1>7. /\ chan'[a].lock = NULL /\ chan'[a].ref = chan[a].ref - 1 /\ chan'[a].key = chan[a].key /\ chan'[a].subs = chan[a].subs
      /\ \A b \in Chan \ {a} : chan'[b] = chan[b]
  <2> DEFINE x == [chan[a] EXCEPT !.ref = chan[a].ref - 1]
             v == [x EXCEPT !.lock = NULL]
  <2>1. chan \in [Chan -> Channel] /\ chan[a] \in Channel
    BY <1>1, <1>4 DEF Typed
  <2>2. x.ref = chan[a].ref - 1 /\ x.key = chan[a].key /\ x.subs = chan[a].subs /\ x \in Channel
    <3>1. x \in Channel
      BY <2>1 DEF Channel
    <3> QED
      BY <3>1, <2>1, ChannelFields
  <2> HIDE DEF x
  <2>3. v.lock = NULL /\ v.ref = x.ref /\ v.key = x.key /\ v.subs = x.subs
    BY <2>2, ChannelFields
  <2> HIDE DEF v
  <2>4. chan' = [chan EXCEPT ![a] = v]
    <3>1. fio_channel_free(chan, a) = [chan EXCEPT ![a] = x]
      BY DEF fio_channel_free, x
    <3>2. fio_channel_free(chan, a)[a] = x
      BY <3>1, <2>1, <1>4
    <3> QED
      BY <3>1, <3>2, <1>3, <1>4, <2>1 DEF v
  <2> QED
    BY <2>1, <2>2, <2>3, <2>4, <1>4
<1>8. OthersStay(w) /\ th'[w].pc = "idle" /\ (gvl' = gvl \/ gvl \in {NULL, w})
  <2>1. OthersStay(w) /\ th'[w] = NoWork
    BY <1>1, <1>3, Returns
  <2>2. gvl' = gvl \/ gvl \in {NULL, w}
    BY <1>3 DEF Return
  <2> QED
    BY <2>1, <2>2 DEF NoWork
<1>9. SameLists
    BY <1>3, <1>6, <1>7 DEF SameLists
<1>10. Orderly'
  <2>1. \A b \in Chan : chan'[b].lock = chan[b].lock \/ chan[b].lock \in {NULL, w}
    BY <1>4, <1>7
  <2>2. th[w].pc \notin Busy /\ th'[w].pc \notin Busy /\ th'[w].pc # "publish"
    BY <1>3, <1>8 DEF Busy, Joining, Leaving
  <2> QED
    BY <2>1, <2>2, <1>1, <1>3, <1>8, <1>9, OrderKept
<1>11. ASSUME NEW b \in Chan PROVE ChannelCount(b)'
  <2>1. Collects(b)' = Collects(b) /\ Collects(b) \in Int
    BY <1>3 DEF Collects, InCollection
  <2>2. Holders(b)' = Holders(b)
    BY <1>6 DEF Holders
  <2>3. Nearly(Holders(b), Holders(b)', w) /\ Has(Holders(b)', w) = Has(Holders(b), w) /\ Has(Holders(b), w) \in Int
    BY <2>2 DEF Nearly, Has
  <2>4. PICK n \in Int : n = Cardinality(Among(urgent, PostsTo(b))) /\ n = Cardinality(Among(urgent', PostsTo(b)))
    BY <1>1, <1>3, AmongFinite DEF Typed
  <2>5. PICK p \in Int : p = (IF b = a THEN -1 ELSE 0) /\ Posts(b)' - Posts(b) = p
    <3>1. \A x \in Worker \ {w} : th'[x] = th[x]
      BY <1>8 DEF OthersStay, Thread
    <3>2. CASE b = a
      <4>1. \A x \in Worker : th[x].pc = "publish" => chan[th[x].ch].lock = x
        BY <1>1 DEF Orderly, TurnAgrees, Thread
      <4>2. w \in Posting(b) /\ Posting(b)' = {}
        BY <4>1, <3>1, <3>2, <1>0, <1>3, <1>4, <1>8 DEF Posting
      <4>3. Posts(b) = 1 /\ Posts(b)' = 0
        BY <4>2 DEF Posts
      <4> QED
        BY <4>3, <3>2
    <3>3. CASE b # a
      <4>1. Posting(b)' = Posting(b)
        BY <3>1, <3>3, <1>0, <1>3, <1>8 DEF Posting
      <4>2. Posts(b)' = Posts(b) /\ Posts(b) \in Int
        BY <4>1 DEF Posts
      <4> QED
        BY <4>2, <3>3
    <3> QED
      BY <3>2, <3>3
  <2>6. PICK r \in Int, r1 \in Int : r = chan[b].ref /\ r1 = chan'[b].ref /\ r1 - r = p
    <3>1. chan[b].ref \in Int
      BY <1>1 DEF Typed, Channel
    <3>2. chan'[b].ref = chan[b].ref + p
      BY <3>1, <2>5, <1>7
    <3> QED
      BY <3>1, <3>2
  <2>7. ChannelMoves(b, w)
    <3>1. r1 - r = 0 + 0 + (n - n) + p
      BY <2>6
    <3> QED
      BY <3>1, <2>1, <2>3, <2>4, <2>5, <2>6 DEF ChannelMoves
  <2> QED
    BY <2>3, <2>7, <1>1, ChannelCounted DEF Counts
<1>12. ASSUME NEW x \in Msg PROVE MessageCount(x)'
  <2>1. PICK b \in Int, c \in Int : b = (IF x = m THEN -1 ELSE 0) /\ c = (IF x = m THEN Len(q) ELSE 0)
    <3>1. PICK n \in Nat : n = Len(q)
      BY <1>5
    <3> QED
      BY <3>1
  <2>2. w \notin Bearers(x)' /\ (w \in Bearers(x) <=> x = m)
    BY <1>0, <1>3, <1>8 DEF Bearers, Handling
  <2>3. Has(Bearers(x)', w) = Has(Bearers(x), w) + b
    BY <2>1, <2>2 DEF Has
  <2>4. Cardinality(Among(urgent', PostsOf(x))) = Cardinality(Among(urgent, PostsOf(x))) + 0
    BY <1>1, <1>3, AmongFinite DEF Typed
  <2>5. Cardinality(Among(tasks', CallsOf(x))) = Cardinality(Among(tasks, CallsOf(x))) + c
    <3>1. PICK r : r = [i \in DOMAIN q |-> [s |-> q[i], m |-> m]]
      OBVIOUS
    <3>2. r \in Seq(Call) /\ Len(r) = Len(q) /\ DOMAIN r = DOMAIN q /\ \A i \in DOMAIN r : r[i] = [s |-> q[i], m |-> m] /\ r[i] \in Call
      <4>1. \A i \in 1 .. Len(q) : r[i] = [s |-> q[i], m |-> m] /\ r[i] \in Call
        BY <3>1, <1>4, <1>5 DEF Call
      <4>2. r \in Seq(Call) /\ Len(r) = Len(q) /\ DOMAIN r = 1 .. Len(q)
        BY <4>1, <3>1, <1>5
      <4> QED
        BY <4>1, <4>2, <1>5
    <3>3. Cardinality(Among(tasks', CallsOf(x))) = Cardinality(Among(tasks, CallsOf(x))) + Cardinality(Among(r, CallsOf(x)))
      BY <3>1, <3>2, <1>1, <1>3, AmongConcat DEF Typed
    <3>4. Cardinality(Among(r, CallsOf(x))) = c
      <4>1. CASE x = m
        <5>1. \A i \in DOMAIN r : r[i] \in CallsOf(x)
          BY <3>2, <4>1 DEF CallsOf
        <5> QED
          BY <5>1, <3>2, <2>1, <4>1, AmongAll
      <4>2. CASE x # m
        <5>1. \A i \in DOMAIN r : r[i] \notin CallsOf(x)
          BY <3>2, <4>2 DEF CallsOf
        <5> QED
          BY <5>1, <2>1, <4>2, AmongNone
      <4> QED
        BY <4>1, <4>2
    <3> QED
      BY <3>3, <3>4
  <2>6. msg'[x] = msg[x] + b + 0 + c
    <3>1. PICK n \in Nat : n = Len(q)
      BY <1>5
    <3>2. msg'[x] = IF x = m THEN msg[x] + n - 1 ELSE msg[x]
      BY <3>1, <1>1, <1>3 DEF Typed
    <3>3. msg[x] \in Int
      BY <1>1 DEF Typed
    <3> QED
      BY <3>1, <3>2, <3>3, <2>1
  <2>7. 0 \in Int /\ th[w].pc # "patterns" /\ th'[w].pc # "patterns"
    BY <1>3, <1>8
  <2>8. MessageShift(x, w, b, 0, c)
    BY <2>3, <2>4, <2>5, <2>6 DEF MessageShift
  <2> QED
    BY <2>7, <2>8, <1>1, <1>8, MessageShifted
<1> QED
    BY <1>10, <1>11, <1>12 DEF Tidy, Counts

-----------------------------------------------------------------------------
(* Every step, and what follows.                                           *)

LEMMA TidyStays ==
    ASSUME Tidy, UNCHANGED vars
    PROVE  Tidy'
<1>1. /\ channels' = channels /\ chan' = chan /\ sub' = sub /\ msg' = msg /\ urgent' = urgent /\ tasks' = tasks
      /\ th' = th /\ gvl' = gvl /\ engine' = engine /\ life' = life
    BY DEF vars
<1>2. Sane'
  <2>1. Inv
    BY LastOfAll DEF Tidy, Sane, Inv
  <2>2. Sound'
    BY <2>1, Stays DEF Inv
  <2>3. CountsAgree'
    BY <1>1 DEF Tidy, Sane, CountsAgree, CountAgrees, Own, CallsFor, Handlers
  <2>4. ~Crashed'
    BY <1>1 DEF Tidy, Sane, Crashed
  <2> QED
    BY <2>2, <2>3, <2>4 DEF Sane
<1>3. Orderly'
  <2>1. \A s \in Sub : Listed(s)' <=> Listed(s)
    BY <1>1 DEF Listed
  <2>2. \A k \in Key : Serves(k)' <=> Serves(k)
    BY <1>1 DEF Serves
  <2>3. \A t \in Thread : TurnAgrees(t)'
    BY <1>1, <2>1 DEF Tidy, Orderly, TurnAgrees, Listed
  <2>4. \A s \in Sub : StageAgrees(s)'
    BY <1>1, <2>1 DEF Tidy, Orderly, StageAgrees
  <2>5. (\A a \in Chan : Collected(a)') /\ \A k \in Key : Used(k)'
    BY <1>1, <2>2 DEF Tidy, Orderly, Collected, Used
  <2> QED
    BY <2>3, <2>4, <2>5 DEF Orderly
<1>4. ASSUME NEW a \in Chan PROVE ChannelCount(a)'
  <2>1. ChannelCount(a)
    BY DEF Tidy, Counts
  <2>2. /\ Holders(a)' = Holders(a) /\ Posting(a)' = Posting(a) /\ (InCollection(a)' <=> InCollection(a))
        /\ Among(urgent, PostsTo(a))' = Among(urgent, PostsTo(a))
    BY <1>1 DEF Holders, Posting, InCollection, Among, PostsTo
  <2> QED
    BY <2>1, <2>2, <1>1 DEF ChannelCount, Collects, Posts
<1>5. ASSUME NEW m \in Msg PROVE MessageCount(m)'
  <2>1. MessageCount(m)
    BY DEF Tidy, Counts
  <2>2. /\ Bearers(m)' = Bearers(m) /\ (Sending(m)' <=> Sending(m))
        /\ Among(urgent, PostsOf(m))' = Among(urgent, PostsOf(m)) /\ Among(tasks, CallsOf(m))' = Among(tasks, CallsOf(m))
    BY <1>1 DEF Bearers, Sending, Among, PostsOf, CallsOf
  <2> QED
    BY <2>1, <2>2, <1>1 DEF MessageCount, Sends
<1> QED
    BY <1>2, <1>3, <1>4, <1>5 DEF Tidy, Counts

\* A subscription on its way holds a reference to itself.
LEMMA OwnersHold ==
    ASSUME Sane, NEW s \in Sub, Own(s) = 1
    PROVE  sub[s].ref > 0
<1>1. Cardinality(CallsFor(tasks, s)) \in Nat /\ CountAgrees(s)
    BY CallsFinite DEF Typed, Sane, Sound, CountsAgree
<1> QED
    BY <1>1 DEF CountAgrees

\* No thread is about to read a channel that was freed.
LEMMA NoneFreed ==
    ASSUME Tidy, NEW t \in Thread
    PROVE  ~ReadsFreed(t)
<1>1. Sane /\ Sound /\ Typed /\ Orderly /\ ThreadAgrees(t) /\ TurnAgrees(t)
    BY DEF Tidy, Sane, Sound, Orderly
<1>2. \A a \in Chan : ChannelCount(a)
    BY DEF Tidy, Counts
<1>3. CASE th[t].pc \in {"lock", "locked"} /\ Dangling(th[t].ch)
  <2>1. th[t].ch \in Chan /\ InCollection(th[t].ch)
    BY <1>1, <1>3 DEF ThreadAgrees, TurnAgrees, InCollection, Joining
  <2> QED
    BY <2>1, <1>1, <1>2, <1>3, StillLive DEF Dangling
<1>4. CASE th[t].pc = "publish" /\ Dangling(th[t].ch)
  <2>1. th[t].ch \in Chan /\ Posting(th[t].ch) # {}
    BY <1>1, <1>4 DEF ThreadAgrees, Posting
  <2> QED
    BY <2>1, <1>1, <1>2, <1>4, StillLive DEF Dangling
<1>5. CASE th[t].pc \in {"destroy", "remove"} /\ Dangling(sub[th[t].s].parent)
  <2>1. th[t].s \in Sub /\ Own(th[t].s) = 1
    BY <1>1, <1>5 DEF ThreadAgrees, Leaving, Own
  <2>2. sub[th[t].s].ref > 0 /\ sub[th[t].s].parent \in Chan
    BY <2>1, <1>1, <1>5, OwnersHold DEF Dangling
  <2> QED
    BY <2>1, <2>2, <1>1, <1>2, <1>5, StillLive DEF Dangling
<1>6. CASE th[t].pc = "destroy" /\ Dangling(th[t].ch)
    BY <1>1, <1>5, <1>6 DEF TurnAgrees
<1>7. CASE th[t].pc = "insert" /\ Dangling(th[t].tmpl)
    BY <1>1, <1>7, PubSubAssumption DEF TurnAgrees, Dangling
<1>8. CASE th[t].pc \in {"finish", "running"} /\ LastRef(th[t].s)
  <2>1. th[t].s \in Sub /\ sub[th[t].s].ref = 1 /\ sub[th[t].s].parent \in Chan
    BY <1>1, <1>8 DEF ThreadAgrees, Leaving, Handling, LastRef, Dangling
  <2>2. sub[th[t].s].ref > 0
    BY <2>1
  <2> QED
    BY <2>1, <2>2, <1>1, <1>2, <1>8, StillLive DEF LastRef, Dangling
<1>9. CASE urgent # <<>> /\ Dangling(Head(urgent).ch)
  <2>1. 1 \in DOMAIN urgent /\ urgent[1] = Head(urgent)
    BY <1>1, <1>9, HeadTailProperties, LenProperties, EmptySeq DEF Typed
  <2>2. Head(urgent).ch \in Chan
    BY <1>9 DEF Dangling
  <2> QED
    BY <2>1, <2>2, <1>1, <1>2, <1>9, StillLive DEF Dangling
<1> QED
    BY <1>3, <1>4, <1>5, <1>6, <1>7, <1>8, <1>9 DEF ReadsFreed

LEMMA TidyStep ==
    ASSUME OneSubscribes, Tidy, [Next]_vars
    PROVE  Tidy'
<1>0. Sane
    BY DEF Tidy
<1>1. CASE UNCHANGED vars
    BY <1>1, TidyStays
<1>2. ASSUME NEW t \in Thread, use_after_free(t) PROVE FALSE
    BY <1>2, NoneFreed DEF use_after_free
<1>3. ASSUME NEW t \in Subscriber, NEW s \in Sub, NEW k \in Key, fio_subscribe(t, s, k) PROVE Tidy'
    BY <1>0, <1>3, Subscribes, TidySubscribes
<1>4. ASSUME NEW t \in Subscriber, NEW s \in Sub, fio_subscribe_error(t, s) \/ fio_unsubscribe(t, s) PROVE Tidy'
    BY <1>0, <1>4, SubscribesNothing, Unsubscribes, TidySubscribesNothing, TidyUnsubscribes
<1>5. ASSUME NEW t \in Subscriber, fio_pubsub_attach(t) \/ fio_pubsub_detach(t) PROVE Tidy'
    BY <1>0, <1>5, Attaches, Detaches, TidyAttaches, TidyDetaches
<1>6. ASSUME NEW t \in Publisher, NEW m \in Msg, NEW k \in Name \cup Filter, fio_publish(t, m, k) PROVE Tidy'
    BY <1>0, <1>6, Publishing, TidyPublishes
<1>7. ASSUME NEW t \in Caller, Progress(t) PROVE Tidy'
  <2>1. CASE use_after_free(t)
    BY <1>2, <2>1 DEF Thread
  <2>2. CASE set_insert(t) \/ channel_lock(t) \/ channel_found(t)
    BY <1>0, <1>7, <2>2, Inserts, LocksChannel, Finds, TidyInserts, TidyLocksChannel, TidyFinds
  <2>3. CASE subscription_lock(t) \/ subscription_remove(t) \/ unsubscribe_finish(t)
    BY <1>0, <1>7, <2>3, LocksSubscription, Removes, Finishes, TidyLocksSubscription, TidyRemoves, TidyFinishes
  <2>4. CASE fio_pubsub_on_channel_destroy(t) \/ publish_patterns(t) \/ fio_pubsub_reattach(t)
    BY <1>0, <1>7, <2>4, TellsEngines, Patterns, Reattaches, TidyTells, TidyPatterns, TidyReattaches
  <2> QED
    BY <1>7, <2>1, <2>2, <2>3, <2>4 DEF Progress
<1>8. ASSUME NEW w \in Worker, Perform(w) \/ fio_message_defer(w) PROVE Tidy'
  <2>1. CASE use_after_free(w)
    BY <1>2, <2>1 DEF Thread
  <2>2. CASE fio_publish2channel_task(w) \/ fio_publish2channel(w)
    BY <1>0, <1>8, <2>2, TakesPost, Delivers, TidyTakesPost, TidyDelivers
  <2>3. CASE fio_perform_subscription_callback(w)
    BY <1>0, <1>8, <2>3, TakesCall, TidyTakesCall
  <2>4. CASE on_message(w) \/ callback_done(w) \/ fio_message_defer(w)
    BY <1>0, <1>8, <2>4, Runs, Answers, Defers, TidyRuns, TidyAnswers, TidyDefers
  <2> QED
    BY <1>8, <2>1, <2>2, <2>3, <2>4 DEF Perform
<1>9. CASE Rest
    BY <1>9, TidyStays DEF Rest
<1> QED
    BY <1>1, <1>3, <1>4, <1>5, <1>6, <1>7, <1>8, <1>9 DEF Next

LEMMA TidyInitially == Init => Tidy
<1> SUFFICES ASSUME Init PROVE Tidy
    OBVIOUS
<1>1. Sane /\ \A t \in Thread : th[t].pc = "idle"
    BY Initially DEF Init, NoWork
<1>2. \A a \in Chan : chan[a].ref = 0 /\ chan[a].subs = <<>>
    BY DEF Init
<1>3. /\ \A k \in Key : channels[k] = NULL
      /\ \A s \in Sub : sub[s].ref = 0 /\ life[s] = "none"
      /\ \A m \in Msg : msg[m] = 0
      /\ urgent = <<>> /\ tasks = <<>>
    BY DEF Init
<1>4. Orderly
  <2>1. \A t \in Thread : TurnAgrees(t)
    BY <1>1 DEF TurnAgrees, Busy, Joining, Leaving
  <2>2. (\A s \in Sub : StageAgrees(s)) /\ (\A a \in Chan : Collected(a)) /\ (\A k \in Key : Used(k))
    BY <1>2, <1>3 DEF StageAgrees, Collected, Used
  <2> QED
    BY <2>1, <2>2 DEF Orderly
<1>5. \A S : Cardinality(Among(urgent, S)) = 0 /\ Cardinality(Among(tasks, S)) = 0
    BY <1>3, AmongNone
<1>6. ASSUME NEW a \in Chan PROVE ChannelCount(a)
  <2>1. ~InCollection(a) /\ Holders(a) = {} /\ Posting(a) = {}
    BY <1>1, <1>3, PubSubAssumption DEF InCollection, Holders, Posting, Thread
  <2> QED
    BY <2>1, <1>2, <1>5, FS_EmptySet DEF ChannelCount, Collects, Posts
<1>7. ASSUME NEW m \in Msg PROVE MessageCount(m)
  <2>1. ~Sending(m) /\ Bearers(m) = {}
    BY <1>1 DEF Sending, Bearers, Handling, Thread
  <2> QED
    BY <2>1, <1>3, <1>5, FS_EmptySet DEF MessageCount, Sends
<1> QED
    BY <1>1, <1>4, <1>6, <1>7 DEF Tidy, Counts

\* A set of which nothing, or one member, holds.
LEMMA OneOrNone ==
    ASSUME NEW S, \A x, y \in S : x = y
    PROVE  IsFiniteSet(S) /\ Cardinality(S) = IF S = {} THEN 0 ELSE 1
<1>1. CASE S = {}
    BY <1>1, FS_EmptySet
<1>2. CASE S # {}
  <2>1. PICK x : x \in S
    BY <1>2
  <2>2. S = {x}
    BY <2>1
  <2> QED
    BY <2>2, FS_Singleton
<1> QED
    BY <1>1, <1>2

LEMMA TidyTypes ==
    ASSUME Tidy
    PROVE  TypeOK
<1>1. Sane /\ Sound /\ Typed /\ Counts
    BY DEF Tidy, Sane, Sound
<1>2. ASSUME NEW a \in Chan PROVE chan[a].ref \in Nat
  <2>1. PICK h \in Nat, n \in Nat : h = Cardinality(Holders(a)) /\ n = Cardinality(Among(urgent, PostsTo(a)))
    BY <1>1, FS_CardinalityType, AmongFinite DEF Counts, ChannelCount, Typed
  <2> QED
    BY <1>1, <2>1 DEF Counts, ChannelCount, Collects, Posts
<1>3. ASSUME NEW s \in Sub PROVE sub[s].ref \in Nat
  <2>1. Cardinality(CallsFor(tasks, s)) \in Nat /\ CountAgrees(s) /\ Own(s) \in Nat
    BY <1>1, CallsFinite DEF Own, Typed, Sane, CountsAgree
  <2> QED
    BY <2>1 DEF CountAgrees
<1>4. ASSUME NEW m \in Msg PROVE msg[m] \in Nat
  <2>1. PICK b \in Nat, u \in Nat, c \in Nat :
          b = Cardinality(Bearers(m)) /\ u = Cardinality(Among(urgent, PostsOf(m))) /\ c = Cardinality(Among(tasks, CallsOf(m)))
    <3>1. Cardinality(Bearers(m)) \in Nat
      BY <1>1, FS_CardinalityType DEF Counts, MessageCount
    <3>2. Cardinality(Among(urgent, PostsOf(m))) \in Nat /\ Cardinality(Among(tasks, CallsOf(m))) \in Nat
      BY <1>1, AmongFinite DEF Typed
    <3> QED
      BY <3>1, <3>2
  <2> QED
    BY <1>1, <2>1 DEF Counts, MessageCount, Sends
<1>5. chan \in [Chan -> [key : Key \cup {NULL}, ref : Nat, subs : Seq(Sub), lock : Thread \cup {NULL}]]
  <2>1. ASSUME NEW a \in Chan PROVE chan[a] \in [key : Key \cup {NULL}, ref : Nat, subs : Seq(Sub), lock : Thread \cup {NULL}]
    BY <1>1, <1>2 DEF Typed, Channel
  <2> QED
    BY <2>1, <1>1 DEF Typed
<1>6. sub \in [Sub -> [parent : Chan \cup {NULL}, ref : Nat, lock : Thread \cup {NULL}, active : BOOLEAN]]
  <2>1. ASSUME NEW s \in Sub PROVE sub[s] \in [parent : Chan \cup {NULL}, ref : Nat, lock : Thread \cup {NULL}, active : BOOLEAN]
    <3>1. sub[s] \in Subscription
      BY <1>1 DEF Typed
    <3> QED
      BY <1>3, <3>1, Zenon DEF Subscription
  <2> QED
    BY <2>1, <1>1 DEF Typed
<1>7. msg \in [Msg -> Nat]
    BY <1>1, <1>4 DEF Typed
<1>8. th \in [Thread -> [pc : {"idle", "insert", "lock", "locked", "slock", "remove", "destroy",
                                "finish", "patterns", "reattach", "publish", "callback", "running", "crashed"},
                          s : Sub \cup {NULL}, ch : Chan \cup {NULL}, tmpl : Chan \cup {STACK},
                          key : Key \cup {NULL}, m : Msg \cup {NULL}]]
  <2>1. {"idle", "patterns", "reattach", "publish", "crashed"} \cup Joining \cup Leaving \cup Handling
          = {"idle", "insert", "lock", "locked", "slock", "remove", "destroy",
             "finish", "patterns", "reattach", "publish", "callback", "running", "crashed"}
    BY DEF Joining, Leaving, Handling
  <2> QED
    BY <1>1, <2>1, Zenon DEF Typed, Place
<1>9. engine \in [attached : BOOLEAN, subs : SUBSET Key, overtaken : SUBSET Key]
    BY <1>1 DEF Typed, Engine
<1> QED
    BY <1>1, <1>5, <1>6, <1>7, <1>8, <1>9 DEF Typed, TypeOK, Post, Call

LEMMA TidyChannelRefs ==
    ASSUME Tidy
    PROVE  ChannelRefs
<1>1. Sane /\ Sound /\ Typed /\ Orderly /\ Counts
    BY DEF Tidy, Sane, Sound
<1>2. SUFFICES ASSUME NEW a \in Chan
               PROVE  chan[a].ref = Cardinality({k \in Key : channels[k] = a})
                      + Cardinality({s \in Sub : sub[s].ref > 0 /\ sub[s].parent = a})
                      + Entries(urgent, LAMBDA x : x.ch = a)
                      + Cardinality({w \in Worker : Held(w, {"publish"}) /\ th[w].ch = a})
    BY DEF ChannelRefs
<1>3. Cardinality({k \in Key : channels[k] = a}) = Collects(a)
  <2>1. \A j, k \in {k \in Key : channels[k] = a} : j = k
    BY <1>1, PubSubAssumption DEF Sound, KeyAgrees
  <2> QED
    BY <2>1, OneOrNone DEF Collects, InCollection
<1>4. {s \in Sub : sub[s].ref > 0 /\ sub[s].parent = a} = Holders(a)
    BY DEF Holders
<1>5. Entries(urgent, LAMBDA x : x.ch = a) = Cardinality(Among(urgent, PostsTo(a)))
  <2>1. {i \in DOMAIN urgent : urgent[i].ch = a} = Among(urgent, PostsTo(a))
    BY <1>1 DEF Among, PostsTo, Typed
  <2> QED
    BY <2>1 DEF Entries
<1>6. Cardinality({w \in Worker : Held(w, {"publish"}) /\ th[w].ch = a}) = Posts(a)
  <2>1. {w \in Worker : Held(w, {"publish"}) /\ th[w].ch = a} = Posting(a)
    BY DEF Held, Posting
  <2>2. \A v, w \in Posting(a) : v = w
    BY <1>1 DEF Posting, Orderly, TurnAgrees, Thread
  <2> QED
    BY <2>1, <2>2, OneOrNone DEF Posts
<1> QED
    BY <1>1, <1>3, <1>4, <1>5, <1>6 DEF Counts, ChannelCount

LEMMA TidyOtherRefs ==
    ASSUME Tidy
    PROVE  SubscriptionAndMessageRefs
<1>1. Sane /\ Sound /\ Typed /\ Orderly /\ Counts
    BY DEF Tidy, Sane, Sound
<1>2. ASSUME NEW s \in Sub
      PROVE  sub[s].ref = Cardinality({x \in {s} : life[x] \in {"subscribing", "live", "cancelling"}})
                          + Entries(tasks, LAMBDA x : x.s = s)
                          + Cardinality({w \in Worker : Held(w, {"callback", "running"}) /\ th[w].s = s})
  <2>1. Cardinality({x \in {s} : life[x] \in {"subscribing", "live", "cancelling"}}) = Own(s)
    <3>1. \A x, y \in {x \in {s} : life[x] \in {"subscribing", "live", "cancelling"}} : x = y
      OBVIOUS
    <3> QED
      BY <3>1, OneOrNone DEF Own
  <2>2. Entries(tasks, LAMBDA x : x.s = s) = Cardinality(CallsFor(tasks, s))
    BY DEF Entries, CallsFor
  <2>3. Cardinality({w \in Worker : Held(w, {"callback", "running"}) /\ th[w].s = s}) = IF Handlers(s) = {} THEN 0 ELSE 1
    <3>1. {w \in Worker : Held(w, {"callback", "running"}) /\ th[w].s = s} = Handlers(s)
      BY <1>1 DEF Sound, ThreadAgrees, Held, Handlers, Handling, Thread
    <3>2. \A v, w \in Handlers(s) : v = w
      BY <1>1, Alone
    <3> QED
      BY <3>1, <3>2, OneOrNone
  <2> QED
    BY <1>1, <2>1, <2>2, <2>3 DEF Sane, CountsAgree, CountAgrees
<1>3. ASSUME NEW m \in Msg
      PROVE  msg[m] = Cardinality({t \in Caller : Held(t, {"patterns"}) /\ th[t].m = m})
                      + Entries(urgent, LAMBDA x : x.m = m) + Entries(tasks, LAMBDA x : x.m = m)
                      + Cardinality({w \in Worker : Held(w, {"publish", "callback", "running"}) /\ th[w].m = m})
  <2>1. Cardinality({t \in Caller : Held(t, {"patterns"}) /\ th[t].m = m}) = Sends(m)
    <3>1. \A t, u \in {t \in Caller : Held(t, {"patterns"}) /\ th[t].m = m} : t = u
      BY <1>1 DEF Sound, ThreadsApart, Held, Thread
    <3>2. {t \in Caller : Held(t, {"patterns"}) /\ th[t].m = m} # {} <=> Sending(m)
      BY DEF Sending, Held
    <3> QED
      BY <3>1, <3>2, OneOrNone DEF Sends
  <2>2. Entries(urgent, LAMBDA x : x.m = m) = Cardinality(Among(urgent, PostsOf(m)))
    <3>1. {i \in DOMAIN urgent : urgent[i].m = m} = Among(urgent, PostsOf(m))
      BY <1>1 DEF Among, PostsOf, Typed
    <3> QED
      BY <3>1 DEF Entries
  <2>3. Entries(tasks, LAMBDA x : x.m = m) = Cardinality(Among(tasks, CallsOf(m)))
    <3>1. {i \in DOMAIN tasks : tasks[i].m = m} = Among(tasks, CallsOf(m))
      BY <1>1 DEF Among, CallsOf, Typed
    <3> QED
      BY <3>1 DEF Entries
  <2>4. {w \in Worker : Held(w, {"publish", "callback", "running"}) /\ th[w].m = m} = Bearers(m)
    BY DEF Held, Bearers, Handling
  <2> QED
    BY <1>1, <2>1, <2>2, <2>3, <2>4 DEF Counts, MessageCount
<1> QED
    BY <1>2, <1>3 DEF SubscriptionAndMessageRefs

\* At rest whatever holds a reference to itself is a subscription on its channel's list.
LEMMA QuietListed ==
    ASSUME Tidy, Quiet, NEW s \in Sub
    PROVE  /\ life[s] \in {"none", "live", "cancelled"}
           /\ life[s] = "live" => Listed(s) /\ sub[s].parent \in Chan
           /\ sub[s].ref > 0 => life[s] = "live"
<1>1. Sane /\ Sound /\ Typed /\ Orderly /\ CountAgrees(s) /\ StageAgrees(s) /\ SubAgrees(s)
    BY DEF Tidy, Sane, Sound, Orderly, CountsAgree
<1>2. \A t \in Thread : th[t].pc = "idle"
    BY DEF Quiet
<1>3. life[s] \in {"none", "live", "cancelled"}
    BY <1>1, <1>2 DEF StageAgrees, Joining, Leaving, Typed
<1>4. Handlers(s) = {} /\ Cardinality(CallsFor(tasks, s)) = 0
  <2>1. Handlers(s) = {} /\ CallsFor(tasks, s) = {}
    BY <1>2 DEF Handlers, Handling, Quiet, CallsFor
  <2> QED
    BY <2>1, FS_EmptySet
<1>5. sub[s].ref > 0 => life[s] = "live"
    BY <1>1, <1>3, <1>4 DEF CountAgrees, Own
<1> QED
    BY <1>1, <1>3, <1>5 DEF StageAgrees, SubAgrees

LEMMA TidyNothingLeaks ==
    ASSUME Tidy
    PROVE  NothingLeaks
<1>1. Sane /\ Sound /\ Typed /\ Orderly /\ Counts
    BY DEF Tidy, Sane, Sound
<1>2. SUFFICES ASSUME Quiet
               PROVE  /\ \A m \in Msg : msg[m] = 0
                      /\ \A a \in Chan : chan[a].ref > 0 => chan[a].subs # <<>> \/ chan[a].key \in Filter
    BY DEF NothingLeaks
<1>3. (\A t \in Thread : th[t].pc = "idle") /\ urgent = <<>> /\ tasks = <<>>
    BY <1>2 DEF Quiet
<1>4. \A S : Cardinality(Among(urgent, S)) = 0 /\ Cardinality(Among(tasks, S)) = 0
    BY <1>3, AmongNone
<1>5. ASSUME NEW m \in Msg PROVE msg[m] = 0
  <2>1. ~Sending(m) /\ Bearers(m) = {}
    BY <1>3 DEF Sending, Bearers, Handling, Thread
  <2> QED
    BY <2>1, <1>1, <1>4, FS_EmptySet DEF Counts, MessageCount, Sends
<1>6. ASSUME NEW a \in Chan, chan[a].ref > 0 PROVE chan[a].subs # <<>> \/ chan[a].key \in Filter
  <2>1. CASE Holders(a) # {}
    <3>1. PICK s \in Sub : sub[s].ref > 0 /\ sub[s].parent = a
      BY <2>1 DEF Holders
    <3>2. Listed(s)
      BY <3>1, <1>2, QuietListed
    <3> QED
      BY <3>1, <3>2 DEF Listed
  <2>2. CASE Holders(a) = {}
    <3>1. Posting(a) = {}
      BY <1>3 DEF Posting, Thread
    <3>2. InCollection(a)
      BY <2>2, <3>1, <1>1, <1>4, <1>6, FS_EmptySet DEF Counts, ChannelCount, Collects, Posts
    <3>3. PICK k \in Key : channels[k] = a
      BY <3>2 DEF InCollection
    <3>4. chan[a].key = k /\ Used(k) /\ a # NULL
      BY <3>3, <1>1, PubSubAssumption DEF Sound, KeyAgrees, Orderly
    <3> QED
      BY <3>3, <3>4, <1>3 DEF Used, Serves
  <2> QED
    BY <2>1, <2>2
<1> QED
    BY <1>5, <1>6

\* The invariant, when whoever subscribes or unsubscribes does it alone.
THEOREM AlwaysTidy ==
    ASSUME OneSubscribes
    PROVE  Spec => []Tidy
<1>1. Tidy /\ [Next]_vars => Tidy'
    BY TidyStep
<1> QED
    BY <1>1, TidyInitially, PTL DEF Spec

\* fio_channel_dup, fio_subscription_free and fio_msg_internal_free count exactly what holds
\* a channel, a subscription or a message, and at rest nothing is left allocated but what is
\* subscribed to: for any number of publishers and workers, while one thread, or Ruby methods
\* under the GVL, call fio_subscribe and fio_unsubscribe.
THEOREM ReferencesCounted ==
    ASSUME OneSubscribes
    PROVE  Spec => []ReferencesSound
<1>1. Tidy => ReferencesSound
    BY TidyTypes, TidyChannelRefs, TidyOtherRefs, TidyNothingLeaks DEF ReferencesSound, RefCountsExact
<1>2. Spec => []Tidy
    BY AlwaysTidy
<1> QED
    BY <1>1, <1>2, PTL
=============================================================================
