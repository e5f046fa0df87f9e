------------------------------- MODULE PubSub -------------------------------
(***************************************************************************)
(* The post office of facil.io (fio.c, "Pub/Sub"): channels held by three  *)
(* collections (filters, names, patterns), subscriptions listed by their   *)
(* channel, and messages that travel as two kinds of task: one per channel *)
(* (fio_publish2channel_task, urgent queue) and, from it, one per          *)
(* subscription (fio_perform_subscription_callback).                       *)
(*                                                                         *)
(* A step is what one thread does between two lock operations another      *)
(* thread can observe.  The collection locks are only ever held inside a   *)
(* step; the lock of a channel and the lock of a subscription are held     *)
(* across steps.  Channels, subscriptions and messages are reference       *)
(* counted, and memory with a count of zero is freed: a step that reads a  *)
(* freed channel crashes the process: nothing is said of what follows it.  *)
(*                                                                         *)
(* iodine calls this API from Ruby methods, which hold Ruby's global lock  *)
(* (GVL) throughout the call, and from C callbacks, which do not; a        *)
(* subscription with a Ruby block needs the GVL to run it.                 *)
(***************************************************************************)
EXTENDS Integers, SequencesExt

CONSTANTS
    Name, Pattern, Filter,  \* what one can subscribe to, one set per collection
    Matches,                \* pairs <<pattern, name>> the match function accepts
    Sub,                    \* subscription objects, one per fio_subscribe call
    Mock,                   \* those made with fio_mock_on_message
    Block,                  \* those whose callback is a Ruby block
    Msg,                    \* message objects, one per fio_publish call
    Chan,                   \* addresses of channel objects, 1 .. MaxChan
    Subscriber, Publisher,  \* threads that call the subscription / publish API
    RubyCaller,             \* the callers that are Ruby methods
    Worker,                 \* threads that perform the deferred tasks
    MaxDefer,               \* bound on fio_message_defer calls
    MaxAttach,              \* bound on fio_pubsub_attach calls
    NULL, STACK

Key    == Name \cup Pattern \cup Filter
Caller == Subscriber \cup Publisher
Thread == Caller \cup Worker

ASSUME PubSubAssumption ==
    /\ Name \cap Pattern = {} /\ (Name \cup Pattern) \cap Filter = {} /\ IsFiniteSet(Pattern)
    /\ Matches \subseteq Pattern \X Name
    /\ Mock \subseteq Sub /\ Block \subseteq Sub /\ RubyCaller \subseteq Caller
    /\ Chan \subseteq Nat /\ MaxDefer \in Nat /\ MaxAttach \in Nat
    /\ NULL \notin Key \cup Sub \cup Msg \cup Chan \cup Thread
    /\ STACK \notin Chan \cup {NULL}

VARIABLES
    channels,  \* the three collections: Key -> channel or NULL
    chan,      \* Chan -> channel_s; key NULL while never allocated, ref 0 = free
    sub,       \* Sub -> subscription_s; active is `on_message` not NULL
    msg,       \* Msg -> reference count
    urgent,    \* task_queue_urgent, its fio_publish2channel_task entries
    tasks,     \* task_queue_normal, its fio_perform_subscription_callback entries
    th,        \* Thread -> where it is and what it holds
    gvl,       \* holder of Ruby's global lock
    engine,    \* an external engine: attached, the keys it was told of, and (history)
               \* those of which it was told the end after the beginning of a successor
    life,      \* Sub -> what the caller knows of its subscription
    ended,     \* Sub -> calls of on_unsubscribe
    got,       \* <<subscription, message>> -> times the callback ran
    due,       \* <<subscription, message>> pairs subscribed when published
    sent,      \* messages fio_publish was called for
    defers, attaches

vars == <<channels, chan, sub, msg, urgent, tasks, th, gvl, engine, life,
          ended, got, due, sent, defers, attaches>>

NoWork == [pc |-> "idle", s |-> NULL, ch |-> NULL, tmpl |-> STACK, key |-> NULL, m |-> NULL]

TypeOK ==
    /\ channels \in [Key -> Chan \cup {NULL}]
    /\ chan \in [Chan -> [key : Key \cup {NULL}, ref : Nat, subs : Seq(Sub), lock : Thread \cup {NULL}]]
    /\ sub \in [Sub -> [parent : Chan \cup {NULL}, ref : Nat, lock : Thread \cup {NULL}, active : BOOLEAN]]
    /\ msg \in [Msg -> Nat]
    /\ urgent \in Seq([ch : Chan, m : Msg])
    /\ tasks \in Seq([s : Sub, m : Msg])
    /\ th \in [Thread -> [pc : {"idle", "insert", "lock", "locked", "slock", "remove", "destroy",
                                "finish", "patterns", "reattach", "publish", "callback", "running", "crashed"},
                          s : Sub \cup {NULL}, ch : Chan \cup {NULL}, tmpl : Chan \cup {STACK},
                          key : Key \cup {NULL}, m : Msg \cup {NULL}]]
    /\ gvl \in Thread \cup {NULL}
    /\ engine \in [attached : BOOLEAN, subs : SUBSET Key, overtaken : SUBSET Key]
    /\ life \in [Sub -> {"none", "subscribing", "live", "cancelling", "cancelled"}]
    /\ ended \in [Sub -> Nat] /\ got \in [Sub \X Msg -> Nat]
    /\ due \subseteq Sub \X Msg /\ sent \subseteq Msg
    /\ defers \in Nat /\ attaches \in Nat

Init ==
    /\ channels = [k \in Key |-> NULL]
    /\ chan = [a \in Chan |-> [key |-> NULL, ref |-> 0, subs |-> <<>>, lock |-> NULL]]
    /\ sub = [s \in Sub |-> [parent |-> NULL, ref |-> 0, lock |-> NULL, active |-> FALSE]]
    /\ msg = [m \in Msg |-> 0]
    /\ urgent = <<>> /\ tasks = <<>>
    /\ th = [t \in Thread |-> NoWork]
    /\ gvl = NULL
    /\ engine = [attached |-> FALSE, subs |-> {}, overtaken |-> {}]
    /\ life = [s \in Sub |-> "none"]
    /\ ended = [s \in Sub |-> 0] /\ got = [p \in Sub \X Msg |-> 0]
    /\ due = {} /\ sent = {} /\ defers = 0 /\ attaches = 0

\* What a list of subscriptions has in common with S, in the list's order.
Kept(q, S) ==
    LET f[i \in 0 .. Len(q)] ==
            IF i = 0 THEN <<>> ELSE IF q[i] \in S THEN Append(f[i - 1], q[i]) ELSE f[i - 1]
    IN  f[Len(q)]

-----------------------------------------------------------------------------
(* Reference counts.                                                       *)

Live(a) == chan[a].ref > 0
fio_channel_free(c, a) == [c EXCEPT ![a].ref = @ - 1]
fio_channel_dup_Not(c, a) == c
fio_channel_dup(c, a) == [c EXCEPT ![a].ref = @ + 1]

\* fio_subscription_free on subscriptions `sb`: the last reference calls
\* on_unsubscribe and drops the subscription's reference to its channel.
fio_subscription_free(s, sb, c) ==
    /\ sub' = [sb EXCEPT ![s].ref = @ - 1]
    /\ IF sb[s].ref = 1
       THEN /\ Live(sub[s].parent)
            /\ chan' = fio_channel_free(c, sub[s].parent)
            /\ ended' = [ended EXCEPT ![s] = @ + 1]
       ELSE chan' = c /\ UNCHANGED ended

-----------------------------------------------------------------------------
(* Entering and leaving the API.  A Ruby method keeps the GVL until it     *)
(* returns.                                                                *)

Enter(t, work) ==
    /\ th[t].pc = "idle" /\ th' = [th EXCEPT ![t] = work]
    /\ IF t \in RubyCaller THEN gvl = NULL /\ gvl' = t ELSE UNCHANGED gvl

Goto(t, pc) == th' = [th EXCEPT ![t].pc = pc] /\ UNCHANGED gvl

Return(t) ==
    /\ th' = [th EXCEPT ![t] = NoWork]
    /\ gvl' = IF gvl = t THEN NULL ELSE gvl

-----------------------------------------------------------------------------
(* fio_subscribe.                                                          *)

fio_subscribe(t, s, k) ==
    /\ life[s] = "none" /\ life' = [life EXCEPT ![s] = "subscribing"]
    /\ sub' = [sub EXCEPT ![s].ref = 1, ![s].active = TRUE]
    /\ Enter(t, [NoWork EXCEPT !.pc = "insert", !.s = s, !.key = k])
    /\ UNCHANGED <<channels, chan, msg, urgent, tasks, engine, ended, got, due, sent, defers, attaches>>

\* Without an on_message callback the call fails, after calling on_unsubscribe.
fio_subscribe_error(t, s) ==
    /\ th[t].pc = "idle" /\ life[s] = "none" /\ life' = [life EXCEPT ![s] = "cancelled"]
    /\ ended' = [ended EXCEPT ![s] = @ + 1]
    /\ UNCHANGED <<channels, chan, sub, msg, urgent, tasks, th, gvl, engine, got, due, sent, defers, attaches>>

\* fio_ch_set_insert under the collection's lock: a missing channel is copied
\* from the template; for one that exists the template is destroyed, which is
\* harmless while it is the caller's stack (its count starts at 8).
Destroyed(c, tmpl) == IF tmpl = STACK THEN c ELSE fio_channel_free(c, tmpl)

set_insert(t) ==
    /\ th[t].pc = "insert" /\ (th[t].tmpl # STACK => Live(th[t].tmpl))
    /\ LET k == th[t].key IN
       IF channels[k] = NULL
       THEN /\ \E a \in Chan : chan[a].key = NULL
            /\ LET a == CHOOSE b \in Chan : /\ chan[b].key = NULL
                                            /\ \A c \in Chan : chan[c].key = NULL => b <= c
               IN  /\ channels' = [channels EXCEPT ![k] = a]
                   /\ chan' = [chan EXCEPT ![a].key = k, ![a].ref = 1]
                   /\ th' = [th EXCEPT ![t].pc = "lock", ![t].ch = a]
       ELSE /\ chan' = Destroyed(chan, th[t].tmpl)
            /\ th' = [th EXCEPT ![t].pc = "lock", ![t].ch = channels[k]]
            /\ UNCHANGED channels
    /\ UNCHANGED <<sub, msg, urgent, tasks, gvl, engine, life, ended, got, due, sent, defers, attaches>>

\* The channel's lock is taken after the collection's was released, and no
\* reference is held in between.
channel_lock(t) ==
    /\ th[t].pc = "lock" /\ Live(th[t].ch) /\ chan[th[t].ch].lock = NULL
    /\ chan' = [chan EXCEPT ![th[t].ch].lock = t]
    /\ Goto(t, "locked")
    /\ UNCHANGED <<channels, sub, msg, urgent, tasks, engine, life, ended, got, due, sent, defers, attaches>>

\* fio_pubsub_on_channel_create / _destroy: every attached engine is told, and
\* inside a worker process the root is told too.  Filters are not announced.
ToldOf(K) == [engine EXCEPT !.subs = @ \cup K, !.overtaken = @ \ K]
Told_Second(c, k) ==
    IF engine.attached /\ k \notin Filter /\ Len(c.subs) = 1 THEN ToldOf({k}) ELSE engine
Told(c, k) == IF engine.attached /\ k \notin Filter /\ c.subs = <<>> THEN ToldOf({k}) ELSE engine

\* fio_filter_dup_lock_internal's second look at the collection.  Still there:
\* count a reference, announce a first subscription, list it, unlock, return.
\* Gone: unlock and insert again, with the removed channel as the template.
channel_found(t) ==
    /\ th[t].pc = "locked" /\ Live(th[t].ch)
    /\ LET ch == th[t].ch  s == th[t].s  k == th[t].key IN
       IF channels[k] = ch
       THEN /\ chan' = [fio_channel_dup(chan, ch) EXCEPT ![ch].subs = Append(@, s), ![ch].lock = NULL]
            /\ engine' = Told(chan[ch], k)
            /\ sub' = [sub EXCEPT ![s].parent = ch]
            /\ life' = [life EXCEPT ![s] = "live"]
            /\ Return(t)
       ELSE /\ chan' = [chan EXCEPT ![ch].lock = NULL]
            /\ th' = [th EXCEPT ![t].pc = "insert", ![t].tmpl = ch]
            /\ UNCHANGED <<engine, sub, life, gvl>>
    /\ UNCHANGED <<channels, msg, urgent, tasks, ended, got, due, sent, defers, attaches>>

-----------------------------------------------------------------------------
(* fio_unsubscribe.                                                        *)

fio_unsubscribe(t, s) ==
    /\ life[s] = "live" /\ life' = [life EXCEPT ![s] = "cancelling"]
    /\ Enter(t, [NoWork EXCEPT !.pc = "slock", !.s = s])
    /\ UNCHANGED <<channels, chan, sub, msg, urgent, tasks, engine, ended, got, due, sent, defers, attaches>>

\* The subscription's lock is what keeps its callback from running meanwhile.
CanLock_Always(s) == TRUE
CanLock(s) == sub[s].lock = NULL

subscription_lock(t) ==
    /\ th[t].pc = "slock" /\ CanLock(th[t].s)
    /\ sub' = [sub EXCEPT ![th[t].s].lock = t]
    /\ Goto(t, "remove")
    /\ UNCHANGED <<channels, chan, msg, urgent, tasks, engine, life, ended, got, due, sent, defers, attaches>>

\* Under the channel's lock: leave its list and, as the last one, take the
\* channel out of its collection.  The hash used for that is the one of names,
\* so a filter's channel (stored under another hash) is not found and stays.
Emptied_Never(c) == FALSE
Emptied(c) == c.subs = <<>> /\ c.key \notin Filter

subscription_remove(t) ==
    /\ th[t].pc = "remove"
    /\ LET s    == th[t].s
           ch   == sub[s].parent
           left == [chan EXCEPT ![ch].subs = Kept(@, Sub \ {s})]
           k    == chan[ch].key
       IN  /\ Live(ch) /\ chan[ch].lock = NULL
           /\ IF Emptied(left[ch])
              THEN /\ channels' = [channels EXCEPT ![k] = NULL]
                   /\ chan' = IF channels[k] = NULL THEN left ELSE fio_channel_free(left, channels[k])
                   /\ th' = [th EXCEPT ![t].pc = "destroy", ![t].ch = ch, ![t].key = k]
              ELSE /\ chan' = left /\ th' = [th EXCEPT ![t].pc = "finish"]
                   /\ UNCHANGED channels
    /\ UNCHANGED <<sub, msg, urgent, tasks, gvl, engine, life, ended, got, due, sent, defers, attaches>>

\* Neither the channel's lock nor the collection's is held here: another channel
\* of the same name may have come, and have been announced, meanwhile.
Succeeded(t) ==
    LET a == channels[th[t].key] IN a \notin {NULL, th[t].ch} /\ chan[a].subs # <<>>

fio_pubsub_on_channel_destroy(t) ==
    /\ th[t].pc = "destroy" /\ Live(th[t].ch)
    /\ LET k == th[t].key IN
       engine' = IF ~engine.attached THEN engine
                 ELSE [engine EXCEPT !.subs = @ \ {k},
                                     !.overtaken = IF Succeeded(t) THEN @ \cup {k} ELSE @]
    /\ Goto(t, "finish")
    /\ UNCHANGED <<channels, chan, sub, msg, urgent, tasks, life, ended, got, due, sent, defers, attaches>>

\* on_message is removed, the lock released, the caller's reference dropped.
Silenced(s) == [sub EXCEPT ![s].lock = NULL, ![s].active = FALSE]

unsubscribe_finish(t) ==
    /\ th[t].pc = "finish"
    /\ fio_subscription_free(th[t].s, Silenced(th[t].s), chan)
    /\ life' = [life EXCEPT ![th[t].s] = "cancelled"]
    /\ Return(t)
    /\ UNCHANGED <<channels, msg, urgent, tasks, engine, got, due, sent, defers, attaches>>

-----------------------------------------------------------------------------
(* fio_publish (the FIO_PUBSUB_PROCESS engine) and fio_publish2process.    *)

Listeners(k) ==
    {s \in Sub \ Mock : \E j \in {k} \cup {p \in Pattern : <<p, k>> \in Matches} :
                           channels[j] # NULL /\ \E i \in DOMAIN chan[channels[j]].subs :
                                                    chan[channels[j]].subs[i] = s}

\* The exact match is found, counted and deferred first.
fio_publish(t, m, k) ==
    /\ m \notin sent /\ sent' = sent \cup {m}
    /\ due' = due \cup {<<s, m>> : s \in {s \in Listeners(k) : life[s] = "live"}}
    /\ LET ch == channels[k]  keeps == IF k \in Filter THEN 0 ELSE 1 IN
       /\ IF ch = NULL
          THEN msg' = [msg EXCEPT ![m] = keeps] /\ UNCHANGED <<chan, urgent>>
          ELSE /\ msg' = [msg EXCEPT ![m] = keeps + 1]
               /\ chan' = fio_channel_dup(chan, ch)
               /\ urgent' = Append(urgent, [ch |-> ch, m |-> m])
       /\ IF k \in Filter
          THEN th[t].pc = "idle" /\ (t \in RubyCaller => gvl = NULL) /\ UNCHANGED <<th, gvl>>
          ELSE Enter(t, [NoWork EXCEPT !.pc = "patterns", !.m = m, !.key = k])
    /\ UNCHANGED <<channels, sub, tasks, engine, life, ended, got, defers, attaches>>

\* Then every matching pattern, under the patterns' lock; then m is released.
publish_patterns(t) ==
    /\ th[t].pc = "patterns"
    /\ LET hit == {p \in Pattern : <<p, th[t].key>> \in Matches /\ channels[p] # NULL}
           m   == th[t].m
       IN  /\ chan' = [a \in Chan |-> IF \E p \in hit : channels[p] = a
                                      THEN [chan[a] EXCEPT !.ref = @ + 1] ELSE chan[a]]
           /\ urgent' = urgent \o SetToSeq({[ch |-> channels[p], m |-> m] : p \in hit})
           /\ msg' = [msg EXCEPT ![m] = @ + Cardinality(hit) - 1]
    /\ Return(t)
    /\ UNCHANGED <<channels, sub, tasks, engine, life, ended, got, due, sent, defers, attaches>>

-----------------------------------------------------------------------------
(* The two tasks.  A worker looks at the urgent queue first, but not at    *)
(* both queues together: it may hold a normal task when an urgent one comes.*)

fio_publish2channel_task(w) ==
    /\ th[w].pc = "idle" /\ urgent # <<>>
    /\ LET task == Head(urgent) IN
       /\ Live(task.ch)
       /\ IF chan[task.ch].lock # NULL
          THEN urgent' = Append(Tail(urgent), task) /\ UNCHANGED <<chan, th>>
          ELSE /\ urgent' = Tail(urgent)
               /\ chan' = [chan EXCEPT ![task.ch].lock = w]
               /\ th' = [th EXCEPT ![w] = [NoWork EXCEPT !.pc = "publish", !.ch = task.ch, !.m = task.m]]
    /\ UNCHANGED <<channels, sub, msg, tasks, gvl, engine, life, ended, got, due, sent, defers, attaches>>

Counted_Not(listed) == sub
Counted(listed) == [s \in Sub |-> IF s \in listed THEN [sub[s] EXCEPT !.ref = @ + 1] ELSE sub[s]]

fio_publish2channel(w) ==
    /\ th[w].pc = "publish" /\ Live(th[w].ch)
    /\ LET ch     == th[w].ch
           m      == th[w].m
           listed == Kept(chan[ch].subs, Sub \ Mock)
       IN  /\ sub' = Counted(ToSet(listed))
           /\ tasks' = tasks \o [i \in DOMAIN listed |-> [s |-> listed[i], m |-> m]]
           /\ msg' = [msg EXCEPT ![m] = @ + Len(listed) - 1]
           /\ chan' = [fio_channel_free(chan, ch) EXCEPT ![ch].lock = NULL]
    /\ Return(w)
    /\ UNCHANGED <<channels, urgent, engine, life, ended, got, due, sent, defers, attaches>>

\* fio_perform_subscription_callback: the subscription's lock is tried, and the
\* task put back when it is taken; a cancelled subscription drops the message.
Released(m) == [msg EXCEPT ![m] = @ - 1]

fio_perform_subscription_callback(w) ==
    /\ th[w].pc = "idle" /\ tasks # <<>>
    /\ LET task == Head(tasks)  s == task.s IN
       \/ /\ sub[s].lock # NULL
          /\ tasks' = Append(Tail(tasks), task)
          /\ UNCHANGED <<chan, sub, msg, th, gvl, ended>>
       \/ /\ sub[s].lock = NULL /\ sub[s].active
          /\ tasks' = Tail(tasks)
          /\ sub' = [sub EXCEPT ![s].lock = w]
          /\ th' = [th EXCEPT ![w] = [NoWork EXCEPT !.pc = "callback", !.s = s, !.m = task.m]]
          /\ UNCHANGED <<chan, msg, gvl, ended>>
       \/ /\ sub[s].lock = NULL /\ ~sub[s].active
          /\ tasks' = Tail(tasks)
          /\ msg' = Released(task.m)
          /\ fio_subscription_free(s, sub, chan)
          /\ UNCHANGED <<th, gvl>>
    /\ UNCHANGED <<channels, urgent, engine, life, got, due, sent, defers, attaches>>

\* iodine_on_pubsub runs a Ruby block inside the GVL.
on_message(w) ==
    /\ th[w].pc = "callback"
    /\ IF th[w].s \in Block THEN gvl = NULL /\ gvl' = w ELSE UNCHANGED gvl
    /\ got' = [got EXCEPT ![<<th[w].s, th[w].m>>] = @ + 1]
    /\ th' = [th EXCEPT ![w].pc = "running"]
    /\ UNCHANGED <<channels, chan, sub, msg, urgent, tasks, engine, life, ended, due, sent, defers, attaches>>

Unlocked(s) == [sub EXCEPT ![s].lock = NULL]

\* When the connection's protocol is locked the callback only marks the message
\* (fio_message_defer) and the same task is queued again with its references.
Requeued_Lost(w) == tasks
Requeued(w) == Append(tasks, [s |-> th[w].s, m |-> th[w].m])

fio_message_defer(w) ==
    /\ th[w].pc = "callback" /\ defers < MaxDefer /\ defers' = defers + 1
    /\ sub' = Unlocked(th[w].s)
    /\ tasks' = Requeued(w)
    /\ Return(w)
    /\ UNCHANGED <<channels, chan, msg, urgent, engine, life, ended, got, due, sent, attaches>>

callback_done(w) ==
    /\ th[w].pc = "running"
    /\ msg' = Released(th[w].m)
    /\ fio_subscription_free(th[w].s, Unlocked(th[w].s), chan)
    /\ Return(w)
    /\ UNCHANGED <<channels, urgent, tasks, engine, life, got, due, sent, defers, attaches>>

-----------------------------------------------------------------------------
(* Engines.                                                                *)

\* An engine that was detached starts anew, it knows nothing.
NewEngine(isAttached) == [attached |-> isAttached, subs |-> {}, overtaken |-> {}]

fio_pubsub_attach(t) ==
    /\ attaches < MaxAttach /\ attaches' = attaches + 1
    /\ engine' = IF engine.attached THEN engine ELSE NewEngine(TRUE)
    /\ Enter(t, [NoWork EXCEPT !.pc = "reattach"])
    /\ UNCHANGED <<channels, chan, sub, msg, urgent, tasks, life, ended, got, due, sent, defers>>

Announced == {k \in Name \cup Pattern : channels[k] # NULL}

fio_pubsub_reattach(t) ==
    /\ th[t].pc = "reattach"
    /\ engine' = ToldOf(Announced)
    /\ Return(t)
    /\ UNCHANGED <<channels, chan, sub, msg, urgent, tasks, life, ended, got, due, sent, defers, attaches>>

\* A detached engine is told nothing more, and is about to be destroyed.
fio_pubsub_detach(t) ==
    /\ th[t].pc = "idle" /\ (t \in RubyCaller => gvl = NULL) /\ engine.attached
    /\ engine' = NewEngine(FALSE)
    /\ UNCHANGED <<channels, chan, sub, msg, urgent, tasks, th, gvl, life, ended, got, due, sent, defers, attaches>>

-----------------------------------------------------------------------------
(* A step that would read freed memory.                                    *)

Dangling(a) == a \in Chan /\ ~Live(a)
LastRef(s) == sub[s].ref = 1 /\ Dangling(sub[s].parent)

ReadsFreed(t) ==
    \/ th[t].pc \in {"lock", "locked", "destroy", "publish"} /\ Dangling(th[t].ch)
    \/ th[t].pc = "insert" /\ Dangling(th[t].tmpl)
    \/ th[t].pc = "remove" /\ Dangling(sub[th[t].s].parent)
    \/ th[t].pc \in {"finish", "running"} /\ LastRef(th[t].s)
    \/ t \in Worker /\ th[t].pc = "idle" /\ urgent # <<>> /\ Dangling(Head(urgent).ch)

use_after_free(t) ==
    /\ ReadsFreed(t)
    /\ th' = [u \in Thread |-> [NoWork EXCEPT !.pc = "crashed"]]
    /\ UNCHANGED <<channels, chan, sub, msg, urgent, tasks, gvl, engine, life, ended, got, due, sent, defers, attaches>>

\* What a thread does once it is inside a call or a task.
Progress(t) ==
    \/ set_insert(t) \/ channel_lock(t) \/ channel_found(t)
    \/ subscription_lock(t) \/ subscription_remove(t)
    \/ fio_pubsub_on_channel_destroy(t) \/ unsubscribe_finish(t)
    \/ publish_patterns(t) \/ fio_pubsub_reattach(t)
    \/ use_after_free(t)

Perform(w) ==
    \/ fio_publish2channel_task(w) \/ fio_publish2channel(w)
    \/ fio_perform_subscription_callback(w) \/ on_message(w) \/ callback_done(w)
    \/ use_after_free(w)

\* Nothing is under way; or the program has read freed memory.
Quiet == urgent = <<>> /\ tasks = <<>> /\ \A t \in Thread : th[t].pc = "idle"
Crashed == \E t \in Thread : th[t].pc = "crashed"

Rest == (Quiet \/ Crashed) /\ UNCHANGED vars

Next ==
    \/ \E t \in Subscriber, s \in Sub, k \in Key : fio_subscribe(t, s, k)
    \/ \E t \in Subscriber, s \in Sub : fio_subscribe_error(t, s) \/ fio_unsubscribe(t, s)
    \/ \E t \in Subscriber : fio_pubsub_attach(t) \/ fio_pubsub_detach(t)
    \/ \E t \in Publisher, m \in Msg, k \in Name \cup Filter : fio_publish(t, m, k)
    \/ \E t \in Caller : Progress(t)
    \/ \E w \in Worker : Perform(w) \/ fio_message_defer(w)
    \/ Rest

Spec == Init /\ [][Next]_vars

\* A thread inside a call or with a task to perform keeps running; calls need
\* not be made.
FairSpec ==
    /\ Spec
    /\ \A t \in Caller : WF_vars(Progress(t))
    /\ \A w \in Worker : WF_vars(Perform(w))

-----------------------------------------------------------------------------
(* Properties.                                                             *)

Held(t, pcs) == th[t].pc \in pcs
Entries(q, P(_)) == Cardinality({i \in DOMAIN q : P(q[i])})

\* A channel's count is the collection that holds it, the subscriptions made on
\* it that are not freed, and the channel tasks queued or running.  Neither a
\* lost reference (a channel freed under a publisher) nor a leaked one.
ChannelRefs ==
    ~Crashed => \A a \in Chan :
        chan[a].ref = Cardinality({k \in Key : channels[k] = a})
                      + Cardinality({s \in Sub : sub[s].ref > 0 /\ sub[s].parent = a})
                      + Entries(urgent, LAMBDA x : x.ch = a)
                      + Cardinality({w \in Worker : Held(w, {"publish"}) /\ th[w].ch = a})

\* A subscription's count is its owner's handle plus one per callback task
\* queued or running; a message's is its publisher plus its tasks.
SubscriptionAndMessageRefs ==
    ~Crashed =>
    /\ \A s \in Sub :
          sub[s].ref = Cardinality({x \in {s} : life[x] \in {"subscribing", "live", "cancelling"}})
                       + Entries(tasks, LAMBDA x : x.s = s)
                       + Cardinality({w \in Worker : Held(w, {"callback", "running"}) /\ th[w].s = s})
    /\ \A m \in Msg :
          msg[m] = Cardinality({t \in Caller : Held(t, {"patterns"}) /\ th[t].m = m})
                   + Entries(urgent, LAMBDA x : x.m = m) + Entries(tasks, LAMBDA x : x.m = m)
                   + Cardinality({w \in Worker : Held(w, {"publish", "callback", "running"}) /\ th[w].m = m})

\* Every count is exact: nothing is freed while it can be reached and nothing
\* stays allocated when it cannot.
RefCountsExact == ChannelRefs /\ SubscriptionAndMessageRefs

\* No thread ever reads a channel that was freed.
NoFreedChannelRead == ~Crashed

\* fio_unsubscribe's promise: once it returned, the callback is not running in
\* any thread and will not be run for the messages still on their way.
SilentAfterUnsubscribe ==
    \A s \in Sub : life[s] = "cancelled" => \A w \in Worker : ~(Held(w, {"callback", "running"}) /\ th[w].s = s)

\* A message reaches a subscription at most once, whatever is put back and
\* whatever channels and patterns the subscription's thread locks meanwhile.
DeliveredAtMostOnce == \A p \in Sub \X Msg : got[p] <= 1

\* Both, for messages that wait in queues while subscriptions come and go.
DeliveredOnceWhileSubscribed == SilentAfterUnsubscribe /\ DeliveredAtMostOnce

\* on_unsubscribe, which frees what the callback uses, comes once and only when
\* the subscription is cancelled and no task will touch it again.
OnUnsubscribeIsLast ==
    \A s \in Sub : ended[s] > 0 =>
        /\ ended[s] = 1 /\ life[s] = "cancelled"
        /\ \A i \in DOMAIN tasks : tasks[i].s # s
        /\ \A w \in Worker : ~(Held(w, {"callback", "running"}) /\ th[w].s = s)

\* At rest an attached engine was told (fio_pubsub_on_channel_create, _destroy,
\* fio_pubsub_reattach) of exactly the names and patterns that have subscriptions,
\* whichever threads subscribe and unsubscribe at once, but for those of which it
\* heard a channel's end after its successor's beginning.
Subscribed == {chan[sub[s].parent].key : s \in {x \in Sub : life[x] = "live"}} \ Filter

EngineAgrees == Quiet /\ engine.attached => engine.subs = Subscribed \ engine.overtaken

\* ... of which there are none with one subscribing thread, but with two.
AnnouncedInOrder == Quiet /\ engine.attached => Subscribed \subseteq engine.subs

\* At rest no message is allocated, and the only channels allocated are those
\* with subscriptions and (kept for good) those of filters.
NothingLeaks ==
    Quiet => /\ \A m \in Msg : msg[m] = 0
             /\ \A a \in Chan : chan[a].ref > 0 => chan[a].subs # <<>> \/ chan[a].key \in Filter

\* A message reaches everyone who was subscribed when it was published, unless
\* the subscription is cancelled first.
PublishedIsDelivered ==
    \A s \in Sub, m \in Msg : (<<s, m>> \in due) ~> (got[<<s, m>>] = 1 \/ life[s] # "live" \/ Crashed)

\* A cancelled subscription is eventually freed and its owner told.
CancelledIsReleased == \A s \in Sub : (life[s] = "cancelled") ~> (ended[s] = 1 \/ Crashed)

\* fio_unsubscribe returns (fio.h: "actual effects might be delayed, for
\* example, if the subscription's callback is running in another thread").
UnsubscribeReturns == \A s \in Sub : (life[s] = "cancelling") ~> (life[s] = "cancelled")

\* The post office's references (fio_channel_dup, fio_subscription_free,
\* fio_msg_internal_free) count what is held, and at rest nothing is left over.
ReferencesSound == TypeOK /\ RefCountsExact /\ NothingLeaks

\* Published messages reach the subscribed (fio_publish2channel_task) and
\* cancelled subscriptions are released (fio_unsubscribe).
SubscribersServed == PublishedIsDelivered /\ CancelledIsReleased

-----------------------------------------------------------------------------
(* For model checking: every pattern matches every name, and what may be   *)
(* exchanged.                                                              *)
AllMatch == Pattern \X Name
Symmetry == Permutations(Sub) \cup Permutations(Msg) \cup Permutations(Worker)
=============================================================================
