------------------------------ MODULE Channels -----------------------------
(***************************************************************************)
(* The subscriptions of one websocket or event source of the HTTP layer: a *)
(* list the connection's handlers add to and take from, the post office    *)
(* that delivers in other threads, and the end of the connection, which    *)
(* revokes whatever is left. The post office itself is PubSub: here it     *)
(* promises on_unsubscribe, once, after the last message.                  *)
(***************************************************************************)
EXTENDS Integers, FiniteSets, Sequences, SequencesExt

CONSTANTS
    Subscription,
    Direct,        \* the ones without a callback: messages go to the client
    Handler,       \* threads that run the connection's callbacks
    Outside,       \* threads that hold a duplicate of the event source's handle
    Clumsy,        \* what these do besides: "subscribe", "unsubscribe"
    MaxMessages,   \* bound: messages published
    MaxCalls,      \* bound: messages under way for one subscription
    FREE

VARIABLES
    conn,     \* the connection: its kind, whether the uuid is valid, its locks, whether on_close was called
    obj,      \* ws_s or http_sse_internal_s: its list of subscriptions, references, uuid, and whether it is allocated
    office,   \* what the post office knows of each subscription
    told,     \* how often on_unsubscribe was called for it
    optimized,\* the counter of websocket_optimize4broadcasts
    thread,   \* where each thread is: [pc, sub]
    sent,     \* messages published
    wrong     \* memory was used after its release, or a callback came after on_close

vars == <<conn, obj, office, told, optimized, thread, sent, wrong>>

Thread == Handler \cup Outside
Poster == "poster"
Idle == [pc |-> "idle", sub |-> FREE]
At(t, pc) == thread[t].pc = pc
Goes(t, pc, s) == thread' = [thread EXCEPT ![t] = [pc |-> pc, sub |-> s]]
Sse == conn.kind = "sse"
Touches(used) == wrong' = (wrong \/ (used /\ ~obj.alive))   \* the object is read or written
(* fio_unsubscribe waits for the message under way; those to come are dropped. *)
Left(o, s) == [o EXCEPT ![s].state = IF @ = "active" THEN "leaving" ELSE @]
Quiet(s) == thread[Poster].sub # s
Freed(o) == [o EXCEPT !.ref = @ - 1, !.alive = @ /\ o.ref > 1]                \* http_sse_try_free

Init ==
    /\ conn \in [kind : {"ws", "sse"}, valid : {TRUE}, task : {FREE}, write : {FREE}, ended : {FALSE}]
    /\ obj = [list |-> <<>>, ref |-> IF conn.kind = "sse" THEN 1 + Cardinality(Outside) ELSE 1, valid |-> TRUE, alive |-> TRUE]
    /\ office = [s \in Subscription |-> [state |-> "none", calls |-> 0]]
    /\ told = [s \in Subscription |-> 0]
    /\ optimized = 0
    /\ thread = [t \in Thread \cup {Poster} |-> Idle]
    /\ sent = 0 /\ wrong = FALSE

-----------------------------------------------------------------------------
(* A callback of the connection, under the task lock; it may go on while   *)
(* the connection is closed.                                               *)
handler_begins(t) ==
    /\ At(t, "idle") /\ conn.valid /\ conn.task = FREE
    /\ conn' = [conn EXCEPT !.task = t]
    /\ Goes(t, "callback", FREE)
    /\ UNCHANGED <<obj, office, told, optimized, sent, wrong>>
handler_ends(t) ==
    /\ At(t, "callback")
    /\ conn' = [conn EXCEPT !.task = FREE]
    /\ Goes(t, "idle", FREE)
    /\ UNCHANGED <<obj, office, told, optimized, sent, wrong>>
Calls(t, name) == IF t \in Handler THEN At(t, "callback") ELSE Sse /\ At(t, "idle") /\ name \in Clumsy
Home(t) == IF t \in Handler THEN "callback" ELSE "idle"

(* websocket_subscribe and http_sse_subscribe, up to the list.             *)
subscribe_refused(t, s) ==
    /\ Calls(t, "subscribe") /\ office[s].state = "none"
    /\ IF Sse THEN ~obj.valid ELSE ~conn.valid
    /\ office' = [office EXCEPT ![s].state = "left"]
    /\ told' = [told EXCEPT ![s] = IF Sse THEN @ ELSE @ + 1]   \* the event source's caller is not told
    /\ Touches(TRUE)
    /\ UNCHANGED <<conn, obj, optimized, thread, sent>>
subscribe(t, s) ==
    /\ Calls(t, "subscribe") /\ office[s].state = "none"
    /\ IF Sse THEN obj.valid ELSE conn.valid
    /\ office' = [office EXCEPT ![s].state = "active"]
    /\ obj' = IF Sse THEN [obj EXCEPT !.ref = @ + 1] ELSE obj
    /\ optimized' = IF Sse \/ s \notin Direct THEN optimized ELSE optimized + 1
    /\ Goes(t, "push", s)
    /\ Touches(TRUE)
    /\ UNCHANGED <<conn, told, sent>>
push(t) ==
    /\ At(t, "push")
    /\ obj' = [obj EXCEPT !.list = Append(@, thread[t].sub)]
    /\ Goes(t, Home(t), FREE)
    /\ Touches(TRUE)
    /\ UNCHANGED <<conn, office, told, optimized, sent>>

(* websocket_unsubscribe tells the post office first, http_sse_unsubscribe *)
(* takes the subscription off the list first. The id is the list's node.   *)
Listed(s) == Contains(obj.list, s)
unsubscribe(t, s) ==
    /\ Calls(t, "unsubscribe") /\ office[s].state \in {"active", "leaving"}
    /\ \A u \in Thread : thread[u].sub # s
    /\ t \in Handler => Listed(s)
    /\ Sse \/ Quiet(s)
    /\ wrong' = (wrong \/ ~Listed(s))
    /\ office' = IF Sse THEN office ELSE Left(office, s)
    /\ obj' = IF Sse THEN [obj EXCEPT !.list = SelectSeq(@, LAMBDA u : u # s)] ELSE obj
    /\ Goes(t, "remove", s)
    /\ UNCHANGED <<conn, told, optimized, sent>>
unsubscribed(t) ==
    /\ At(t, "remove")
    /\ Sse => Quiet(thread[t].sub)
    /\ office' = IF Sse THEN Left(office, thread[t].sub) ELSE office
    /\ obj' = IF Sse THEN obj ELSE [obj EXCEPT !.list = SelectSeq(@, LAMBDA u : u # thread[t].sub)]
    /\ Touches(~Sse)
    /\ Goes(t, Home(t), FREE)
    /\ UNCHANGED <<conn, told, optimized, sent>>

(* A duplicate of the handle: http_sse_close tests the uuid, http_sse_free *)
(* gives the reference back.                                               *)
sse_close(t) ==
    /\ Sse /\ At(t, "idle") /\ obj.valid /\ conn.valid
    /\ conn' = [conn EXCEPT !.valid = FALSE]
    /\ Touches(TRUE)
    /\ UNCHANGED <<obj, office, told, optimized, thread, sent>>
sse_free(t) ==
    /\ Sse /\ At(t, "idle")
    /\ obj' = Freed(obj)
    /\ Goes(t, "done", FREE)
    /\ Touches(TRUE)
    /\ UNCHANGED <<conn, office, told, optimized, sent>>

-----------------------------------------------------------------------------
publish ==
    /\ sent < MaxMessages
    /\ \E s \in Subscription : office[s].state = "active"
    /\ sent' = sent + 1
    /\ office' = [s \in Subscription |-> IF office[s].state = "active" /\ office[s].calls < MaxCalls
                                           THEN [office[s] EXCEPT !.calls = @ + 1] ELSE office[s]]
    /\ UNCHANGED <<conn, obj, told, optimized, thread, wrong>>

(* on_message: a message for a cancelled subscription or for a closed      *)
(* connection is dropped, one that finds the lock taken comes again.       *)
LockOf(s) == IF s \in Direct /\ ~Sse THEN "write" ELSE "task"
Reached == IF Sse THEN obj.valid /\ conn.valid ELSE conn.valid
Wanted(s) == office[s].state = "active"
on_message(s) ==
    /\ At(Poster, "idle") /\ office[s].calls > 0 /\ Wanted(s) /\ Reached
    /\ conn[LockOf(s)] = FREE
    /\ conn' = [conn EXCEPT ![LockOf(s)] = Poster]
    /\ Goes(Poster, "message", s)
    /\ wrong' = (wrong \/ conn.ended \/ (Sse /\ ~obj.alive))
    /\ UNCHANGED <<obj, office, told, optimized, sent>>
on_message_dropped(s) ==
    /\ At(Poster, "idle") /\ office[s].calls > 0 /\ ~(Wanted(s) /\ Reached)
    /\ office' = [office EXCEPT ![s].calls = @ - 1]
    /\ Touches(Sse /\ Wanted(s))
    /\ UNCHANGED <<conn, obj, told, optimized, thread, sent>>
on_message_ends ==
    /\ At(Poster, "message")
    /\ LET s == thread[Poster].sub IN
        /\ conn' = [conn EXCEPT ![LockOf(s)] = FREE]
        /\ office' = [office EXCEPT ![s].calls = @ - 1]
    /\ Touches(TRUE)     \* the lock is the object's
    /\ Goes(Poster, "idle", FREE)
    /\ UNCHANGED <<obj, told, optimized, sent>>
on_unsubscribe(s) ==
    /\ office[s].state = "leaving" /\ office[s].calls = 0
    /\ office' = [office EXCEPT ![s].state = "left"]
    /\ told' = [told EXCEPT ![s] = @ + 1]
    /\ optimized' = IF Sse \/ s \notin Direct THEN optimized ELSE optimized - 1
    /\ obj' = IF Sse THEN Freed(obj) ELSE obj
    /\ Touches(Sse)
    /\ UNCHANGED <<conn, thread, sent>>

-----------------------------------------------------------------------------
(* The socket is closed, then on_close runs where no lock is held.         *)
closes ==
    /\ conn.valid
    /\ conn' = [conn EXCEPT !.valid = FALSE]
    /\ UNCHANGED <<obj, office, told, optimized, thread, sent, wrong>>
on_close_KeepsLast == \* mutant
    /\ ~conn.valid /\ ~conn.ended /\ conn.task = FREE /\ conn.write = FREE
    /\ conn' = [conn EXCEPT !.ended = TRUE]
    /\ office' = FoldLeft(Left, office, IF obj.list = <<>> THEN obj.list ELSE Front(obj.list))
    /\ obj' = LET o == [obj EXCEPT !.list = <<>>, !.valid = FALSE] IN
              IF Sse THEN Freed(o) ELSE [o EXCEPT !.ref = 0, !.alive = FALSE]
    /\ Touches(TRUE)
    /\ UNCHANGED <<told, optimized, thread, sent>>
on_close ==
    /\ ~conn.valid /\ ~conn.ended /\ conn.task = FREE /\ conn.write = FREE
    /\ conn' = [conn EXCEPT !.ended = TRUE]
    /\ office' = FoldLeft(Left, office, obj.list)
    /\ obj' = LET o == [obj EXCEPT !.list = <<>>, !.valid = FALSE] IN
              IF Sse THEN Freed(o) ELSE [o EXCEPT !.ref = 0, !.alive = FALSE]
    /\ Touches(TRUE)
    /\ UNCHANGED <<told, optimized, thread, sent>>

Next ==
    \/ \E t \in Handler : handler_begins(t) \/ handler_ends(t)
    \/ \E t \in Thread : push(t) \/ unsubscribed(t)
    \/ \E t \in Thread, s \in Subscription : subscribe(t, s) \/ subscribe_refused(t, s) \/ unsubscribe(t, s)
    \/ \E t \in Outside : sse_close(t) \/ sse_free(t)
    \/ publish \/ on_message_ends \/ closes \/ on_close
    \/ \E s \in Subscription : on_message(s) \/ on_message_dropped(s) \/ on_unsubscribe(s)
Spec == Init /\ [][Next]_vars

-----------------------------------------------------------------------------
TypeOK ==
    /\ conn \in [kind : {"ws", "sse"}, valid : BOOLEAN, task : Handler \cup {Poster, FREE}, write : {Poster, FREE}, ended : BOOLEAN]
    /\ obj \in [list : Seq(Subscription), ref : Nat, valid : BOOLEAN, alive : BOOLEAN]
    /\ office \in [Subscription -> [state : {"none", "active", "leaving", "left"}, calls : 0..MaxCalls]]
    /\ told \in [Subscription -> Nat] /\ optimized \in Nat /\ sent \in 0..MaxMessages /\ wrong \in BOOLEAN
    /\ thread \in [Thread \cup {Poster} ->
                     [pc : {"idle", "callback", "push", "remove", "message", "done"}, sub : Subscription \cup {FREE}]]

Known == {s \in Subscription : office[s].state \in {"active", "leaving"}}

(* The object of a websocket or an event source is used only while it is   *)
(* allocated, and no message reaches a handler once on_close was called,   *)
(* though messages and on_unsubscribe run in other threads after it        *)
(* (http_sse_try_free, fio_protocol_try_lock).                             *)
UsedWhileAlive == ~wrong

(* Everything that holds an event source is counted: the connection, the   *)
(* duplicates of its handle, the subscriptions the post office still       *)
(* knows; broadcasts are optimised while a websocket takes them directly.  *)
Counted ==
    /\ Sse => /\ obj.ref = Cardinality(Known) + Cardinality({t \in Outside : ~At(t, "done")}) + (IF conn.ended THEN 0 ELSE 1)
              /\ obj.alive <=> obj.ref > 0
    /\ optimized = IF Sse THEN 0 ELSE Cardinality(Known \cap Direct)

(* "All subscriptions are automatically revoked once the connection is     *)
(* closed" (http.h): when the connection has ended and no call is under    *)
(* way, the post office has none of them left, and on_unsubscribe is       *)
(* called once for each.                                                   *)
RevokedAtTheEnd ==
    /\ conn.ended /\ (\A t \in Thread : thread[t].sub = FREE) => \A s \in Subscription : office[s].state # "active"
    /\ \A s \in Subscription : told[s] <= 1 /\ (told[s] = 1 => office[s].state = "left")

ChannelsSound == UsedWhileAlive /\ Counted /\ RevokedAtTheEnd
=============================================================================
