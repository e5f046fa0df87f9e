------------------------------- MODULE Redis -------------------------------
(***************************************************************************)
(* The Redis engine of the root process: one connection for commands and   *)
(* publications, one for subscriptions, the queue of commands of which at  *)
(* most the first is outstanding, and reconnection after a loss.  The      *)
(* replies are parsed by resp_parser.h (Framing).   The server is external *)
(* and modelled as this client relies on it: it executes what it reads in  *)
(* order, answers in order and forgets a connection that closes.           *)
(***************************************************************************)
EXTENDS Integers, Sequences, FiniteSets, SequencesExt

CONSTANTS
    Cmd,        \* bound: commands (or publications), each attached once
    MaxLosses,  \* bound: failed connects and lost connections
    MaxCalls,   \* bound: subscribe and unsubscribe calls
    MaxMsgs,    \* bound: messages the server publishes
    MaxUses,    \* bound: commands, calls and messages together
    Auth        \* whether a password is configured

(* A command of the application is not one of the engine's own. *)
ASSUME RedisAssumption == "AUTH" \notin Cmd /\ "PING" \notin Cmd

Name == {"channel", "pattern"}  \* the pattern matches the channel
Link == {"pub", "sub"}

VARIABLES
    uuid,       \* of each connection: "none" (-1), "connecting" or "up"
    closing,    \* fio_close was called for the subscription connection
    tasks,      \* deferred redis_connect tasks of each connection
    ref, flag, created,
    queue, pub_sent,
    wire,       \* written on the pub connection, not yet executed
    replies,    \* the commands whose replies are on their way back
    executed,   \* history: what the server executed, in order
    mail,       \* filter -2 messages on their way to the root's forwarder
    back,       \* filter -10-pid messages on their way to the caller
    attached,   \* history: the commands sent, in order
    answered,   \* history: the commands whose callback ran
    chans,      \* names that have subscribers in the post office
    subwire,    \* written on the sub connection, not yet executed
    srv,        \* names the server's side of the sub connection is subscribed to
    inbox,      \* pushed by the server on the sub connection
    last_ch,    \* r->last_ch
    got, sent,  \* history: publications given to the cluster, made by the server
    losses, calls

conns == <<uuid, closing, tasks, ref, flag, created>>
cmds == <<queue, pub_sent, wire, replies, executed, mail, back, attached, answered>>
subs == <<chans, subwire, srv, inbox, last_ch, got, sent, calls>>
vars == <<conns, cmds, subs, losses>>

(* redis_engine_create; redis_on_facil_start defers the first connect.     *)
Init ==
    /\ uuid = [i \in Link |-> "none"] /\ closing = FALSE
    /\ tasks = [i \in Link |-> IF i = "sub" THEN 1 ELSE 0]
    /\ ref = 2 /\ flag = TRUE /\ created = TRUE
    /\ queue = <<>> /\ pub_sent = FALSE /\ wire = <<>> /\ replies = <<>>
    /\ executed = <<>> /\ mail = <<>> /\ back = <<>> /\ attached = <<>> /\ answered = {}
    /\ chans = {} /\ subwire = <<>> /\ srv = {} /\ inbox = <<>>
    /\ last_ch = FALSE /\ got = 0 /\ sent = 0
    /\ losses = 0 /\ calls = 0

Allocated == ref > 0

-----------------------------------------------------------------------------
(* Commands.                                                               *)

(* redis_send_next_command_unsafe on queue q: the first command is written *)
(* when none is outstanding; a write to no connection is lost.             *)
redis_send_next_command_unsafe(q, outstanding, written) ==
    LET send == ~outstanding /\ q # <<>> IN
    /\ queue' = q
    /\ pub_sent' = (outstanding \/ send)
    /\ wire' = IF send /\ uuid'["pub"] # "none" THEN Append(written, Head(q)) ELSE written

(* redis_engine_send: the command is published to the root's filter -2     *)
(* with the engine, the callback and the pid of the caller.                *)
redis_engine_send(c) ==
    /\ Allocated /\ created
    /\ ~Contains(attached, c)
    /\ attached' = Append(attached, c)
    /\ mail' = Append(mail, c)
    /\ UNCHANGED <<conns, queue, pub_sent, wire, replies, executed, back, answered, subs, losses>>

(* redis_on_internal_cmd (and redis_on_publish_root) -> redis_attach_cmd   *)
Queued_Front(c) == <<c>> \o queue   \* mutant
Queued(c) == Append(queue, c)
redis_attach_cmd ==
    /\ Allocated /\ mail # <<>>
    /\ mail' = Tail(mail)
    /\ UNCHANGED <<conns, replies, executed, back, attached, answered, subs, losses>>
    /\ redis_send_next_command_unsafe(Queued(Head(mail)), pub_sent, wire)

ServerExecutes ==
    /\ uuid["pub"] = "up" /\ wire # <<>>
    /\ executed' = Append(executed, Head(wire))
    /\ replies' = Append(replies, Head(wire))
    /\ wire' = Tail(wire)
    /\ UNCHANGED <<conns, queue, pub_sent, mail, back, attached, answered, subs, losses>>

(* resp_on_pub_message: the reply is for the command at the queue's head;  *)
(* its callback, redis_forward_reply, publishes it to the caller's filter. *)
Outstanding_Kept == TRUE   \* mutant
Outstanding == FALSE
Shifted(q) == IF q = <<>> THEN q ELSE Tail(q)
resp_on_pub_message ==
    /\ uuid["pub"] = "up" /\ replies # <<>>
    /\ replies' = Tail(replies)
    /\ back' = IF queue # <<>> /\ Head(queue) \in Cmd THEN Append(back, Head(queue)) ELSE back
    /\ UNCHANGED <<conns, executed, mail, attached, answered, subs, losses>>
    /\ redis_send_next_command_unsafe(Shifted(queue), Outstanding, wire)

redis_on_internal_reply ==
    /\ back # <<>>
    /\ back' = Tail(back)
    /\ answered' = answered \cup {Head(back)}
    /\ UNCHANGED <<conns, queue, pub_sent, wire, replies, executed, mail, attached, subs, losses>>

-----------------------------------------------------------------------------
(* Connections.                                                            *)

(* redis_on_close, of a connection lost or never made.  A lost publication *)
(* connection closes the other one, whose reconnection reconnects both.    *)
Closed(i) == [uuid EXCEPT ![i] = "none"]
redis_on_close_sub ==
    /\ uuid' = Closed("sub") /\ closing' = FALSE
    /\ tasks' = IF flag THEN [tasks EXCEPT !["sub"] = @ + 1] ELSE tasks
    /\ ref' = IF flag THEN ref ELSE ref - 1
    /\ subwire' = <<>> /\ srv' = {} /\ inbox' = <<>>
    /\ last_ch' = FALSE
    /\ UNCHANGED <<flag, created, cmds, chans, got, sent, calls>>

ClosesSub == uuid["sub"] # "none"
redis_on_close_pub ==
    /\ uuid' = Closed("pub")
    /\ closing' = (closing \/ ClosesSub)
    /\ ref' = ref - 1
    /\ pub_sent' = FALSE
    /\ wire' = <<>> /\ replies' = <<>>
    /\ UNCHANGED <<tasks, flag, created, queue, executed, mail, back, attached, answered, subs>>

(* The socket is lost, or connecting fails (redis_on_connect_failed).      *)
Lost(i) ==
    /\ uuid[i] # "none" /\ losses < MaxLosses
    /\ losses' = losses + 1
    /\ IF i = "sub" THEN redis_on_close_sub ELSE redis_on_close_pub

SubCloses == closing /\ redis_on_close_sub /\ UNCHANGED losses

(* redis_connect, a deferred task                                          *)
redis_connect_Keeps(i) ==   \* mutant
    /\ tasks[i] > 0
    /\ tasks' = [tasks EXCEPT ![i] = @ - 1]
    /\ uuid' = [uuid EXCEPT ![i] = IF flag /\ @ = "none" THEN "connecting" ELSE @]
    /\ UNCHANGED <<ref, closing, flag, created, cmds, subs, losses>>
redis_connect(i) ==
    /\ tasks[i] > 0
    /\ tasks' = [tasks EXCEPT ![i] = @ - 1]
    /\ IF flag /\ uuid[i] = "none"
         THEN uuid' = [uuid EXCEPT ![i] = "connecting"] /\ UNCHANGED ref
         ELSE ref' = ref - 1 /\ UNCHANGED uuid
    /\ UNCHANGED <<closing, flag, created, cmds, subs, losses>>

(* redis_on_connect                                                        *)
Reattached_None(S) == <<>>   \* mutant
Reattached(S) == SetToSeq({<<"SUBSCRIBE", n>> : n \in S})
redis_on_connect_sub ==
    /\ uuid["sub"] = "connecting" /\ ~closing
    /\ uuid' = [uuid EXCEPT !["sub"] = "up"]
    /\ subwire' = subwire \o Reattached(chans)
    /\ IF uuid["pub"] = "none"
         THEN tasks' = [tasks EXCEPT !["pub"] = @ + 1] /\ ref' = ref + 1
         ELSE UNCHANGED <<tasks, ref>>
    /\ UNCHANGED <<closing, flag, created, cmds, chans, srv, inbox, last_ch, got, sent, calls, losses>>

redis_on_connect_pub ==
    /\ uuid["pub"] = "connecting"
    /\ uuid' = [uuid EXCEPT !["pub"] = "up"]
    /\ redis_send_next_command_unsafe((IF Auth THEN <<"AUTH">> ELSE <<>>) \o queue, FALSE, wire)
    /\ UNCHANGED <<closing, tasks, ref, flag, created, replies, executed, mail, back, attached, answered, subs, losses>>

(* The inactivity timeout of the publication connection.                   *)
redis_pub_ping ==
    /\ uuid["pub"] = "up" /\ losses < MaxLosses
    /\ losses' = losses + 1
    /\ IF queue # <<>>
         THEN redis_on_close_pub
         ELSE /\ UNCHANGED <<conns, replies, executed, mail, back, attached, answered, subs>>
              /\ redis_send_next_command_unsafe(<<"PING">>, pub_sent, wire)

-----------------------------------------------------------------------------
(* Subscriptions.                                                          *)

(* redis_on_subscribe_root, redis_on_unsubscribe_root                      *)
Told(op, n) == IF uuid["sub"] # "none" THEN Append(subwire, <<op, n>>) ELSE subwire
redis_on_subscribe_root(n) ==
    /\ Allocated /\ created /\ calls < MaxCalls /\ n \notin chans
    /\ calls' = calls + 1
    /\ chans' = chans \cup {n}
    /\ subwire' = Told("SUBSCRIBE", n)
    /\ UNCHANGED <<conns, cmds, srv, inbox, last_ch, got, sent, losses>>

redis_on_unsubscribe_root(n) ==
    /\ Allocated /\ created /\ calls < MaxCalls /\ n \in chans
    /\ calls' = calls + 1
    /\ chans' = chans \ {n}
    /\ subwire' = Told("UNSUBSCRIBE", n)
    /\ UNCHANGED <<conns, cmds, srv, inbox, last_ch, got, sent, losses>>

ServerSubscribes ==
    /\ uuid["sub"] = "up" /\ subwire # <<>>
    /\ LET n == Head(subwire)[2] IN
         srv' = IF Head(subwire)[1] = "SUBSCRIBE" THEN srv \cup {n} ELSE srv \ {n}
    /\ subwire' = Tail(subwire)
    /\ UNCHANGED <<conns, cmds, chans, inbox, last_ch, got, sent, calls, losses>>

(* Somebody publishes on the channel: a "message" for the exact name and a *)
(* "pmessage" for the pattern.                                             *)
ServerPublishes ==
    /\ uuid["sub"] = "up" /\ sent < MaxMsgs /\ srv # {}
    /\ sent' = sent + 1
    /\ inbox' = inbox \o (IF "channel" \in srv THEN <<"message">> ELSE <<>>)
                      \o (IF "pattern" \in srv THEN <<"pmessage">> ELSE <<>>)
    /\ UNCHANGED <<conns, cmds, chans, subwire, srv, last_ch, got, calls, losses>>

(* resp_on_sub_message: a pmessage for the channel of the last message is  *)
(* taken for its copy.                                                     *)
resp_on_sub_message ==
    /\ uuid["sub"] = "up" /\ inbox # <<>>
    /\ inbox' = Tail(inbox)
    /\ last_ch' = (last_ch \/ Head(inbox) = "message")
    /\ got' = IF Head(inbox) = "message" \/ ~last_ch THEN got + 1 ELSE got
    /\ UNCHANGED <<conns, cmds, chans, subwire, srv, sent, calls, losses>>

-----------------------------------------------------------------------------
(* redis_on_facil_shutdown clears the flag; then the reactor closes the    *)
(* connections.  redis_engine_destroy does the first half only.            *)
redis_on_facil_shutdown ==
    /\ flag
    /\ flag' = FALSE
    /\ UNCHANGED <<uuid, closing, tasks, ref, created, cmds, subs, losses>>

ReactorCloses(i) ==
    /\ ~flag /\ created /\ uuid[i] # "none"
    /\ IF i = "sub" THEN redis_on_close_sub ELSE redis_on_close_pub
    /\ UNCHANGED losses

redis_engine_destroy ==
    /\ created
    /\ created' = FALSE /\ flag' = FALSE
    /\ ref' = ref - 1
    /\ UNCHANGED <<uuid, closing, tasks, cmds, subs, losses>>

Reactor ==
    \/ \E i \in Link : redis_connect(i)
    \/ SubCloses
    \/ redis_attach_cmd \/ redis_on_internal_reply
    \/ resp_on_pub_message \/ resp_on_sub_message
Connects == redis_on_connect_sub \/ redis_on_connect_pub
Server == ServerExecutes \/ ServerSubscribes

Use ==
    \/ \E c \in Cmd : redis_engine_send(c)
    \/ \E n \in Name : redis_on_subscribe_root(n) \/ redis_on_unsubscribe_root(n)
    \/ ServerPublishes
    \/ redis_on_facil_shutdown
    \/ redis_engine_destroy
Trouble == redis_pub_ping \/ \E i \in Link : Lost(i) \/ ReactorCloses(i)

Uses == Len(attached) + calls + sent

Next ==
    \/ Reactor \/ Connects \/ Server \/ Trouble
    \/ Use /\ Uses' <= MaxUses

(* The reactor performs its tasks and reads; the server answers and, after *)
(* at most MaxLosses failures, lets the engine connect.                    *)
Fairness ==
    /\ \A i \in Link : WF_vars(redis_connect(i))
    /\ WF_vars(redis_attach_cmd) /\ WF_vars(redis_on_internal_reply)
    /\ WF_vars(SubCloses) /\ WF_vars(resp_on_pub_message) /\ WF_vars(resp_on_sub_message)
    /\ WF_vars(redis_on_connect_sub) /\ WF_vars(redis_on_connect_pub)
    /\ WF_vars(ServerExecutes) /\ WF_vars(ServerSubscribes)

Spec == Init /\ [][Next]_vars /\ Fairness

-----------------------------------------------------------------------------
(* The engine is counted once by its owner, once by each connection and    *)
(* once by each deferred connect: it is not freed under any of them, and   *)
(* it is freed with the last.                                              *)
RefCountExact ==
    ref = (IF created THEN 1 ELSE 0) + tasks["pub"] + tasks["sub"]
            + Cardinality({i \in Link : uuid[i] # "none"})

(* Whatever happened while the connection was down or being made, the      *)
(* server is subscribed to the names that have subscribers, once it has    *)
(* read what was written: fio_pubsub_reattach "allows engines that lost    *)
(* their connection to their Pub/Sub service to resubscribe".              *)
ServerKnowsChannels ==
    uuid["sub"] = "up" /\ subwire = <<>> /\ ~closing /\ created => srv = chans

(* Commands first reach the server in the order they were attached: losses *)
(* and repetitions never let a later command overtake an earlier one.      *)
FirstRun(c) == CHOOSE k \in DOMAIN executed :
                  executed[k] = c /\ \A j \in 1..(k - 1) : executed[j] # c
ExecutedInOrder ==
    \A i, j \in DOMAIN attached :
        i < j /\ Contains(executed, attached[i]) /\ Contains(executed, attached[j])
          => FirstRun(attached[i]) < FirstRun(attached[j])

(* "The message will be resent on network failures, until a response       *)
(* validates the fact that the command was sent (or the engine is          *)
(* destroyed)": every command's callback runs in the end.                  *)
CommandIsAnswered ==
    \A c \in Cmd : Contains(attached, c) ~> (c \in answered \/ ~flag)

(* ... and the response is that command's: false, see README 5.            *)
AnsweredWasExecuted == \A c \in answered : Contains(executed, c)

(* Every message the server publishes reaches the cluster once; false      *)
(* after the channel's last exact subscriber leaves (README 5).            *)
MessagesPassOn ==
    inbox = <<>> /\ losses = 0 /\ flag => got = sent

(* The engine lives exactly as long as connections and timers use it       *)
(* (redis_free), the server knows the subscribed names after every loss    *)
(* (redis_on_connect), and it executes commands first in the order of      *)
(* redis_engine_send, whatever is sent again.                              *)
EngineSound == RefCountExact /\ ServerKnowsChannels /\ ExecutedInOrder
=============================================================================
