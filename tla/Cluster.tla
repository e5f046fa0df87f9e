------------------------------ MODULE Cluster ------------------------------
(***************************************************************************)
(* The processes of one server and the messages between them: the root     *)
(* process forks `workers` children through one sentinel thread each and   *)
(* respawns those that exit, the children connect to the root's Unix       *)
(* socket, and the post offices of all processes exchange publications,    *)
(* subscription notices and shutdown orders over those connections.        *)
(*                                                                         *)
(* A child number is one incarnation of a worker.  `up` and `down` are the *)
(* two directions of its socket: what was written before an end closed is  *)
(* still read by the other end, then that end sees the hang-up.  Reading   *)
(* one whole message is one step (the framing is in Framing.tla).          *)
(***************************************************************************)
EXTENDS Integers, Sequences, FiniteSets, SequencesExt

CONSTANTS
    Workers,    \* fio_data->workers, at least 2: one process has no cluster
    MaxChild,   \* bound: incarnations forked in one behaviour
    MaxFaults,  \* bound: crashes of a worker or of the root, SIGUSR1s
    Channel,    \* names subscribed to exactly
    Pattern,    \* names subscribed to with a match function
    Msg,        \* bound: each is published at most once
    MaxCalls,   \* bound: calls of fio_subscribe and fio_unsubscribe
    MaxEvents,  \* bound of BoundedSpec: calls, publications, signals and faults together
    COUNTER     \* values of a slot's counter: 2^8 in a uuid

ASSUME ClusterAssumption ==
    /\ Workers \in Nat \ {0, 1}
    /\ MaxChild \in Nat /\ MaxChild >= Workers
    /\ COUNTER \in Nat \ {0, 1}
    /\ IsFiniteSet(Channel) /\ IsFiniteSet(Pattern) /\ Channel \cap Pattern = {}

Child == 1..MaxChild
Root == 0
Proc == Child \cup {Root}
Fd == 1..MaxChild

VARIABLES
    root,       \* st, active, boot, tasks, main, usr1: the root's main thread
    fork_lock,  \* fio_fork_lock
    thread,     \* the sentinel thread of each child
    wk,         \* each child: st, uuid, type, names, pend
    conn,       \* the root's side of each child's connection
    clients,    \* cluster_data.clients, a list of uuids
    counter,    \* the counter of each of the root's descriptor slots
    leaked,     \* patterns the root stays subscribed to for nobody
    up, down,   \* bytes in flight to the root and to each child
    delivered,  \* history: how often each process was given each message
    audience,   \* history: who is owed each message
    faults,     \* crashes and restarts so far
    calls       \* subscribe and unsubscribe calls so far

vars == <<root, fork_lock, thread, wk, conn, clients, counter, leaked,
          up, down, delivered, audience, faults, calls>>

rootVars == <<root, fork_lock, thread>>
ipcVars == <<conn, clients, counter, leaked>>
wireVars == <<up, down>>
history == <<delivered, audience>>

NoConn == [st |-> "none", uuid |-> <<0, 0>>, pubsub |-> {}, patterns |-> {}]
NoWorker == [st |-> "none", uuid |-> "0", type |-> "NONE", names |-> {}, pend |-> <<>>]

Init ==
    /\ root = [st |-> "run", active |-> TRUE, boot |-> Workers, tasks |-> 0,
               main |-> "loop", usr1 |-> FALSE]
    /\ fork_lock = FALSE
    /\ thread = [c \in Child |-> "none"]
    /\ wk = [c \in Child |-> NoWorker]
    /\ conn = [c \in Child |-> NoConn]
    /\ clients = <<>>
    /\ counter = [f \in Fd |-> 1]
    /\ leaked = {}
    /\ up = [c \in Child |-> <<>>]
    /\ down = [c \in Child |-> <<>>]
    /\ delivered = [p \in Proc |-> [m \in Msg |-> 0]]
    /\ audience = [m \in Msg |-> [from |-> Root, to |-> {}]]
    /\ faults = 0
    /\ calls = 0

Forked == {c \in Child : wk[c].st # "none"}
Alive(c) == wk[c].st \in {"born", "run", "stopping", "halt"}
Active(c) == wk[c].st \in {"born", "run", "stopping"}   \* fio_data->active there
Live == {c \in Child : Alive(c)}
Listening == root.st \in {"run", "unwind"}
(* the root's only thread is free to perform tasks and to poll *)
Cycling == /\ root.st \in {"run", "unwind"}
           /\ root.main = "loop"
           /\ root.boot = 0
Message(t, a) == [type |-> t, arg |-> a]

Published(m) == \E p \in Proc : delivered[p][m] > 0
Give(p, m) == delivered' = [delivered EXCEPT ![p][m] = @ + 1]

-----------------------------------------------------------------------------
(* The sentinel: one thread per child that forks it and waits for its end. *)

(* fio_sentinel_task up to the new thread; in fio_start's own loop first.  *)
fio_sentinel_task ==
    LET c == Cardinality(Forked) + 1 IN
    /\ root.st = "run" /\ root.main = "loop"
    /\ root.boot > 0 \/ root.tasks > 0
    /\ IF root.active
         THEN /\ ~fork_lock
              /\ c \in Child /\ thread[c] = "none"
              /\ fork_lock' = TRUE
              /\ thread' = [thread EXCEPT ![c] = "fork"]
              /\ root' = [root EXCEPT !.main = "fork_wait",
                                      !.boot = IF @ > 0 THEN @ - 1 ELSE 0,
                                      !.tasks = IF root.boot > 0 THEN @ ELSE @ - 1]
         ELSE /\ root' = [root EXCEPT !.boot = 0,
                                      !.tasks = IF root.boot > 0 THEN @ ELSE @ - 1]
              /\ UNCHANGED <<fork_lock, thread>>
    /\ UNCHANGED <<wk, ipcVars, wireVars, history, faults, calls>>

(* What fio_on_fork leaves in the child's post office: closing the copies  *)
(* of the root's connections releases their channels and not their         *)
(* patterns (see fio_cluster_on_close).                                    *)
InheritedNames == leaked \cup UNION {conn[d].patterns : d \in Child}

fio_sentinel_worker_thread_fork(c) ==
    /\ thread[c] = "fork"
    /\ thread' = [thread EXCEPT ![c] = "waitpid"]
    /\ fork_lock' = FALSE
    /\ wk' = [wk EXCEPT ![c] =
                [NoWorker EXCEPT !.st = IF root.active THEN "born" ELSE "halt",
                                 !.names = InheritedNames]]
    /\ UNCHANGED <<root, ipcVars, wireVars, history, faults, calls>>

(* fork() fails: SIGINT to the root, fio_stop.                             *)
fio_sentinel_worker_thread_fail(c) ==
    /\ thread[c] = "fork"
    /\ faults < MaxFaults
    /\ faults' = faults + 1
    /\ thread' = [thread EXCEPT ![c] = "ended"]
    /\ fork_lock' = FALSE
    /\ wk' = [wk EXCEPT ![c].st = "gone"]
    /\ root' = [root EXCEPT !.active = FALSE]
    /\ UNCHANGED <<ipcVars, wireVars, history, calls>>

(* waitpid returned: respawn only while the root is active.                *)
fio_sentinel_worker_thread_wait(c) ==
    /\ thread[c] = "waitpid"
    /\ wk[c].st = "gone"
    /\ thread' = [thread EXCEPT ![c] = IF root.active THEN "lock" ELSE "ended"]
    /\ UNCHANGED <<root, fork_lock, wk, ipcVars, wireVars, history, faults, calls>>

(* "don't call any functions while forking": callbacks and the push of the *)
(* next sentinel task happen under the fork lock.                          *)
ForkLockFree_Ignored == TRUE   \* mutant
ForkLockFree == ~fork_lock
fio_sentinel_worker_thread_lock(c) ==
    /\ thread[c] = "lock"
    /\ ForkLockFree
    /\ fork_lock' = TRUE
    /\ thread' = [thread EXCEPT ![c] = "push"]
    /\ UNCHANGED <<root, wk, ipcVars, wireVars, history, faults, calls>>

fio_sentinel_worker_thread_push_Forgets(c) ==   \* mutant
    /\ thread[c] = "push"
    /\ fork_lock' = FALSE
    /\ thread' = [thread EXCEPT ![c] = "ended"]
    /\ UNCHANGED <<root, wk, ipcVars, wireVars, history, faults, calls>>
fio_sentinel_worker_thread_push(c) ==
    /\ thread[c] = "push"
    /\ root' = [root EXCEPT !.tasks = @ + 1]
    /\ fork_lock' = FALSE
    /\ thread' = [thread EXCEPT ![c] = "ended"]
    /\ UNCHANGED <<wk, ipcVars, wireVars, history, faults, calls>>

-----------------------------------------------------------------------------
(* The root's side of the connections.                                     *)

UuidValid(u) == counter[u[1]] = u[2]
FreeFd == {f \in Fd : \A c \in Child : conn[c].st = "attached" => conn[c].uuid[1] # f}
LowestFd == CHOOSE f \in FreeFd : \A g \in FreeFd : f <= g
Bump(f) == (counter[f] + 1) % COUNTER

(* fio_cluster_server_sender: one copy for each entry of the list that is  *)
(* the uuid of an open connection, the sender's own uuid excepted.         *)
Copies(c, avoid) ==
    IF conn[c].st = "attached" /\ conn[c].uuid # avoid /\ Alive(c)
      THEN Cardinality({i \in DOMAIN clients : clients[i] = conn[c].uuid})
      ELSE 0
fio_cluster_server_sender(m, avoid, times) ==
    down' = [c \in Child |-> down[c] \o [i \in 1..(times * Copies(c, avoid)) |-> m]]

(* fio_cluster_listen_accept, from the poll and after every fork.          *)
fio_cluster_listen_accept(c) ==
    /\ Listening
    /\ Cycling \/ (root.main = "fork_wait" /\ ~fork_lock)
    /\ conn[c].st = "backlog"
    /\ counter' = [counter EXCEPT ![LowestFd] = Bump(LowestFd)]
    /\ conn' = [conn EXCEPT ![c].st = "attached",
                            ![c].uuid = <<LowestFd, Bump(LowestFd)>>]
    /\ clients' = Append(clients, <<LowestFd, Bump(LowestFd)>>)
    /\ UNCHANGED <<rootVars, wk, leaked, wireVars, history, faults, calls>>

(* The rest of fio_sentinel_task: the forking thread released the lock.    *)
fio_accept_after_fork ==
    /\ root.st = "run" /\ root.main = "fork_wait"
    /\ ~fork_lock
    /\ \A c \in Child : conn[c].st # "backlog"
    /\ root' = [root EXCEPT !.main = "loop"]
    /\ UNCHANGED <<fork_lock, thread, wk, ipcVars, wireVars, history, faults, calls>>

(* fio_cluster_server_handler                                              *)
RootReads(c, type) ==
    /\ Cycling
    /\ conn[c].st = "attached"
    /\ up[c] # <<>>
    /\ Head(up[c]).type = type
    /\ up' = [up EXCEPT ![c] = Tail(@)]
    /\ UNCHANGED <<rootVars, wk, clients, counter, leaked, faults, calls>>

AvoidUuid_Nobody(c) == <<0, 0>>   \* mutant
AvoidUuid(c) == conn[c].uuid
fio_cluster_server_forward(c) ==
    /\ RootReads(c, "FORWARD")
    /\ fio_cluster_server_sender(Head(up[c]), AvoidUuid(c), 1)
    /\ Give(Root, Head(up[c]).arg)
    /\ UNCHANGED <<conn, audience>>

fio_cluster_server_root(c) ==
    /\ RootReads(c, "ROOT")
    /\ Give(Root, Head(up[c]).arg)
    /\ UNCHANGED <<conn, down, audience>>

fio_cluster_server_sub(c) ==
    LET name == Head(up[c]).arg IN
    /\ RootReads(c, "SUB")
    /\ conn' = IF name \in Channel THEN [conn EXCEPT ![c].pubsub = @ \cup {name}]
                                   ELSE [conn EXCEPT ![c].patterns = @ \cup {name}]
    /\ UNCHANGED <<down, history>>

fio_cluster_server_unsub(c) ==
    LET name == Head(up[c]).arg IN
    /\ RootReads(c, "UNSUB")
    /\ conn' = IF name \in Channel THEN [conn EXCEPT ![c].pubsub = @ \ {name}]
                                   ELSE [conn EXCEPT ![c].patterns = @ \ {name}]
    /\ UNCHANGED <<down, history>>

fio_cluster_server_ignore(c) ==
    /\ RootReads(c, "SHUTDOWN")
    /\ UNCHANGED <<conn, down, history>>

(* fio_cluster_on_close in the root.  The slot is cleared before the       *)
(* callback runs, so the uuid it is given is the slot's next one: the list *)
(* is searched for that, and keeps the entry of the lost child.  The       *)
(* channels are unsubscribed, the patterns are not.                        *)
ClosedConn(c) == [conn[c] EXCEPT !.st = "closed", !.pubsub = {}, !.patterns = {}]
fio_cluster_on_close(c) ==
    LET f == conn[c].uuid[1]
        given == <<f, Bump(f)>> IN
    /\ Cycling
    /\ conn[c].st = "attached"
    /\ wk[c].st = "gone"
    /\ up[c] = <<>>
    /\ counter' = [counter EXCEPT ![f] = Bump(f)]
    /\ clients' = RemoveFirst(clients, given)
    /\ conn' = [conn EXCEPT ![c] = ClosedConn(c)]
    /\ leaked' = leaked \cup conn[c].patterns
    /\ down' = [down EXCEPT ![c] = <<>>]
    /\ UNCHANGED <<rootVars, wk, up, history, faults, calls>>

-----------------------------------------------------------------------------
(* The workers.                                                            *)

(* fio_connect2cluster, right after the fork.                              *)
fio_connect2cluster(c) ==
    /\ wk[c].st = "born"
    /\ IF Listening
         THEN /\ conn' = [conn EXCEPT ![c].st = "backlog"]
              /\ wk' = [wk EXCEPT ![c].st = "run"]
              /\ UNCHANGED root
         ELSE /\ wk' = [wk EXCEPT ![c].st = "halt"]   \* fio_cluster_on_fail
              /\ root' = [root EXCEPT !.active = FALSE]
              /\ UNCHANGED conn
    /\ UNCHANGED <<fork_lock, thread, clients, counter, leaked, wireVars, history, faults, calls>>

(* fio_cluster_on_connect: tell the root about every channel that exists.  *)
Notices_None(names) == <<>>   \* mutant
Notices(names) == SetToSeq({Message("SUB", n) : n \in names})
fio_cluster_on_connect(c) ==
    /\ Active(c) /\ wk[c].uuid = "0"
    /\ conn[c].st \in {"backlog", "attached"}
    /\ wk' = [wk EXCEPT ![c].uuid = "open"]
    /\ up' = [up EXCEPT ![c] = @ \o Notices(wk[c].names)]
    /\ UNCHANGED <<rootVars, ipcVars, down, history, faults, calls>>

(* The root hung up before that: fio_cluster_on_fail.                      *)
fio_cluster_on_fail(c) ==
    /\ Active(c) /\ wk[c].uuid = "0"
    /\ conn[c].st = "closed"
    /\ wk' = [wk EXCEPT ![c].st = "halt"]
    /\ root' = [root EXCEPT !.active = FALSE]
    /\ UNCHANGED <<fork_lock, thread, ipcVars, wireVars, history, faults, calls>>

(* fio_cluster_client_sender: without a valid uuid the message goes back   *)
(* to the task queue while the process is active.                          *)
ClientSend(c, w, m) ==
    /\ up' = [up EXCEPT ![c] = IF w.uuid = "open" THEN Append(@, m) ELSE @]
    /\ wk' = [wk EXCEPT ![c] = [w EXCEPT !.pend =
                IF w.uuid # "open" /\ Active(c) THEN Append(@, m) ELSE @]]

fio_cluster_client_sender(c) ==
    /\ Alive(c)
    /\ wk[c].pend # <<>>
    /\ ClientSend(c, [wk[c] EXCEPT !.pend = Tail(@)], Head(wk[c].pend))
    /\ UNCHANGED <<rootVars, ipcVars, down, history, faults, calls>>

(* fio_subscribe / fio_unsubscribe of a name's first and last subscriber,  *)
(* with fio_cluster_inform_root_about_channel.                             *)
Inform(c, w, type, n) ==
    IF w.uuid = "0"
      THEN wk' = [wk EXCEPT ![c] = w] /\ UNCHANGED up
      ELSE ClientSend(c, w, Message(type, n))

fio_subscribe(c, n) ==
    /\ wk[c].st = "run" /\ calls < MaxCalls
    /\ calls' = calls + 1
    /\ n \notin wk[c].names
    /\ Inform(c, [wk[c] EXCEPT !.names = @ \cup {n}], "SUB", n)
    /\ UNCHANGED <<rootVars, ipcVars, down, history, faults>>

fio_unsubscribe(c, n) ==
    /\ wk[c].st = "run" /\ calls < MaxCalls
    /\ calls' = calls + 1
    /\ n \in wk[c].names
    /\ Inform(c, [wk[c] EXCEPT !.names = @ \ {n}], "UNSUB", n)
    /\ UNCHANGED <<rootVars, ipcVars, down, history, faults>>

(* fio_publish with FIO_PUBSUB_CLUSTER and with FIO_PUBSUB_ROOT, by a      *)
(* worker and by the root.                                                 *)
Audience == {c \in Child : /\ conn[c].st = "attached"
                           /\ wk[c].st = "run" /\ wk[c].uuid = "open"}
fio_publish_cluster(c, m) ==
    /\ wk[c].st = "run"
    /\ ~Published(m) /\ audience[m].to = {}
    /\ ClientSend(c, wk[c], Message("FORWARD", m))
    /\ Give(c, m)
    /\ audience' = [audience EXCEPT ![m] = [from |-> c, to |-> Audience \cup {c, Root}]]
    /\ UNCHANGED <<rootVars, ipcVars, down, faults, calls>>

fio_publish_root(c, m) ==
    /\ wk[c].st = "run"
    /\ ~Published(m) /\ audience[m].to = {}
    /\ ClientSend(c, wk[c], Message("ROOT", m))
    /\ audience' = [audience EXCEPT ![m] = [from |-> c, to |-> {Root}]]
    /\ UNCHANGED <<rootVars, ipcVars, down, delivered, faults, calls>>

fio_publish_in_root(m) ==
    /\ Cycling /\ root.active
    /\ ~Published(m) /\ audience[m].to = {}
    /\ fio_cluster_server_sender(Message("FORWARD", m), <<0, 0>>, 1)
    /\ Give(Root, m)
    /\ audience' = [audience EXCEPT ![m] = [from |-> Root, to |-> Audience \cup {Root}]]
    /\ UNCHANGED <<rootVars, wk, ipcVars, up, faults, calls>>

(* fio_cluster_client_handler; `type` keeps the last message's type.       *)
fio_cluster_client_handler(c) ==
    LET m == Head(down[c]) IN
    /\ Alive(c) /\ wk[c].uuid = "open"
    /\ down[c] # <<>>
    /\ down' = [down EXCEPT ![c] = Tail(@)]
    /\ wk' = [wk EXCEPT ![c].type = m.type,
                        ![c].st = IF m.type = "SHUTDOWN" /\ @ = "run" THEN "stopping" ELSE @]
    /\ IF m.type = "FORWARD" THEN Give(c, m.arg) ELSE UNCHANGED delivered
    /\ UNCHANGED <<rootVars, ipcVars, up, audience, faults, calls>>

(* fio_cluster_on_close in a worker: a hang-up without a shutdown message  *)
(* means that the parent crashed; the worker interrupts itself.            *)
fio_cluster_on_close_worker_Ignores(c) ==   \* mutant
    /\ Alive(c) /\ wk[c].uuid = "open"
    /\ conn[c].st = "closed"
    /\ down[c] = <<>>
    /\ wk' = [wk EXCEPT ![c].uuid = "lost"]
    /\ UNCHANGED <<rootVars, ipcVars, wireVars, history, faults, calls>>
fio_cluster_on_close_worker(c) ==
    /\ Alive(c) /\ wk[c].uuid = "open"
    /\ conn[c].st = "closed"
    /\ down[c] = <<>>
    /\ wk' = [wk EXCEPT ![c].uuid = "lost",
                        ![c].st = IF @ = "run" /\ wk[c].type # "SHUTDOWN"
                                    THEN "stopping" ELSE @]
    /\ UNCHANGED <<rootVars, ipcVars, wireVars, history, faults, calls>>

(* The graceful stop ended: fio_worker_cleanup, whose on_shutdown writes   *)
(* a SHUTDOWN to the root before the connection is closed, then exit(0).   *)
fio_stop_worker(c) ==
    /\ wk[c].st = "stopping"
    /\ wk' = [wk EXCEPT ![c].st = "halt"]
    /\ UNCHANGED <<rootVars, ipcVars, wireVars, history, faults, calls>>

fio_worker_cleanup(c) ==
    /\ wk[c].st = "halt"
    /\ up' = [up EXCEPT ![c] = IF wk[c].uuid = "open"
                                 THEN Append(@, Message("SHUTDOWN", "")) ELSE @]
    /\ down' = [down EXCEPT ![c] = <<>>]
    /\ wk' = [wk EXCEPT ![c].st = "gone", ![c].pend = <<>>]
    /\ UNCHANGED <<rootVars, ipcVars, history, faults, calls>>

-----------------------------------------------------------------------------
(* Signals, the root's shutdown, and the faults.                           *)

sig_int_handler ==
    /\ root.st = "run" /\ root.active
    /\ root' = [root EXCEPT !.active = FALSE]
    /\ UNCHANGED <<fork_lock, thread, wk, ipcVars, wireVars, history, faults, calls>>

sig_usr1_handler ==
    /\ root.st = "run" /\ root.active /\ ~root.usr1
    /\ faults + Workers <= MaxFaults
    /\ faults' = faults + Workers
    /\ root' = [root EXCEPT !.usr1 = TRUE]
    /\ UNCHANGED <<fork_lock, thread, wk, ipcVars, wireVars, history, calls>>

(* fio_cycle_schedule_events: hot restart.                                 *)
fio_cluster_signal_children ==
    /\ Cycling /\ root.usr1
    /\ root' = [root EXCEPT !.usr1 = FALSE]
    /\ fio_cluster_server_sender(Message("SHUTDOWN", ""), <<0, 0>>, 1)
    /\ UNCHANGED <<fork_lock, thread, wk, ipcVars, up, history, faults, calls>>

(* fio_worker_cleanup in the root: every cluster connection's on_shutdown  *)
(* broadcasts a SHUTDOWN to all of them ...                                *)
Attached == {c \in Child : conn[c].st = "attached"}
fio_cluster_on_shutdown ==
    /\ root.st = "run" /\ Cycling
    /\ ~root.active
    /\ root' = [root EXCEPT !.st = "unwind"]
    /\ fio_cluster_server_sender(Message("SHUTDOWN", ""), <<0, 0>>, Cardinality(Attached))
    /\ UNCHANGED <<fork_lock, thread, wk, ipcVars, up, history, faults, calls>>

(* ... then everything is closed, the listening socket too ...             *)
HangUp ==
    /\ conn' = [c \in Child |->
                  IF conn[c].st \in {"backlog", "attached"} THEN ClosedConn(c) ELSE conn[c]]
    /\ leaked' = leaked \cup UNION {conn[c].patterns : c \in Child}
    /\ counter' = [f \in Fd |-> IF f \in FreeFd THEN counter[f] ELSE Bump(f)]
    /\ up' = [c \in Child |-> <<>>]

fio_cluster_force_close ==
    /\ root.st = "unwind"
    /\ root' = [root EXCEPT !.st = "wait"]
    /\ HangUp
    /\ UNCHANGED <<fork_lock, thread, wk, clients, down, history, faults, calls>>

(* ... and the root waits for its children.                                *)
fio_worker_cleanup_wait ==
    /\ root.st = "wait"
    /\ Live = {}
    /\ root' = [root EXCEPT !.st = "finished"]
    /\ UNCHANGED <<fork_lock, thread, wk, ipcVars, wireVars, history, faults, calls>>

WorkerCrash(c) ==
    /\ Alive(c) /\ faults < MaxFaults
    /\ faults' = faults + 1
    /\ wk' = [wk EXCEPT ![c].st = "gone", ![c].pend = <<>>]
    /\ down' = [down EXCEPT ![c] = <<>>]
    /\ UNCHANGED <<rootVars, ipcVars, up, history, calls>>

RootCrash ==
    /\ root.st \in {"run", "unwind", "wait"} /\ faults < MaxFaults
    /\ faults' = faults + 1
    /\ root' = [root EXCEPT !.st = "crashed"]
    /\ thread' = [c \in Child |-> "ended"]
    /\ HangUp
    /\ UNCHANGED <<fork_lock, wk, clients, down, history, calls>>

-----------------------------------------------------------------------------
Spawning ==
    \/ fio_sentinel_task
    \/ fio_accept_after_fork
    \/ \E c \in Child :
          \/ fio_sentinel_worker_thread_fork(c)
          \/ fio_sentinel_worker_thread_wait(c)
          \/ fio_sentinel_worker_thread_lock(c)
          \/ fio_sentinel_worker_thread_push(c)

RootStep ==
    \/ \E c \in Child :
          \/ fio_cluster_listen_accept(c)
          \/ fio_cluster_server_forward(c)
          \/ fio_cluster_server_root(c)
          \/ fio_cluster_server_sub(c)
          \/ fio_cluster_server_unsub(c)
          \/ fio_cluster_server_ignore(c)
          \/ fio_cluster_on_close(c)
    \/ fio_cluster_signal_children
    \/ fio_cluster_on_shutdown
    \/ fio_cluster_force_close
    \/ fio_worker_cleanup_wait

WorkerStep(c) ==
    \/ fio_connect2cluster(c)
    \/ fio_cluster_on_connect(c)
    \/ fio_cluster_on_fail(c)
    \/ fio_cluster_client_sender(c)
    \/ fio_cluster_client_handler(c)
    \/ fio_cluster_on_close_worker(c)
    \/ fio_stop_worker(c)
    \/ fio_worker_cleanup(c)

Use ==
    \/ \E c \in Child, n \in Channel \cup Pattern : fio_subscribe(c, n) \/ fio_unsubscribe(c, n)
    \/ \E c \in Child, m \in Msg : fio_publish_cluster(c, m) \/ fio_publish_root(c, m)
    \/ \E m \in Msg : fio_publish_in_root(m)

Environment ==
    \/ sig_int_handler
    \/ sig_usr1_handler
    \/ RootCrash
    \/ \E c \in Child : WorkerCrash(c) \/ fio_sentinel_worker_thread_fail(c)

Next == Spawning \/ RootStep \/ (\E c \in Child : WorkerStep(c)) \/ Use \/ Environment

(* Every process is scheduled and reads its sockets; calls of the          *)
(* application, signals and faults owe nothing.                            *)
Fairness ==
    /\ WF_vars(Spawning) /\ WF_vars(RootStep)
    /\ \A c \in Child :
         /\ WF_vars(fio_sentinel_worker_thread_fork(c))
         /\ WF_vars(fio_sentinel_worker_thread_wait(c))
         /\ SF_vars(fio_sentinel_worker_thread_lock(c))
         /\ WF_vars(fio_sentinel_worker_thread_push(c))
         /\ WF_vars(fio_connect2cluster(c))
         /\ WF_vars(fio_cluster_on_connect(c) \/ fio_cluster_on_fail(c))
         /\ WF_vars(fio_cluster_client_sender(c))
         /\ WF_vars(fio_cluster_client_handler(c) \/ fio_cluster_on_close_worker(c))
         /\ WF_vars(fio_stop_worker(c))
         /\ WF_vars(fio_worker_cleanup(c))

Spec == Init /\ [][Next]_vars /\ Fairness

(* What TLC explores: Spec with the events bounded.  The application uses  *)
(* the cluster once the first workers are forked; a respawned worker is    *)
(* used at any moment of its start.                                        *)
Events == calls + faults + Cardinality({m \in Msg : audience[m].to # {}})
            + (IF root.active THEN 0 ELSE 1)
BoundedNext ==
    \/ Spawning \/ RootStep \/ (\E c \in Child : WorkerStep(c))
    \/ Events < MaxEvents /\ root.boot = 0 /\ Use
    \/ Events < MaxEvents /\ Environment
BoundedSpec == Init /\ [][BoundedNext]_vars /\ Fairness

-----------------------------------------------------------------------------
(* The state keeps its shape: the counters within their width, the root's  *)
(* connections and the workers' in states that belong together.            *)
TypeOK ==
    /\ root \in [st : {"run", "unwind", "wait", "finished", "crashed"}, active : BOOLEAN,
                 boot : 0..Workers, tasks : 0..MaxChild, main : {"loop", "fork_wait"},
                 usr1 : BOOLEAN]
    /\ thread \in [Child -> {"none", "fork", "waitpid", "lock", "push", "ended"}]
    /\ counter \in [Fd -> 0..(COUNTER - 1)]
    /\ \A c \in Child :
         /\ conn[c].st = "attached" => UuidValid(conn[c].uuid)
         /\ wk[c].uuid = "open" => conn[c].st \in {"backlog", "attached", "closed"}

(* The child is a copy of the root at the moment of the fork: no other     *)
(* sentinel thread is then inside its callbacks or pushing a task, where   *)
(* it would leave a lock held that no thread of the child releases.        *)
ForksAlone ==
    \A c \in Child : thread[c] = "fork" =>
        /\ fork_lock
        /\ \A d \in Child \ {c} : thread[d] \notin {"fork", "push"}

(* A publication is given to each process once: the root forwards it to    *)
(* every worker but the one it came from, which has delivered it itself.   *)
(* Nobody is left out: once no copy is in flight, every process that was   *)
(* connected when it was published, and still is, has it.                  *)
InFlight(m) ==
    \E c \in Child : \E s \in {up[c], down[c], wk[c].pend} :
        \E i \in DOMAIN s : s[i].arg = m
InService(p) == p = Root \/ (wk[p].st = "run" /\ wk[p].uuid = "open" /\ conn[p].st = "attached")
DeliveredAtMostOnce == \A p \in Proc, m \in Msg : delivered[p][m] <= 1
DeliveredOnceEverywhere ==
    /\ DeliveredAtMostOnce
    /\ \A m \in Msg :
         root.st = "run" /\ audience[m].to # {} /\ ~InFlight(m)
           /\ (audience[m].from # Root => Alive(audience[m].from))
           => \A p \in audience[m].to : InService(p) => delivered[p][m] = 1

(* The root is subscribed to what a connected worker is subscribed to, on  *)
(* whatever side of the connect the worker's calls fell: "the root process *)
(* will call `subscribe` for any channel in any process".                  *)
RootMirrorsWorkers ==
    \A c \in Child :
        InService(c) /\ up[c] = <<>> /\ wk[c].pend = <<>>
          => conn[c].pubsub \cup conn[c].patterns = wk[c].names

(* A worker that exits or crashes is replaced while the root is active.    *)
WorkersAreReplaced ==
    []<>(Cardinality(Live) = Workers \/ ~root.active \/ root.st = "crashed")

(* After a stop signal, after a crash of the root, every process ends,     *)
(* including a worker forked or connecting at that moment.                 *)
StopEndsEveryProcess ==
    (~root.active \/ root.st = "crashed")
        ~> (Live = {} /\ root.st \in {"finished", "crashed"})

(* "no shutdown message received - parent crashed": false for a worker     *)
(* that connects while the root is shutting down (README 5).               *)
CrashIsReal ==
    [][\A c \in Child :
         fio_cluster_on_close_worker(c) /\ wk[c].st = "run" /\ wk'[c].st = "stopping"
           => root.st = "crashed"]_vars

(* The root's list of clients holds open connections only; false, see      *)
(* fio_cluster_on_close (README 5).                                        *)
ClientsAreOpen ==
    root.st = "run" => \A i \in DOMAIN clients :
         \E c \in Child : conn[c].st = "attached" /\ conn[c].uuid = clients[i]

(* The root is subscribed to a pattern only while some connected worker    *)
(* wants it; false after a worker is lost (README 5).                      *)
PatternsAreWanted == leaked = {}

(* What processes share: a publication reaches each connected process once  *)
(* (fio_cluster_server_sender), the root has the workers' subscriptions    *)
(* (fio_cluster_server_handler), and no process forks while another thread  *)
(* of it may hold a lock (fio_fork_lock).                                   *)
ClusterSound == DeliveredOnceEverywhere /\ RootMirrorsWorkers /\ ForksAlone
=============================================================================
