---------------------------- MODULE MCConnections ----------------------------
(* Connections on small instances: a set of scenarios for each question. *)
EXTENDS Connections

CONSTANTS t1, t2

\* nothing connects, nobody waits and nobody calls
Nothing ==
    [reactors |-> {t1}, accepts |-> {}, upgrades |-> {"close"}, waits |-> {}, limits |-> {},
     onOpen |-> {"none"}, onMessage |-> {"none"}, onShutdown |-> {"none"}, outside |-> {},
     slow |-> FALSE, stops |-> TRUE, maxCall |-> 2, maxObj |-> 1, maxData |-> 1, maxSub |-> 0, maxMsg |-> 0]

\* a request that becomes a websocket, its protocol served by two reactor threads
WebSocket ==
    [Nothing EXCEPT !.reactors = {t1, t2}, !.accepts = {"http"}, !.upgrades = {"ws"},
                    !.onOpen = {"listen"}, !.maxObj = 2, !.maxSub = 1, !.maxMsg = 1]
Broadcast == [WebSocket EXCEPT !.reactors = {t1}, !.onOpen = {"subscribe"}]

\* a websocket with a slow peer: pings, timeouts and connections that do not drain
SlowPeer ==
    [Nothing EXCEPT !.accepts = {"http"}, !.upgrades = {"ws"}, !.onMessage = {"write", "close"},
                    !.slow = TRUE, !.maxObj = 2, !.maxData = 2]

\* a stream of events, to which an application thread subscribes and unsubscribes
EventStream ==
    [Nothing EXCEPT !.accepts = {"http"}, !.upgrades = {"sse", "close"}, !.maxObj = 2,
                    !.outside = {"write", "listen", "unsubscribe"},
                    !.maxSub = 1, !.maxMsg = 1]

\* one that an application thread closes
ClosedStream ==
    [EventStream EXCEPT !.outside = {"close", "listen"}, !.onOpen = {"subscribe"}]

\* raw sockets that write, close and subscribe in their callbacks
Raw ==
    [Nothing EXCEPT !.accepts = {"raw"}, !.onOpen = {"none", "subscribe"},
                    !.onMessage = {"write", "close", "unsubscribe"}, !.maxData = 2, !.maxSub = 1]
RawSockets == {[Raw EXCEPT !.slow = TRUE], [Raw EXCEPT !.maxMsg = 1]}

\* one that its on_shutdown closes or writes to
ClosesLast == [Raw EXCEPT !.onShutdown = {"none", "close", "write"}]

\* a fiber that waits for a descriptor, again and again
ReadWaits == [Nothing EXCEPT !.waits = {{"r"}}, !.limits = {"some"}, !.maxObj = 2, !.slow = TRUE]
Waits == {ReadWaits, [ReadWaits EXCEPT !.waits = {{"r", "w"}}, !.limits = {"zero"}]}

Sound == {WebSocket, Broadcast, SlowPeer, EventStream, ClosedStream, ClosesLast} \cup RawSockets \cup Waits

\* a fiber's descriptor hangs up while another thread enters its protocol
Window == {[ReadWaits EXCEPT !.reactors = {t1, t2}, !.maxObj = 1]}

\* two threads resume one fiber
TwoThreads == {[ReadWaits EXCEPT !.reactors = {t1, t2}, !.waits = {{"r", "w"}}, !.maxObj = 1, !.slow = FALSE]}

\* an application thread writes to a websocket
ThreadWrites == {[WebSocket EXCEPT !.reactors = {t1}, !.outside = {"write", "close"}]}

\* the application keeps a uuid through more connections than it counts
Reconnects == {[Raw EXCEPT !.reactors = {t1}, !.maxObj = 3, !.maxMsg = 1, !.outside = {"write"}]}

\* a fiber waits without a timeout after a wait with one
NoLimit == {[ReadWaits EXCEPT !.waits = {{"w"}}, !.limits = {"some", "nil"}]}
=============================================================================
