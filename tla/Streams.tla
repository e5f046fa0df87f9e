------------------------------ MODULE Streams ------------------------------
(***************************************************************************)
(* A connection's bytes arrive in reads of any size: each reading protocol *)
(* is fed a stream of whole messages cut at arbitrary places, and hands on *)
(* what it understood.                                                     *)
(***************************************************************************)
EXTENDS Framing, WebSocketFrames

CONSTANTS Cases, \* what is written, a set for each protocol
          pipeline_limit, MaxRead, boundary, HeaderLine

H == INSTANCE Http1Parser WITH pipeline_limit <- pipeline_limit
M == INSTANCE MimeForm

VARIABLES
    kind,   \* which protocol reads the stream
    want,   \* the messages that were written
    input,  \* the bytes still to arrive
    st,     \* the protocol's reader
    split   \* the messages of which a cut fell into a line end that the reader does not keep together

vars == <<kind, want, input, st, split>>

Fresh(k) == CASE k = "redis" -> RespFresh
              [] k = "cluster" -> FrameFresh
              [] k = "http" -> H!Http1Fresh
              [] k = "server" -> WsFresh(FALSE)
              [] k = "client" -> WsFresh(TRUE)

(* A form's body is complete before it is parsed.                          *)
Init ==
    \E i \in DOMAIN Cases : \E c \in Cases[i] :
      /\ kind = c.kind /\ want = c.want /\ split = {}
      /\ IF c.kind = "form"
           THEN \E w \in c.windows : input = <<>> /\ st = M!FormFresh(c.bytes, w)
           ELSE input = c.bytes /\ st = Fresh(c.kind)

(* The last chunk's length line, without all of the line end that follows. *)
ChunkedEndSplit(left, rest) ==
    rest # <<>> /\ \E e \in {<<>>, <<CR>>} : IsSuffix(<<"0">> \o EOL \o e, left)
(* Between the CR and the LF before a delimiter, or before an empty value. *)
WindowSplits(p) ==
    p.in_obj /\ Has(p.body, p.at, EOL) /\ \E e \in {<<>>, EOL} : Has(p.body, p.at + 2, e \o M!Delimiter)
Splits(yes) == split' = IF yes THEN split \cup {Len(st'.out) + 1} ELSE split

Reads(n, New(_, _)) ==
    /\ st' = New(st, SubSeq(input, 1, n))
    /\ input' = SubSeq(input, n + 1, Len(input))
    /\ Splits(kind = "http" /\ ChunkedEndSplit(st.buf \o SubSeq(input, 1, n), input'))
    /\ UNCHANGED <<kind, want>>

Fits(room) == LET m == IF Len(input) < room THEN Len(input) ELSE room IN
                   IF m < MaxRead THEN m ELSE MaxRead

RedisReads == kind = "redis" /\ ~Overrun(st) /\ \E n \in 1..Fits(Len(input)) : Reads(n, redis_on_data)
ClusterReads == kind = "cluster" /\ \E n \in 1..Fits(Len(input)) : Reads(n, fio_cluster_on_data)
WebSocketReads ==
    /\ kind \in {"server", "client"} /\ ~st.closed
    /\ \E n \in 1..Fits(WsRoom(st)) : Reads(n, ws_on_data)
(* ... also on an event forced without new data.                           *)
HttpReads ==
    /\ kind = "http" /\ ~st.failed
    /\ \E n \in 0..Fits(Len(input)) : Reads(n, H!http1_on_data)
FormReads ==
    /\ kind = "form" /\ M!FormRuns(st)
    /\ st' = M!http_parse_multipart(st)
    /\ Splits(WindowSplits(st'))
    /\ UNCHANGED <<kind, want, input>>

Next == RedisReads \/ ClusterReads \/ WebSocketReads \/ HttpReads \/ FormReads
Spec == Init /\ [][Next]_vars

-----------------------------------------------------------------------------
(* What is handed on of the message w.  A simple string keeps its CR; a    *)
(* chunked response whose last line end is split is taken for a request; a *)
(* value of a form whose line end is split keeps the CR, or the LF if it   *)
(* is an empty file.                                                       *)
ReadAs(i, w) ==
    CASE kind = "redis" /\ w[1] = "simple" -> {<<"string", Append(w[2], CR)>>}
      [] kind = "http" /\ w.kind = "chunked" ->
           {[w EXCEPT !.kind = IF i \in split THEN "request" ELSE "response"]}
      [] kind = "form" /\ i \in split ->
           {[w EXCEPT !.value = @ \o e] : e \in {<<>>, <<CR>>} \cup (IF w.file # "" /\ w.value = <<>> THEN {<<LF>>} ELSE {})}
      [] OTHER -> {w}

(* However the bytes are cut, the messages handed on are those written (in *)
(* the sense of ReadAs), in their order, none early and none twice; and    *)
(* when the last byte has been read (and no event is pending) none is      *)
(* missing: a reply is not held back or split because a read ended inside  *)
(* it.  (A websocket that sees the head of a message above max_msg_size    *)
(* closes instead.)  Redis's reader goes past its buffer's end only when a *)
(* read ends before the line end of an empty string.                       *)
IsWs == kind \in {"server", "client"}
Settled ==
    /\ kind = "http" => H!http1_on_data(st, <<>>) = st
    /\ kind = "form" => ~M!FormRuns(st)
    /\ kind = "redis" => ~Overrun(st)
EmptyStringCut == \E e \in {<<>>, <<CR>>} : IsSuffix(<<"$", "0">> \o EOL \o e, st.buf)
ReadAsWritten ==
    /\ Len(st.out) <= Len(want) /\ \A i \in DOMAIN st.out : st.out[i] \in ReadAs(i, want[i])
    /\ input = <<>> /\ Settled /\ ~(IsWs /\ st.closed) => Len(st.out) = Len(want)
    /\ kind = "redis" /\ Overrun(st) => EmptyStringCut

(* Every turn of the loop of http_parse_multipart consumes something of a  *)
(* complete form, also where a delimiter straddles two windows: a turn     *)
(* that does not is repeated for ever.                                     *)
FormAdvances == [][kind = "form" => st'.at > st.at]_vars

(* A websocket's buffer always has room for another byte of the frame it   *)
(* is waiting for: on_data never asks for 0 bytes, which it would take for *)
(* the end of the data and never be called again.                          *)
RoomToRead == IsWs => WsRoom(st) > 0
=============================================================================
