---------------------------- MODULE Http1Parser ----------------------------
(***************************************************************************)
(* http1_parser.h with the callbacks and the reading loop of http1.c.  A   *)
(* name, a path or any other word that the parser only passes on is one    *)
(* symbol: a line is looked at once all of it has arrived, so a read that  *)
(* ends within a word leaves the same state as one that ends before it.    *)
(***************************************************************************)
EXTENDS Bytes

CONSTANT pipeline_limit   \* messages handled in one event (8 in the code)

SP == " "

(* The symbols of words: header names as written and in lower case, the    *)
(* methods, the scheme of a request line in long form, the version.        *)
Lower == [n \in {"Content-Length", "Transfer-Encoding", "Host", "X-Sum", "Cookie"} |->
            CASE n = "Content-Length" -> "content-length"
              [] n = "Transfer-Encoding" -> "transfer-encoding"
              [] n = "Host" -> "host"
              [] n = "X-Sum" -> "x-sum"
              [] n = "Cookie" -> "cookie"]
http_tolower(n) == IF n \in DOMAIN Lower THEN Lower[n] ELSE n
Methods == {"GET", "POST"}
Version == "HTTP/1.1"
Scheme == "http://"

NoMessage == [kind |-> "request", line |-> <<>>, headers |-> <<>>, body |-> <<>>]
Http1Fresh ==
    [buf |-> <<>>, pos |-> 1, halt |-> FALSE, stage |-> "line", response |-> FALSE,
     clength |-> FALSE, chunked |-> FALSE, content_length |-> 0, read |-> 0,
     cur |-> NoMessage, out |-> <<>>, failed |-> FALSE]

Halt(p) == [p EXCEPT !.halt = TRUE]
http1_on_error(p) == [p EXCEPT !.failed = TRUE, !.pos = Len(p.buf) + 1, !.halt = TRUE]
http1_on_header(p, name, value) == [p EXCEPT !.cur.headers = Append(@, <<name, value>>)]

(* http1_on_request and http1_on_response: the message is handled and the  *)
(* parser's state is cleared; parsing stops after each message.            *)
http1_on_request(p) ==
    [Http1Fresh EXCEPT !.buf = p.buf, !.pos = p.pos, !.halt = TRUE,
       !.out = Append(p.out, [p.cur EXCEPT !.kind = IF p.response THEN "response" ELSE "request"])]

-----------------------------------------------------------------------------
(* The position of the end of the line that begins at p.pos, 0 if it has   *)
(* not arrived, and the end of its text.                                   *)
seek2eol(p) == memchr(p.buf, p.pos, Len(p.buf), LF)
TextEnd(p, eol) == IF At(p.buf, eol - 1) = CR THEN eol - 2 ELSE eol - 1

Split(text, b) ==
    LET Around(k) == [found |-> k # 0, before |-> SubSeq(text, 1, k - 1), after |-> SubSeq(text, k + 1, Len(text))]
    IN Around(memchr(text, 1, Len(text), b))

(* http1_consume_response_line: version, status, the text after it.        *)
http1_consume_response_line(p, text) ==
    LET v == Split(text, SP)
        s == Split(v.after, SP)
    IN IF ~v.found \/ ~s.found THEN http1_on_error(p)
       ELSE [p EXCEPT !.response = TRUE,
                      !.cur.line = <<v.before, <<Number(s.before, 1)>>, s.after>>]

(* http1_consume_request_line: method, path, query, version; the host of a *)
(* request line in long form stands for a Host header.                     *)
http1_consume_request_line(p, text) ==
    LET Line(method, local, q, version) ==
          [p EXCEPT !.cur.line = <<method, IF q.found THEN q.before ELSE local, IF q.found THEN q.after ELSE <<>>, version>>]
        Local(method, local, version) == Line(method, local, Split(local, "?"), version)
        Host(method, uri, slash) ==
          http1_on_header(Local(method, IF slash = 0 THEN <<"/">> ELSE SubSeq(uri.before, slash, Len(uri.before)), uri.after),
                          "host", IF slash = 0 THEN uri.before ELSE SubSeq(uri.before, 1, slash - 1))
        Uri(m, long, uri) ==
          IF ~m.found \/ ~uri.found \/ uri.after = <<>> THEN http1_on_error(p)
          ELSE IF long THEN Host(m.before, uri, memchr(uri.before, 1, Len(uri.before), "/"))
          ELSE Local(m.before, uri.before, uri.after)
        Method(m) == LET long == At(m.after, 1) = Scheme IN Uri(m, long, Split(IF long THEN Tail(m.after) ELSE m.after, SP))
    IN Method(Split(text, SP))

SkipBlank(p) == LET blank == {CR, LF, SP} IN
    IF \A k \in p.pos..Len(p.buf) : p.buf[k] \in blank THEN Len(p.buf) + 1
    ELSE CHOOSE k \in p.pos..Len(p.buf) :
           p.buf[k] \notin blank /\ \A j \in p.pos..(k - 1) : p.buf[j] \in blank

FirstLine(p0) ==
    LET Read(p, text) ==
          CASE At(text, 1) = Version -> http1_consume_response_line(p, text)
            [] At(text, 1) \in Methods -> http1_consume_request_line(p, text)
            [] OTHER -> http1_on_error(p)
        Then(q, eol) == IF q.failed THEN q ELSE [q EXCEPT !.stage = "headers", !.pos = eol + 1]
        Ends(p, eol) == IF eol = 0 THEN Halt(p)
                        ELSE Then(Read(p, SubSeq(p.buf, p.pos, TextEnd(p, eol))), eol)
        Begins(p) == Ends(p, seek2eol(p))
    IN Begins([p0 EXCEPT !.pos = SkipBlank(p0)])

-----------------------------------------------------------------------------
(* http1_consume_header_transfer_encoding: "chunked" at the end of the     *)
(* list is taken off it, with the separators around it.                    *)
Trimmed(v) == LET keep == {k \in DOMAIN v : v[k] \notin {",", SP}} IN
    SubSeq(v, 1, IF keep = {} THEN 0 ELSE CHOOSE k \in keep : \A j \in keep : j <= k)
http1_consume_header_transfer_encoding(p, name, value) ==
    LET v == Trimmed(value)
        rest == Trimmed(Front(v))
        q == [p EXCEPT !.chunked = TRUE, !.content_length = 0]
    IN IF v = <<>> \/ Last(v) # "chunked" THEN http1_on_header(p, name, v)
       ELSE IF rest = <<>> THEN q ELSE http1_on_header(q, name, rest)

(* http1_consume_header_top: what the parser itself reads of the headers.  *)
http1_consume_header_top(p, name, value) ==
    LET n == Number(value, 1) IN
    CASE name = "content-length" /\ p.chunked -> p
      [] name = "content-length" /\ ~p.chunked /\ p.clength /\ p.content_length # n -> http1_on_error(p)
      [] name = "content-length" /\ ~p.chunked /\ ~(p.clength /\ p.content_length # n) ->
           http1_on_header([p EXCEPT !.content_length = n, !.clength = TRUE], name, value)
      [] name = "transfer-encoding" /\ p.content_length = 0 ->
           http1_consume_header_transfer_encoding(p, name, value)
      [] OTHER -> http1_on_header(p, name, value)

(* http1_consume_header_trailer: only X- headers (and server-timing) pass. *)
http1_consume_header_trailer(p, name, value) ==
    IF name \in {"x-sum", "server-timing"} THEN http1_on_header(p, name, value) ELSE p

http1_consume_header(p, text) ==
    LET Pair(name, value) == IF p.read > 0 THEN http1_consume_header_trailer(p, name, value)
                             ELSE http1_consume_header_top(p, name, value)
        Cut(s) == IF ~s.found \/ s.before = <<>> \/ Last(s.before) = SP THEN http1_on_error(p)
                  ELSE Pair(http_tolower(s.before[1]), IF At(s.after, 1) = SP THEN Tail(s.after) ELSE s.after)
    IN Cut(Split(text, ":"))

Header(p) ==
    LET Then(q, eol) == IF q.failed THEN q ELSE [q EXCEPT !.pos = eol + 1]
        Ends(eol) == IF eol = 0 THEN Halt(p)
                     ELSE Then(http1_consume_header(p, SubSeq(p.buf, p.pos, TextEnd(p, eol))), eol)
    IN IF p.pos > Len(p.buf) THEN Halt(p)
       ELSE IF Has(p.buf, p.pos, EOL) THEN [p EXCEPT !.pos = @ + 2, !.stage = "body"]
       ELSE Ends(seek2eol(p))

-----------------------------------------------------------------------------
(* Bodies.  http1_on_body_chunk appends to the request's body.             *)
http1_on_body_chunk(p, n) ==
    [p EXCEPT !.cur.body = @ \o SubSeq(p.buf, p.pos, p.pos + n - 1),
              !.read = @ + n, !.pos = @ + n]
Here(p, wanted) == LET rest == Len(p.buf) + 1 - p.pos IN IF wanted < rest THEN wanted ELSE rest

http1_consume_body_streamed(p) ==
    LET q == http1_on_body_chunk(p, Here(p, p.content_length - p.read)) IN
    IF q.content_length <= q.read THEN http1_on_request(q) ELSE Halt(q)

(* http1_consume_body_chunked: a negative content_length is what is left   *)
(* of the current chunk.  Without the final line end in the buffer, what   *)
(* follows the last chunk is read as trailing headers.                     *)
LastChunk(p) ==
    LET q == IF p.clength THEN p ELSE http1_on_header(p, "content-length", Decimal(p.read)) IN
    IF Has(p.buf, p.pos, EOL)
      THEN http1_on_request([q EXCEPT !.pos = @ + 2])
      ELSE [q EXCEPT !.stage = "headers", !.content_length = p.read,
                     !.clength = TRUE, !.chunked = FALSE, !.response = FALSE]

ChunkData(p) ==
    LET n == Here(p, -p.content_length) IN
    [http1_on_body_chunk(p, n) EXCEPT !.content_length = @ + n]

(* The line end that follows a chunk, if it is there, then the length.     *)
AfterEol_Kept(p) == p.pos   \* mutant
AfterEol(p) == IF Has(p.buf, p.pos, EOL) THEN p.pos + 2 ELSE p.pos
ChunkHead(p) ==
    LET at == AfterEol(p)
        end == DigitsEnd(p.buf, at)
        stop == Len(p.buf) + 1
        len == Number(p.buf, at)
        q == [p EXCEPT !.pos = end + 2, !.content_length = -len]
    IN CASE p.pos + 2 >= stop -> Halt(p)
         [] p.pos + 2 < stop /\ (at + 2 >= stop \/ end + 2 > stop) -> Halt([p EXCEPT !.pos = at])
         [] p.pos + 2 < stop /\ at + 2 < stop /\ end + 2 <= stop ->
              IF ~Has(p.buf, end, EOL) THEN http1_on_error(p)
              ELSE IF len = 0 THEN LastChunk(q) ELSE q

http1_consume_body_chunked(p) ==
    CASE p.pos > Len(p.buf) -> Halt(p)
      [] p.pos <= Len(p.buf) /\ p.content_length = 0 -> ChunkHead(p)
      [] p.pos <= Len(p.buf) /\ p.content_length < 0 -> ChunkData(p)

http1_consume_body(p) ==
    CASE p.content_length > 0 /\ p.content_length > p.read -> http1_consume_body_streamed(p)
      [] p.content_length <= 0 /\ p.chunked -> http1_consume_body_chunked(p)
      [] OTHER -> http1_on_request(p)

-----------------------------------------------------------------------------
RECURSIVE http1_parse(_)
http1_parse(p) ==
    IF p.halt THEN p
    ELSE http1_parse(CASE p.stage = "line" -> FirstLine(p)
                       [] p.stage = "headers" -> Header(p)
                       [] p.stage = "body" -> http1_consume_body(p))

(* http1_consume_data: parse until nothing is consumed, nothing is left or *)
(* the limit is reached (another event is then forced).                    *)
RECURSIVE http1_consume_data(_, _)
http1_consume_data(p, limit) ==
    LET Left(q) == [q EXCEPT !.buf = SubSeq(@, q.pos, Len(@)), !.pos = 1]
        On(q) == IF q.pos > p.pos THEN http1_consume_data(Left(q), limit - 1) ELSE Left(q)
    IN IF p.buf = <<>> \/ limit = 0 THEN p ELSE On(http1_parse([p EXCEPT !.halt = FALSE]))
http1_on_data(p, data) == http1_consume_data([p EXCEPT !.buf = @ \o data], pipeline_limit)

-----------------------------------------------------------------------------
(* Messages as a peer writes them.                                         *)
Words(line) == FlattenSeq([i \in DOMAIN line |->
                 IF i = 1 THEN line[1] ELSE <<SP>> \o line[i]]) \o EOL
Field(name, value) == <<name, ":", SP>> \o value \o EOL
Chunk(data) == Decimal(Len(data)) \o EOL \o data \o EOL
=============================================================================
