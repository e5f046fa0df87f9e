------------------------------ MODULE Framing ------------------------------
(***************************************************************************)
(* Messages between the processes as a byte stream: a header of four       *)
(* 32-bit fields (one symbol each here), the channel and the data, both    *)
(* with their terminating NUL, read into a buffer of a fixed size.         *)
(***************************************************************************)
EXTENDS Bytes

HEADER == 4   \* fields of the header (16 bytes in the code)
NUL == "0"

(* fio_msg_internal_create                                                 *)
fio_msg_internal_create(m) ==
    <<Len(m.channel), Len(m.data), m.type, m.filter>>
      \o Append(m.channel, NUL) \o Append(m.data, NUL)

(* cluster_pr_s; `msg` is the message being filled.                        *)
FrameFresh == [buf |-> <<>>, i |-> 0, halt |-> FALSE, exp_channel |-> 0, exp_msg |-> 0,
               channel |-> <<>>, data |-> <<>>, type |-> 0, filter |-> 0, out |-> <<>>]

ReadHeader(c) ==
    [c EXCEPT !.exp_channel = c.buf[c.i + 1] + 1, !.exp_msg = c.buf[c.i + 2] + 1,
              !.type = c.buf[c.i + 3], !.filter = c.buf[c.i + 4],
              !.channel = <<>>, !.data = <<>>, !.i = @ + HEADER]

(* A part takes what it expects or, when there is less, all of the rest.   *)
Here(c, expected) == IF expected + c.i > Len(c.buf) THEN Len(c.buf) - c.i ELSE expected
Piece(c, n) == SubSeq(c.buf, c.i + 1, c.i + n)
ReadChannel(c) ==
    LET n == Here(c, c.exp_channel) IN
    [c EXCEPT !.channel = @ \o Piece(c, n), !.exp_channel = @ - n, !.i = @ + n,
              !.halt = (c.exp_channel > n)]
ReadData(c) ==
    LET n == Here(c, c.exp_msg) IN
    [c EXCEPT !.data = @ \o Piece(c, n), !.exp_msg = @ - n, !.i = @ + n,
              !.halt = (c.exp_msg > n)]

Handled(c) ==
    [c EXCEPT !.out = Append(@, [channel |-> Front(c.channel), data |-> Front(c.data),
                                 type |-> c.type, filter |-> c.filter])]

FrameStep(c) ==
    IF c.exp_channel = 0 /\ c.exp_msg = 0 /\ Len(c.buf) - c.i < HEADER
      THEN [c EXCEPT !.halt = TRUE]
      ELSE LET Whole(d) == IF d.halt THEN d ELSE Handled(d)
               Named(n) == Whole(IF n.halt THEN n ELSE ReadData(n))
               Sized(h) == Named(IF h.exp_channel > 0 THEN ReadChannel(h) ELSE h)
           IN Sized(IF c.exp_channel = 0 /\ c.exp_msg = 0 THEN ReadHeader(c) ELSE c)

RECURSIVE FrameLoop(_)
FrameLoop(c) ==
    LET On(d) == IF d.halt \/ Len(d.buf) <= d.i THEN d ELSE FrameLoop(d) IN On(FrameStep(c))

(* fio_cluster_on_data: what is left moves to the front of the buffer.     *)
fio_cluster_on_data(c, data) ==
    LET Left(d) == [d EXCEPT !.buf = SubSeq(@, d.i + 1, Len(@)), !.i = 0]
    IN Left(FrameLoop([c EXCEPT !.buf = @ \o data, !.i = 0, !.halt = FALSE]))

-----------------------------------------------------------------------------
(* The parser of Redis replies (resp_parser.h) with the callbacks of       *)
(* redis_engine.c that build the reply object, and the formatter of the    *)
(* commands.  A reply is <<kind, data>>.                                   *)

(* redis_engine_internal_s after redis_internal_reset: `objs` holds what   *)
(* i->ary and i->str hold, the last object being the one i->str points at. *)
RespFresh == [buf |-> <<>>, pos |-> 1, halt |-> FALSE, obj_countdown |-> 0,
              expecting |-> 0, ary |-> FALSE, objs |-> <<>>, out |-> <<>>]

resp_add_obj(p, o) ==
    [p EXCEPT !.objs = IF p.ary THEN Append(@, o) ELSE <<o>>]
resp_on_string_chunk(p, data) ==
    [p EXCEPT !.objs[Len(p.objs)][2] = @ \o data]
resp_on_start_array(p) == [p EXCEPT !.ary = TRUE, !.objs = <<>>]

resp_on_message(p) ==
    LET msg == IF p.ary THEN <<"array", p.objs>> ELSE Last(p.objs) IN
    [p EXCEPT !.out = Append(@, msg), !.ary = FALSE, !.objs = <<>>]

(* An object ended: the message is complete with the last one expected.    *)
Counted(p) == [p EXCEPT !.obj_countdown = @ - 1]
Completed(p) ==
    IF p.obj_countdown <= 0 /\ p.expecting = 0
      THEN resp_on_message([p EXCEPT !.obj_countdown = 1])
      ELSE p

(* The bytes of a bulk string: as many as there are, but never the last    *)
(* one without the line end that follows it.                               *)
Available_All(p) == Len(p.buf) + 1 - p.pos   \* mutant
Available(p) ==
    LET tmp == Len(p.buf) + 1 - p.pos IN
    IF tmp >= p.expecting THEN p.expecting - 1 ELSE tmp
BulkPart(p) ==
    LET tmp == Available(p) IN
    [resp_on_string_chunk(p, SubSeq(p.buf, p.pos, p.pos + tmp - 1))
       EXCEPT !.expecting = @ - tmp, !.pos = @ + tmp, !.halt = TRUE]
BulkEnd(p) ==
    LET q == resp_on_string_chunk(p, SubSeq(p.buf, p.pos, p.pos + p.expecting - 1))
        end == p.pos + p.expecting
        cr == IF At(p.buf, end) = CR THEN end + 1 ELSE end
        lf == IF At(p.buf, cr) = LF THEN cr + 1 ELSE cr
    IN Completed(Counted([q EXCEPT !.pos = lf, !.expecting = 0]))

(* `$`, `*` and `:` and their number.                                      *)
Negative(p) == At(p.buf, p.pos + 1) = "-"
Count(p) == Number(p.buf, p.pos + (IF Negative(p) THEN 2 ELSE 1))
EmptyBulk(p) == p.buf[p.pos] = "$" /\ ~Negative(p) /\ Count(p) = 0

Prefixed(p) ==
    LET id == p.buf[p.pos]
        null == Counted(resp_add_obj(p, <<"null", <<>>>>))
    IN CASE id = ":" -> Counted(resp_add_obj(p, <<"number", <<IF Negative(p) THEN -Count(p) ELSE Count(p)>>>>))
         [] id \in {"$", "*"} /\ Negative(p) -> null
         [] EmptyBulk(p) -> Counted(resp_add_obj(p, <<"string", <<>>>>))
         [] id = "$" /\ Count(p) > 0 -> [resp_add_obj(p, <<"string", <<>>>>) EXCEPT !.expecting = Count(p)]
         [] id = "*" /\ ~Negative(p) ->
              Counted([resp_on_start_array(p) EXCEPT !.obj_countdown = @ + Count(p)])

IsOkay(p) == Has(p.buf, p.pos, <<"+", "O", "K">> \o EOL)
Line(p, eol) ==
    CASE IsOkay(p) -> Counted(resp_add_obj(p, <<"true", <<>>>>))
      [] p.buf[p.pos] = "+" /\ ~IsOkay(p) ->
           Counted(resp_add_obj(p, <<"string", SubSeq(p.buf, p.pos + 1, eol - 1)>>))
      [] p.buf[p.pos] = "-" -> Counted(resp_add_obj(p, <<"string", SubSeq(p.buf, p.pos, eol - 2)>>))
      [] p.buf[p.pos] \in {"$", "*", ":"} -> Prefixed(p)
      [] OTHER -> [p EXCEPT !.halt = TRUE, !.out = Append(@, <<"error", <<>>>>)]

(* The line is consumed, and the line end of an empty string with it.      *)
LineStep(p, eol) ==
    LET q == Line(p, eol) IN
    IF q.halt THEN q
    ELSE Completed([q EXCEPT !.pos = eol + 1 + (IF EmptyBulk(p) THEN 2 ELSE 0)])

(* resp_parse                                                              *)
RespStep(p) ==
    LET eol == memchr(p.buf, p.pos, Len(p.buf), LF) IN
    CASE p.expecting > 0 /\ p.pos + p.expecting + 2 > Len(p.buf) + 1 -> BulkPart(p)
      [] p.expecting > 0 /\ p.pos + p.expecting + 2 <= Len(p.buf) + 1 -> BulkEnd(p)
      [] p.expecting = 0 /\ eol \in {0, p.pos} -> [p EXCEPT !.halt = TRUE]
      [] p.expecting = 0 /\ eol \notin {0, p.pos} -> LineStep(p, eol)

RECURSIVE resp_parse(_)
resp_parse(p) == IF p.halt \/ p.pos > Len(p.buf) THEN p ELSE resp_parse(RespStep(p))

(* redis_on_data: the bytes the parser left are kept for the next read.    *)
(* When it went past their end it left less than none, and a memmove of    *)
(* as many bytes as a size_t can count ends the process.                   *)
Overrun(p) == p.pos > Len(p.buf) + 1
redis_on_data(p, data) ==
    LET q == resp_parse([p EXCEPT !.buf = @ \o data, !.pos = 1, !.halt = FALSE,
                                  !.obj_countdown = IF @ = 0 THEN 1 ELSE @])
    IN IF Overrun(q) THEN q ELSE [q EXCEPT !.buf = SubSeq(@, q.pos, Len(@)), !.pos = 1]

-----------------------------------------------------------------------------
(* fiobj2resp: a command as it is written; a number goes as its digits.    *)
RECURSIVE fiobj2resp(_)
fiobj2resp(o) ==
    CASE o[1] = "null" -> <<"$", "-", "1">> \o EOL
      [] o[1] = "true" -> <<"$", "4">> \o EOL \o <<"t", "r", "u", "e">> \o EOL
      [] o[1] = "number" -> fiobj2resp(<<"string", Decimal(o[2][1])>>)
      [] o[1] = "string" -> <<"$">> \o Decimal(Len(o[2])) \o EOL \o o[2] \o EOL
      [] o[1] = "array" -> <<"*">> \o Decimal(Len(o[2])) \o EOL
                             \o FlattenSeq([i \in DOMAIN o[2] |-> fiobj2resp(o[2][i])])

(* The replies of a server.                                                *)
RECURSIVE Reply(_)
Reply(o) ==
    CASE o[1] = "number" -> <<":">> \o Decimal(o[2][1]) \o EOL
      [] o[1] = "true" -> <<"+", "O", "K">> \o EOL
      [] o[1] = "simple" -> <<"+">> \o o[2] \o EOL
      [] o[1] = "array" -> <<"*">> \o Decimal(Len(o[2])) \o EOL
                             \o FlattenSeq([i \in DOMAIN o[2] |-> Reply(o[2][i])])
      [] OTHER -> fiobj2resp(o)
=============================================================================
