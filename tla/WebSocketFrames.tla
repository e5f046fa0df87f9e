-------------------------- MODULE WebSocketFrames --------------------------
(***************************************************************************)
(* Websocket frames: wrapping (websocket_server_wrap and _client_wrap,     *)
(* the fragmentation of long messages by websocket_write_impl), unwrapping *)
(* (websocket_consume) and the protocol's on_data with its growing buffer. *)
(* A payload byte and a mask byte are bits, XOR is addition modulo 2; the  *)
(* length classes 126 and 65536 and the block of 4096 bytes by which a     *)
(* buffer grows are constants.                                             *)
(***************************************************************************)
EXTENDS Bytes

CONSTANTS
    Short,          \* payloads below this length have a 2 byte head (126)
    Long,           \* payloads of this length or more have a 10 byte head (2^16)
    Block,          \* WS_INITIAL_BUFFER_SIZE, and the step of its growth
    WS_MAX_FRAME_SIZE,
    max_msg_size    \* the largest message a connection takes

Xor(a, b) == (a + b) % 2

-----------------------------------------------------------------------------
(* websocket_xmask: bytes before the first 4 byte boundary one by one,     *)
(* with the mask rotated to match, then words of 4 and 8 bytes, then the   *)
(* rest.  `addr` is the address of the first byte modulo 8.                *)
Rotated_Not(mask, n) == mask   \* mutant
Rotated(mask, n) == [i \in 1..4 |-> mask[((i - 1 + n) % 4) + 1]]
ByteWise(msg, mask) == [i \in DOMAIN msg |-> Xor(msg[i], mask[((i - 1) % 4) + 1])]
websocket_xmask(msg, addr, mask) ==
    LET offset == IF Len(msg) > 7 /\ addr % 4 # 0 THEN 4 - (addr % 4) ELSE 0
        head == SubSeq(msg, 1, offset)
        rest == SubSeq(msg, offset + 1, Len(msg))
    IN ByteWise(head, mask) \o ByteWise(rest, Rotated(mask, offset))

-----------------------------------------------------------------------------
(* websocket_server_wrap, websocket_client_wrap.  The first byte is        *)
(* <<opcode, fin>>, the second <<masked, length class>>.                   *)
LengthBytes(n, bytes) == [i \in 1..bytes |-> IF i = bytes THEN n ELSE 0]
Head1(len, opcode, first, last, masked) ==
    <<<<IF first THEN opcode ELSE 0, last>>>> \o
      (CASE len < Short -> <<<<masked, len>>>>
         [] len >= Short /\ len < Long -> <<<<masked, 126>>>> \o LengthBytes(len, 2)
         [] len >= Long -> <<<<masked, 127>>>> \o LengthBytes(len, 8))
websocket_server_wrap(msg, opcode, first, last) ==
    Head1(Len(msg), opcode, first, last, FALSE) \o msg
websocket_client_wrap(msg, opcode, first, last, mask) ==
    Head1(Len(msg), opcode, first, last, TRUE) \o mask \o ByteWise(msg, mask)
wrap(msg, opcode, first, last, mask) ==
    IF mask = <<>> THEN websocket_server_wrap(msg, opcode, first, last)
    ELSE websocket_client_wrap(msg, opcode, first, last, mask)

(* websocket_write_impl: a long message goes as fragments.                 *)
RECURSIVE websocket_write_impl(_, _, _, _, _)
websocket_write_impl(msg, text, first, last, mask) ==
    IF Len(msg) <= WS_MAX_FRAME_SIZE
      THEN wrap(msg, IF text THEN 1 ELSE 2, first, last, mask)
      ELSE websocket_write_impl(SubSeq(msg, 1, WS_MAX_FRAME_SIZE), text, first, FALSE, mask)
             \o websocket_write_impl(SubSeq(msg, WS_MAX_FRAME_SIZE + 1, Len(msg)), text, FALSE, last, mask)

-----------------------------------------------------------------------------
(* websocket_buffer_peek on the bytes from position k.                     *)
websocket_buffer_peek(buf, k) ==
    LET len == Len(buf) + 1 - k
        masked == buf[k + 1][1]
        class == buf[k + 1][2]
        m == IF masked THEN 4 ELSE 0
    IN CASE len < 2 -> [packet |-> 0, head |-> 2, masked |-> FALSE]
         [] len >= 2 /\ class = 126 ->
              [packet |-> IF len < 4 THEN 0 ELSE buf[k + 3], head |-> 4 + m, masked |-> masked]
         [] len >= 2 /\ class = 127 ->
              [packet |-> IF len < 10 THEN 0 ELSE buf[k + 9], head |-> 10 + m, masked |-> masked]
         [] len >= 2 /\ class < 126 -> [packet |-> class, head |-> 2 + m, masked |-> masked]

(* ws_s: the parsed messages go to `out`, pongs are remembered in order.   *)
WsFresh(client) ==
    [buf |-> <<>>, size |-> Block, pos |-> 1, msg |-> <<>>, is_text |-> FALSE,
     total_length |-> 0, is_client |-> client, closed |-> FALSE, out |-> <<>>]

on_message(w, msg, text) == [w EXCEPT !.out = Append(@, <<IF text THEN "text" ELSE "binary", msg>>)]

websocket_on_unwrapped(w, msg, first, last, text) ==
    IF first /\ last THEN on_message(w, msg, text)
    ELSE LET kind == IF first THEN text ELSE w.is_text
             u == [w EXCEPT !.msg = @ \o msg, !.total_length = @ + Len(msg), !.is_text = kind]
         IN IF last THEN [on_message(u, u.msg, kind) EXCEPT !.msg = <<>>, !.total_length = 0]
            ELSE u

websocket_on_protocol_ping(w, msg) == [w EXCEPT !.out = Append(@, <<"pong", msg>>)]
websocket_on_protocol_close(w) == [w EXCEPT !.closed = TRUE]

Dispatch(w, first_byte, payload) ==
    CASE first_byte[1] = 0 -> websocket_on_unwrapped(w, payload, FALSE, first_byte[2], FALSE)
      [] first_byte[1] = 1 -> websocket_on_unwrapped(w, payload, TRUE, first_byte[2], TRUE)
      [] first_byte[1] = 2 -> websocket_on_unwrapped(w, payload, TRUE, first_byte[2], FALSE)
      [] first_byte[1] = 8 -> websocket_on_protocol_close(w)
      [] first_byte[1] = 9 -> websocket_on_protocol_ping(w, payload)
      [] first_byte[1] = 10 -> w
      [] OTHER -> websocket_on_protocol_close(w)

(* websocket_consume; the buffer is allocated, so position 1 is aligned.   *)
RECURSIVE Consume(_)
Consume(w) ==
    LET info == websocket_buffer_peek(w.buf, w.pos)
        at == w.pos + info.head
        raw == SubSeq(w.buf, at, at + info.packet - 1)
        payload == IF info.masked
                     THEN websocket_xmask(raw, (at - 1) % 8, SubSeq(w.buf, at - 4, at - 1))
                     ELSE raw
    IN CASE w.pos > Len(w.buf) -> w
         [] w.pos <= Len(w.buf) /\ info.head + info.packet > Len(w.buf) + 1 - w.pos -> w
         [] w.pos <= Len(w.buf) /\ info.head + info.packet <= Len(w.buf) + 1 - w.pos ->
              IF ~info.masked /\ ~w.is_client /\ info.packet > 0
                THEN [w EXCEPT !.closed = TRUE, !.pos = Len(w.buf) + 1]
                ELSE Consume([Dispatch(w, w.buf[w.pos], payload)
                                EXCEPT !.pos = at + info.packet])
websocket_consume(w) ==
    LET u == Consume([w EXCEPT !.pos = 1]) IN
    [u EXCEPT !.buf = SubSeq(@, u.pos, Len(@)), !.pos = 1]

(* on_data: the buffer is made large enough for the frame that begins it,  *)
(* then as many bytes are read as fit.                                     *)
resize_ws_buffer_Down(size) == (size \div Block) * Block   \* mutant
resize_ws_buffer(size) == ((size \div Block) + 1) * Block
WsSize(w) ==
    LET info == websocket_buffer_peek(w.buf, 1)
        raw_length == info.packet + info.head
    IN IF raw_length > w.size THEN resize_ws_buffer(raw_length) ELSE w.size
TooBig(w) ==
    LET info == websocket_buffer_peek(w.buf, 1)
    IN max_msg_size < info.packet + info.head + w.total_length
WsRoom(w) == WsSize(w) - Len(w.buf)
ws_on_data(w, data) ==
    IF TooBig(w) THEN [w EXCEPT !.closed = TRUE]
    ELSE websocket_consume([w EXCEPT !.size = WsSize(w), !.buf = @ \o data])
=============================================================================
