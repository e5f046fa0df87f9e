-------------------------------- MODULE Json --------------------------------
(***************************************************************************)
(* The JSON parser, the two sets of callbacks that build objects from it   *)
(* (for FIOBJ and for Ruby), and the FIOBJ formatter. Bytes are numbers.   *)
(***************************************************************************)
EXTENDS Objects

CONSTANTS JSON_MAX_DEPTH, Word   \* Word: how many numbers an unsigned integer can hold

Quote == 34
Backslash == 92
Byte(buf, k) == IF k \in DOMAIN buf THEN buf[k] ELSE 0   \* a NUL follows the text
Has(buf, k, s) == \A j \in DOMAIN s : Byte(buf, k + j - 1) = s[j]
JSON_SEPERATOR(c) == c \in {9, 10, 13, 32, 44}
JSON_NUMERAL(c) == c \in {43, 45, 46, 69, 98, 101, 120} \cup 48..57
is_hex(c) == c \in 48..57 \cup 65..70 \cup 97..102
HexValue(c) == IF c <= 57 THEN c - 48 ELSE IF c <= 70 THEN c - 55 ELSE c - 87
FromTo(buf, i, j) == IF j < i THEN <<>> ELSE SubSeq(buf, i, j)

-----------------------------------------------------------------------------
(* Numbers.                                                                *)
RECURSIVE consume(_, _, _, _)
consume(buf, k, base, n) ==   \* the limit is tested before the multiplication that may exceed it
    IF Byte(buf, k) \in 48..(47 + base) /\ n <= Word - 1 - base * base
      THEN consume(buf, k + 1, base, (n * base + Byte(buf, k) - 48) % Word)
      ELSE [n |-> n, end |-> k]
RECURSIVE consume_hex(_, _, _)
consume_hex(buf, k, n) ==
    IF is_hex(Byte(buf, k)) /\ n <= Word - 1 - 256
      THEN consume_hex(buf, k + 1, (n * 16 + HexValue(Byte(buf, k))) % Word)
      ELSE [n |-> n, end |-> k]
RECURSIVE consume_bin(_, _, _)
consume_bin(buf, k, n) ==
    IF Byte(buf, k) \in {48, 49} THEN consume_bin(buf, k + 1, (n * 2 + Byte(buf, k) - 48) % Word)
    ELSE [n |-> n, end |-> k]
RECURSIVE SkipZero(_, _)
SkipZero(buf, k) == IF Byte(buf, k) = 48 THEN SkipZero(buf, k + 1) ELSE k
RECURSIVE SkipSpace(_, _)
SkipSpace(buf, k) == IF Byte(buf, k) \in 9..13 \cup {32} THEN SkipSpace(buf, k + 1) ELSE k
Signed(n) == IF n >= Word \div 2 THEN n - Word ELSE n

(* Binary, hexadecimal, octal or decimal; the end is where it began when   *)
(* the number is too large.                                                *)
fio_atol(buf, from) ==
    LET Sized(r, minus, kind, base) ==
          LET more == IF kind = "hexadecimal" THEN is_hex(Byte(buf, r.end))
                      ELSE kind = "digits" /\ Byte(buf, r.end) \in 48..(47 + base)
              n == IF kind = "digits" /\ r.n >= Word \div 2 THEN (Word \div 2) - 1 ELSE r.n
          IN IF more THEN [n |-> 0, end |-> from]
             ELSE [n |-> Signed(IF minus THEN (Word - n) % Word ELSE n), end |-> r.end]
        Marked(k, mark, minus) ==
          LET base == IF Byte(buf, k) = 48 THEN 8 ELSE 10 IN
          IF Byte(buf, mark) \in {66, 98} THEN Sized(consume_bin(buf, SkipZero(buf, mark + 1), 0), minus, "binary", 2)
          ELSE IF Byte(buf, mark) \in {88, 120}
            THEN Sized(consume_hex(buf, SkipZero(buf, mark + 1), 0), minus, "hexadecimal", 16)
          ELSE Sized(consume(buf, SkipZero(buf, k), base, 0), minus, "digits", base)
        After(k, minus) == Marked(k, IF Byte(buf, k) = 48 THEN k + 1 ELSE k, minus)
        At(sign) == After(IF Byte(buf, sign) \in {43, 45} THEN sign + 1 ELSE sign, Byte(buf, sign) = 45)
    IN At(SkipSpace(buf, from))

(* strtold, for digits with at most one behind the point: tenths.          *)
RECURSIVE Whole(_, _, _)
Whole(buf, k, n) == IF Byte(buf, k) \in 48..57 THEN Whole(buf, k + 1, n * 10 + Byte(buf, k) - 48)
                    ELSE [n |-> n, end |-> k]
fio_atof(buf, from) ==
    LET k == IF Byte(buf, from) = 45 THEN from + 1 ELSE from
        Sized(n, end) == [n |-> IF k > from THEN -n ELSE n, end |-> end]
        Point(w, f) == IF Byte(buf, w.end) = 46 THEN Sized(w.n * 10 + f.n, f.end)
                       ELSE IF w.end = k THEN [n |-> 0, end |-> from] ELSE Sized(w.n * 10, w.end)
        From(w) == Point(w, Whole(buf, w.end + 1, 0))
    IN From(Whole(buf, k, 0))

RECURSIVE DigitsOf(_)
DigitsOf(n) == IF n < 10 THEN <<48 + n>> ELSE Append(DigitsOf(n \div 10), 48 + (n % 10))
fio_ltoa(n) == IF n < 0 THEN <<45>> \o DigitsOf(-n) ELSE DigitsOf(n)
(* "%g", then ".0" unless it has a point.                                  *)
fio_ftoa(n) ==
    LET m == IF n < 0 THEN -n ELSE n
        g == DigitsOf(m \div 10) \o (IF m % 10 = 0 THEN <<>> ELSE <<46, 48 + (m % 10)>>)
    IN (IF n < 0 THEN <<45>> ELSE <<>>) \o g \o (IF 46 \in Range(g) THEN <<>> ELSE <<46, 48>>)

-----------------------------------------------------------------------------
(* Strings.                                                                *)
SeekMark(buf, k) == FirstOf({i \in k..Len(buf) : buf[i] \in {Quote, Backslash}})
RECURSIVE seek2eos_Escape(_, _)
seek2eos_Escape(buf, k) ==   \* mutant
    LET At(m) == IF m = 0 THEN 0 ELSE IF buf[m] = Quote THEN m ELSE seek2eos_Escape(buf, m + 1)
    IN IF k > Len(buf) THEN 0 ELSE At(SeekMark(buf, k))
RECURSIVE seek2eos(_, _)
seek2eos(buf, k) ==
    LET At(m) == IF m = 0 THEN 0 ELSE IF buf[m] = Quote THEN m ELSE seek2eos(buf, m + 2)
    IN IF k > Len(buf) THEN 0 ELSE At(SeekMark(buf, k))

utf8_from_u32(u) ==
    LET low(shift) == 128 + ((u \div shift) % 64) IN
    IF u <= 127 THEN <<u>>
    ELSE IF u <= 2047 THEN <<192 + (u \div 64), low(1)>>
    ELSE IF u <= 65535 THEN <<224 + (u \div 4096), low(64), low(1)>>
    ELSE <<240 + ((u \div 262144) % 8), low(4096), low(64), low(1)>>

(* The escape at s[k], whose backslash is at k - 1. Any two \u in a row    *)
(* are read as the halves of one character.                                *)
Hex4(s, k) == \A j \in 0..3 : is_hex(Byte(s, k + j))
U8(s, k) == HexValue(Byte(s, k)) * 16 + HexValue(Byte(s, k + 1))
U16(s, k) == U8(s, k) * 256 + U8(s, k + 2)
Escapes == <<<<98, 8>>, <<102, 12>>, <<110, 10>>, <<114, 13>>, <<116, 9>>>>
unescape_str_internal(s, k) ==
    LET c == Byte(s, k)
        short == FirstOf({i \in DOMAIN Escapes : Escapes[i][1] = c})
        pair == Has(s, k + 5, <<Backslash, 117>>) /\ Hex4(s, k + 7)
    IN IF short # 0 THEN [out |-> <<Escapes[short][2]>>, next |-> k + 1]
       ELSE IF c = 117 /\ Hex4(s, k + 1)
         THEN IF pair THEN [out |-> utf8_from_u32(65536 + (U16(s, k + 1) % 1024) * 1024 + (U16(s, k + 7) % 1024)),
                            next |-> k + 11]
              ELSE [out |-> utf8_from_u32(U16(s, k + 1)), next |-> k + 5]
       ELSE IF c = 120 /\ is_hex(Byte(s, k + 1)) /\ is_hex(Byte(s, k + 2))
         THEN [out |-> <<U8(s, k + 1)>>, next |-> k + 3]
       ELSE IF c \in 48..55 /\ Byte(s, k + 1) \in 48..55
         THEN [out |-> <<(c - 48) * 8 + Byte(s, k + 1) - 48>>, next |-> k + 2]
       ELSE [out |-> <<c>>, next |-> k + 1]
RECURSIVE UnescapeFrom(_, _)
UnescapeFrom(s, k) ==
    LET Then(m, e) == FromTo(s, k, m - 1) \o e.out \o UnescapeFrom(s, e.next)
        At(m) == IF m = 0 THEN SubSeq(s, k, Len(s)) ELSE Then(m, unescape_str_internal(s, m + 1))
    IN IF k > Len(s) THEN <<>> ELSE At(FirstOf({i \in k..Len(s) : s[i] = Backslash}))
fio_json_unescape_str(s) == UnescapeFrom(s, 1)

-----------------------------------------------------------------------------
(* The callbacks. The parser of a FIOBJ document owns `top` and `key`; the *)
(* Ruby one keeps them in IodineStore, and Ruby's false is the value 0.    *)
Fresh(ruby, h, target) ==
    [pos |-> 1, depth |-> 0, dict |-> 0, iskey |-> FALSE, end |-> "no", h |-> h,
     ruby |-> ruby, store |-> <<>>, top |-> FIOBJ_INVALID, key |-> FIOBJ_INVALID, target |-> target,
     stack |-> <<>>, is_hash |-> FALSE]
IsSet(p, v) == v # FIOBJ_INVALID /\ ~(p.ruby /\ v = Val("false", 0))
Stored(v) == v.t \in {"ref", "num"}
Store(p, v) == IF p.ruby /\ Stored(v) THEN [p EXCEPT !.store = Append(@, v)] ELSE p
RemoveStored(p, i) == IF i = 0 THEN p ELSE [p EXCEPT !.store = RemoveAt(@, i)]
Unstore(p, v) ==
    IF p.ruby THEN RemoveStored(p, FirstOf({i \in DOMAIN p.store : p.store[i] = v}))
    ELSE [p EXCEPT !.h = fiobj_free(@, v)]

add2parser(p, o) ==
    IF ~IsSet(p, p.top) THEN [Store(p, o) EXCEPT !.top = o]
    ELSE IF ~p.is_hash THEN [p EXCEPT !.h = fiobj_ary_push(@, p.top, o)]
    ELSE IF IsSet(p, p.key)
      THEN [Unstore([p EXCEPT !.h = fiobj_hash_set(@, p.top, p.key, o)], p.key) EXCEPT !.key = FIOBJ_INVALID]
    ELSE [Store(p, o) EXCEPT !.key = o]
AddNew(p, cell) == LET n == New(p.h, cell) IN add2parser([p EXCEPT !.h = n.h], n.v)
on_string(p, s) == AddNew(p, Cell("str", fio_json_unescape_str(s), 0))
Push(p, o) == [p EXCEPT !.stack = Append(@, p.top), !.top = o]
on_start_object(p) ==
    LET n == New(p.h, Cell("hash", <<>>, 0)) IN
    IF p.target # FIOBJ_INVALID
      THEN [Push(p, p.target) EXCEPT !.target = FIOBJ_INVALID, !.is_hash = TRUE]
      ELSE [Push(add2parser([p EXCEPT !.h = n.h], n.v), n.v) EXCEPT !.is_hash = TRUE]
on_start_array(p) ==
    LET n == New(p.h, Cell("array", <<>>, 0)) IN
    IF p.target # FIOBJ_INVALID THEN [p EXCEPT !.end = "error"]
    ELSE [Push(add2parser([p EXCEPT !.h = n.h], n.v), n.v) EXCEPT !.is_hash = FALSE]
Pop(p) ==
    LET top == Last(p.stack) IN
    [p EXCEPT !.stack = Front(@), !.top = top, !.is_hash = TypeOf(p.h, top) = "hash"]
on_end_object(p) ==
    Pop(IF IsSet(p, p.key) THEN [Unstore(p, p.key) EXCEPT !.key = FIOBJ_INVALID] ELSE p)
on_end_array(p) == Pop(p)
on_error(p) ==
    LET Emptied(q) == [Fresh(p.ruby, q.h, FIOBJ_INVALID) EXCEPT !.store = q.store, !.end = "error"]
    IN Emptied(Unstore(Unstore(p, IF p.stack = <<>> THEN FIOBJ_INVALID ELSE p.stack[1]), p.key))

-----------------------------------------------------------------------------
(* fio_json_parse: the next token (NaN and Infinity are left out).         *)
Stop(p) == [p EXCEPT !.end = "stop"]
Error(p) == [p EXCEPT !.end = "error"]
RECURSIVE SkipSeps(_, _)
SkipSeps(buf, k) == IF k <= Len(buf) /\ JSON_SEPERATOR(Byte(buf, k)) THEN SkipSeps(buf, k + 1) ELSE k

(* After a value: the document is complete, or a dictionary expects a key. *)
Value(p) ==
    IF p.end # "no" THEN p
    ELSE IF p.depth = 0 THEN Stop(p) ELSE [p EXCEPT !.iskey = (p.dict % 2 = 1)]
StringUpto(p, buf, eos) == on_string(p, FromTo(buf, p.pos + 1, eos - 1))
KeyUpto(p, buf, eos, colon) ==
    IF colon > Len(buf) THEN Stop(p) ELSE IF buf[colon] # 58 THEN Error(p)
    ELSE [StringUpto(p, buf, eos) EXCEPT !.pos = colon + 1, !.iskey = FALSE]
StringEnds(p, buf, eos) ==
    IF eos = 0 THEN Stop(p)
    ELSE IF p.iskey THEN KeyUpto(p, buf, eos, SkipSeps(buf, eos + 1))
    ELSE Value([StringUpto(p, buf, eos) EXCEPT !.pos = eos + 1])
String(p, buf) == StringEnds(p, buf, seek2eos(buf, p.pos + 1))
Opened(p, bit) == [p EXCEPT !.depth = @ + 1, !.dict = @ * 2 + bit, !.pos = @ + 1]
Closed(p) == [p EXCEPT !.depth = @ - 1, !.dict = @ \div 2, !.pos = @ + 1]
Open(p, start) == IF p.iskey \/ p.depth + 1 >= JSON_MAX_DEPTH THEN Error(p) ELSE Value(start)
CloseObject(p) ==
    IF p.dict % 2 = 0 THEN Error(p)
    ELSE Value(on_end_object(Closed(IF p.iskey THEN p ELSE add2parser(p, Val("null", 0)))))
CloseArray(p) == IF p.dict % 2 = 1 \/ p.depth = 0 THEN Error(p) ELSE Value(on_end_array(Closed(p)))
Word4(p, buf, word, v) ==
    IF p.pos + Len(word) - 1 > Len(buf) THEN Stop(p)
    ELSE IF ~Has(buf, p.pos, word) THEN Error(p)
    ELSE Value([add2parser(p, v) EXCEPT !.pos = @ + Len(word)])
NumeralRead(p, buf, i, f) ==
    IF i.end # p.pos /\ ~JSON_NUMERAL(Byte(buf, i.end))
      THEN Value([add2parser(p, Val("num", i.n)) EXCEPT !.pos = i.end])
    ELSE IF f.end = p.pos \/ JSON_NUMERAL(Byte(buf, f.end)) THEN Error(p)
    ELSE Value([AddNew(p, Cell("float", <<>>, f.n)) EXCEPT !.pos = f.end])
Numeral(p, buf) == NumeralRead(p, buf, fio_atol(buf, p.pos), fio_atof(buf, p.pos))
Comment(p, buf, end) == IF end = 0 THEN Stop(p) ELSE [p EXCEPT !.pos = end + 1]
LineEnd(p, buf) == FirstOf({i \in p.pos..Len(buf) : buf[i] = 10})
BlockEnd(p, buf) ==
    FirstOf({k \in (p.pos + 3)..Len(buf) : buf[k] = 47 /\ buf[k - 1] = 42})

Token(p, buf) ==
    LET c == Byte(buf, p.pos) IN
    CASE c = Quote -> String(p, buf)
      [] c = 123 -> Open(p, on_start_object(Opened(p, 1)))
      [] c = 125 -> CloseObject(p)
      [] c = 91 -> Open(p, on_start_array(Opened(p, 0)))
      [] c = 93 -> CloseArray(p)
      [] c = 116 -> Word4(p, buf, <<116, 114, 117, 101>>, Val("true", 0))
      [] c = 110 -> Word4(p, buf, <<110, 117, 108, 108>>, Val("null", 0))
      [] c = 102 -> Word4(p, buf, <<102, 97, 108, 115, 101>>, Val("false", 0))
      [] c \in {45, 46, 69, 101, 120} \cup 48..57 -> Numeral(p, buf)
      [] c = 35 -> Comment(p, buf, LineEnd(p, buf))
      [] c = 47 /\ Byte(buf, p.pos + 1) = 42 -> Comment(p, buf, BlockEnd(p, buf))
      [] c = 47 /\ Byte(buf, p.pos + 1) = 47 -> Comment(p, buf, LineEnd(p, buf))
      [] OTHER -> Error(p)
ParseStep(p, buf) == IF p.pos > Len(buf) THEN Stop(p) ELSE Token(p, buf)
RECURSIVE ParseLoop(_, _)
ParseLoop(p, buf) ==
    IF p.end = "error" THEN on_error(p)
    ELSE IF p.end = "stop" THEN p
    ELSE ParseLoop(ParseStep([p EXCEPT !.pos = SkipSeps(buf, @)], buf), buf)
fio_json_parse(p, buf) == IF buf = <<>> THEN [p EXCEPT !.end = "stop"] ELSE ParseLoop(p, buf)
Consumed(p) == IF p.end = "error" THEN 0 ELSE p.pos - 1

Incomplete(p) == Consumed(p) = 0 \/ p.depth # 0
WithoutRoot(p) == IF Incomplete(p) /\ p.stack # <<>> THEN Unstore(p, p.stack[1]) ELSE p
WithoutKey(p) == Unstore(p, p.key)
Finish_Key(p) ==   \* mutant
    [WithoutRoot(p) EXCEPT !.top = IF Incomplete(p) THEN FIOBJ_INVALID ELSE @]
(* The root and the key of a document that is not complete are given up.   *)
Finish(p) == [WithoutKey(WithoutRoot(p)) EXCEPT !.top = IF Incomplete(p) THEN FIOBJ_INVALID ELSE @]
ObjectOf(r, consumed) == [h |-> r.h, v |-> r.top, consumed |-> consumed]
Parsed(p) == ObjectOf(Finish(p), Consumed(p))
fiobj_json2obj(h, buf) == Parsed(fio_json_parse(Fresh(FALSE, h, FIOBJ_INVALID), buf))
(* Parsed into a hash that exists.                                         *)
Updated(p, hash) ==
    [h |-> fiobj_free(WithoutKey(p).h, IF p.top = hash THEN FIOBJ_INVALID ELSE p.top), v |-> hash, consumed |-> Consumed(p)]
fiobj_hash_update_json(h, hash, buf) == Updated(fio_json_parse(Fresh(FALSE, h, hash), buf), hash)
(* Iodine::JSON.parse: the value, or no value when it raises an error.     *)
RubyObject(r) ==
    [h |-> r.h, v |-> IF IsSet(r, r.top) THEN r.top ELSE FIOBJ_INVALID,
     store |-> IF IsSet(r, r.top) THEN Unstore(r, r.top).store ELSE r.store]
iodine_json_convert(buf) == RubyObject(Finish(fio_json_parse(Fresh(TRUE, NoObjects, FIOBJ_INVALID), buf)))

-----------------------------------------------------------------------------
(* Formatting.                                                             *)
HexDigit(n) == IF n < 10 THEN 48 + n ELSE 87 + n
SafeByte(c) ==
    LET short == FirstOf({i \in DOMAIN Escapes : Escapes[i][2] = c}) IN
    IF short # 0 THEN <<Backslash, Escapes[short][1]>>
    ELSE IF c \in {Quote, Backslash} THEN <<Backslash, c>>
    ELSE IF c <= 31 THEN <<Backslash, 117, 48, 48, HexDigit(c \div 16), HexDigit(c % 16)>>
    ELSE <<c>>
write_safe_str(s) == <<Quote>> \o FlattenSeq([i \in DOMAIN s |-> SafeByte(s[i])]) \o <<Quote>>

Plain(h, o) ==
    CASE o.t = "num" -> fio_ltoa(o.n)
      [] o.t \in {"null", ""} -> <<110, 117, 108, 108>>
      [] o.t = "true" -> <<116, 114, 117, 101>>
      [] o.t = "false" -> <<102, 97, 108, 115, 101>>
      [] o.t = "ref" -> IF h.cells[o.n].t = "float" THEN fio_ftoa(h.cells[o.n].n)
                        ELSE write_safe_str(h.cells[o.n].text)
(* Containers that are complete are closed.                                *)
RECURSIVE CloseComplete(_, _)
CloseComplete(h, d) ==
    LET top == Last(d.stack) IN
    IF d.count # 0 \/ d.parent = FIOBJ_INVALID THEN d
    ELSE CloseComplete(h, [d EXCEPT !.out = Append(@, IF TypeOf(h, d.parent) = "hash" THEN 125 ELSE 93),
                                    !.stack = Front(@), !.count = top[2], !.parent = top[1], !.sep = TRUE])
obj2json_task(h, d, e) ==
    LET o == e[2]
        keyed == IF e[1] = FIOBJ_INVALID THEN d.out ELSE Append(d.out \o write_safe_str(h.cells[e[1].n].text), 58)
        opened == [d EXCEPT !.out = Append(keyed, IF TypeOf(h, o) = "hash" THEN 123 ELSE 91), !.sep = FALSE,
                            !.stack = Append(@, <<d.parent, d.count - 1>>), !.parent = o,
                            !.count = Len(Items(h, o))]
        plain == [d EXCEPT !.out = keyed \o Plain(h, o), !.count = @ - 1, !.sep = TRUE]
        r == CloseComplete(h, IF HasEach(h, o) THEN opened ELSE plain)
        indent == [i \in 1..(2 * (2 * Len(r.stack) - 1)) |-> 32]
    IN IF ~r.sep \/ r.parent = FIOBJ_INVALID THEN r
       ELSE [r EXCEPT !.out = @ \o (IF d.pretty THEN <<44, 10>> \o indent ELSE <<44>>)]
fiobj_obj2json(h, o, pretty) ==
    FoldLeft(LAMBDA d, e : obj2json_task(h, d, e),
             [out |-> <<>>, parent |-> FIOBJ_INVALID, stack |-> <<>>, count |-> 1, sep |-> TRUE, pretty |-> pretty],
             fiobj_each2(h, o)).out
=============================================================================
