------------------------------- MODULE Codecs -------------------------------
(***************************************************************************)
(* Small conversions of the library: UTF-8 strings, base 64, URLs, dates   *)
(* and command line arguments. Characters are their codes.                 *)
(***************************************************************************)
EXTENDS Json

(* The first place from k on that holds one of `stops`, or the end.        *)
Upto(s, k, stops) ==
    LET found == {i \in k..Len(s) : s[i] \in stops} IN IF found = {} THEN Len(s) + 1 ELSE Min(found)
CDiv(a, b) == IF a < 0 THEN -((-a) \div b) ELSE a \div b   \* C's integer division
CRem(a, b) == a - b * CDiv(a, b)

-----------------------------------------------------------------------------
(* UTF-8. The length of a character by its first byte; 5: a byte inside    *)
(* one, 0: no byte of UTF-8.                                               *)
fio_str_utf8_map(c) ==
    IF c < 128 THEN 1 ELSE IF c < 192 THEN 5 ELSE IF c < 224 THEN 2 ELSE IF c < 240 THEN 3 ELSE IF c < 248 THEN 4 ELSE 0

(* FIO_STR_UTF8_CODE_POINT: c is the character, or -1 and no step forward. *)
CodePoint(s, k) ==
    LET n == fio_str_utf8_map(s[k])
        whole == n \in 1..4 /\ k + n - 1 <= Len(s) /\ \A j \in 1..(n - 1) : fio_str_utf8_map(s[k + j]) = 5
        first == IF n = 1 THEN s[k] ELSE s[k] % (2^(7 - n))
    IN IF ~whole THEN [c |-> -1, next |-> k]
       ELSE [c |-> FoldLeft(LAMBDA acc, j : acc * 64 + (s[k + j] % 64), first, [j \in 1..(n - 1) |-> j]), next |-> k + n]
(* Characters are read until `left` are, the text ends, or one < `least`.  *)
RECURSIVE Walk(_, _, _, _, _)
Walk(s, k, c, left, least) ==
    IF left = 0 \/ k > Len(s) \/ c < least THEN [k |-> k, c |-> c, left |-> left]
    ELSE LET p == CodePoint(s, k) IN Walk(s, p.next, p.c, left - 1, least)
fio_str_utf8_valid(s) ==
    \/ s = <<>>
    \/ LET w == Walk(s, 1, 1, Len(s), 1) IN w.k > Len(s) /\ w.c >= 0
fio_str_utf8_len(s) ==
    LET w == Walk(s, 1, 1, Len(s), 1) IN
    IF s = <<>> \/ w.k <= Len(s) \/ w.c = -1 THEN 0 ELSE Len(s) - w.left

SelectAtEnd(s) == [ok |-> TRUE, pos |-> Len(s), len |-> 0]
SelectError == [ok |-> FALSE, pos |-> -1, len |-> 0]
(* `p` is the place of the first byte; the walk backwards stops at the     *)
(* text's first byte without looking at it, unless it begins there.        *)
RECURSIVE WalkBack(_, _, _, _)
WalkBack(s, p, c, pos) ==
    LET n == fio_str_utf8_map(s[p])
        again(c2, pos2) == IF p - 1 > 1 /\ pos2 # 0 THEN WalkBack(s, p - 1, c2, pos2)
                           ELSE IF c2 # 0 THEN 0 ELSE p
    IN IF n = 5 THEN again(c + 1, pos)
       ELSE IF n \in 1..4 /\ c = n - 1 THEN again(0, pos + 1)
       ELSE 0
SelectLen(s, p, len) ==
    LET w == Walk(s, p, 0, len, 0) IN
    IF w.c = -1 THEN SelectError ELSE [ok |-> TRUE, pos |-> p - 1, len |-> w.k - p]
fio_str_utf8_select(s, pos, len) ==
    LET w == Walk(s, 1, 0, pos, 0)
        back == WalkBack(s, Len(s), 0, pos + 1)
    IN IF s = <<>> \/ pos = -1 THEN SelectAtEnd(s)
       ELSE IF pos >= 0
         THEN IF w.c = -1 THEN SelectError
              ELSE IF w.left # 0 \/ w.k > Len(s) THEN SelectAtEnd(s)
              ELSE SelectLen(s, w.k, len)
       ELSE IF back = 0 THEN SelectError ELSE SelectLen(s, back, len)

-----------------------------------------------------------------------------
(* Base 64. '=' decodes to 64, and so does 0 stand for no digit at all.    *)
base64_encodes(n, url) ==
    IF n < 26 THEN 65 + n ELSE IF n < 52 THEN 71 + n ELSE IF n < 62 THEN n - 4
    ELSE IF n = 62 THEN IF url THEN 45 ELSE 43 ELSE IF url THEN 95 ELSE 47
base64_decodes(c) ==
    IF c \in 65..90 THEN c - 65 ELSE IF c \in 97..122 THEN c - 71 ELSE IF c \in 48..57 THEN c + 4
    ELSE IF c \in {43, 45} THEN 62 ELSE IF c \in {44, 47, 95} THEN 63 ELSE IF c = 61 THEN 64 ELSE 0
BITVAL(c) == base64_decodes(c) % 64

Group(a, b, c) == <<(a \div 4) % 64, (a % 4) * 16 + (b \div 16), (b % 16) * 4 + (c \div 64), c % 64>>
fio_base64_encode(data, url) ==
    LET groups == Len(data) \div 3
        mod == Len(data) % 3
        digits(k, n) ==
            LET g == Group(Byte(data, 3 * k + 1), Byte(data, 3 * k + 2), Byte(data, 3 * k + 3)) IN
            [i \in 1..4 |-> IF i <= n THEN base64_encodes(g[i], url) ELSE 61]
    IN FlattenSeq([k \in 1..groups |-> digits(k - 1, 4)]) \o (IF mod = 0 THEN <<>> ELSE digits(groups, mod + 1))

(* The end of a text that is cut off; its digits are not joined as those   *)
(* of a whole group are.                                                   *)
TailBytes(t) ==
    CASE Len(t) = 1 -> <<BITVAL(t[1])>>
      [] Len(t) = 2 -> <<BITVAL(t[1]) * 4 + (BITVAL(t[2]) \div 64), (BITVAL(t[2]) * 16) % 256>>
      [] Len(t) = 3 -> <<BITVAL(t[1]) * 4 + (BITVAL(t[2]) \div 64),
                         ((BITVAL(t[2]) * 16) % 256) + (BITVAL(t[3]) \div 4), (BITVAL(t[3]) * 64) % 256>>
RECURSIVE DecodeGroups(_, _, _)
DecodeGroups(s, k, out) ==
    LET g == FromTo(s, k, IF k + 3 <= Len(s) THEN k + 3 ELSE Len(s))
        v(i) == BITVAL(g[i])
        whole == <<v(1) * 4 + (v(2) \div 16), ((v(2) * 16) % 256) + (v(3) \div 4), ((v(3) * 64) % 256) + v(4)>>
    IN IF k > Len(s) THEN [out |-> out, next |-> k, ok |-> TRUE]
       ELSE IF \E i \in DOMAIN g : base64_decodes(g[i]) = 0 THEN [out |-> out, next |-> k + Len(g), ok |-> FALSE]
       ELSE IF Len(g) < 4 THEN [out |-> out \o TailBytes(g), next |-> k + Len(g), ok |-> TRUE]
       ELSE DecodeGroups(s, SkipSpace(s, k + 4), out \o whole)
fio_base64_decode(s) ==
    LET known == {k \in DOMAIN s : base64_decodes(s[k]) # 0}   \* what follows the last one is skipped
        t == IF known = {} THEN <<>> ELSE FromTo(s, 1, Max(known))
        r == DecodeGroups(t, SkipSpace(t, 1), <<>>)
        padded == IF Byte(s, r.next - 1) # 61 THEN 0 ELSE IF Byte(s, r.next - 2) # 61 THEN 1 ELSE 2
    IN [ok |-> r.ok, out |-> IF t = <<>> THEN <<>> ELSE FromTo(r.out, 1, Len(r.out) - padded)]

-----------------------------------------------------------------------------
(* URLs. Each part runs to one of the characters that may follow it.       *)
Url == [scheme |-> <<>>, user |-> <<>>, password |-> <<>>, host |-> <<>>, port |-> <<>>, path |-> <<>>,
        query |-> <<>>, target |-> <<>>]
start_target(r, s, k) == [r EXCEPT !.target = FromTo(s, k, Len(s))]
start_query(r, s, k) ==
    LET e == Upto(s, k, {35})
        q == [r EXCEPT !.query = FromTo(s, k, e - 1)]
    IN IF e >= Len(s) THEN q ELSE start_target(q, s, e + 1)
start_path(r, s, k) ==
    LET e == Upto(s, k, {35, 63})
        q == [r EXCEPT !.path = FromTo(s, k, e - 1)]
    IN IF e > Len(s) THEN q ELSE IF s[e] = 35 THEN start_target(q, s, e + 1) ELSE start_query(q, s, e + 1)
(* After a host or a port.                                                 *)
Onwards(r, s, e) ==
    IF e > Len(s) THEN r
    ELSE IF s[e] = 63 THEN start_query(r, s, e + 1)
    ELSE IF s[e] = 35 THEN start_target(r, s, e + 1) ELSE start_path(r, s, e)
start_port(r, s, k) ==
    LET e == Upto(s, k, {47, 35, 63}) IN Onwards([r EXCEPT !.port = FromTo(s, k, e - 1)], s, e)
start_host(r, s, k) ==
    LET e == Upto(s, k, {47, 58, 35, 63})
        q == [r EXCEPT !.host = FromTo(s, k, e - 1)]
    IN IF Byte(s, e) = 58 THEN start_port(q, s, e + 1) ELSE Onwards(q, s, e)
start_password_Keeps(r, s, k) ==   \* mutant
    LET e == Upto(s, k, {47, 64})
        text == FromTo(s, k, e - 1)
        q == [r EXCEPT !.port = text, !.host = r.user]
    IN IF Byte(s, e) = 64 THEN start_host([r EXCEPT !.password = text], s, e + 1)
       ELSE IF e > Len(s) THEN q ELSE start_path(q, s, e)
start_password(r, s, k) ==
    LET e == Upto(s, k, {47, 64})
        text == FromTo(s, k, e - 1)
        q == [r EXCEPT !.port = text, !.host = r.user, !.user = <<>>]
    IN IF Byte(s, e) = 64 THEN start_host([r EXCEPT !.password = text], s, e + 1)
       ELSE IF e > Len(s) THEN q ELSE start_path(q, s, e)
(* scheme://host, scheme://user@host, scheme://user:password or host:port  *)
start_username(r, s, k) ==
    LET e == Upto(s, k, {58, 47, 64})
        text == FromTo(s, k, e - 1)
    IN IF e > Len(s) THEN [r EXCEPT !.host = text]
       ELSE IF s[e] = 47 THEN start_path([r EXCEPT !.host = text], s, e)
       ELSE IF s[e] = 64 THEN start_host([r EXCEPT !.user = text], s, e + 1)
       ELSE start_password([r EXCEPT !.user = text], s, e + 1)
fio_url_parse(s) ==
    LET e == Upto(s, 1, {58, 47, 64, 35, 63})
        text == FromTo(s, 1, e - 1)
    IN IF s = <<>> THEN Url
       ELSE IF s[1] = 47 THEN start_path(Url, s, 1)
       ELSE IF Byte(s, e) = 64 THEN start_host([Url EXCEPT !.user = text], s, e + 1)
       ELSE IF Byte(s, e) # 58 THEN Onwards([Url EXCEPT !.host = text], s, e)
       ELSE IF Byte(s, e + 1) = 47 /\ Byte(s, e + 2) = 47 THEN start_username([Url EXCEPT !.scheme = text], s, e + 3)
       ELSE start_password([Url EXCEPT !.user = text], s, e + 1)

-----------------------------------------------------------------------------
(* Dates. The day's time, then the calendar from the days since the epoch. *)
SplitTime(t) ==
    LET Floor(a, n, q) == IF t >= 0 \/ q * n = a THEN <<q, a - q * n>> ELSE <<q - 1, (a - q * n) + n>>
        Step(a, n) == Floor(a, n, CDiv(a, n))
        Week(days, w) == IF t >= 0 THEN (days + 4) % 7 ELSE IF w # 0 THEN w + 7 ELSE 0
        Days(d, h, m) == [days |-> d[1], hour |-> d[2], min |-> h[2], sec |-> m[2],
                          wday |-> Week(d[1], CRem(d[1] - 3, 7))]
        Hours(h, m) == Days(Step(h[1], 24), h, m)
        Minutes(m) == Hours(Step(m[1], 60), m)
    IN Minutes(Step(t, 60))
Civil(days) ==
    LET Month(a, doy, mp, m) ==
          LET year == a + (IF m <= 1 THEN 1 ELSE 0)
              leap == IF year % 4 = 0 /\ (year % 100 # 0 \/ year % 400 = 0) THEN 1 ELSE 0
          IN [year |-> year, mon |-> m, mday |-> doy - ((153 * mp + 2) \div 5) + 1,
              yday |-> (doy + leap + 28 + 31) % (365 + leap)]
        Day(a, doy, mp) == Month(a, doy, mp, mp + (IF mp < 10 THEN 2 ELSE -10))
        Of(a, doy) == Day(a, doy, (5 * doy + 2) \div 153)
        Year(era, doe, yoe) == Of(yoe + era * 400, doe - (365 * yoe + (yoe \div 4) - (yoe \div 100)))
        Within(era, doe) ==
          Year(era, doe, (doe - (doe \div 1460) + (doe \div 36524) - (doe \div 146096)) \div 365)
        Era(b, era) == Within(era, b - era * 146097)
        b == days + 719468
    IN Era(b, CDiv(IF b >= 0 THEN b ELSE b - 146096, 146097))
http_gmtime(t) ==
    LET Both(s, c) == [year |-> c.year, mon |-> c.mon, mday |-> c.mday, yday |-> c.yday,
                       hour |-> s.hour, min |-> s.min, sec |-> s.sec, wday |-> s.wday]
        At(s) == Both(s, Civil(s.days))
    IN At(SplitTime(t))

(* The formats: a day's or month's name is one symbol, a number its digits.*)
Two(n) == <<n \div 10, n - 10 * (n \div 10)>>
Four(n) == Two(n \div 100) \o Two(n % 100)   \* fio_ltoa of a year
Clock(tm) == Two(tm.hour) \o Two(tm.min) \o Two(tm.sec)
http_date2rfc7231(tm) == <<tm.wday>> \o Two(tm.mday) \o <<tm.mon>> \o Four(tm.year) \o Clock(tm)
http_date2timestamp(tm) == Four(tm.year) \o Two(tm.mon + 1) \o Two(tm.mday) \o Clock(tm)
http_date2rfc2822(tm) ==
    <<tm.wday>> \o (IF tm.mday < 10 THEN <<tm.mday>> ELSE Two(tm.mday)) \o <<tm.mon>> \o Four(tm.year) \o Clock(tm)
http_date2rfc2109(tm) == http_date2rfc7231(tm)   \* with another zone

(* A thread keeps the text of the reactor's last tick; a time that is not  *)
(* about eight seconds older is taken for "now".                           *)
http_time2str(cache, last_tick, t) ==
    LET Now(fresh) == [cache |-> fresh, date |-> fresh.date] IN
    IF (t - (t % 8)) + 7 < last_tick THEN [cache |-> cache, date |-> http_gmtime(t)]
    ELSE Now(IF last_tick > cache.tick THEN [tick |-> last_tick, date |-> http_gmtime(last_tick)] ELSE cache)

-----------------------------------------------------------------------------
(* Command line arguments. A line of the table: its names and its type; a  *)
(* value is kept under each name, or under no name with its number.        *)
NameOf(names, n) == SelectInSeq(names, LAMBDA line : n \in Range(line.names))
HelpNames == {<<45, 63>>, <<45, 104>>, <<45, 104, 101, 108, 112>>, <<45, 45, 104, 101, 108, 112>>}
(* The longest beginning of the argument that is a name.                   *)
RECURSIVE LongestName(_, _, _)
LongestName(names, arg, len) ==
    IF len = 0 \/ NameOf(names, FromTo(arg, 1, len)) # 0 THEN len ELSE LongestName(names, arg, len - 1)
SetAll(p, line, v) == [p EXCEPT !.values = @ \o [i \in DOMAIN line.names |-> <<line.names[i], v>>]]
PrintHelp(p) == [p EXCEPT !.exit = TRUE]

(* `value`: <<>> or << text >>; `apart`: it is the next argument.          *)
fio_cli_set_arg(p, line, value, apart) ==
    LET unnamed == [p EXCEPT !.count = @ + 1, !.values = Append(@, <<<<p.count + 1>>, value[1]>>)]
        moved(q) == IF apart THEN [q EXCEPT !.pos = @ + 1] ELSE q
    IN IF line = <<>>
         THEN IF value = <<>> \/ value[1] \in HelpNames THEN PrintHelp(p)
              ELSE IF p.max >= 0 /\ unnamed.count > p.max THEN PrintHelp(unnamed)
              ELSE unnamed
       ELSE IF line[1].type = "bool"
         THEN IF value # <<>> /\ ~apart THEN PrintHelp(p) ELSE SetAll(p, line[1], <<49>>)
       ELSE IF value = <<>> THEN PrintHelp(p)
       ELSE IF line[1].type = "int" /\ fio_atol(value[1], 1).end # Len(value[1]) + 1 THEN PrintHelp(p)
       ELSE IF value[1] = <<>> THEN moved(p)
       ELSE moved(SetAll(p, line[1], value[1]))
(* One argument, with what follows its name as its value.                  *)
ParseArgument(p, names, argv) ==
    LET arg == argv[p.pos]
        n == LongestName(names, arg, Len(arg))
        rest == FromTo(arg, n + 1, Len(arg))
        apart == n = Len(arg) /\ p.pos < Len(argv)
        value == IF apart THEN <<argv[p.pos + 1]>> ELSE IF n = Len(arg) THEN <<>> ELSE <<rest>>
        given == IF n # 0 /\ value # <<>> /\ Byte(value[1], 1) = 61 THEN <<Tail(value[1])>> ELSE value
        still == apart /\ given = value   \* a value after '=' is not the argument itself
    IN fio_cli_set_arg(p, IF n = 0 THEN <<>> ELSE <<names[NameOf(names, FromTo(arg, 1, n))]>>, given, still)
RECURSIVE ParseArguments(_, _, _)
ParseArguments(p, names, argv) ==
    IF p.exit \/ p.pos >= Len(argv) THEN p
    ELSE ParseArguments(ParseArgument([p EXCEPT !.pos = @ + 1], names, argv), names, argv)
fio_cli_start(names, argv, unnamed_min, unnamed_max) ==
    LET max == IF unnamed_max >= 0 /\ unnamed_max < unnamed_min THEN unnamed_min ELSE unnamed_max
        p == ParseArguments([pos |-> 0, count |-> 0, max |-> max, values |-> <<>>, exit |-> FALSE], names, argv)
    IN IF ~p.exit /\ p.count < unnamed_min THEN fio_cli_set_arg(p, <<>>, <<>>, FALSE) ELSE p
(* The last value set counts.                                              *)
fio_cli_get(p, name) ==
    LET set == {i \in DOMAIN p.values : p.values[i][1] = name} IN
    IF set = {} THEN <<>> ELSE <<p.values[Max(set)][2]>>
fio_cli_unnamed(p, index) == fio_cli_get(p, <<index + 1>>)

-----------------------------------------------------------------------------
(* The primitives of HPACK: integers with a prefix, strings, and strings   *)
(* compressed by Huffman codes.  Bytes are numbers, bits are 0 and 1.      *)

Mask(prefix) == 2^prefix - 1

(* the groups of seven bits an integer takes                               *)
RECURSIVE Groups(_)
Groups(i) == IF i = 0 THEN 0 ELSE 1 + Groups(i \div 128)
(* calc_final_length: from what is left of the integer                     *)
IntLength(i, prefix) == IF i < Mask(prefix) THEN 1 ELSE 1 + Groups(i - Mask(prefix))

RECURSIVE PackGroups(_, _, _, _)
PackGroups(out, limit, i, prefix) ==
    IF i <= 127 THEN [len |-> Len(out) + 1, out |-> Append(out, i)]
    ELSE IF Len(out) + 1 >= limit THEN [len |-> IntLength(i, prefix), out |-> Append(out, 128 + (i % 128))]
    ELSE PackGroups(Append(out, 128 + (i % 128)), limit, i \div 128, prefix)
(* the first byte keeps its bits above the prefix: `high`                  *)
hpack_int_pack(high, limit, i, prefix) ==
    IF limit = 0 THEN [len |-> IntLength(i, prefix), out |-> <<>>]
    ELSE IF i < Mask(prefix) THEN [len |-> 1, out |-> <<high + i>>]
    ELSE IF 1 >= limit THEN [len |-> IntLength(i, prefix), out |-> <<high + Mask(prefix)>>]
    ELSE PackGroups(<<high + Mask(prefix)>>, limit, i - Mask(prefix), prefix)

(* pos is the place of the first byte; at most eight bytes are looked at.  *)
hpack_int_unpack(data, pos, prefix) ==
    LET first == data[pos] % (2^prefix)
        end == IF Len(data) > pos + 7 THEN pos + 7 ELSE Len(data)
        stops == {k \in (pos + 1)..end : data[k] < 128}
        last == CHOOSE k \in stops : \A j \in stops : k <= j
        value == FoldLeft(LAMBDA sum, k : sum + ((data[k] % 128) * 2^(7 * (k - pos - 1))), Mask(prefix),
                          [k \in 1..(last - pos) |-> pos + k])
    IN IF first # Mask(prefix) THEN [value |-> first, pos |-> pos + 1]
       ELSE IF stops = {} THEN [value |-> -1, pos |-> end + 1]
       ELSE [value |-> value, pos |-> last + 1]

-----------------------------------------------------------------------------
(* Some symbols of the table, of 5 to 23 bits; 256 ends a string.          *)
huffman_encode_table(c) ==
    CASE c = 48 -> <<0, 0, 0, 0, 0>>
      [] c = 32 -> <<0, 1, 0, 1, 0, 0>>
      [] c = 58 -> <<1, 0, 1, 1, 1, 0, 0>>
      [] c = 38 -> <<1, 1, 1, 1, 1, 0, 0, 0>>
      [] c = 33 -> <<1, 1, 1, 1, 1, 1, 1, 0, 0, 0>>
      [] c = 0 -> <<1, 1, 1, 1, 1, 1, 1, 1, 1, 1, 0, 0, 0>>
      [] c = 1 -> <<1, 1, 1, 1, 1, 1, 1, 1, 1, 1, 1, 1, 1, 1, 1, 1, 1, 0, 1, 1, 0, 0, 0>>
      [] c = 256 -> [i \in 1..30 |-> 1]
Symbol == {0, 1, 32, 33, 38, 48, 58, 256}
(* where the tree's walk is at a leaf *)
huffman_decode_tree(bits) == {c \in Symbol : huffman_encode_table(c) = bits}

CodedBits(data) == FoldLeft(LAMBDA sum, c : sum + Len(huffman_encode_table(c)), 0, data)
HuffmanLength(data) == (CodedBits(data) + 7) \div 8
ByteOf(bits) == FoldLeft(LAMBDA n, b : 2 * n + b, 0, bits)
BitsOf(byte) == [i \in 1..8 |-> (byte \div 2^(8 - i)) % 2]

(* bits is what was written, comp_len counts the bytes that are full; the  *)
(* last byte may be full and not yet counted (offset 8)                    *)
RECURSIVE PackSymbols(_, _, _, _, _)
PackSymbols(data, limit, bits, comp_len, offset) ==
    LET code == huffman_encode_table(Head(data))
        left == IF offset = 0 THEN Len(code) ELSE Len(code) - (8 - offset)
        full == IF offset = 0 THEN comp_len ELSE comp_len + 1
    IN IF data = <<>> THEN [ok |-> TRUE, bits |-> bits, len |-> comp_len, offset |-> offset % 8]
       ELSE IF offset # 0 /\ Len(code) + offset <= 8
         THEN PackSymbols(Tail(data), limit, bits \o code, comp_len, offset + Len(code))
       ELSE IF (left + full * 8 + 7) \div 8 >= limit
         THEN [ok |-> FALSE, bits |-> bits, len |-> full, offset |-> 0]
       ELSE PackSymbols(Tail(data), limit, bits \o code, full + (left \div 8), left % 8)
hpack_huffman_pack(limit, data) ==
    LET p == PackSymbols(data, limit, <<>>, 0, 0)
        padded == p.bits \o [i \in 1..((8 - p.offset) % 8) |-> 1]
        bytes == [k \in 1..(Len(padded) \div 8) |-> ByteOf(SubSeq(padded, 8 * k - 7, 8 * k))]
    IN IF data = <<>> THEN [len |-> 0, out |-> <<>>]
       ELSE IF limit = 0 \/ ~p.ok THEN [len |-> HuffmanLength(data), out |-> <<>>]
       ELSE LET n == p.len + (IF p.offset # 0 THEN 1 ELSE 0) IN [len |-> n, out |-> SubSeq(bytes, 1, n)]

(* `expect`: the bits of the last byte after the last symbol are not all 1 *)
RECURSIVE UnpackBits(_, _, _, _, _)
UnpackBits(data, k, node, out, expect) ==
    LET bits == BitsOf(data[(k - 1) \div 8 + 1])
        bit == ((k - 1) % 8) + 1
        walk == Append(node, bits[bit])
        leaf == huffman_decode_tree(walk)
        fresh == IF bit = 1 THEN TRUE ELSE expect
    IN IF k > 8 * Len(data) THEN IF expect THEN [len |-> -1, out |-> out] ELSE [len |-> Len(out), out |-> out]
       ELSE IF leaf = {} THEN UnpackBits(data, k + 1, walk, out, fresh)
       ELSE IF leaf = {256} THEN IF fresh THEN [len |-> -1, out |-> out] ELSE [len |-> Len(out), out |-> out]
       ELSE UnpackBits(data, k + 1, <<>>, out \o SetToSeq(leaf), \E i \in (bit + 1)..8 : bits[i] = 0)
hpack_huffman_unpack(data) == UnpackBits(data, 1, <<>>, <<>>, FALSE)

-----------------------------------------------------------------------------
hpack_string_pack(limit, data, compress) ==
    LET comp_len == IF compress THEN HuffmanLength(data) ELSE Len(data)
        int == hpack_int_pack(IF compress THEN 128 ELSE 0, limit, comp_len, 7)
        body == IF compress THEN hpack_huffman_pack(limit - int.len, data) ELSE [len |-> Len(data), out |-> data]
    IN IF int.len + comp_len > limit THEN [len |-> int.len + comp_len, out |-> int.out]
       ELSE [len |-> int.len + body.len, out |-> int.out \o body.out]

(* -1 is an error; where the buffer is too small nothing is taken          *)
hpack_string_unpack(limit, encoded, pos) ==
    LET int == hpack_int_unpack(encoded, pos, 7)
        l == int.value
        body == SubSeq(encoded, int.pos, int.pos + l - 1)
        text == IF encoded[pos] >= 128 THEN hpack_huffman_unpack(body) ELSE [len |-> l, out |-> body]
    IN IF l = 0 THEN [len |-> 0, out |-> <<>>, pos |-> int.pos]
       ELSE IF l = -1 \/ l > Len(encoded) - int.pos + 1 THEN [len |-> -1, out |-> <<>>, pos |-> int.pos]
       ELSE IF text.len = -1 \/ text.len > limit THEN [len |-> text.len, out |-> <<>>, pos |-> pos]
       ELSE [len |-> text.len, out |-> text.out, pos |-> int.pos + l]
=============================================================================
