------------------------------- MODULE Params -------------------------------
(***************************************************************************)
(* URL decoding and the names of nested parameters: the query strings of   *)
(* Ruby programs (parse_nested_query) and the C library's queries and      *)
(* cookies (http_add2hash).                                                *)
(***************************************************************************)
EXTENDS Json

CONSTANTS PARAMS_MAX_DEPTH, NESTING   \* 5, and the bits of the nesting mask: 32

Amp == 38
Equal == 61
LB == 91
RB == 93
Find(buf, from, to, c) == FirstOf({i \in from..to : buf[i] = c})   \* memchr; 0: none

(* http_decode_url; the path of a URL keeps its '+'.                       *)
RECURSIVE DecodeFrom(_, _, _)
DecodeFrom(s, k, plus) ==
    LET ok == is_hex(Byte(s, k + 1)) /\ is_hex(Byte(s, k + 2))
        rest(n, c) == LET r == DecodeFrom(s, k + n, plus) IN [r EXCEPT !.out = <<c>> \o @]
    IN IF k > Len(s) THEN [ok |-> TRUE, out |-> <<>>]
       ELSE IF s[k] = 43 /\ plus THEN rest(1, 32)
       ELSE IF s[k] = 37
         THEN IF ok THEN rest(3, HexValue(s[k + 1]) * 16 + HexValue(s[k + 2])) ELSE [ok |-> FALSE, out |-> <<>>]
       ELSE rest(1, s[k])
http_decode_url(s) == DecodeFrom(s, 1, TRUE)
http_decode_path(s) == DecodeFrom(s, 1, FALSE)
(* Iodine::Rack::Utils raises an error instead (in place, once the string  *)
(* may have been altered).                                                 *)
url_decode(s) == LET d == http_decode_url(s) IN [raised |-> ~d.ok, out |-> d.out]
path_decode(s) == LET d == http_decode_path(s) IN [raised |-> ~d.ok, out |-> d.out]

-----------------------------------------------------------------------------
(* Ruby's hashes, arrays and strings as objects whose counts do not matter.*)
NameAt(h, o, key) == FirstOf({i \in DOMAIN Items(h, o) : h.cells[Items(h, o)[i][1].n].text = key})
ArefAt(s, i) == IF i = 0 THEN FIOBJ_INVALID ELSE s[i][2]
Aref(h, o, key) == ArefAt(Items(h, o), NameAt(h, o, key))
AsetNew(k, o, v) == Put(k.h, o, Append(Items(k.h, o), <<k.v, v>>))
AsetAt(h, o, key, v, s, i) ==
    IF i = 0 THEN AsetNew(New(h, Cell("str", key, 0)), o, v) ELSE Put(h, o, ReplaceAt(s, i, <<s[i][1], v>>))
Aset(h, o, key, v) == AsetAt(h, o, key, v, Items(h, o), NameAt(h, o, key))
IsNil(v) == v.t \in {"", "null"}
Raised(s) == [s EXCEPT !.raised = TRUE]

(* The container at `key` of a hash, made when there is none.              *)
Nested(s, o, key, type) ==
    LET Created(n) == [s EXCEPT !.h = Aset(n.h, o, key, n.v), !.at = n.v]
        At(there) == IF IsNil(there) THEN Created(New(s.h, Cell(type, <<>>, 0)))
                     ELSE IF TypeOf(s.h, there) # type THEN Raised(s)
                     ELSE [s EXCEPT !.at = there]
    IN At(Aref(s.h, o, key))

(* name[]: arr, hsh and hsh_key become the array that is meant.            *)
ArrayLevel(s, params, k) ==
    LET Inner(n) == [s EXCEPT !.h = fiobj_ary_push(n.h, s.arr, n.v), !.arr = n.v]
        Outer(r) == [r EXCEPT !.arr = r.at, !.hsh = FIOBJ_INVALID]
    IN IF s.arr # FIOBJ_INVALID THEN Inner(New(s.h, Cell("array", <<>>, 0)))
       ELSE Outer(Nested(s, IF s.hsh # FIOBJ_INVALID THEN s.hsh ELSE params,
                         IF s.hsh # FIOBJ_INVALID THEN s.key ELSE k, "array"))

(* name[][key]: the last hash of the array, or a new one when it has the   *)
(* key already, with all the keys that follow in the name.                 *)
RECURSIVE Deepest(_, _, _, _)
Deepest(s, name, k, v) ==
    LET close == Find(name, k + 1, Len(name), RB)
        key == FromTo(name, k + 1, close - 1)
    IN IF IsNil(v) \/ Byte(name, k) # LB \/ Byte(name, k + 1) = RB \/ close = 0 THEN [v |-> v, raised |-> FALSE]
       ELSE IF TypeOf(s.h, v) # "hash" THEN [v |-> v, raised |-> TRUE]
       ELSE Deepest(s, name, close + 1, Aref(s.h, v, key))
LastOf(h, o) == LET At(els) == IF els = <<>> THEN FIOBJ_INVALID ELSE Last(els)[2] IN At(Items(h, o))
InArray(s, last, deep) ==
    LET Next(n) == [s EXCEPT !.h = fiobj_ary_push(n.h, s.arr, n.v), !.hsh = n.v, !.arr = FIOBJ_INVALID] IN
    IF (last # FIOBJ_INVALID /\ TypeOf(s.h, last) # "hash") \/ deep.raised THEN Raised(s)
    ELSE IF last = FIOBJ_INVALID \/ ~IsNil(deep.v) THEN Next(New(s.h, Cell("hash", <<>>, 0)))
    ELSE [s EXCEPT !.hsh = last, !.arr = FIOBJ_INVALID]
Seen(s, last, key) == IF last = FIOBJ_INVALID THEN last ELSE Aref(s.h, last, key)
HashInArray_First(s, name, close, key) ==   \* mutant
    LET Of(last) == InArray(s, last, [v |-> Seen(s, last, key), raised |-> FALSE]) IN Of(LastOf(s.h, s.arr))
HashInArray(s, name, close, key) ==
    LET Deep(v) == IF TypeOf(s.h, v) = "hash" THEN Deepest(s, name, close + 1, v) ELSE [v |-> v, raised |-> FALSE]
        Of(last) == InArray(s, last, Deep(Seen(s, last, key)))
    IN Of(LastOf(s.h, s.arr))
HashLevel(s, params, k, name, close, key) ==
    LET At(r) == [r EXCEPT !.hsh = r.at, !.key = key] IN
    IF s.hsh = FIOBJ_INVALID /\ s.arr # FIOBJ_INVALID THEN [HashInArray(s, name, close, key) EXCEPT !.key = key]
    ELSE At(Nested(s, IF s.hsh # FIOBJ_INVALID THEN s.hsh ELSE params,
                   IF s.hsh # FIOBJ_INVALID THEN s.key ELSE k, "hash"))

RECURSIVE Levels(_, _, _, _, _)
Levels(s, params, k, name, pos) ==
    LET close == Find(name, pos + 2, Len(name), RB)
        deeper == [s EXCEPT !.depth = @ + 1]
    IN IF s.raised \/ pos > Len(name) THEN s
       ELSE IF s.depth = PARAMS_MAX_DEPTH THEN Raised(s)
       ELSE IF name[pos] # LB THEN Levels(deeper, params, k, name, pos + 1)
       ELSE IF Byte(name, pos + 1) = RB THEN Levels(ArrayLevel(deeper, params, k), params, k, name, pos + 2)
       ELSE IF close = 0 THEN Raised(s)
       ELSE Levels(HashLevel(deeper, params, k, name, close, FromTo(name, pos + 1, close - 1)),
                   params, k, name, close + 1)

http_add_to_params(h, params, name, value) ==
    LET Placed(s) ==
          [h |-> IF s.raised THEN s.h
                 ELSE IF s.arr # FIOBJ_INVALID THEN fiobj_ary_push(s.h, s.arr, value)
                 ELSE Aset(s.h, s.hsh, s.key, value),
           raised |-> s.raised]
        From(pos) ==
          IF pos = 0 THEN [h |-> Aset(h, params, name, value), raised |-> FALSE]
          ELSE Placed(Levels([h |-> h, arr |-> FIOBJ_INVALID, hsh |-> FIOBJ_INVALID, key |-> <<>>, at |-> FIOBJ_INVALID,
                              depth |-> 0, raised |-> FALSE], params, FromTo(name, 1, pos - 1), name, pos))
    IN From(Find(name, 2, Len(name), LB))

(* A pair without '=' is nil, or empty when its name is nested.            *)
Component(s) == IF 37 \in Range(s) \/ 43 \in Range(s) THEN http_decode_url(s) ELSE [ok |-> TRUE, out |-> s]
AddPair(r, pair, params) ==
    LET Add(n, key) == http_add_to_params(n.h, params, key, n.v)
        Read(eq, key, text) ==
          IF r.raised \/ ~key.ok \/ ~text.ok THEN Raised(r)
          ELSE Add(IF eq # 0 \/ Find(key.out, 2, Len(key.out), LB) # 0 THEN New(r.h, Cell("str", text.out, 0))
                   ELSE [h |-> r.h, v |-> Val("null", 0)], key.out)
        Cut(eq) == Read(eq, Component(IF eq = 0 THEN pair ELSE FromTo(pair, 1, eq - 1)),
                        Component(IF eq = 0 THEN <<>> ELSE FromTo(pair, eq + 1, Len(pair))))
    IN Cut(Find(pair, 1, Len(pair), Equal))
RECURSIVE Pairs(_, _)
Pairs(s, k) ==
    LET amp == Find(s, k, Len(s), Amp) IN
    IF k > Len(s) THEN <<>>
    ELSE IF amp = 0 THEN <<SubSeq(s, k, Len(s))>>
    ELSE <<FromTo(s, k, amp - 1)>> \o Pairs(s, amp + 1)
parse_nested_query_internal(s) ==
    LET params == New(NoObjects, Cell("hash", <<>>, 0))
        Read(r) == [h |-> r.h, v |-> params.v, raised |-> r.raised]
    IN Read(FoldLeft(LAMBDA acc, pair : AddPair(acc, pair, params.v), [h |-> params.h, raised |-> FALSE], Pairs(s, 1)))
-----------------------------------------------------------------------------
(* The C library's parameters own their objects. A hash is asked for its   *)
(* keys by the name as it was written, and is given them decoded.          *)
http_urlstr2fiobj(s) == LET d == http_decode_url(s) IN IF d.ok THEN d.out ELSE <<>>
LowerCase(s) == [i \in DOMAIN s |-> IF s[i] \in 65..90 THEN s[i] + 32 ELSE s[i]]
Words == <<<<<<116, 114, 117, 101>>, "true">>, <<<<110, 117, 108, 108>>, "null">>,
           <<<<102, 97, 108, 115, 101>>, "false">>>>
StringOf(h, s, encoded) == New(h, Cell("str", IF encoded THEN http_urlstr2fiobj(s) ELSE s, 0))
ReadAs(h, s, encoded, word, i, f) ==
    IF s = <<>> THEN New(h, Cell("str", <<>>, 0))
    ELSE IF word # 0 THEN [h |-> h, v |-> Val(Words[word][2], 0)]
    ELSE IF i.end = Len(s) + 1 THEN [h |-> h, v |-> Val("num", i.n)]
    ELSE IF f.end = Len(s) + 1 THEN New(h, Cell("float", <<>>, f.n))
    ELSE StringOf(h, s, encoded)
http_str2fiobj(h, s, encoded) ==
    ReadAs(h, s, encoded, FirstOf({i \in DOMAIN Words : Words[i][1] = LowerCase(s)}), fio_atol(s, 1), fio_atof(s, 1))

NewArray(h) == New(h, Cell("array", <<>>, 0))
NewHash(h) == New(h, Cell("hash", <<>>, 0))
ArrayOf(a, v) == [h |-> fiobj_ary_push(a.h, a.v, v), v |-> a.v]
SetAndFree(k, dest, v) == fiobj_free(fiobj_hash_set(k.h, dest, k.v, v), k.v)
SetNew(h, dest, name, encoded, v) == SetAndFree(StringOf(h, name, encoded), dest, v)

(* An object that is not an array becomes the first element of a new one.  *)
(* fiobj_hash_set gives up the hash's reference to it, which the array     *)
(* holds by then; fiobj_hash_replace hands it over.                        *)
ConvertAt(k, dest, a, replace) ==
    [h |-> fiobj_free(IF replace THEN fiobj_hash_replace(k.h, dest, k.v, a).h ELSE fiobj_hash_set(k.h, dest, k.v, a), k.v),
     v |-> a]
Convert(a, dest, name, encoded, replace) == ConvertAt(StringOf(a.h, name, encoded), dest, a.v, replace)
FirstArray(a, dest, name, encoded) == [h |-> SetNew(a.h, dest, name, encoded, a.v), v |-> a.v]
ArrayFrom(h, dest, name, encoded, replace, there) ==
    IF there = FIOBJ_INVALID THEN FirstArray(NewArray(h), dest, name, encoded)
    ELSE IF TypeOf(h, there) = "array" THEN [h |-> h, v |-> there]
    ELSE Convert(ArrayOf(NewArray(h), there), dest, name, encoded, replace)
ArrayAt(h, dest, name, encoded, replace) == ArrayFrom(h, dest, name, encoded, replace, Aref(h, dest, name))
Trimmed(name) == IF name # <<>> /\ Last(name) = RB THEN Front(name) ELSE name

place_in_array(h, dest, name, val, encoded) ==
    [h |-> ArrayOf(ArrayAt(h, dest, Trimmed(name), encoded, TRUE), val).h, ok |-> TRUE]
(* A name that is set already: the next hash of the array, or an array.    *)
NextHash(n, nested_ary, k, val) == fiobj_ary_push(fiobj_hash_set(n.h, n.v, k, val), nested_ary, n.v)
Grown(list, dest, k) == fiobj_hash_replace(list.h, dest, k, list.v).h
Among(r, dest, k, val, nested_ary) ==
    IF r.v = FIOBJ_INVALID THEN r.h
    ELSE IF nested_ary # FIOBJ_INVALID
      THEN NextHash(NewHash(fiobj_hash_replace(r.h, dest, k, r.v).h), nested_ary, k, val)
    ELSE Grown(ArrayOf(IF TypeOf(r.h, r.v) = "array" THEN r ELSE ArrayOf(NewArray(r.h), r.v), val), dest, k)
PlaceAt(k, dest, val, nested_ary) ==
    [h |-> fiobj_free(Among(fiobj_hash_replace(k.h, dest, k.v, val), dest, k.v, val, nested_ary), k.v), ok |-> TRUE]
place_in_hash(h, dest, name, val, encoded, nested_ary) ==
    PlaceAt(StringOf(h, Trimmed(name), encoded), dest, val, nested_ary)
Refused(h, val) == [h |-> fiobj_free(h, val), ok |-> FALSE]

(* What stands between the brackets: an array with hashes, or a hash. The  *)
(* place the rest of the name is for.                                      *)
NextInner(n, ary) == [h |-> fiobj_ary_push(n.h, ary, n.v), v |-> n.v, ary |-> ary]
LastInner(ary, last) == IF TypeOf(ary.h, last) = "hash" THEN [h |-> ary.h, v |-> last, ary |-> ary.v]
                        ELSE NextInner(NewHash(ary.h), ary.v)
InnerOf(ary) == LastInner(ary, LastOf(ary.h, ary.v))
InnerArray(h, dest, own, encoded) == InnerOf(ArrayAt(h, dest, own, encoded, FALSE))
FirstInner(m, dest, own, encoded) == [h |-> SetNew(m.h, dest, own, encoded, m.v), v |-> m.v, ary |-> FIOBJ_INVALID]
InnerAt(h, dest, own, encoded, there) ==
    IF there = FIOBJ_INVALID THEN FirstInner(NewHash(h), dest, own, encoded)
    ELSE [h |-> h, v |-> there, ary |-> FIOBJ_INVALID]
InnerHash(h, dest, own, encoded) == InnerAt(h, dest, own, encoded, Aref(h, dest, own))

(* One level of the name after the other: h, dest, the name that is left,  *)
(* the array that dest is an element of, and the levels that are left.     *)
OneLevelDown(at, inner, rest, val) ==
    IF TypeOf(inner.h, inner.v) # "hash" THEN [at EXCEPT !.refused = TRUE]
    ELSE [at EXCEPT !.h = inner.h, !.dest = inner.v, !.name = rest, !.ary = inner.ary, !.nesting = @ - 1]
RECURSIVE Rebase(_, _, _)
Rebase(at, val, encoded) ==
    LET name == at.name
        cut == Find(name, 1, Len(name), LB)
        own == Trimmed(FromTo(name, 1, cut - 1))
        indexed == name[cut + 1] = RB
    IN IF at.refused \/ at.nesting = 0 THEN Refused(at.h, val)
       ELSE IF cut = 0 THEN place_in_hash(at.h, at.dest, name, val, encoded, at.ary)
       ELSE IF cut = 1 THEN Refused(at.h, val)
       ELSE IF FromTo(name, cut, Len(name)) \in {<<LB>>, <<LB, RB>>}
         THEN place_in_array(at.h, at.dest, FromTo(name, 1, cut - 1), val, encoded)
       ELSE IF indexed /\ (name[cut + 2] # LB \/ Byte(name, cut + 3) = RB) THEN Refused(at.h, val)
       ELSE Rebase(OneLevelDown(at, IF indexed THEN InnerArray(at.h, at.dest, own, encoded) ELSE InnerHash(at.h, at.dest, own, encoded),
                           FromTo(name, cut + (IF indexed THEN 3 ELSE 1), Len(name)), val), val, encoded)
RECURSIVE SkipOpen(_)
SkipOpen(name) == IF name # <<>> /\ name[1] = LB THEN SkipOpen(Tail(name)) ELSE name
http_add2hash2(h, dest, name, val, encoded) ==
    Rebase([h |-> h, dest |-> dest, name |-> SkipOpen(name), ary |-> FIOBJ_INVALID, nesting |-> NESTING,
            refused |-> SkipOpen(name) = <<>>], val, encoded)
AddRead(v, dest, name, encoded) == http_add2hash2(v.h, dest, name, v.v, encoded).h
http_add2hash(h, dest, name, value, encoded) == AddRead(http_str2fiobj(h, value, encoded), dest, name, encoded)

(* Pairs without '=' are left out; "&amp;" separates like '&'.             *)
AddQueryPair(h, dest, q, k, eq, cut) ==
    IF eq = 0 THEN h ELSE http_add2hash(h, dest, FromTo(q, k, eq - 1), FromTo(q, eq + 1, cut - 1), TRUE)
RECURSIVE QueryFrom(_, _, _, _)
QueryFrom(h, dest, q, k) ==
    LET amp == Find(q, k, Len(q), Amp)
        cut == IF amp = 0 THEN Len(q) + 1 ELSE amp
        next == cut + (IF Has(q, cut, <<Amp, 97, 109, 112, 59>>) THEN 5 ELSE 1)
    IN IF k > Len(q) THEN h ELSE QueryFrom(AddQueryPair(h, dest, q, k, Find(q, k, cut - 1, Equal), cut), dest, q, next)
http_parse_query(h, dest, q) == QueryFrom(h, dest, q, 1)
RECURSIVE CookieFrom(_, _, _, _, _)
CookieFrom(h, dest, s, k, encoded) ==
    LET eq == Find(s, k, Len(s), Equal)
        cut == IF eq = 0 THEN k ELSE eq
        semi == Find(s, cut, Len(s), 59)
        end == IF semi = 0 THEN Len(s) + 1 ELSE semi
    IN IF k > Len(s) THEN h
       ELSE IF s[k] = 32 THEN CookieFrom(h, dest, s, k + 1, encoded)
       ELSE CookieFrom(http_add2hash(h, dest, FromTo(s, k, cut - 1), FromTo(s, cut + 1, end - 1), encoded),
                       dest, s, end + 1, encoded)
http_parse_cookies(h, dest, s, encoded) == CookieFrom(h, dest, s, 1, encoded)
=============================================================================
