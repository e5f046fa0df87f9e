------------------------------- MODULE Texts -------------------------------
(***************************************************************************)
(* Conversions of texts, each a single call: templates, JSON documents,    *)
(* parameters, the small codecs. A job is one call on one input; the step  *)
(* that performs it records what the code gave and what it should give.    *)
(***************************************************************************)
EXTENDS Responses, Codecs

CONSTANTS
    Jobs,            \* what is asked for, in sets: [kind, input, at]
    Files, Trees, MUSTACHE_NESTING_LIMIT, Templates, Contexts,
    CliNames,        \* the table of command line arguments
    Roots          \* contents of the public folder: [name -> file]

T == INSTANCE Mustache

VARIABLES job, done, got, want

vars == <<job, done, got, want>>

(* A document or a set of parameters as a value: what it is, its number,   *)
(* its text, and the parts with their keys.                                *)
Tree(t, n, text, items) == [t |-> t, n |-> n, text |-> text, items |-> items]
RECURSIVE Deep(_, _)
Deep(h, v) ==
    LET items == Items(h, v)
        c == h.cells[v.n]
    IN IF v.t # "ref" THEN Tree(v.t, v.n, <<>>, <<>>)
       ELSE Tree(c.t, c.n, c.text,
                 [i \in DOMAIN items |-> <<IF items[i][1] = FIOBJ_INVALID THEN <<>> ELSE h.cells[items[i][1].n].text,
                                           Deep(h, items[i][2])>>])
RECURSIVE Made(_, _)
Made(h, tree) ==
    LET n == New(h, Cell(tree.t, tree.text, tree.n))
        add(g, e) ==
            LET o == Made(g, e[2])
                k == New(o.h, Cell("str", e[1], 0))
            IN IF tree.t = "array" THEN fiobj_ary_push(o.h, n.v, o.v)
               ELSE fiobj_free(fiobj_hash_set(k.h, n.v, k.v, o.v), k.v)
    IN IF tree.t \notin {"str", "float", "array", "hash"} THEN [h |-> h, v |-> Val(tree.t, tree.n)]
       ELSE [h |-> FoldLeft(add, n.h, tree.items), v |-> n.v]

(* Every object is referred to as often as it is counted: by the caller    *)
(* (once per value it holds) and by the containers that are alive.         *)
RefsExact(h, held) ==
    /\ ~h.bad
    /\ \A n \in DOMAIN h.cells :
         LET inside(c) == FoldLeft(LAMBDA sum, e : sum + (IF e[1] = Val("ref", n) THEN 1 ELSE 0)
                                                       + (IF e[2] = Val("ref", n) THEN 1 ELSE 0), 0, c.items)
         IN h.cells[n].ref = FoldLeft(LAMBDA sum, c : sum + (IF c.ref > 0 THEN inside(c) ELSE 0), 0, h.cells)
                               + (IF Val("ref", n) \in held THEN 1 ELSE 0)

-----------------------------------------------------------------------------
Init ==
    /\ \E some \in Jobs : job \in some
    /\ done = FALSE /\ got = <<>> /\ want = <<>>

Performs(g, w) ==
    /\ ~done /\ done' = TRUE
    /\ got' = g /\ want' = w
    /\ UNCHANGED job

(* Iodine::Mustache.new(...).render(...)                                   *)
Renders ==
    /\ job.kind = "render"
    /\ Performs(T!iodine_mustache_render("t", T!Toks(Templates[job.at], 1), Contexts[job.text[1]]),
                [err |-> "ok", out |-> T!Means(Templates[job.at], <<Contexts[job.text[1]]>>, 0)])

(* A value is written by fiobj_obj2json and read by both parsers.          *)
BothRead(r, c, text) == Performs(<<Deep(r.h, r.v), Deep(c.h, c.v), r.consumed>>, <<job.tree, job.tree, Len(text)>>)
ReadText(m, text) == BothRead(fiobj_json2obj(m.h, text), iodine_json_convert(text), text)
WriteObject(m) == ReadText(m, fiobj_obj2json(m.h, m.v, job.at = 1))
Rereads ==
    /\ job.kind = "json"
    /\ WriteObject(Made(NoObjects, job.tree))

(* A text, whole or damaged, is parsed: who owns what afterwards.          *)
ParsedExact(r) == RefsExact(r.h, {r.v})
Parses ==
    /\ job.kind = "parse"
    /\ Performs(<<ParsedExact(fiobj_json2obj(NoObjects, job.text)), iodine_json_convert(job.text).store>>, <<TRUE, <<>>>>)
UpdatedExact(m) == RefsExact(fiobj_hash_update_json(m.h, m.v, job.text).h, {m.v})
Updates ==
    /\ job.kind = "update"
    /\ Performs(UpdatedExact(Made(NoObjects, job.tree)), TRUE)

(* The parameters of a request, from the query that stands for them.       *)
Query ==
    /\ job.kind = "query"
    /\ LET Held(r) == <<r.raised, Deep(r.h, r.v)>> IN
       Performs(Held(parse_nested_query_internal(job.text)), <<FALSE, job.tree>>)
QueryExact(m) == RefsExact(IF job.at = 0 THEN http_parse_query(m.h, m.v, job.text)
                           ELSE http_parse_cookies(m.h, m.v, job.text, TRUE), {m.v})
LibraryQuery ==
    /\ job.kind = "library"
    /\ Performs(QueryExact(NewHash(NoObjects)), TRUE)

-----------------------------------------------------------------------------
(* A text of characters: its bytes, its length, and a part of it.          *)
Bytes(chars) == FlattenSeq([i \in DOMAIN chars |-> utf8_from_u32(chars[i])])
Selects ==
    /\ job.kind = "utf8"
    /\ LET chars == job.tree.text
           s == Bytes(chars)
           n == Len(chars)
           from == IF job.at < 0 THEN n + 1 + job.at ELSE IF job.at > n THEN n ELSE job.at
           upto == IF from + job.text[1] > n THEN n ELSE from + job.text[1]
           part == Bytes(FromTo(chars, from + 1, upto))
       IN Performs(<<fio_str_utf8_valid(s), fio_str_utf8_len(s), fio_str_utf8_select(s, job.at, job.text[1])>>,
                   <<TRUE, n, [ok |-> TRUE, pos |-> Len(Bytes(FromTo(chars, 1, from))), len |-> Len(part)]>>)
Encodes ==
    /\ job.kind = "base64"
    /\ Performs(fio_base64_decode(fio_base64_encode(job.text, job.at = 1)), [ok |-> TRUE, out |-> job.text])

(* A URL with some of its parts.                                           *)
After(mark, part) == IF part = <<>> THEN <<>> ELSE mark \o part
Before(part, mark) == IF part = <<>> THEN <<>> ELSE part \o mark
UrlText(u) ==
    Before(u.scheme, <<58, 47, 47>>) \o Before(u.user \o After(<<58>>, u.password), <<64>>) \o u.host
      \o After(<<58>>, u.port) \o u.path \o After(<<63>>, u.query) \o After(<<35>>, u.target)
Splits ==
    /\ job.kind = "url"
    /\ Performs(fio_url_parse(UrlText(job.url)), job.url)

(* The calendar, counted from the years and months that have passed.       *)
IsLeap(y) == y % 4 = 0 /\ (y % 100 # 0 \/ y % 400 = 0)
MonthDays(y) == <<31, IF IsLeap(y) THEN 29 ELSE 28, 31, 30, 31, 30, 31, 31, 30, 31, 30, 31>>
LeapsBefore(y) == ((y - 1) \div 4) - ((y - 1) \div 100) + ((y - 1) \div 400)
YearDay(y, m, d) == FoldLeft(LAMBDA sum, days : sum + days, d - 1, SubSeq(MonthDays(y), 1, m))
DayOf(y, m, d) == 365 * (y - 1970) + LeapsBefore(y) - LeapsBefore(1970) + YearDay(y, m, d)
Number(digits) == FoldLeft(LAMBDA n, d : n * 10 + d, 0, digits)
DateRead(f) == <<f[1], Number(SubSeq(f, 2, 3)), f[4], Number(SubSeq(f, 5, 8)), SubSeq(f, 9, 14)>>
Dates ==
    /\ job.kind = "date"
    /\ LET y == job.text[1]
           m == job.text[2]
           d == job.text[3]
       IN Performs(Civil(DayOf(y, m, d)), [year |-> y, mon |-> m, mday |-> d, yday |-> YearDay(y, m, d)])
Times ==
    /\ job.kind = "time"
    /\ LET y == job.text[1]
           m == job.text[2]
           d == job.text[3]
           clock == [hour |-> job.text[4], min |-> job.text[5], sec |-> job.text[6]]
           t == DayOf(y, m, d) * 86400 + clock.hour * 3600 + clock.min * 60 + clock.sec
           Timed(tm) == <<DateRead(http_date2rfc7231(tm)), http_date2timestamp(tm), Len(http_date2rfc2822(tm))>>
       IN Performs(Timed(http_gmtime(t)),
                   <<<<(DayOf(y, m, d) + 4) % 7, d, m, y, Clock(clock)>>,
                     Four(y) \o Two(m + 1) \o Two(d) \o Clock(clock), IF d < 10 THEN 13 ELSE 14>>)

(* Two calls of one thread, and the reactor's tick at each.                *)
Clocks ==
    /\ job.kind = "clock"
    /\ LET c == job.text
           Then(one, two) ==
             Performs(<<one.date, two.date>>,
                      [i \in 1..2 |-> LET tick == c[2 * i - 1] t == c[2 * i] IN
                                      http_gmtime(IF (t - (t % 8)) + 7 < tick THEN t ELSE tick)])
           First(one) == Then(one, http_time2str(one.cache, c[3], c[4]))
       IN First(http_time2str([tick |-> 0, date |-> http_gmtime(0)], c[1], c[2]))

(* Text as a browser encodes it.                                           *)
Encode(s, plus) ==
    FlattenSeq([i \in DOMAIN s |->
      IF s[i] = 32 /\ plus THEN <<43>>
      ELSE IF s[i] \in {32, 37, 38, 43, 61} THEN <<37, 48 + (s[i] \div 16), HexDigit(s[i] % 16)>> ELSE <<s[i]>>])
Decodes ==
    /\ job.kind = "decode"
    /\ LET u == url_decode(Encode(job.text, TRUE))
           p == path_decode(Encode(job.text, FALSE))
       IN Performs(<<u.raised, u.out, p.raised, p.out>>, <<FALSE, job.text, FALSE, job.text>>)

(* Settings as a user writes them, in one of the three ways.               *)
Argument(set, way) ==
    CASE way = 1 -> <<set[1], set[2]>>
      [] way = 2 -> <<set[1] \o <<61>> \o set[2]>>
      [] way = 3 -> <<set[1] \o set[2]>>
Starts ==
    /\ job.kind = "cli"
    /\ LET argv == FlattenSeq([i \in DOMAIN job.sets |-> IF job.sets[i][1] = <<>> THEN <<job.sets[i][2]>>
                                                         ELSE Argument(job.sets[i], job.text[i])])
           unnamed == SelectSeq(job.sets, LAMBDA e : e[1] = <<>>)
           line(name) == CliNames[NameOf(CliNames, name)].names
           last(name) == LET is == {i \in DOMAIN job.sets : job.sets[i][1] \in Range(line(name))} IN
                         IF is = {} THEN <<>> ELSE <<job.sets[Max(is)][2]>>
           names == FlattenSeq([i \in DOMAIN CliNames |-> CliNames[i].names])
           Started(p) == <<p.exit, [i \in DOMAIN names |-> fio_cli_get(p, names[i])],
                        [i \in 1..p.count |-> fio_cli_unnamed(p, i - 1)]>>
       IN Performs(Started(fio_cli_start(CliNames, argv, 0, -1)),
                   <<FALSE, [i \in DOMAIN names |-> last(names[i])], [i \in DOMAIN unnamed |-> <<unnamed[i][2]>>]>>)

(* An integer and a string in HPACK: read back where there is room, and    *)
(* the length they need where there is not.                                *)
PacksInteger ==
    /\ job.kind = "integer"
    /\ LET i == job.text[1]
           prefix == job.text[2]
           p == hpack_int_pack(0, job.at, i, prefix)
           need == 1 + (IF i < Mask(prefix) THEN 0 ELSE IF i = Mask(prefix) THEN 1 ELSE Groups(i - Mask(prefix)))
           fits == job.at >= need
       IN Performs(<<p.len, IF fits THEN hpack_int_unpack(p.out, 1, prefix) ELSE [value |-> i, pos |-> 1]>>,
                   <<need, [value |-> i, pos |-> IF fits THEN need + 1 ELSE 1]>>)
PacksString ==
    /\ job.kind = "string"
    /\ LET compress == job.at = 1
           body == IF compress THEN (CodedBits(job.text) + 7) \div 8 ELSE Len(job.text)
           need == body + 1
           Packed(p) == <<p.len, hpack_string_unpack(Len(job.text), p.out, 1)>>
       IN Performs(Packed(hpack_string_pack(need + job.spare, job.text, compress)),
                   <<need, [len |-> Len(job.text), out |-> job.text, pos |-> need + 1]>>)

(* A request of known parts, and the environment that says the same.       *)
Upper(name) == [i \in DOMAIN name |-> IF name[i] = 45 THEN 95 ELSE IF name[i] > 96 THEN name[i] - 32 ELSE name[i]]
Environment ==
    /\ job.kind = "env"
    /\ LET q == job.request
           hosts == Before(q.name, After(<<58>>, q.port))
           special == ("host" :> <<hosts>>) @@ ("content-length" :> <<q.length>>) @@ ("content-type" :> <<q.type>>)
                        @@ (IF q.proto = <<>> THEN <<>>
                            ELSE (q.proxy :> <<IF q.proxy = "forwarded" THEN q.before \o Proto \o q.proto \o q.after ELSE q.proto>>))
           r == [method |-> "GET", path |-> "/", query |-> <<>>, version |-> "HTTP/1.1", peer |-> "peer", body |-> q.length,
                 special |-> special, others |-> q.others, tls |-> q.tls]
           Told(env) == <<env.SERVER_NAME, env.SERVER_PORT, env.CONTENT_LENGTH, env.CONTENT_TYPE, env.URL_SCHEME,
                          env.headers>>
       IN Performs(Told(copy2env(r)),
                   <<q.name, q.port, q.length, q.type,
                     IF q.proto # <<>> THEN q.proto ELSE IF q.tls THEN Https ELSE Http,
                     [n \in {HTTP_ \o Upper(m) : m \in DOMAIN q.others} |->
                        q.others[CHOOSE m \in DOMAIN q.others : HTTP_ \o Upper(m) = n]]>>)
(* Lines of values, given as one text, as an array or as both.             *)
JoinedLines(ls) == FlattenSeq([i \in DOMAIN ls |-> IF i = 1 THEN ls[i] ELSE <<10>> \o ls[i]])
HeaderValue(t, text, items) == [t |-> t, text |-> text, items |-> items]
Answers ==
    /\ job.kind = "headers"
    /\ LET texts == [i \in DOMAIN job.groups |-> HeaderValue("str", JoinedLines(job.groups[i]), <<>>)]
           val == IF Len(texts) = 1 THEN texts[1] ELSE HeaderValue("array", <<>>, texts)
       IN Performs(for_each_header_data(<<75, 101>>, val),
                   LET all == FlattenSeq(job.groups) IN [i \in DOMAIN all |-> <<<<107, 101>>, all[i]>>])

(* A request for a file of the public folder, in its own words: the file,  *)
(* the bytes, the tag it has, the encodings it takes. What was sent, and   *)
(* what the file says.                                                     *)
Handle(method, path, version, headers) ==
    [method |-> method, path |-> path, version |-> version, status |-> 200, headers |-> headers, out |-> <<>>,
     sent |-> <<>>, close |-> FALSE, closed |-> FALSE, gz |-> FALSE, depth |-> 0, bad |-> FALSE]
SpanText(span) ==
    BytesUnit \o (IF span[1] < 0 THEN <<>> ELSE fio_ltoa(span[1])) \o <<45>> \o (IF span[2] < 0 THEN <<>> ELSE fio_ltoa(span[2]))
Line(packet, name) == IF name \in DOMAIN packet.lines THEN packet.lines[name] ELSE <<>>
Asked(q) ==
    (IF q.host THEN "host" :> <<Said(<<104>>)>> ELSE <<>>)
      @@ (IF q.span = <<>> THEN <<>> ELSE "range" :> <<Said(SpanText(q.span))>>)
      @@ (IF q.tag = <<>> THEN <<>> ELSE "if-none-match" :> <<Field("etag", q.tag)>>)
      @@ (IF q.held = <<>> THEN <<>> ELSE "if-range" :> <<Field("etag", q.held)>>)
      @@ (IF q.gzip THEN "accept-encoding" :> <<Said(<<98, 44>> \o GzipWord)>> ELSE <<>>)
      @@ (IF q.connection = <<>> THEN <<>> ELSE "connection" :> <<Said(q.connection)>>)
(* The bytes of a file that a span names; the last ones when it begins     *)
(* with nothing.                                                           *)
Spanned(span, size) ==
    IF span[1] < 0 THEN <<IF span[2] > size THEN 0 ELSE size - span[2], size - 1>>
    ELSE <<span[1], IF span[2] < 0 \/ span[2] >= size THEN size - 1 ELSE span[2]>>
Meant(q, fs) ==
    LET plain == Folder(public_folder, q.file) \o q.file
        name == IF q.gzip /\ plain \o Gz \in DOMAIN fs THEN plain \o Gz ELSE plain
        f == fs[name]
        size == Len(f.data)
        some == q.span # <<>> /\ (q.held = <<>> \/ q.held = Etag(f).n)
        at == IF some THEN Spanned(q.span, size) ELSE <<0, size - 1>>
        status == IF q.tag = Etag(f).n THEN 304 ELSE IF ~some THEN 200 ELSE IF at[1] >= size THEN 416 ELSE 206
        part == SubSeq(f.data, at[1] + 1, at[2] + 1)
        text == IF status = 416 THEN <<416>> ELSE part
        closes == IF q.connection = <<>> THEN q.version # "HTTP/1.1" ELSE q.connection[1] # 107
        error(code) == <<code, <<code>>, <<Num(1)>>, <<>>, <<>>, closes \/ code = 503>>
    IN IF q.method = "" THEN error(503)
       ELSE IF ~q.host THEN error(400)
       ELSE IF q.method = "PUT" THEN error(403)
       ELSE IF plain \notin DOMAIN fs \/ q.method = "POST" THEN <<200, <<0>>, <<Num(1)>>, <<>>, <<>>, closes>>
       ELSE <<status, IF q.method = "HEAD" \/ status = 304 THEN <<>> ELSE text,
              <<Num(IF status = 304 THEN 0 ELSE Len(text))>>,
              IF status = 206 THEN <<Field("range", <<at[1], at[2], size>>)>>
              ELSE IF status = 416 THEN <<Field("range", <<size>>)>> ELSE <<>>,
              IF name # plain /\ q.method = "GET" /\ status \in {200, 206} THEN <<Said(GzipWord)>> ELSE <<>>, closes>>
Says(p, closed) ==
    <<p.status, p.body, Line(p, "content-length"), Line(p, "content-range"), Line(p, "content-encoding"), closed>>
Once(h) == IF h.bad \/ Len(h.sent) # 1 THEN <<>> ELSE Says(h.sent[1], h.closed)
Request(q) == Handle(q.method, q.path, q.version, Asked(q))
Serves ==
    /\ job.kind = "file"
    /\ Performs(Once(IF job.request.method = "" THEN http_send_error2(Request(job.request), Roots[job.at], 503)   \* refused
                     ELSE http_on_request_handler(Request(job.request), Roots[job.at])),
                Meant(job.request, Roots[job.at]))
(* A cookie, and what a browser reads of it: the name, the value and the   *)
(* attributes.                                                             *)
Attributes(text) ==
    LET semis == {k \in DOMAIN text : text[k] = 59}
        from(k) == LET before == {j \in semis : j < k} IN IF before = {} THEN 1 ELSE Max(before) + 1
        trim(s) == SelectSeq(s, LAMBDA c : c # 32)
    IN {trim(SubSeq(text, from(k), k - 1)) : k \in semis}
CookieTold(c, text, first, eq) ==
    <<http_decode_path(SubSeq(first, 1, eq - 1)).out, http_decode_path(SubSeq(first, eq + 1, Len(first))).out,
      Attributes(text) \ {first}>>
CookieUpto(c, text, first) == CookieTold(c, text, first, FirstOf({k \in DOMAIN first : first[k] = 61}))
CookieRead(c, text) == CookieUpto(c, text, SubSeq(text, 1, FirstOf({k \in DOMAIN text : text[k] = 59}) - 1))
CookieMeant(c, age) ==
    <<c.name, c.value,
      IF job.at = 1 THEN {}
      ELSE {MaxAge \o fio_ltoa(a) : a \in {age} \ {0}} \cup {Domain \o d : d \in {c.domain} \ {<<>>}}
             \cup {Path \o d : d \in {c.path} \ {<<>>}}
             \cup (IF c.http_only THEN {Front(HttpOnly)} ELSE {}) \cup (IF c.secure THEN {Front(Secure)} ELSE {})>>
CookieText(out) == IF job.at = 1 THEN out["cookie"][1].n \o <<59>> ELSE out["set-cookie"][1].n
Cookies ==
    /\ job.kind = "cookie"
    /\ Performs(CookieRead(job.cookie, CookieText(http_set_cookie(Handle("GET", <<47>>, "HTTP/1.1", <<>>), job.cookie, job.at = 1).h.out)),
                CookieMeant(job.cookie, IF job.cookie.deleted THEN -1 ELSE job.cookie.max_age))

Next == \/ Renders \/ Rereads \/ Parses \/ Updates \/ Query \/ LibraryQuery
        \/ Selects \/ Encodes \/ Splits \/ Dates \/ Times \/ Clocks \/ Decodes \/ Starts
        \/ PacksInteger \/ PacksString \/ Environment \/ Answers
        \/ Serves \/ Cookies
Spec == Init /\ [][Next]_vars

-----------------------------------------------------------------------------
Answered(kinds) == done /\ job.kind \in kinds => got = want

(* Iodine::Mustache gives what the template says: sections repeat with     *)
(* their contexts, inner names hide outer ones, and every line of a padded *)
(* partial is padded, also across nested and recursive partials.           *)
TemplatesRender == Answered({"render"})

(* What the JSON formatter writes, compact or indented, both parsers read  *)
(* back as the same value, and no character is left over.                  *)
JsonRoundTrip == Answered({"json"})

(* However a document or a query is cut short or damaged, every object is  *)
(* owned as often as it is counted, none is leaked or released twice, and  *)
(* Ruby's parser leaves nothing behind in IodineStore.                     *)
NothingLeftBehind == Answered({"parse", "update", "library"})

(* Nested parameters written as a form writes them are read back as the    *)
(* same hashes, arrays and strings.                                        *)
ParametersRead == Answered({"query"})

(* UTF-8 selection, base 64, URLs, the calendar, URL decoding, command     *)
(* lines and HPACK undo what was written; a cached date is never of an     *)
(* older tick.                                                             *)
CodecsInvert == Answered({"utf8", "base64", "url", "date", "time", "clock", "decode", "cli", "integer", "string"})

(* Rack's environment says what the request said: host and port, length    *)
(* and type, the scheme a proxy forwarded, and every other header under    *)
(* its name; the response has every line of Rack's headers (iodine_http.c, *)
(* copy2env and for_each_header_data).                                     *)
RackSaysTheSame == Answered({"env", "headers"})

(* A request for a file of the public folder is answered once and says the *)
(* truth: the bytes that were asked for, how many there are and where they *)
(* lie in the file, the encoding, and whether the connection is closed; a  *)
(* cookie reaches the browser as it was given (http.c, http1.c).           *)
FilesServed == Answered({"file", "cookie"})
=============================================================================
