----------------------------- MODULE Responses -----------------------------
(***************************************************************************)
(* Responses of the HTTP layer: headers, cookies, bodies, files of the     *)
(* public folder and error pages, down to the packet HTTP/1.1 writes. A    *)
(* handle collects what is to be sent; `sent` are the packets, `bad` is    *)
(* set where the code uses memory it has released or never returns.        *)
(***************************************************************************)
EXTENDS Params

CONSTANTS
    HTTP_MAX_HEADER_LENGTH,         \* files below it are read into the packet
    LONGEST_FILE_EXTENSION_LENGTH,
    MimeTypes,                      \* the extensions of the registry
    public_folder,
    STACK                           \* bound: error pages within error pages

(* A header's value: a text, a number, a date, a tag, a range, a type.     *)
Field(t, n) == [t |-> t, n |-> n]
Said(s) == Field("text", s)
Num(n) == Field("num", <<n>>)
Etag(f) == Field("etag", <<f.mtime, Len(f.data)>>)
LastModified(f) == Field("date", <<f.mtime>>)
Type(ext) == Field("type", ext)
OctetStream == Type(<<>>)

http_s_new(h) == [h EXCEPT !.method = "", !.status = 200, !.headers = <<>>, !.out = <<>>]
HTTP_INVALID_HANDLE(h) == h.method = "" /\ h.status # 0

-----------------------------------------------------------------------------
set_header_add(out, name, value) ==
    IF name \in DOMAIN out THEN [out EXCEPT ![name] = Append(@, value)] ELSE out @@ (name :> <<value>>)
http_set_header(h, name, value) ==
    IF HTTP_INVALID_HANDLE(h) THEN h ELSE [h EXCEPT !.out = set_header_add(@, name, value)]
http_set_header_if_none(h, name, value) ==
    IF HTTP_INVALID_HANDLE(h) \/ name \in DOMAIN h.out THEN h ELSE [h EXCEPT !.out = @ @@ (name :> <<value>>)]
Single(h, name) == name \in DOMAIN h.headers /\ Len(h.headers[name]) = 1
Given(h, name) == h.headers[name][1]

(* http_mimetype_find2: the extension at the end of the URL, in lower case *)
Extension(url) ==
    LET dots == {k \in DOMAIN url : url[k] = 46 /\ \A j \in (k + 1)..Len(url) : url[j] \notin {46, 47}}
    IN IF dots = {} \/ (dots = {1} /\ Len(url) < LONGEST_FILE_EXTENSION_LENGTH) THEN <<>>
       ELSE SubSeq(url, Max(dots) + 1, Len(url))
http_mimetype_find2(url) ==
    LET ext == LowerCase(Extension(url)) IN IF ext \in MimeTypes THEN Type(ext) ELSE OctetStream
Overruns(url) == Len(Extension(url)) > LONGEST_FILE_EXTENSION_LENGTH   \* the thread's buffer

add_content_length(h, n) ==
    [h EXCEPT !.out = IF "content-length" \in DOMAIN @ THEN @ ELSE @ @@ ("content-length" :> <<Num(n)>>)]
add_content_type(h) ==
    [h EXCEPT !.out = IF "content-type" \in DOMAIN @ THEN @ ELSE @ @@ ("content-type" :> <<http_mimetype_find2(h.path)>>),
              !.bad = @ \/ ("content-type" \notin DOMAIN h.out /\ Overruns(h.path))]
add_date(h) ==
    [h EXCEPT !.out = IF "date" \in DOMAIN @ THEN @ ELSE @ @@ ("date" :> <<Field("date", <<0>>)>>)]

-----------------------------------------------------------------------------
(* headers2str of a server: who closes, and what is said about it.         *)
Letter(v) == IF v.t = "text" THEN Byte(v.n, 1) ELSE 0
KeepsAlive(h) ==
    IF "connection" \in DOMAIN h.headers THEN ~Single(h, "connection") \/ Letter(Given(h, "connection")) \in {0, 75, 107}
    ELSE ~h.close /\ h.version = "HTTP/1.1"
headers2str(h) ==
    LET told == "connection" \in DOMAIN h.out
        close == IF told THEN Letter(h.out["connection"][1]) \in {67, 99} ELSE ~KeepsAlive(h)
        line == IF told THEN <<>> ELSE "connection" :> <<Said(IF KeepsAlive(h) THEN <<107>> ELSE <<99>>)>>
    IN [h |-> [h EXCEPT !.close = @ \/ close],
        packet |-> [status |-> h.status, lines |-> h.out @@ line, body |-> <<>>]]
http1_after_finish(h) == [http_s_new(h) EXCEPT !.closed = @ \/ h.close]
Sent(p, body) == [p.h EXCEPT !.sent = Append(@, [p.packet EXCEPT !.body = body])]
Sends(h, body, whole) ==
    LET Done(s) == IF whole THEN http1_after_finish(s) ELSE [s EXCEPT !.closed = TRUE]
    IN Done(Sent(headers2str(h), body))
http1_send_body(h, data) == Sends(h, data, TRUE)
htt1p_finish(h) == Sends(h, <<>>, TRUE)
http1_sendfile(h, f, length, offset) ==
    IF length < HTTP_MAX_HEADER_LENGTH /\ f.fault = "read" THEN Sends(h, <<>>, FALSE)   \* pread failed
    ELSE Sends(h, SubSeq(f.data, offset + 1, offset + length), TRUE)

Answer(ret, h) == [ret |-> ret, h |-> h]
http_finish(h) == htt1p_finish(add_date(add_content_length(h, 0)))
http_send_body(h, data) ==
    IF HTTP_INVALID_HANDLE(h) THEN h
    ELSE IF data = <<>> THEN http_finish(h)
    ELSE http1_send_body(add_date(add_content_length(h, Len(data))), data)
http_sendfile(h, f, length, offset) ==
    IF HTTP_INVALID_HANDLE(h) THEN h
    ELSE http1_sendfile(add_date(add_content_type(add_content_length(h, length))), f, length, offset)

-----------------------------------------------------------------------------
Slash == 47
Dot == 46
Html == <<46, 104, 116, 109, 108>>
IndexHtml == <<105, 110, 100, 101, 120>> \o Html
Gz == <<46, 103, 122>>
GzipWord == <<103, 122, 105, 112>>
BytesUnit == <<98, 121, 116, 101, 115, 61>>

http_test_encoded_path(s) ==
    \E k \in DOMAIN s : s[k] = Slash /\ (Byte(s, k + 1) = Slash \/ Has(s, k + 1, <<Dot, Dot, Slash>>))

(* The name of the file, decoded; a C string ends with the first NUL.      *)
Folder(prefix, encoded) ==
    IF prefix # <<>> /\ Last(prefix) = Slash /\ Byte(encoded, 1) = Slash THEN Front(prefix) ELSE prefix
Filename(prefix, encoded) ==
    LET d == http_decode_path(encoded)
        name == Folder(prefix, encoded) \o d.out
    IN [ok |-> d.ok /\ ~http_test_encoded_path(d.out),
        name |-> IF Last(name) = Slash THEN name \o IndexHtml ELSE name]
UptoNul(s, k) == IF k = 0 THEN s ELSE SubSeq(s, 1, k - 1)
CString(s) == UptoNul(s, Find(s, 1, Len(s), 0))
IsFile(fs, name) == \E n \in DOMAIN fs : n = CString(name) /\ fs[n].regular
EndsWithGz(name) == Len(name) >= 3 /\ Has(name, Len(name) - 2, Gz)
TakesGzip(h) ==
    /\ Single(h, "accept-encoding")
    /\ \E k \in DOMAIN Given(h, "accept-encoding").n : Has(Given(h, "accept-encoding").n, k, GzipWord)
TriesGz(h, fs, name) == TakesGzip(h) /\ ~EndsWithGz(name) /\ IsFile(fs, name \o Gz)

(* The part of the file that is asked for. `skip` goes on to open the file *)
(* without a look at the method.                                           *)
Part(kind, from, offset, length) == [kind |-> kind, from |-> from, offset |-> offset, length |-> length]
Chosen(a, b, size) ==
    LET invalid == Part("invalid", 0, 0, size) IN
    IF b # 0 THEN IF a < 0 \/ b <= a \/ b >= size THEN invalid ELSE Part("part", a, a, b - a + 1)
    ELSE IF a < 0 THEN IF 0 - a >= size THEN invalid ELSE Part("part", a, size + a, 0 - a)
    ELSE IF a >= size THEN invalid ELSE Part("part", a, a, size - a)
RangeOf(text, size) ==
    LET From(a) == Chosen(a.n, IF a.n >= 0 THEN fio_atol(text, a.end + 1).n ELSE 0, size)
    IN IF Has(text, 1, BytesUnit) THEN From(fio_atol(text, Len(BytesUnit) + 1)) ELSE Part("skip", 0, 0, size)
Differs(h, f) == \A v \in {Etag(f), LastModified(f)} : ~Single(h, "if-range") \/ Given(h, "if-range") # v
Requested(h, f) ==
    IF ("if-range" \in DOMAIN h.headers /\ Differs(h, f)) \/ "range" \notin DOMAIN h.headers
      THEN Part("whole", 0, 0, Len(f.data))
      ELSE RangeOf(Given(h, "range").n, Len(f.data))
ContentRange(p, size) == Field("range", <<p.from, p.from + p.length - 1, size>>)

RECURSIVE http_sendfile2(_, _, _, _), http_send_error(_, _, _)
OpenFile(h, fs, name, f, p) ==   \* open_file
    LET gz == IF h.gz THEN http_set_header(h, "content-encoding", Said(GzipWord)) ELSE h
        plain == IF h.gz THEN SubSeq(name, 1, Len(name) - 3) ELSE name
        dots == {k \in 2..Len(plain) : plain[k] = Dot}
        ext == IF dots = {} THEN SubSeq(plain, 2, Len(plain)) ELSE SubSeq(plain, Max(dots) + 1, Len(plain))
        typed == IF ext \in MimeTypes THEN http_set_header_if_none(gz, "content-type", Type(ext)) ELSE gz
    IN IF f.fault = "open" THEN http_send_error(h, fs, 500) ELSE http_sendfile(typed, f, p.length, p.offset)
Method(h, fs, name, f, p) ==
    CASE h.method = "OPTIONS" -> http_finish([http_set_header(h, "allow", Said(<<71, 72>>)) EXCEPT !.status = 200])
      [] h.method = "HEAD" -> http_finish(http_set_header(h, "content-length", Num(p.length)))
      [] h.method \in {"GET", "POST"} -> OpenFile(h, fs, name, f, p)   \* and every other name of four letters
      [] OTHER -> http_send_error(h, fs, 403)
Partial(h, f, p) ==
    http_set_header(http_set_header([h EXCEPT !.status = 206], "content-range", ContentRange(p, Len(f.data))),
                    "accept-ranges", Said(BytesUnit))
Delivers(h, fs, name, f, p) ==
    CASE p.kind \in {"whole", "part"} -> Method(IF p.kind = "part" THEN Partial(h, f, p) ELSE h, fs, name, f, p)
      [] p.kind = "skip" -> OpenFile(h, fs, name, f, p)
      [] p.kind = "invalid" ->
           http_send_error(http_set_header(h, "content-range", Field("range", <<Len(f.data)>>)), fs, 416)
(* if-range is looked at with a date that a header of the same name freed  *)
IfRange(h, f, dated) ==
    [h EXCEPT !.bad = @ \/ (dated /\ "if-range" \in DOMAIN h.headers /\ Given(h, "if-range") # Etag(f)),
              !.headers = IF "if-range" \in DOMAIN @ /\ Differs(h, f) THEN [n \in DOMAIN @ \ {"range"} |-> @[n]] ELSE @]
Matches(h, fs, name, f, dated) ==
    IF Single(h, "if-none-match") /\ Given(h, "if-none-match") = Etag(f) THEN http_finish([h EXCEPT !.status = 304])
    ELSE Delivers(IfRange(h, f, dated), fs, name, f, Requested(h, f))
Described(h, f) ==
    LET kept == http_set_header_if_none(h, "cache-control", Field("age", <<>>))
    IN http_set_header(http_set_header_if_none(kept, "last-modified", LastModified(f)), "etag", Etag(f))
Found(h, fs, name, f) ==     \* found_file
    Matches(Described(h, f), fs, name, f, "last-modified" \in DOMAIN h.out)
(* The file that is looked for first is the compressed one.                *)
Looks(h, fs, name) ==
    LET gz == TriesGz(h, fs, name)
        Read(file) == Found([h EXCEPT !.depth = @ + 1, !.gz = gz], fs, file, fs[CString(file)])
    IN IF h.depth >= STACK THEN Answer(0, [h EXCEPT !.bad = TRUE])
       ELSE IF gz \/ IsFile(fs, name) THEN Answer(0, Read(IF gz THEN name \o Gz ELSE name))
       ELSE Answer(-1, h)
http_sendfile2(h, fs, prefix, encoded) ==
    LET Named(f) == IF HTTP_INVALID_HANDLE(h) \/ ~f.ok THEN Answer(-1, h) ELSE Looks(h, fs, f.name)
    IN Named(Filename(prefix, encoded))
ErrorPage(error) == <<Slash>> \o fio_ltoa(error) \o Html
http_send_error(h, fs, error) ==
    LET code == IF error \in 100..999 THEN error ELSE 500
        Else(r) == IF r.ret = 0 THEN r.h
                   ELSE http_send_body(http_set_header(r.h, "content-type", Type(<<116>>)), <<code>>)   \* the status as a text
    IN Else(http_sendfile2([h EXCEPT !.status = code], fs, public_folder, ErrorPage(code)))

(* A request as it arrives: its host, a file of that name, the application *)
(* (which answers with a text of its own).                                 *)
on_request(h) == http_send_body(h, <<0>>)
http_on_request_handler(h, fs) ==
    LET known == [h EXCEPT !.headers["host"] = <<Last(@)>>]
        Else(r) == IF r.ret = 0 THEN r.h ELSE on_request(r.h)
    IN IF "host" \notin DOMAIN h.headers THEN http_send_error(h, fs, 400)
       ELSE Else(IF h.method = "POST" \/ public_folder = <<>> THEN Answer(-1, known)
                 ELSE http_sendfile2(known, fs, public_folder, h.path))
(* A connection that is refused, or has sent nonsense.                     *)
http_send_error2(h, fs, error) == [http_send_error(http_s_new(h), fs, error) EXCEPT !.closed = TRUE]

-----------------------------------------------------------------------------
(* http_set_cookie. `t` still is the string's buffer when a blank is put   *)
(* at its own count of the length, behind which the attributes were        *)
(* written; the string of a client's cookie never gets its length.         *)
HexUpper(n) == IF n < 10 THEN 48 + n ELSE 55 + n
NameChar == (48..57) \cup (65..90) \cup (97..122) \cup {33, 35, 36, 37, 38, 39, 42, 43, 45, 46, 94, 95, 96, 124, 126}
ValueChar == (33..126) \ {34, 44, 59, 92}
Escape(s, legal) ==
    FlattenSeq([i \in DOMAIN s |-> IF s[i] \in legal THEN <<s[i]>>
                                   ELSE <<37, HexUpper(s[i] \div 16), HexUpper(s[i] % 16)>>])
Blank == 32
SemiBlank == <<59, Blank>>
MaxAge == <<77, 97, 120, 45, 65, 103, 101, 61>>
Domain == <<100, 111, 109, 97, 105, 110, 61>>
Path == <<112, 97, 116, 104, 61>>
HttpOnly == <<72, 116, 116, 112, 79, 110, 108, 121, 59>>
Secure == <<115, 101, 99, 117, 114, 101, 59>>
Attribute(c, name, value) ==
    IF value = <<>> THEN c
    ELSE [text |-> [(c.text \o name \o value \o <<59>>) EXCEPT ![c.len + 1] = Blank], len |-> c.len + 1]
http_set_cookie(h, cookie, client) ==
    LET pair == Escape(cookie.name, NameChar) \o <<61>> \o Escape(cookie.value, ValueChar)
        max_age == IF cookie.deleted THEN -1 ELSE cookie.max_age
        aged == pair \o SemiBlank \o (IF max_age = 0 THEN <<>> ELSE MaxAge \o fio_ltoa(max_age) \o SemiBlank)
        c == Attribute(Attribute([text |-> aged, len |-> Len(aged)], Domain, cookie.domain), Path, cookie.path)
        flags == (IF cookie.http_only THEN HttpOnly ELSE <<>>) \o (IF cookie.secure THEN Secure ELSE <<>>)
    IN IF HTTP_INVALID_HANDLE(h) \/ (client /\ cookie.deleted) THEN Answer(-1, h)
       ELSE IF client THEN Answer(0, [h EXCEPT !.out = set_header_add(@, "cookie", Said(<<>>))])
       ELSE Answer(0, [h EXCEPT !.out = set_header_add(@, "set-cookie", Said(c.text \o flags))])

-----------------------------------------------------------------------------
(* A request as Rack's environment, and Rack's headers as the response's.  *)
(* Texts are sequences of character codes; a header's values are a         *)
(* sequence, of more than one when it was repeated.                        *)

to_upper(c) == IF c \in 97..122 THEN c - 32 ELSE c
tolower(c) == IF c \in 65..90 THEN c + 32 ELSE c
Or32(c) == IF (c \div 32) % 2 = 1 THEN c ELSE c + 32
(* C's view of a text: a zero after its end *)
Char(s, k) == IF k <= Len(s) THEN s[k] ELSE 0

HTTP_ == <<72, 84, 84, 80, 95>>
(* the short list of common names only saves memory *)
EnvName(name) == HTTP_ \o [i \in DOMAIN name |-> IF name[i] = 45 THEN 95 ELSE to_upper(name[i])]
(* every header that is left, as a string or an array *)
iodine_copy2env_task(headers) == [n \in {EnvName(m) : m \in DOMAIN headers} |->
    headers[CHOOSE m \in DOMAIN headers : EnvName(m) = n]]

(* Mutant: a port is not separated from the name.                          *)
HostAndPort_Whole(host) == <<host, <<>>>>
(* at the first colon; without one there is no port *)
HostAndPort(host) ==
    LET colon == SelectInSeq(host, LAMBDA c : c = 58) IN
    IF colon = 0 THEN <<host, <<>>>> ELSE <<SubSeq(host, 1, colon - 1), SubSeq(host, colon + 1, Len(host))>>

Https == <<104, 116, 116, 112, 115>>
Http == SubSeq(Https, 1, 4)
Proto == <<112, 114, 111, 116, 111, 61>>
Matched(s, k, word) == \* how many characters of `word` s has from k on
    CHOOSE n \in 0..Len(word) : /\ \A i \in 1..n : Or32(Char(s, k + i - 1)) = word[i]
                                /\ n = Len(word) \/ Or32(Char(s, k + n)) # word[n + 1]
(* A character that does not match is passed over too.                     *)
RECURSIVE ForwardedProto(_, _)
ForwardedProto(s, k) ==
    LET n == Matched(s, k, Proto)
        at == k + Len(Proto)
        ends == {i \in at..Len(s) : s[i] = 59}
        end == IF ends = {} THEN Len(s) + 1 ELSE CHOOSE i \in ends : \A j \in ends : i <= j
    IN IF Char(s, k) = 0 THEN <<>>
       ELSE IF n < Len(Proto) THEN ForwardedProto(s, k + n + 1)
       ELSE IF Matched(s, at, Https) = 5 THEN Https
       ELSE IF Matched(s, at, Https) = 4 THEN Http
       ELSE SubSeq(s, at, end - 1)

(* its hash is that of the name and of ten bytes that follow it            *)
xforward_hash == "x-forwarded-proto and ten bytes"
GivenScheme(s) ==
    IF Matched(s, 1, Https) = 5 THEN Https ELSE IF Len(s) = 4 /\ Matched(s, 1, Http) = 4 THEN Http ELSE s
(* rack.url_scheme is http in the template of the environment              *)
Scheme(headers, tls) ==
    LET proto == ForwardedProto(headers["forwarded"][1], 1) IN
    IF xforward_hash \in DOMAIN headers THEN GivenScheme(headers[xforward_hash][1])
    ELSE IF "forwarded" \in DOMAIN headers THEN IF proto = <<>> THEN Http ELSE proto
    ELSE IF tls THEN Https ELSE Http

(* special: the headers the code looks for, by name; others the rest, by   *)
(* their text                                                              *)
copy2env(r) ==
    LET host == IF "host" \in DOMAIN r.special THEN r.special["host"][1] ELSE <<110, 117, 108, 108>>
        of(name) == IF name \in DOMAIN r.special THEN r.special[name][1] ELSE <<>>
    IN [REQUEST_METHOD |-> r.method, PATH_INFO |-> r.path, QUERY_STRING |-> r.query, SERVER_PROTOCOL |-> r.version,
        IODINE_HAS_BODY |-> r.body # <<>>, REMOTE_ADDR |-> r.peer,
        SERVER_NAME |-> HostAndPort(host)[1], SERVER_PORT |-> HostAndPort(host)[2],
        CONTENT_LENGTH |-> of("content-length"), CONTENT_TYPE |-> of("content-type"),
        URL_SCHEME |-> Scheme(r.special, r.tls), headers |-> iodine_copy2env_task(r.others)]

-----------------------------------------------------------------------------
(* The lines of a value: nothing for an empty one, and no empty last line. *)
RECURSIVE ValueLines(_)
ValueLines(val) ==
    LET at == SelectInSeq(val, LAMBDA c : c = 10) IN
    IF val = <<>> THEN <<>>
    ELSE IF at = 0 THEN <<val>>
    ELSE <<SubSeq(val, 1, at - 1)>> \o ValueLines(SubSeq(val, at + 1, Len(val)))
(* val: [t, text, items]; what is no string is asked for its string        *)
RECURSIVE for_each_header_data(_, _)
for_each_header_data(key, val) ==
    LET name == [i \in DOMAIN key |-> tolower(key[i])]
        lines == ValueLines(val.text)
    IN IF val.t = "nil" THEN <<>>
       ELSE IF val.t = "array" THEN FlattenSeq([i \in DOMAIN val.items |-> for_each_header_data(key, val.items[i])])
       ELSE [i \in DOMAIN lines |-> <<name, lines[i]>>]
=============================================================================
