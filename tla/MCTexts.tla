------------------------------ MODULE MCTexts ------------------------------
EXTENDS Texts

(* Readable texts: the characters the cases use and their codes.           *)
Digits09 == <<"0", "1", "2", "3", "4", "5", "6", "7", "8", "9">>
LowerAZ == <<"a", "b", "c", "d", "e", "f", "g", "h", "i", "j", "k", "l", "m",
             "n", "o", "p", "q", "r", "s", "t", "u", "v", "w", "x", "y", "z">>
Marks == <<<<" ", 32>>, <<"!", 33>>, <<"\"", 34>>, <<"#", 35>>, <<"%", 37>>, <<"&", 38>>, <<"+", 43>>, <<",", 44>>,
           <<"-", 45>>, <<".", 46>>, <<"/", 47>>, <<":", 58>>, <<"=", 61>>, <<"[", 91>>, <<"\\", 92>>, <<"]", 93>>,
           <<"_", 95>>, <<"{", 123>>, <<"}", 125>>, <<"*", 42>>, <<"@", 64>>, <<"?", 63>>, <<";", 59>>, <<"\n", 10>>, <<"\t", 9>>>>
Codes == [c \in Range(Digits09) |-> 47 + CHOOSE i \in 1..10 : Digits09[i] = c]
         @@ [c \in Range(LowerAZ) |-> 96 + CHOOSE i \in 1..26 : LowerAZ[i] = c]
         @@ [c \in {m[1] : m \in Range(Marks)} |-> (CHOOSE m \in Range(Marks) : m[1] = c)[2]]
B(s) == LET codes == Codes IN [i \in DOMAIN s |-> codes[s[i]]]

-----------------------------------------------------------------------------
(* Templates: partials with and without padding, one that calls itself.    *)
Str(s) == T!Data("str", s, <<>>, <<>>)
Hashed(h) == T!Data("hash", <<>>, h, <<>>)
Ary(a) == T!Data("array", <<>>, <<>>, a)
Lam(s) == T!Data("lambda", s, <<>>, <<>>)
Leaf(n) == Hashed(<< <<<<"n">>, Str(<<n>>)>>, <<<<"kids">>, Ary(<<>>)>> >>)
Full == Hashed(<< <<<<"a">>, Str(<<"x", "<", "\n", "y">>)>>, <<<<"b">>, Ary(<<Str(<<"1">>), Str(<<"y">>)>>)>>,
                <<<<"h">>, Hashed(<< <<<<"c">>, Str(<<"z">>)>>, <<<<"n">>, Str(<<"y">>)>> >>)>>,
                <<<<"l">>, Lam(<<"z", "\n">>)>>, <<<<"n">>, Str(<<"1">>)>>,
                <<<<"kids">>, Ary(<<Leaf("x"), Hashed(<< <<<<"n">>, Str(<<"y">>)>>,
                                                      <<<<"kids">>, Ary(<<Leaf("z")>>)>> >>)>>)>> >>)
Sparse == Hashed(<< <<<<"h">>, T!Qfalse>>, <<<<"b">>, Ary(<<>>)>>, <<<<"n">>, Str(<<"1">>)>> >>)
MCContexts == <<Full, Sparse>>
MCTrees == [f \in {"p", "q", "r"} |->
  CASE f = "p" -> <<T!Line(<<T!Text(<<"x">>), T!Var(<<"a">>)>>), T!Comment, T!Line(<<T!Raw(<<"a">>), T!Text(<<"y">>)>>)>>
    [] f = "q" -> <<T!Sec(<<"b">>, <<T!Line(<<T!Var(<<".">>)>>)>>), T!Partial("p", 1), T!Line(<<T!Var(<<"n">>)>>)>>
    [] f = "r" -> <<T!Line(<<T!Var(<<"n">>)>>), T!Sec(<<"kids">>, <<T!Partial("r", 0)>>), T!Line(<<T!Text(<<"z">>)>>)>>]
MCFiles == [p \in {<<"", f>> : f \in DOMAIN MCTrees} |-> T!Toks(MCTrees[p[2]], 1)]
MCTemplates == <<
    <<T!Line(<<T!Text(<<"x">>), T!Var(<<"a">>), T!Raw(<<"a">>)>>), T!Comment, T!Line(<<T!Var(<<"h", "c">>), T!Var(<<"zz">>)>>)>>,
    <<T!Sec(<<"b">>, <<T!Line(<<T!Var(<<".">>), T!Var(<<"n">>)>>)>>), T!Inv(<<"b">>, <<T!Line(<<T!Text(<<"z">>)>>)>>),
      T!Line(<<T!Sec(<<"b">>, <<T!Var(<<".">>)>>)>>)>>,
    <<T!Sec(<<"h">>, <<T!Line(<<T!Var(<<"c">>), T!Var(<<"n">>)>>), T!Sec(<<"b">>, <<T!Line(<<T!Var(<<"c">>), T!Var(<<"n">>)>>)>>)>>),
      T!Line(<<T!Inv(<<"h">>, <<T!Var(<<"n">>)>>)>>)>>,
    <<T!Line(<<T!Text(<<"y">>)>>), T!Partial("p", 2), T!Line(<<T!Var(<<"n">>)>>)>>,
    <<T!Partial("q", 2), T!Line(<<T!Text(<<"y">>)>>)>>,
    <<T!Partial("p", 0), T!Sec(<<"b">>, <<T!Partial("p", 0)>>)>>,
    <<T!Partial("r", 0), T!Line(<<T!Text(<<"x">>)>>)>>,
    <<T!Sec(<<"l">>, <<T!Line(<<T!Text(<<"x">>)>>)>>), T!Inv(<<"l">>, <<T!Line(<<T!Text(<<"x">>)>>)>>), T!Line(<<T!Var(<<"l">>)>>)>>,
    <<T!Partial("p", 0), T!Partial("p", 2)>>
    >>

-----------------------------------------------------------------------------
Leafs == {Tree("null", 0, <<>>, <<>>), Tree("true", 0, <<>>, <<>>), Tree("num", -12, <<>>, <<>>),
          Tree("num", 0, <<>>, <<>>), Tree("float", 15, <<>>, <<>>), Tree("float", -20, <<>>, <<>>),
          Tree("str", 0, <<34, 92, 10, 1, 65>>, <<>>), Tree("str", 0, <<>>, <<>>), Tree("str", 0, <<195, 169>>, <<>>)}
False == Tree("false", 0, <<>>, <<>>)
Arr(items) == Tree("array", 0, <<>>, [i \in DOMAIN items |-> <<<<>>, items[i]>>])
Obj(a, b) == Tree("hash", 0, <<>>, <<<<<<97>>, a>>, <<<<34, 98>>, b>>>>)
One == {Arr(<<>>), Arr(<<False>>)} \cup {Arr(<<a, b>>) : a, b \in Leafs} \cup {Obj(a, b) : a \in Leafs, b \in Leafs}
Nestings == LET s == CHOOSE x \in Leafs : x.t = "str"
                f == CHOOSE x \in Leafs : x.t = "float"
                a == {Arr(<<>>), Arr(<<s>>), Obj(s, f), Tree("hash", 0, <<>>, <<>>)}
            IN {Arr(<<x, s, y>>) : x, y \in a} \cup {Obj(x, Arr(<<y, x>>)) : x, y \in a} \cup {Obj(Obj(x, s), y) : x, y \in a}
Documents == Leafs \cup One \cup Nestings

(* A document that is false, two control characters in a row, and a number *)
(* that does not fit.                                                      *)
OddDocuments == {False, Tree("str", 0, <<1, 2>>, <<>>), Tree("num", 40960, <<>>, <<>>)}

Job(kind, at, tree, text) == [kind |-> kind, at |-> at, tree |-> tree, text |-> text]
NoTree == Tree("", 0, <<>>, <<>>)
RenderJobs == {Job("render", i, NoTree, <<d>>) : i \in 1..8, d \in 1..2}
PaddingJobs == {Job("render", 9, NoTree, <<1>>)}
OddJsonJobs == {Job("json", 0, d, <<>>) : d \in OddDocuments}
JsonJobs == {Job("json", pretty, d, <<>>) : pretty \in 0..1, d \in Documents}

(* Texts cut short, with a character left out, or with one put in.         *)
Sources == {B(<<"{","\"","a","\"",":","[","1",",","{","\"","b","\"",":","n","u","l","l","}","]",",","\"","a","\"",":","\"","d","\"","}">>),
            B(<<"[","[","]",",","{","\"","a","\"",":","1",".","5",",","\"","b","\"",":","{","}","}",",","t","r","u","e","]","#","\n">>)}
Cut(s, k) == SubSeq(s, 1, k)
Dropped(s, k) == RemoveAt(s, k)
Added(s, k, c) == SubSeq(s, 1, k) \o <<c>> \o SubSeq(s, k + 1, Len(s))
Damaged(s) == {Cut(s, k) : k \in 0..Len(s)} \cup {Dropped(s, k) : k \in DOMAIN s}
              \cup {Added(s, k, c) : k \in 0..Len(s), c \in {34, 44, 91, 93, 123, 125}}
ParseJobs == {Job("parse", 0, NoTree, x) : x \in UNION {Damaged(s) : s \in Sources}}
Base == Obj(Tree("str", 0, <<120>>, <<>>), Arr(<<>>))
Depth1 == B(<<"{","\"","a","\"",":","1",",","\"","c","\"",":","\"","d","\"","}">>)
UpdateJobs == {Job("update", 0, Base, x) : x \in {s \in Sources : s[1] = 123} \cup {Cut(Depth1, k) : k \in DOMAIN Depth1}}
TruncatedUpdate == {Job("update", 0, Base, x) : x \in UNION {Damaged(s) : s \in Sources}}

-----------------------------------------------------------------------------
(* Parameters, as a form would write them: a container's name is that of   *)
(* its parts with the key, or nothing, in brackets.                        *)
Text(s) == Tree("str", 0, s, <<>>)
RECURSIVE Written(_, _)
Written(name, tree) ==
    IF tree.t = "str" THEN <<Encode(name, TRUE) \o <<61>> \o Encode(tree.text, TRUE)>>
    ELSE FlattenSeq([i \in DOMAIN tree.items |->
           Written(IF name = <<>> THEN tree.items[i][1]
                   ELSE name \o <<91>> \o tree.items[i][1] \o <<93>>, tree.items[i][2])])
RECURSIVE Joined(_)
Joined(parts) == IF parts = <<>> THEN <<>> ELSE IF Len(parts) = 1 THEN parts[1]
                 ELSE parts[1] \o <<38>> \o Joined(Tail(parts))
H1(k, a) == Tree("hash", 0, <<>>, <<<<k, a>>>>)
H2(k, a, l, b) == Tree("hash", 0, <<>>, <<<<k, a>>, <<l, b>>>>)
X == Text(<<120, 32, 38>>)
Y == Text(<<>>)
KA == <<97>>
KB == <<98, 43>>
Rows == {H2(KA, X, KB, Y), H1(KA, X), H2(KA, H2(KA, X, KB, Y), KB, X), H1(KA, H1(KB, Y)), H1(KA, Arr(<<X, Y>>))}
(* A second row begins where the first has a value already.                *)
NamesOf(row) == LET w == Written(<<>>, row) IN [i \in DOMAIN w |-> SubSeq(w[i], 1, SelectInSeq(w[i], LAMBDA c : c = 61))]
Follows(s, r) == NamesOf(s)[1] \in Range(NamesOf(r))
FlatRows == {r \in Rows : \A i \in DOMAIN r.items : r.items[i][2].t # "array"}
Sections == {X, Arr(<<X, Y>>)} \cup Rows \cup {Arr(<<p[1], p[2]>>) : p \in {q \in FlatRows \X FlatRows : Follows(q[2], q[1])}}
Parameters == {H2(KA, p, KB, q) : p, q \in Sections}
QueryJobs == {Job("query", 0, p, Joined(Written(<<>>, p))) : p \in Parameters}

Names == {<<"a">>, <<"a","[","]">>, <<"a","[","b","]">>, <<"a","[","]","[","b","]">>, <<"a","[","]","[","c","]">>,
          <<"a","[","b","]","[","]">>, <<"a","[","b","]","[","c","]">>, <<"a","[">>, <<"[">>, <<"a","[","]","d">>}
LastNames == {<<"a","[","]">>, <<"a","[","b","]">>, <<"a","[","]","[","b","]">>}
GivenValues == {<<"v">>, <<"1">>}
Pair(n, v) == n \o <<"=">> \o v
LibraryJob(n, v) == Job("library", 0, NoTree, B(FlattenSeq([i \in DOMAIN n |-> (IF i = 1 THEN <<>> ELSE <<"&">>) \o Pair(n[i], v[i])])))
(* "a" or "a[b]" followed by "a[][b]"                                      *)
Converted(n) == \E i, j \in DOMAIN n :
    /\ i < j /\ n[j] \in {<<"a","[","]","[","b","]">>, <<"a","[","]","[","c","]">>}
    /\ (Len(n[i]) = 1 /\ n[i] # <<"[">>) \/ (Len(n[i]) > 2 /\ n[i][3] = "b")
LibraryJobs == {LibraryJob(n, <<<<"v">>, v, <<"v">>>>) : n \in {m \in Names \X Names \X LastNames : ~Converted(m)}, v \in GivenValues}
CookieJobs == {Job("library", 1, NoTree, B(<<"d", "=", "v", ";", " ">> \o n \o <<"=", "%", "2", "0">>)) : n \in Names}
ConvertedJobs == {LibraryJob(<<<<"a">>, <<"a","[","]","[","b","]">>>>, <<<<"v">>, <<"1">>>>)}

-----------------------------------------------------------------------------
(* Characters of one to four bytes.                                        *)
Chars == {97, 233, 8364, 128512}
CharTexts == {<<a>> : a \in Chars} \cup {<<a, b>> : a, b \in Chars} \cup {<<a, b, c>> : a, b, c \in Chars}
Utf8Jobs == {Job("utf8", at, Tree("str", 0, c, <<>>), <<n>>) : c \in CharTexts, at \in 0..4, n \in 0..3}
            \cup {Job("utf8", at, Tree("str", 0, c, <<>>), <<n>>) : c \in {x \in CharTexts : Len(x) = 3}, at \in -3..-1, n \in 0..3}
FirstJobs == {Job("utf8", -4, Tree("str", 0, <<97, 98, 99>>, <<>>), <<1>>)}

(* No six zero bits in a row where a digit begins.                         *)
Data == {d \in UNION {[1..n -> {20, 69, 127, 255}] : n \in 0..4} : 65 \notin Range(fio_base64_encode(d, FALSE))}
Base64Jobs == {Job("base64", url, NoTree, d) : url \in 0..1, d \in Data}
ZeroJobs == {Job("base64", 0, NoTree, <<0, 16, 131>>)}

UrlJob(u) == [kind |-> "url", url |-> u]
Host == <<104>>
Some(k) == {<<>>, <<k>>}
Urls == {[scheme |-> s, user |-> u, password |-> w, host |-> Host, port |-> p, path |-> t, query |-> q, target |-> g] :
           s \in Some(115), u \in Some(117), w \in Some(119), p \in Some(49), t \in {<<>>, <<47>>, <<47, 112>>},
           q \in Some(113), g \in Some(103)}
(* A password follows a user, and a path comes before query and target.    *)
UrlJobs == {UrlJob(u) : u \in {v \in Urls : (v.password # <<>> => v.user # <<>>)
                                           /\ (v.path = <<>> => v.query = <<>> /\ v.target = <<>>)}}
           \cup {UrlJob([Url EXCEPT !.path = <<47, 112>>, !.query = q, !.target = g]) : q \in Some(113), g \in Some(103)}
NoPathJobs == {UrlJob([Url EXCEPT !.scheme = <<115>>, !.host = Host, !.query = <<113>>])}

Years == {1600, 1699, 1700, 1899, 1900, 1969, 1970, 1999, 2000, 2023, 2024, 2100, 2399, 2400}
DateJobs == {Job("date", 0, NoTree, <<y, m, d>>) : y \in Years, m \in {0, 1, 2, 6, 11}, d \in {1, 28, 30}}
            \cup {Job("date", 0, NoTree, <<y, 1, 29>>) : y \in {y \in Years : IsLeap(y)}}
RealDates == {j \in DateJobs : j.text[3] <= MonthDays(j.text[1])[j.text[2] + 1]}
TimeJobs == {Job("time", 0, NoTree, <<y, m, d, h, mi, s>>) : y \in {1910, 1969, 1970, 2000, 2036}, m \in {0, 1, 2, 11},
               d \in {1, 9, 28}, h \in {0, 23}, mi \in {0, 59}, s \in {0, 59}}

MCCliNames == <<[names |-> <<<<45, 112>>, <<45, 112, 111>>>>, type |-> "int"],
                [names |-> <<<<45, 98>>>>, type |-> "string"],
                [names |-> <<<<45, 118>>, <<45, 86>>>>, type |-> "bool"]>>
CliJob(sets, ways) == [kind |-> "cli", sets |-> sets, text |-> ways]
Settings == {<<<<45, 112>>, <<56, 48>>>>, <<<<45, 112, 111>>, <<49>>>>, <<<<45, 98>>, <<97, 61>>>>, <<<<>>, <<120>>>>}
CliJobs == {CliJob(<<a, b, c>>, <<v, w, v>>) : a, b, c \in Settings, v, w \in 1..3}

ClockJobs == {Job("clock", 0, NoTree, <<t, a, t + d, b>>) : t \in 100..102, d \in 0..2, a \in {80} \cup 92..104, b \in 93..105}
DecodeJobs == {Job("decode", 0, NoTree, s) : s \in [1..3 -> {32, 37, 43, 61, 97}]}
(* Integers around the prefix and each further byte, with room or (nearly) *)
(* none; strings that do not end with a byte and have a byte to spare.     *)
IntegerJobs == {Job("integer", limit, NoTree, <<i, prefix>>) :
                  limit \in {0, 1, 5}, prefix \in 1..8, 
                  i \in 0..8 \cup 30..32 \cup 126..130 \cup 254..258 \cup 382..384 \cup 16510..16512 \cup {2097151, 2097407}}
StringJob(compress, s, spare) == [kind |-> "string", at |-> compress, text |-> s, spare |-> spare]
HpackTexts == UNION {[1..n -> {0, 1, 32, 33, 38, 48, 58}] : n \in 1..3}
StringJobs == {StringJob(0, s, spare) : s \in HpackTexts, spare \in 0..1}
              \cup {StringJob(1, s, 1) : s \in {t \in HpackTexts : CodedBits(t) % 8 # 0}}
HpackJobs == {j \in IntegerJobs : j.text[1] # Mask(j.text[2])} \cup StringJobs
(* An integer that just fills the prefix, in one byte; one for which the   *)
(* room ends between; strings that end with a byte or have just the room.  *)
OddHpackJobs == {Job("integer", 1, NoTree, <<127, 7>>), Job("integer", 2, NoTree, <<257, 7>>),
                 StringJob(1, <<32, 48, 48>>, 1), StringJob(1, <<48>>, 0)}
EnvJob(q) == [kind |-> "env", request |-> q]
NoSchemes == {<<>>}
Schemes == {Http, Https, <<119, 115>>}
Requests(proxy, protos) ==
    {[name |-> <<104, 46>>, port |-> port, length |-> <<51>>, type |-> <<116>>, tls |-> tls,
      proxy |-> proxy, proto |-> proto, before |-> b, after |-> a, others |-> o] :
       port \in {<<>>, <<56, 48>>}, tls \in BOOLEAN, proto \in protos,
       b \in {<<>>, <<102, 61, 112, 59>>, <<102, 61, 112, 114, 111, 59>>}, a \in {<<>>, <<59, 98, 61, 112>>},
       o \in {<<>>, <<97, 45, 98>> :> <<<<49>>>>, (<<97>> :> <<<<49>>, <<50>>>>) @@ (<<97, 45>> :> <<<<51>>>>)}}
EnvJobs == {EnvJob(q) : q \in Requests("forwarded", Schemes \cup NoSchemes)}
ForwardedJobs == {EnvJob(q) : q \in Requests("x-forwarded-proto", {Https})}
HeaderValues == {<<120>>, <<121, 122>>}
HeaderLines == {<<a>> : a \in HeaderValues} \cup {<<a, b>> : a, b \in HeaderValues} \cup {<<<<120>>, <<>>, <<121>>>>}
HeaderJobs == {[kind |-> "headers", groups |-> g] : g \in {<<a>> : a \in HeaderLines} \cup {<<a, b>> : a, b \in HeaderLines}}
-----------------------------------------------------------------------------
(* A public folder: a file with and without its compressed form, one       *)
(* without an extension, an index; a second one also has error pages.      *)
File(mtime, data) == [mtime |-> mtime, data |-> data, regular |-> TRUE, fault |-> ""]
MCMimeTypes == {B(<<"t">>), B(<<"h","t","m","l">>)}
MCFolder == B(<<"p", "/">>)
In(name) == Front(MCFolder) \o B(name)
Page(n) == Front(MCFolder) \o ErrorPage(n)
MCRoots == <<
    (In(<<"/","a",".","t">>) :> File(1, <<1, 2, 3, 4, 5>>)) @@ (In(<<"/","a",".","t",".","g","z">>) :> File(1, <<8, 9>>))
      @@ (In(<<"/","b"," ">>) :> File(2, <<6>>)) @@ (In(<<"/","d">>) :> [File(3, <<>>) EXCEPT !.regular = FALSE])
      @@ ((In(<<"/","d","/">>) \o IndexHtml) :> File(4, <<7, 7>>))
      @@ (Page(404) :> File(5, <<11>>)),
    (In(<<"/","a",".","t">>) :> File(1, <<1, 2, 3, 4, 5>>)) @@ (Page(403) :> File(6, <<13>>)) @@ (Page(416) :> File(7, <<16, 16, 16>>)) >>
Path1 == {<<<<"/","a",".","t">>, <<"/","a",".","t">>>>, <<<<"/","b","%","2","0">>, <<"/","b"," ">>>>,
          <<<<"/","b","%","2","g">>, <<"/","z">>>>, <<<<"/","d","/","%","2","e",".","/","a",".","t">>, <<"/","z">>>>,
          <<<<"/","z","/">>, <<"/","z">>>>}
FileJob(method, path, span, tag, held, gzip, connection, version) ==
    [kind |-> "file", at |-> 1,
     request |-> [method |-> method, path |-> B(path[1]), file |-> B(path[2]), span |-> span, tag |-> tag, held |-> held,
                  gzip |-> gzip, connection |-> connection, version |-> version, host |-> TRUE]]
WholeSpans == {<<>>, <<0, -1>>, <<2, -1>>, <<4, -1>>, <<0, 1>>, <<1, 3>>, <<3, 4>>, <<9, -1>>}
Connections1 == {<<>>, B(<<"k">>), B(<<"c">>)}
FileJobs ==
    {FileJob(m, p, s, <<>>, <<>>, FALSE, c, v) :
       m \in {"GET", "HEAD", "POST"}, p \in Path1, s \in {<<>>, <<0, -1>>}, c \in Connections1, v \in {"HTTP/1.1", "HTTP/1.0"}}
    \cup {FileJob(m, <<<<"/","a",".","t">>, <<"/","a",".","t">>>>, s, t, h, g, c, "HTTP/1.1") :
            m \in {"GET", "HEAD"}, s \in WholeSpans \ {<<9, -1>>}, t \in {<<>>, <<1, 5>>, <<1, 4>>}, h \in {<<>>, <<1, 5>>, <<2, 5>>},
            g \in {FALSE}, c \in {<<>>, B(<<"c">>)}}
    \cup {FileJob("GET", <<<<"/","a",".","t">>, <<"/","a",".","t">>>>, s, t, <<>>, TRUE, <<>>, "HTTP/1.1") :
            s \in {<<>>, <<0, 1>>, <<1, -1>>, <<9, -1>>, <<2, -1>>}, t \in {<<>>, <<1, 2>>, <<1, 5>>}}
    \cup {[FileJob("GET", p, <<>>, <<>>, <<>>, FALSE, <<>>, "HTTP/1.1") EXCEPT !.request.host = FALSE] : p \in Path1}
(* One byte; the first byte; the last bytes; more than there is; error     *)
(* pages for a range beyond the file and for a method that is not allowed; *)
(* a connection that is refused.                                           *)
AText == <<<<"/","a",".","t">>, <<"/","a",".","t">>>>
OddSpanJobs == {FileJob("GET", AText, s, <<>>, <<>>, FALSE, <<>>, "HTTP/1.1") : s \in {<<2, 2>>, <<0, 0>>, <<-1, 2>>, <<2, 9>>}}
ErrorPageJobs == {[FileJob(m, AText, s, <<>>, <<>>, FALSE, <<>>, "HTTP/1.1") EXCEPT !.at = 2] :
                    m \in {"GET", "PUT"}, s \in {<<>>, <<9, -1>>}}
RefusedJobs == {FileJob("", AText, <<>>, <<>>, <<>>, FALSE, <<>>, "HTTP/1.1")}
OddFileJobs == {OddSpanJobs, ErrorPageJobs, RefusedJobs}

CookieOf(name, value, age, domain, path, http_only, secure) ==
    [kind |-> "cookie", at |-> 0,
     cookie |-> [name |-> name, value |-> value, deleted |-> FALSE, max_age |-> age, domain |-> domain, path |-> path,
                 http_only |-> http_only, secure |-> secure]]
SetCookieJobs == {CookieOf(n, v, a, <<>>, <<>>, o, s) :
                    n \in {<<110>>, <<61, 59>>, <<47, 200>>}, v \in {<<>>, <<118>>, <<59, 32>>, <<61, 34, 97>>},
                    a \in {0, 60, -1}, o, s \in BOOLEAN}
                 \cup {[CookieOf(<<110>>, <<>>, 60, <<>>, <<>>, o, FALSE) EXCEPT !.cookie.deleted = TRUE] : o \in BOOLEAN}
(* A domain, a path, a '%', and the cookie of a client.                    *)
OddCookieJobs == {CookieOf(<<110>>, <<118>>, 0, d, p, FALSE, FALSE) : d \in {<<>>, <<100>>}, p \in {<<47>>}}
                 \cup {CookieOf(<<110>>, <<37, 52, 49>>, 0, <<>>, <<>>, FALSE, FALSE),
                       [CookieOf(<<110>>, <<118>>, 0, <<>>, <<>>, FALSE, FALSE) EXCEPT !.at = 1]}
MCJobs == {RenderJobs, JsonJobs, ParseJobs, UpdateJobs, QueryJobs, LibraryJobs, CookieJobs, EnvJobs, HeaderJobs,
           FileJobs, SetCookieJobs, HpackJobs, ClockJobs, DecodeJobs, Utf8Jobs, Base64Jobs, UrlJobs, RealDates,
           TimeJobs, CliJobs}
OddOwners == {TruncatedUpdate, ConvertedJobs}
OddCodecJobs == {FirstJobs, ZeroJobs, NoPathJobs}
=============================================================================
