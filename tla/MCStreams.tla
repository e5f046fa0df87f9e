----------------------------- MODULE MCStreams -----------------------------
EXTENDS Streams

Case(k, w, b) == [kind |-> k, want |-> w, bytes |-> b, windows |-> {}]
Pairs(S) == {<<a>> : a \in S} \cup {<<a, b>> : a, b \in S}
Concat(ss) == FlattenSeq(ss)

(* Replies: what a server writes and what the engine should read.          *)
Str(s) == <<"string", s>>
Replies == {Str(<<>>), <<"simple", <<"P">>>>, Str(<<"a">>), Str(<<"a", LF>>), Str(<<CR, LF, "b">>), <<"number", <<12>>>>, <<"null", <<>>>>,
            <<"true", <<>>>>, <<"array", <<>>>>,
            <<"array", <<Str(<<"m">>), <<"number", <<3>>>>, Str(<<"x", "y">>)>>>>}
RedisCases ==
    {Case("redis", w, Concat([i \in DOMAIN w |-> Reply(w[i])])) : w \in Pairs(Replies)}
    \cup {Case("redis", <<Str(<<"-", "E">>)>>, <<"-", "E">> \o EOL)}
    \cup {Case("redis", <<<<"array", <<Str(<<"4">>), Str(<<"t", "r", "u", "e">>), <<"null", <<>>>>>>>>>>,
               fiobj2resp(<<"array", <<<<"number", <<4>>>>, <<"true", <<>>>>, <<"null", <<>>>>>>>>))}

(* Messages between processes.                                             *)
Messages == {[channel |-> c, data |-> d, type |-> t, filter |-> 0] :
               c \in {<<>>, <<"a">>, <<"a", "b">>}, d \in {<<>>, <<"x", "y">>}, t \in {1, 2}}
ClusterCases ==
    {Case("cluster", w, Concat([i \in DOMAIN w |-> fio_msg_internal_create(w[i])])) : w \in Pairs(Messages)}

(* Websocket messages and a ping between the fragments of one.             *)
Bits(n) == [i \in 1..n |-> IF i % 3 = 1 THEN 1 ELSE 0]
Masks == {<<1, 0, 0, 1>>, <<0, 1, 1, 1>>}
WsMessage(n, text) == <<IF text THEN "text" ELSE "binary", Bits(n)>>
Lengths == {0, 1, 8, 9, 10, 13, 15}
WsPairs == {<<WsMessage(a, TRUE), WsMessage(b, FALSE)>> : a, b \in Lengths}
Written(m, mask) == websocket_write_impl(m[2], m[1] = "text", TRUE, TRUE, mask)
Interleaved(mask) ==
    wrap(<<1, 0>>, 1, TRUE, FALSE, mask) \o wrap(<<1>>, 9, TRUE, TRUE, mask)
      \o wrap(<<>>, 10, TRUE, TRUE, mask) \o wrap(<<0, 1, 1>>, 1, FALSE, TRUE, mask)
      \o wrap(<<1>>, 2, TRUE, TRUE, mask)
InterleavedWant == <<<<"pong", <<1>>>>, <<"text", <<1, 0, 0, 1, 1>>>>, <<"binary", <<1>>>>>>
WsCases ==
    {Case("server", w, Written(w[1], m) \o Written(w[2], m)) : w \in WsPairs, m \in Masks}
    \cup {Case("client", w, Written(w[1], <<>>) \o Written(w[2], <<>>)) : w \in WsPairs}
    \cup {Case("server", InterleavedWant, Interleaved(<<1, 0, 0, 1>>)),
          Case("client", InterleavedWant, Interleaved(<<>>))}

(* Requests of a pipeline, and a response.                                 *)
Msg(line, headers, body) == [kind |-> "request", line |-> line, headers |-> headers, body |-> body]
V == <<H!Version>>
SimpleLine == <<<<"GET">>, <<"/p">>, V>>
Simple == [msg |-> Msg(<<<<"GET">>, <<"/p">>, <<>>, V>>, <<<<"host", <<"h">>>>>>, <<>>),
           bytes |-> H!Words(SimpleLine) \o H!Field("Host", <<"h">>) \o EOL]
LongForm == [msg |-> Msg(<<<<"GET">>, <<"/", "p">>, <<"q">>, V>>, <<<<"host", <<"h">>>>>>, <<>>),
             bytes |-> H!Words(<<<<"GET">>, <<H!Scheme, "h", "/", "p", "?", "q">>, V>>) \o EOL]
Sized == [msg |-> Msg(<<<<"POST">>, <<"/p">>, <<>>, V>>, <<<<"content-length", <<"3">>>>>>, <<"a", CR, LF>>),
          bytes |-> H!Words(<<<<"POST">>, <<"/p">>, V>>) \o H!Field("Content-Length", <<"3">>)
                      \o EOL \o <<"a", CR, LF>>]
Chunked(chunks, trailers, got) ==
    [msg |-> Msg(<<<<"POST">>, <<"/p">>, <<>>, V>>,
                 <<<<"transfer-encoding", <<"gzip">>>>, <<"content-length", Decimal(Len(Concat(chunks)))>>>> \o got,
                 Concat(chunks)),
     bytes |-> H!Words(<<<<"POST">>, <<"/p">>, V>>)
                 \o H!Field("Transfer-Encoding", <<"gzip", ",", " ", "chunked">>) \o EOL
                 \o Concat([i \in DOMAIN chunks |-> H!Chunk(chunks[i])])
                 \o <<"0">> \o EOL \o trailers \o EOL]
ChunkedResponse ==
    [msg |-> [Msg(<<V, <<200>>, <<"OK">>>>, <<<<"content-length", <<"1">>>>>>, <<"x">>) EXCEPT !.kind = "chunked"],
     bytes |-> H!Words(<<V, <<"2", "0", "0">>, <<"OK">>>>) \o H!Field("Transfer-Encoding", <<"chunked">>)
                 \o EOL \o H!Chunk(<<"x">>) \o <<"0">> \o EOL \o EOL]
Requests == {Simple, LongForm, Sized, Chunked(<<<<"a", CR, LF>>, <<"b">>>>, <<>>, <<>>),
             Chunked(<<>>, <<>>, <<>>),
             Chunked(<<<<"a">>>>, H!Field("X-Sum", <<"s">>) \o H!Field("Cookie", <<"c">>), <<<<"x-sum", <<"s">>>>>>)}
Response == [msg |-> [Msg(<<V, <<200>>, <<"OK">>>>, <<<<"content-length", <<"1">>>>>>, <<"x">>) EXCEPT !.kind = "response"],
             bytes |-> H!Words(<<V, <<"2", "0", "0">>, <<"OK">>>>) \o H!Field("Content-Length", <<"1">>)
                         \o EOL \o <<"x">>]
HttpCases ==
    {Case("http", <<a.msg, b.msg>>, a.bytes \o b.bytes) : a, b \in Requests}
    \cup {Case("http", <<Simple.msg, Sized.msg, Simple.msg>>, Simple.bytes \o Sized.bytes \o Simple.bytes),
          Case("http", <<Response.msg, Response.msg>>, Response.bytes \o Response.bytes),
          Case("http", <<ChunkedResponse.msg, Response.msg>>, ChunkedResponse.bytes \o Response.bytes)}

Bits8(b) == [i \in 1..8 |-> b]

(* Forms of one or two fields and a file, whose values hold line ends and  *)
(* what looks like a delimiter.                                            *)
Part(n, v) == [name |-> n, file |-> IF n = "f" THEN "file" ELSE "",
               mime |-> IF n = "f" THEN "type" ELSE "", value |-> v]
Values == {<<>>, <<"x">>, <<"x", LF, "-", "-", "y">>, Bits8("x"),
           Bits8("x") \o EOL \o Bits8("y") \o Bits8("z")}
FormPairs == {<<Part("a", v), Part("b", w)>> : v, w \in Values}
             \cup {<<Part("a", v), Part("f", w)>> : v, w \in Values}
             \cup {<<Part("f", v), Part("b", w), Part("a", v)>> : v, w \in Values}

AllWindows == 22..50
FormCases == {[Case("form", w, M!WrittenForm(w)) EXCEPT !.windows = AllWindows] : w \in FormPairs}

MCCases == <<RedisCases, ClusterCases, WsCases, HttpCases, FormCases>>
=============================================================================
