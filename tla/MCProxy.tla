------------------------------ MODULE MCProxy -------------------------------
(* The values that the runs of the proxy share. *)
EXTENDS ProxyClaims, TLC

CONSTANTS c1, c2

\* What a client sends, before it is cut into segments.
Text(method, path, headers, body) ==
    RequestLine(method, path) \o headers
    \o (IF body = <<>> THEN <<>> ELSE <<ContentLength(Len(body))>>) \o <<EOL>> \o body

GET == <<"GET">>
POST == <<"POST">>
PROPFIND == <<"PROPFIN", "D">>     \* longer than methode holds
Bytes(n) == [k \in 1 .. n |-> Byte(k)]
Get(path) == Text(GET, path, <<>>, <<>>)
Post(path, n) == Text(POST, path, <<>>, Bytes(n))
CutAt(text, k) == <<SubSeq(text, 1, k), SubSeq(text, k + 1, Len(text))>>

Home == <<"/">>
Api == <<"/", "api", "users">>
Elsewhere == <<"*">>

MCRoutes == << Route(<<"/">>, <<"web">>, 80),
               Route(<<"/", "api">>, <<"app", "9000">>, 3000) >>

KeepAlive == Hdr("Connection", "keep-alive")
Names == <<"h1", "h2", "h3", "h4", "h5", "h6", "h7", "h8">>
Headers(n) == [k \in 1 .. n |-> Hdr(Names[k], "v")]

Part(n) == [part |-> n]            \* of the response of a backend
Short == {<<Part(0)>>}
Long == {<<Part(1), KeepAlive, Part(2)>>}

\* Everything that can happen to a connection.
SafetyRequests == {
    CutAt(Get(Home), 2),                      \* the read may end in the request line
    <<Post(Api, 1)>>,
    <<Text(POST, Home, Headers(2), Bytes(1))>>,   \* its head outgrows the array
    <<Get(Elsewhere)>>}                       \* no route
SafetyResponses == {<<Part(0)>>, <<Part(1), Part(2)>>}

\* Requests of every size around the limits.
SizeRequests ==
    {<<Post(path, n)>> : path \in {Home, Api}, n \in 1 .. 3} \cup
    {<<Text(GET, Api, Headers(n), <<>>)>> : n \in {0, 2, 3, 8}} \cup
    {<<Text(POST, Home, Headers(2), Bytes(1))>>,     \* Content-Length comes third
     <<Text(POST, Home, <<Junk>> \o Headers(1), Bytes(1))>>,
     <<Text(PROPFIND, Home, <<KeepAlive>> \o Headers(1), <<>>)>>,
     CutAt(Post(Home, 2), 4), CutAt(Post(Home, 2), 6),
     <<<<EOL, EOL>> \o Get(Home)>>,     \* the blank line comes first
     <<<<EOL, EOL>>>>}                   \* no line at all

\* One that is refused or answered, one with a body, whole, or never finished.
LiveRequests == {CutAt(Text(GET, Home, <<KeepAlive>>, <<>>), 2), <<Post(Api, 1)>>}

\* For the claims: a body that is cut into segments; a request line without an end,
\* and a request with a long method, a browser's header and a NUL in its body.
SplitRequests == {CutAt(Post(Home, 2), 7)}
ExchangeRequests == {
    CutAt(Get(Home), 2),
    <<Text(PROPFIND, Home, <<KeepAlive>>, <<Byte(1), NUL, Byte(2)>>)>>}

Symmetry == Permutations(Clients)
=============================================================================
