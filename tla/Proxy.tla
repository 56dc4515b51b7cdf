------------------------------- MODULE Proxy --------------------------------
(***************************************************************************)
(* The reverse proxy of req-res-parser: the loop of main.c, one thread     *)
(* that serves one TCP connection at a time with blocking calls, among     *)
(* clients that connect, send, give up and reset, and a backend that       *)
(* answers, stays silent or fails.  Each action of the proxy is what it    *)
(* does between two blocking calls; the kernel's part of a socket (accept  *)
(* queue, receive buffers, FIN and RST) is part of the environment.        *)
(***************************************************************************)
EXTENDS HttpRequest, RouteTable

CONSTANTS
    Clients,        \* the TCP clients; each may connect again after a close
    Requests,       \* what a client sends: a sequence of segments of tokens
    Responses,      \* what a backend answers: sequences of tokens
    LoadedRoutes,   \* the table that load_routes returned
    Backlog,        \* length of the accept queue, listen(server_id, 512)
    BufferSize,     \* BUFFER_SIZE, what one read may return plus one
    RelaySize,      \* the buffer of relay_response
    ZeroSends,      \* may a send return 0?
    BackendFails,   \* may the backend refuse, crash or reset?
    NoClient

ASSUME ConstantsAssumption ==
    /\ NoClient \notin Clients
    /\ Backlog \in Nat /\ RelaySize \in Nat \ {0} /\ BufferSize \in Nat \ {0, 1}
    /\ ZeroSends \in BOOLEAN /\ BackendFails \in BOOLEAN
ASSUME RoutesAssumption ==   \* main returns when no route is loaded
    LoadedRoutes \in Seq(Routes) \ {<<>>}


\* The tokens that the clients' segments and the backends' responses consist of.
RequestTokens == UNION {ToSet(s) : s \in UNION {ToSet(r) : r \in Requests}}
ResponseTokens == UNION {ToSet(r) : r \in Responses}
ASSUME TextsAssumption ==
    Requests \subseteq Seq(Seq(RequestTokens)) /\ Responses \subseteq Seq(ResponseTokens)
\* A token that is nothing but a word is that word, a sequence of its pieces.
ASSUME WordsAssumption ==
    \A t \in RequestTokens :
        IsWord(t) => t = Word(t.word) /\ t.word \in Seq(ToSet(t.word))

Status(code) == [status |-> code]
BadGateway == Status("502")
InternalError == Status("500")
NoRequest == <<>>
LoopbackAddress == "127.0.0.1"

VARIABLES
    \* the proxy's memory
    pc,          \* the call it is at: "accept", "read", ..., or "dead"
    sigpipe,     \* disposition of SIGPIPE
    routes,      \* main's routing table
    client_id,   \* the client being served, NoClient before accept
    req,         \* the parsed request, NoRequest while req_parsed is false
    backend,     \* index of the route find_backend returned
    request,     \* the array the request is rebuilt in; never cleared
    unsent,      \* what forward_request has still to send
    chunk,       \* what relay_response has received and still to send
    error,       \* the error response that write is about to send
    heap,        \* the kinds of blocks that are allocated and not freed
    \* the clients and their connections
    backlog,     \* the accept queue
    link,        \* the proxy's end: "closed", "queued", "open"
    peer,        \* the client's end: "up", "fin", "rst"
    asked,       \* what the client chose to send
    outbox,      \* the segments it has still to send
    inbox,       \* the receive buffer of the proxy's socket
    got,         \* what was sent to the client over this connection
    \* the connection targetfd to the backend
    target,      \* the backend's end: "none" (targetfd = -1), "reading",
                 \* "answering", "fin", "rst"
    arrived,     \* what the backend has received
    reply,       \* the part of its response it has still to send
    pipe         \* the receive buffer of targetfd

memory == <<pc, sigpipe, routes, client_id, req, backend, request, unsent, chunk, error, heap>>
sockets == <<backlog, link, peer, asked, outbox, inbox, got>>
backendConn == <<target, arrived, reply, pipe>>
vars == <<memory, sockets, backendConn>>

-----------------------------------------------------------------------------
\* signal(SIGPIPE, SIG_IGN) is main's first statement.
SigpipeDisposition == "ignored"

\* main has ignored SIGPIPE, is listening and has loaded its routes.
Init ==
    /\ pc = "accept" /\ sigpipe = SigpipeDisposition /\ routes = LoadedRoutes
    /\ client_id = NoClient /\ req = NoRequest /\ backend = NoBackend
    /\ request \in {[k \in 1 .. MaxRequest |-> t] : t \in {NUL, Byte("stack")}}
    /\ unsent = <<>> /\ chunk = <<>> /\ error = <<>> /\ heap = {}
    /\ backlog = <<>>
    /\ link = [c \in Clients |-> "closed"] /\ peer = [c \in Clients |-> "up"]
    /\ asked = [c \in Clients |-> <<>>] /\ outbox = [c \in Clients |-> <<>>]
    /\ inbox = [c \in Clients |-> <<>>] /\ got = [c \in Clients |-> <<>>]
    /\ target = "none" /\ arrived = <<>> /\ reply = <<>> /\ pipe = <<>>

\* accept_client: a failing accept is retried by the loop, a step of no effect.
Accept ==
    /\ pc = "accept" /\ backlog # <<>>
    /\ client_id' = Head(backlog) /\ backlog' = Tail(backlog)
    /\ link' = [link EXCEPT ![Head(backlog)] = "open"]
    /\ pc' = "read"
    /\ UNCHANGED <<sigpipe, routes, req, backend, request, unsent, chunk, error, heap,
                   peer, asked, outbox, inbox, got, backendConn>>

\* read returns 0 or -1.
ReadNothing ==
    /\ pc = "read"
    /\ \/ peer[client_id] = "rst"
       \/ peer[client_id] = "fin" /\ inbox[client_id] = <<>>
    /\ pc' = "cleanup"
    /\ UNCHANGED <<sigpipe, routes, client_id, req, backend, request, unsent, chunk, error,
                   heap, sockets, backendConn>>

\* The one read of a connection: what has arrived by now, no more than fits.
\* The buffer was cleared, so what was read is a string.
Received == SubSeq(inbox[client_id], 1, Min({BufferSize - 1, Len(inbox[client_id])}))
ReadSome ==
    /\ pc = "read" /\ inbox[client_id] # <<>>
    /\ inbox' = [inbox EXCEPT ![client_id] = From(@, Len(Received) + 1)]
    /\ UNCHANGED <<sigpipe, routes, client_id, request, unsent, chunk,
                   backlog, link, peer, asked, outbox, got, backendConn>>

RejectRequest ==
    /\ ReadSome
    /\ \E text \in {CString(Received)} :
          ~ParseOK(text) /\ heap' = heap \cup LeaksOf(text)
    /\ pc' = "cleanup"
    /\ UNCHANGED <<req, backend, error>>

TakeRequest ==
    /\ ReadSome
    /\ \E text \in {CString(Received)} : ParseOK(text) /\ req' = Parse(text)
    /\ heap' = heap \cup {"request"}
    /\ backend' = BestBackend(routes, req'.path)
    /\ IF backend' = NoBackend
       THEN pc' = "error" /\ error' = <<BadGateway>>
       ELSE pc' = "connect" /\ UNCHANGED error

-----------------------------------------------------------------------------
\* Faulty variant: the part after the colon would be taken for the host.
KeepPort(table, k) == [table EXCEPT ![k].host = Tail(@)]

\* connect_to_target cuts the host at its colon, in the routing table itself.
CutHost(table, k) == [table EXCEPT ![k].host = <<Head(@)>>]

\* No such host, no socket, or connect fails.
ConnectFails ==
    /\ pc = "connect" /\ BackendFails
    /\ routes' = CutHost(routes, backend)
    /\ pc' = "error" /\ error' = <<BadGateway>>
    /\ UNCHANGED <<sigpipe, client_id, req, backend, request, unsent, chunk, heap, sockets,
                   backendConn>>

\* get_client_ip: getpeername fails on a connection that was reset.
ClientIp == IF peer[client_id] = "rst" THEN LoopbackAddress ELSE client_id

\* The connection is made and the request rebuilt in the array; its length is
\* what strlen makes of the array.
Connect ==
    /\ pc = "connect"
    /\ routes' = CutHost(routes, backend)
    /\ target' = "reading" /\ arrived' = <<>> /\ reply' = <<>> /\ pipe' = <<>>
    /\ \E head \in {RebuiltHead(req, ClientIp)} :
          /\ request' = Rebuild(request, head, req.body)
          /\ IF RebuildOK(head, req.body)
             THEN /\ pc' = "forward" /\ unsent' \in TextsIn(request')
                  /\ UNCHANGED error
             ELSE /\ pc' = "error" /\ error' = <<InternalError>>
                  /\ UNCHANGED unsent
    /\ UNCHANGED <<sigpipe, client_id, req, backend, chunk, heap, sockets>>

\* A send to a connection that was reset: -1 with EPIPE or ECONNRESET, and a
\* SIGPIPE that kills the process unless it is ignored.
AfterSend(broken, next) == IF broken /\ sigpipe = "default" THEN "dead" ELSE next

\* How much of n tokens the kernel takes: one, all, or (unusually) nothing.
Amounts(n) == {1, n} \cup (IF ZeroSends THEN {0} ELSE {})

ForwardFails ==
    /\ pc = "forward" /\ target = "rst"
    /\ pc' = AfterSend(TRUE, "error") /\ error' = <<BadGateway>>
    /\ UNCHANGED <<sigpipe, routes, client_id, req, backend, request, unsent, chunk, heap,
                   sockets, backendConn>>

\* Faulty variant: a send after a partial one would start again at buf.
RestFromStart(s, n) == SubSeq(s, 1, Len(s) - n)

\* What is left at buf + total_sent after n more tokens were sent.
RestAfter(s, n) == From(s, n + 1)

\* A send that returns 0 ends the loop, and main takes the count for success.
Forward ==
    /\ pc = "forward" /\ target # "rst"
    /\ \E n \in Amounts(Len(unsent)) :
          /\ arrived' = arrived \o SubSeq(unsent, 1, n)
          /\ unsent' = IF n = 0 THEN <<>> ELSE RestAfter(unsent, n)
          /\ pc' = IF unsent' = <<>> THEN "recv" ELSE "forward"
    /\ UNCHANGED <<sigpipe, routes, client_id, req, backend, request, chunk, error, heap,
                   sockets, target, reply, pipe>>

-----------------------------------------------------------------------------
\* relay_response: recv from the backend.
Recv ==
    /\ pc = "recv" /\ pipe # <<>>
    /\ LET n == Min({RelaySize, Len(pipe)}) IN
          chunk' = SubSeq(pipe, 1, n) /\ pipe' = From(pipe, n + 1)
    /\ pc' = "send"
    /\ UNCHANGED <<sigpipe, routes, client_id, req, backend, request, unsent, error, heap,
                   sockets, target, arrived, reply>>

\* Faulty variant: a hangup would end the relay before the rest is read.
HungUp == target = "fin"

\* recv returns 0: the backend has closed and all it sent was received.
Drained == target = "fin" /\ pipe = <<>>

\* recv returns -1 or 0: the relay is over.
RecvEnds ==
    /\ pc = "recv"
    /\ target = "rst" \/ Drained
    /\ pc' = "cleanup"
    /\ UNCHANGED <<sigpipe, routes, client_id, req, backend, request, unsent, chunk, error,
                   heap, sockets, backendConn>>

RelaySend ==
    /\ pc = "send" /\ peer[client_id] # "rst"
    /\ \E n \in Amounts(Len(chunk)) \ {0} :
          /\ got' = [got EXCEPT ![client_id] = @ \o SubSeq(chunk, 1, n)]
          /\ chunk' = RestAfter(chunk, n)
          /\ pc' = IF chunk' = <<>> THEN "recv" ELSE "send"
    /\ UNCHANGED <<sigpipe, routes, client_id, req, backend, request, unsent, error, heap,
                   backlog, link, peer, asked, outbox, inbox, backendConn>>

\* Faulty variant: a relay that failed would be answered with an error.
ReportToClient == pc' = "error" /\ error' = <<BadGateway>>

\* The client is gone, or send returned 0: relay_response returns -1, and main
\* does not answer a client that may have a part of the response already.
NoReport == pc' = AfterSend(peer[client_id] = "rst", "cleanup") /\ UNCHANGED error
RelayFails ==
    /\ pc = "send"
    /\ peer[client_id] = "rst" \/ ZeroSends
    /\ chunk' = <<>>
    /\ NoReport
    /\ UNCHANGED <<sigpipe, routes, client_id, req, backend, request, unsent, heap,
                   sockets, backendConn>>

\* write(client_id, error_response): its result is ignored.
WriteError ==
    /\ pc = "error"
    /\ IF peer[client_id] = "rst"
       THEN pc' = AfterSend(TRUE, "cleanup") /\ UNCHANGED got
       ELSE pc' = "cleanup" /\ got' = [got EXCEPT ![client_id] = @ \o error]
    /\ error' = <<>>
    /\ UNCHANGED <<sigpipe, routes, client_id, req, backend, request, unsent, chunk, heap,
                   backlog, link, peer, asked, outbox, inbox, backendConn>>

\* cleanup: free_http_request(&req) when req_parsed, close(targetfd) when it is
\* not -1, close(client_id); then the loop's variables are fresh.
\* Faulty variant: a request would be freed only once it had a connection.
FreeOnlyRelayed == heap' = IF target = "none" THEN heap ELSE heap \ {"request"}
LeakTarget == UNCHANGED target     \* faulty variant: targetfd stays open
CloseTarget == target' = "none"
FreeRequest == heap' = heap \ {"request"}
\* Nothing of a connection outlives it.
Closed(c) ==
    /\ link' = [link EXCEPT ![c] = "closed"] /\ peer' = [peer EXCEPT ![c] = "up"]
    /\ asked' = [asked EXCEPT ![c] = <<>>] /\ outbox' = [outbox EXCEPT ![c] = <<>>]
    /\ inbox' = [inbox EXCEPT ![c] = <<>>] /\ got' = [got EXCEPT ![c] = <<>>]

Cleanup ==
    /\ pc = "cleanup"
    /\ FreeRequest
    /\ CloseTarget /\ arrived' = <<>> /\ reply' = <<>> /\ pipe' = <<>>
    /\ Closed(client_id)
    /\ client_id' = NoClient /\ req' = NoRequest /\ backend' = NoBackend /\ unsent' = <<>>
    /\ pc' = "accept"
    /\ UNCHANGED <<sigpipe, routes, request, chunk, error, backlog>>

ProxyStep ==
    \/ Accept \/ ReadNothing \/ RejectRequest \/ TakeRequest
    \/ ConnectFails \/ Connect \/ ForwardFails \/ Forward
    \/ Recv \/ RecvEnds \/ RelaySend \/ RelayFails \/ WriteError \/ Cleanup

-----------------------------------------------------------------------------
\* The clients and their kernels, as the proxy sees them.
ClientConnect(c) ==
    /\ link[c] = "closed" /\ Len(backlog) < Backlog
    /\ backlog' = Append(backlog, c)
    /\ link' = [link EXCEPT ![c] = "queued"]
    /\ \E r \in Requests : asked' = [asked EXCEPT ![c] = r] /\ outbox' = [outbox EXCEPT ![c] = r]
    /\ UNCHANGED <<memory, peer, inbox, got, backendConn>>

ClientSend(c) ==
    /\ link[c] \in {"queued", "open"} /\ peer[c] = "up" /\ outbox[c] # <<>>
    /\ inbox' = [inbox EXCEPT ![c] = @ \o Head(outbox[c])]
    /\ outbox' = [outbox EXCEPT ![c] = Tail(@)]
    /\ UNCHANGED <<memory, backlog, link, peer, asked, got, backendConn>>

\* The client closes its end.
ClientClose(c) ==
    /\ link[c] \in {"queued", "open"} /\ peer[c] = "up"
    /\ peer' = [peer EXCEPT ![c] = "fin"]
    /\ outbox' = [outbox EXCEPT ![c] = <<>>]
    /\ UNCHANGED <<memory, backlog, link, asked, inbox, got, backendConn>>

\* The connection is reset: by a client that times out or crashes, or by the
\* kernel of one that has closed.  One that waits in the accept queue stays
\* there and fails after accept, or the kernel drops it.
ClientReset(c) ==
    /\ link[c] \in {"queued", "open"} /\ peer[c] # "rst"
    /\ peer' = [peer EXCEPT ![c] = "rst"]
    /\ outbox' = [outbox EXCEPT ![c] = <<>>]
    /\ UNCHANGED <<memory, backlog, link, asked, inbox, got, backendConn>>

KernelDrops(c) ==
    /\ link[c] = "queued" /\ peer[c] = "rst"
    /\ \E k \in DOMAIN backlog : backlog[k] = c /\ backlog' = RemoveAt(backlog, k)
    /\ Closed(c)
    /\ UNCHANGED <<memory, backendConn>>

\* The backend answers when it has the blank line and as many bytes of body as
\* the first Content-Length says, and closes when the request asks it to.
Announced(s) ==
    LET lengths == {k \in DOMAIN HeaderPart(s) : IsLength(s[k])}
    IN  IF lengths = {} THEN 0 ELSE s[Min(lengths)].length
IsComplete(s) == BlankLine(s) # 0 /\ Len(BodyPart(s)) >= Announced(s)
AsksToClose(s) == \E k \in DOMAIN HeaderPart(s) : s[k] = ConnectionClose

BackendAnswer ==
    /\ target = "reading" /\ IsComplete(arrived)
    /\ target' = "answering"
    /\ reply' \in Responses
    /\ UNCHANGED <<memory, sockets, arrived, pipe>>

BackendSend ==
    /\ target = "answering" /\ reply # <<>>
    /\ \E n \in {1, Len(reply)} :
          /\ pipe' = pipe \o SubSeq(reply, 1, n) /\ reply' = From(reply, n + 1)
    /\ UNCHANGED <<memory, sockets, target, arrived>>

BackendClose ==
    /\ target = "answering" /\ reply = <<>> /\ AsksToClose(arrived)
    /\ target' = "fin"
    /\ UNCHANGED <<memory, sockets, arrived, reply, pipe>>

BackendFail ==
    /\ BackendFails /\ target \in {"reading", "answering", "fin"}
    /\ target' \in {"fin", "rst"} \ {target}
    /\ reply' = <<>>
    /\ UNCHANGED <<memory, sockets, arrived, pipe>>

Environment ==
    \/ \E c \in Clients :
          ClientConnect(c) \/ ClientSend(c) \/ ClientClose(c) \/ ClientReset(c) \/ KernelDrops(c)
    \/ BackendAnswer \/ BackendSend \/ BackendClose \/ BackendFail

Next == ProxyStep \/ Environment

Spec == Init /\ [][Next]_vars

\* The proxy's thread runs, a client that stays sends what it has to send, and
\* a backend that has a complete request answers it.
Fairness ==
    /\ WF_memory(ProxyStep)
    /\ \A c \in Clients : WF_outbox(ClientSend(c))
    /\ WF_target(BackendAnswer) /\ WF_pipe(BackendSend) /\ WF_target(BackendClose)

FairSpec == Spec /\ Fairness
=============================================================================
