-------------------------- MODULE ProxyProperties ---------------------------
(***************************************************************************)
(* What the proxy must do and must never do: the invariants, the promise   *)
(* of module Gateway, and what happens eventually.                         *)
(***************************************************************************)
EXTENDS Proxy

Open == {c \in Clients : link[c] = "open"}

TypeOK ==
    /\ pc \in {"accept", "read", "connect", "forward", "recv", "send", "error",
               "cleanup", "dead"}
    /\ sigpipe \in {"default", "ignored"}
    /\ routes \in Seq(Routes)
    /\ client_id \in Clients \cup {NoClient}
    /\ backend \in DOMAIN routes \cup {NoBackend}
    /\ pc = "connect" => backend # NoBackend
    /\ DOMAIN request = 1 .. MaxRequest
    /\ error \in {<<>>, <<BadGateway>>, <<InternalError>>}
    /\ heap \subseteq {"request_line", "path", "request"}
    /\ backlog \in Seq(Clients) /\ Len(backlog) <= Backlog
    /\ link \in [Clients -> {"closed", "queued", "open"}]
    /\ peer \in [Clients -> {"up", "fin", "rst"}]
    /\ asked \in [Clients -> Requests \cup {<<>>}]
    /\ target \in {"none", "reading", "answering", "fin", "rst"}

\* "Only one request is processed at a time; all other connections wait in the
\* backlog queue" (docs/performance.md:16): the proxy holds the socket of the
\* client it serves and of no other, holds none while it waits in accept, and
\* every other live connection is in the accept queue, once.  The cleanup label
\* of main is reached by nine paths, and each must close what it opened.
OneConnection ==
    /\ Open = {client_id} \ {NoClient}
    /\ pc = "accept" <=> client_id = NoClient
    /\ pc = "accept" => target = "none"
    /\ ToSet(backlog) = {c \in Clients : link[c] = "queued"}
    /\ IsInjective(backlog)

\* What getpeername may have said of the client: its address, or nothing any more
\* when it was reset, and then get_client_ip falls back to the loopback.
Addresses == {client_id} \cup (IF peer[client_id] = "rst" THEN {LoopbackAddress} ELSE {})

\* What the backend receives is, token for token and with nothing left out,
\* repeated or reordered, the request rebuilt for the client being served, with
\* its address unless it was reset: a part of it while forward_request runs, all
\* of it before anything that lies behind the body in the array.
ForwardedIsRequest ==
    target # "none" /\ req # NoRequest =>
        \E ip \in Addresses :
            \/ IsPrefix(arrived, Rebuilt(req, ip))
            \/ req.body # <<>> /\ IsPrefix(Rebuilt(req, ip), arrived)

\* No request that was taken is lost on the heap: the heap holds the request of
\* the client being served and no other, on every path to cleanup.  That a
\* request that is refused leaves blocks behind is the claim NothingLeaks.
OnlyRejectedRequestsLeak == "request" \in heap <=> req # NoRequest

-----------------------------------------------------------------------------
\* How a receiver that goes by Content-Length reads a text.
Message(s) ==
    [line |-> SubSeq(s, 1, 2), headers |-> HeadersUpTo(s, Len(s)),
     body |-> SubSeq(BodyPart(s), 1, Min({Announced(s), Len(BodyPart(s))}))]

\* A request as HTTP has it: text (strlen ends it at a NUL) that begins with its
\* request line and whose body is as long as it says.
WellFormed(s) ==
    /\ NUL \notin ToSet(s)
    /\ Len(s) >= 3 /\ \A k \in 1 .. 3 : IsWord(s[k])
    /\ Announced(s) = Len(BodyPart(s))

\* All that the client sends was there when the proxy read.
ReadWhole(c) ==
    /\ peer[c] = "up" /\ outbox[c] = <<>> /\ inbox[c] = <<>>
    /\ Len(FlattenSeq(asked[c])) < BufferSize

IsConnection(t) == DOMAIN t = {"key", "val"} /\ t.key = "Connection"
WithoutConnection(s) == SelectSeq(s, LAMBDA t : ~IsConnection(t))

\* The headers of h are among those of s, in their order, but for the header
\* Connection, which is the business of each connection.
KeepsHeaders(h, s) ==
    LET others == {k \in DOMAIN h : ~IsConnection(h[k])}
    IN  \E at \in [others -> DOMAIN s] :
            /\ \A k \in others : s[at[k]] = h[k]
            /\ \A j, k \in others : j < k => at[j] < at[k]

\* A well-formed request that the proxy read whole reaches the backend of the
\* longest prefix in the configuration that was loaded: its method, cut only if
\* it is longer than the array for it, its path, the first MaxHeaders headers in
\* their order and its body, whatever a former request left in the array and in
\* the routing table.
DeliveredFaithfully ==
    LET sent == Message(FlattenSeq(asked[client_id]))
        seen == Message(arrived)
        kept == SubSeq(sent.headers, 1, Min({MaxHeaders, Len(sent.headers)}))
        method == sent.line[1].word
        whole == ReadWhole(client_id) /\ WellFormed(FlattenSeq(asked[client_id]))
    IN  pc \in {"recv", "send"} /\ whole =>
            /\ IsPrefix(seen.line[1].word, method)
            /\ Len(seen.line[1].word) >= Min({MaxMethod, Len(method)})
            /\ seen.line[2] = sent.line[2] /\ seen.body = sent.body
            /\ KeepsHeaders(kept, seen.headers)
            /\ IsBest(backend, LoadedRoutes, sent.line[2].word)

\* A whole response of the backend, in which Connection headers may be changed.
Relayed(s) == \E a \in Responses : WithoutConnection(s) = WithoutConnection(a)

\* A client that stays connected and whose request was accepted gets, before
\* its connection is closed, one whole answer: the complete response of the
\* backend, 502 when no route matches, 500 when the request outgrows the array.
\* A refused request gets none.  (Of backends that do not fail.)
AnsweredInFull ==
    pc = "cleanup" /\ peer[client_id] = "up" =>
        IF req = NoRequest THEN got[client_id] = <<>>
        ELSE IF backend = NoBackend THEN got[client_id] = <<BadGateway>>
        ELSE IF ~RebuildOK(RebuiltHead(req, client_id), req.body)
             THEN got[client_id] = <<InternalError>>
        ELSE Relayed(got[client_id])

\* The proxy keeps the promise of module Gateway: accept order, one client at a
\* time, and never an error response after a part of a backend's response.
G == INSTANCE Gateway WITH
        Answers <- Responses, Errors <- {BadGateway, InternalError},
        line <- backlog, phase <- link, reply <- got
KeepsGatewayPromise == G!Spec

\* "Server closes connection after one request-response" (design-decisions.md:21):
\* every connection that the kernel queued is served and closed.
EventuallyClosed == \A c \in Clients : link[c] = "queued" ~> link[c] = "closed"
=============================================================================
