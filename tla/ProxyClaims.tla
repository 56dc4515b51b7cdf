---------------------------- MODULE ProxyClaims -----------------------------
(***************************************************************************)
(* What comments and documents of the repository say of the proxy and its  *)
(* code does not do: a run expects each violation.                         *)
(***************************************************************************)
EXTENDS ProxyProperties

\* The exchange with a client that waited for the end of it is over: its request was
\* read whole, and a whole response was sent to it.
Exchanged == pc = "cleanup" /\ ReadWhole(client_id) /\ Relayed(got[client_id])
Asked == FlattenSeq(asked[client_id])

\* "EXACT BYTE PRESERVATION: memcpy copies exactly req->body_length bytes ... What
\* goes in is exactly what comes out" (rebuild_request.c:89-92): no byte follows the
\* body.  memcpy ends it with no NUL, and main forwards strlen(request) bytes.
ExactBody == BodyPart(arrived) = req.body

\* "BINARY DATA SAFETY: HTTP body can contain images, files, binary data - These
\* may have embedded null bytes" (rebuild_request.c:79-81): nothing of a body is
\* lost.  The parser measures it with strlen, so it ends at its first NUL.
BinaryBody == IsPrefix(BodyPart(Asked), BodyPart(arrived))

\* "HTTP method" (http_types.h:23) is what methode holds and what is forwarded.
\* strncpy cuts a method of more than seven characters.
MethodKept == Message(arrived).line[1] = Message(Asked).line[1]

\* "Proxy must or replace original `Connection` headers from browser"
\* (connection-issues.md:43): the backend is told nothing but close.
\* rebuild_request copies the browser's header and adds its own behind it.
ConnectionReplaced ==
    \A t \in ToSet(Message(arrived).headers) : IsConnection(t) => t = ConnectionClose

\* "It must add 'Connection: close' to backend request and client response"
\* (main.c:208-209): the client is told that its connection ends.
\* relay_response sends what it receives.
ClientToldToClose == ConnectionClose \in ToSet(got[client_id])

\* "No crashes or memory leaks (confirmed via `valgrind`)" (performance.md:20): no
\* more is allocated than the request being served.  parse_http_request forgets
\* request_line, and path, when it refuses a request.
NothingLeaks == heap \subseteq {"request"}

\* Each of the six is said of every exchange, so at least one of them must hold
\* of each.  A state that violates this refutes all six at once.
DocumentedExchange ==
    Exchanged => \/ ExactBody \/ BinaryBody \/ MethodKept
                 \/ ConnectionReplaced \/ ClientToldToClose \/ NothingLeaks
=============================================================================
