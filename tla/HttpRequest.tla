---------------------------- MODULE HttpRequest -----------------------------
(***************************************************************************)
(* parse_http_request and rebuild_request: what the proxy makes of the     *)
(* bytes it read from a client, and the bytes it forwards to the backend.  *)
(* A text is a sequence of tokens.  The words of a request line end at an  *)
(* EOL token; a header token stands for one complete header line and       *)
(* carries the CRLF that ends it, so the blank line is an EOL token that   *)
(* follows a header or another EOL.  One token fills one cell of a buffer. *)
(***************************************************************************)
EXTENDS Naturals, Sequences, SequencesExt, FiniteSetsExt

CONSTANTS
    MaxMethod,     \* what methode holds besides its NUL, 7 in the code
    MaxHeaders,    \* MAX_HEADERS, 32 in the code
    MaxRequest,    \* MAX_REQUEST_SIZE, 8192 in the code
    MaxOverread    \* bound on what strlen reads beyond an unterminated buffer

ASSUME SizesAssumption ==
    /\ MaxMethod \in Nat /\ MaxHeaders \in Nat
    /\ MaxRequest \in Nat \ {0} /\ MaxOverread \in Nat

\* A word is a sequence of pieces, so that a path can be split at its prefix and
\* a method where the array methode ends.
Word(w) == [word |-> w]
Hdr(key, val) == [key |-> key, val |-> val]
ContentLength(n) == [length |-> n]
Junk == [line |-> "no colon"]
Byte(b) == [byte |-> b]
EOL == [eol |-> 0]
NUL == [nul |-> 0]

IsWord(t) == DOMAIN t = {"word"}
IsLength(t) == DOMAIN t = {"length"}
IsHeader(t) == DOMAIN t = {"key", "val"} \/ IsLength(t)
EndsLine(t) == t = EOL \/ IsHeader(t) \/ t = Junk

\* The text before its k-th token, all of it for 0, and the text from there.
UpTo(s, k) == IF k = 0 THEN s ELSE SubSeq(s, 1, k - 1)
From(s, k) == SubSeq(s, k, Len(s))

\* What the string functions see of a text: it ends at its first NUL.
CString(s) == SubSeq(s, 1, Min({k \in DOMAIN s : s[k] = NUL} \cup {Len(s) + 1}) - 1)

\* strstr(bufferCopy, "\r\n\r\n"): the index of the EOL of the blank line.
BlankLine(s) ==
    LET hits == {k \in 2 .. Len(s) : s[k] = EOL /\ EndsLine(s[k - 1])}
    IN  IF hits = {} THEN 0 ELSE Min(hits)
HeaderPart(s) == UpTo(s, BlankLine(s))
BodyPart(s) == IF BlankLine(s) = 0 THEN <<>> ELSE From(s, BlankLine(s) + 1)

\* strtok(s, "\r\n"): the first line that is not empty, leading EOLs skipped.
FirstLine(s) ==
    LET start == Min({k \in DOMAIN s : s[k] # EOL} \cup {Len(s) + 1})
        end == Min({k \in start .. Len(s) : EndsLine(s[k])} \cup {Len(s)})
    IN  SubSeq(s, start, end)

\* The header loop: lines without a colon are skipped, and it stops when the
\* array Headers, of max places, is full.
HeadersUpTo(s, max) ==
    LET line == HeaderPart(s)
        filled[k \in 0 .. Len(line)] ==
            IF k = 0 THEN <<>>
            ELSE IF IsHeader(line[k]) /\ Len(filled[k - 1]) < max
            THEN Append(filled[k - 1], line[k])
            ELSE filled[k - 1]
    IN  filled[Len(line)]

\* Faulty variant: the last place of Headers would never be used.
AllButLastOf(s) == HeadersUpTo(s, MaxHeaders - 1)

HeadersOf(s) == HeadersUpTo(s, MaxHeaders)

\* What a failing parse leaves on the heap.  The request line is looked up in
\* the whole text but the headers only before the blank line: a text that
\* starts with the blank line is refused after path was allocated.
LeaksOf(s) ==
    IF FirstLine(s) = <<>> THEN {}
    ELSE IF Len(SelectSeq(FirstLine(s), IsWord)) < 3 THEN {"request_line"}
    ELSE {"request_line", "path"}

\* 0 or -1 of parse_http_request, and the HttpRequest it fills.
ParseOK(s) ==
    /\ Len(SelectSeq(FirstLine(s), IsWord)) >= 3
    /\ \E k \in DOMAIN HeaderPart(s) : s[k] # EOL

\* strncpy into methode, which was cleared: a longer method is cut.
Method(word) == SubSeq(word, 1, Min({MaxMethod, Len(word)}))

Parse(s) ==
    [method |-> Method(FirstLine(s)[1].word), path |-> FirstLine(s)[2].word,
     headers |-> HeadersOf(s), body |-> BodyPart(s)]

-----------------------------------------------------------------------------
ConnectionClose == Hdr("Connection", "close")

RequestLine(method, path) == <<Word(method), Word(path), Word(<<"HTTP/1.1">>), EOL>>

\* Faulty variant: without the Connection header the backend keeps alive.
KeepAliveHead(req, ip) ==
    RequestLine(req.method, req.path) \o req.headers \o <<Hdr("X-Forwarded-For", ip)>>
    \o (IF req.body = <<>> THEN <<>> ELSE <<ContentLength(Len(req.body))>>) \o <<EOL>>

\* The header part that rebuild_request writes for a client at address ip.
RebuiltHead(req, ip) ==
    RequestLine(req.method, req.path)
    \o req.headers
    \o <<ConnectionClose, Hdr("X-Forwarded-For", ip)>>
    \o (IF req.body = <<>> THEN <<>> ELSE <<ContentLength(Len(req.body))>>)
    \o <<EOL>>

Rebuilt(req, ip) == RebuiltHead(req, ip) \o req.body

\* Every part is checked before the next is written; a part that leaves no cell
\* for the terminating NUL, or a body that would fill the buffer, is refused.
Fits(len) == len < MaxRequest
RebuildOK(head, body) == Fits(Len(head)) /\ Fits(Len(head) + Len(body))

Overwrite(cells, s) ==
    [k \in DOMAIN cells |-> IF k <= Len(s) THEN s[k] ELSE cells[k]]

\* snprintf cuts what it writes to the buffer and puts a NUL after it.
Terminated(s) == SubSeq(s, 1, Min({MaxRequest - 1, Len(s)})) \o <<NUL>>

\* The contents of main's array `request` after rebuild_request.  memcpy writes
\* the body over the NUL that ended the head, and puts none after the body.
Rebuild(cells, head, body) ==
    IF body # <<>> /\ RebuildOK(head, body) THEN Overwrite(cells, head \o body)
    ELSE Overwrite(cells, Terminated(head))

\* What strlen(request) makes of the array: it stops at the first NUL, and in
\* an array without one it runs on into whatever lies behind it.
TextsIn(cells) ==
    IF \E k \in DOMAIN cells : cells[k] = NUL THEN {CString(cells)}
    ELSE {cells \o [k \in 1 .. n |-> Byte("stack")] : n \in 0 .. MaxOverread}
=============================================================================
