------------------------------- MODULE Gateway ------------------------------
(***************************************************************************)
(* What the proxy promises its clients, whatever its backends do: they are *)
(* served one at a time in the order they were accepted by the kernel, and *)
(* what a client is sent is one error response or a growing part of one    *)
(* response of a backend, never a mixture of the two.                      *)
(***************************************************************************)
EXTENDS Sequences, SequencesExt

CONSTANTS
    Clients,
    Answers,     \* the complete responses of the backends
    Errors       \* the error responses of the proxy itself

VARIABLES
    line,        \* the clients that wait to be served
    phase,       \* of each client: "closed", "queued", "open"
    reply        \* what each client was sent over its connection

vars == <<line, phase, reply>>

Init ==
    /\ line = <<>>
    /\ phase = [c \in Clients |-> "closed"]
    /\ reply = [c \in Clients |-> <<>>]

Arrive(c) ==
    /\ phase[c] = "closed"
    /\ phase' = [phase EXCEPT ![c] = "queued"]
    /\ line' = Append(line, c)
    /\ UNCHANGED reply

\* A client gives up before it is served.
Leave(c) ==
    /\ phase[c] = "queued"
    /\ phase' = [phase EXCEPT ![c] = "closed"]
    /\ \E k \in DOMAIN line : line[k] = c /\ line' = RemoveAt(line, k)
    /\ UNCHANGED reply

Serve(c) ==
    /\ \A d \in Clients : phase[d] # "open"
    /\ line # <<>> /\ c = Head(line)
    /\ line' = Tail(line)
    /\ phase' = [phase EXCEPT ![c] = "open"]
    /\ UNCHANGED reply

SendError(c) ==
    /\ phase[c] = "open" /\ reply[c] = <<>>
    /\ \E e \in Errors : reply' = [reply EXCEPT ![c] = <<e>>]
    /\ UNCHANGED <<line, phase>>

SendMore(c) ==
    /\ phase[c] = "open"
    /\ \E a \in Answers : \E n \in Len(reply[c]) + 1 .. Len(a) :
          /\ IsPrefix(reply[c], a)
          /\ reply' = [reply EXCEPT ![c] = SubSeq(a, 1, n)]
    /\ UNCHANGED <<line, phase>>

Close(c) ==
    /\ phase[c] = "open"
    /\ phase' = [phase EXCEPT ![c] = "closed"]
    /\ reply' = [reply EXCEPT ![c] = <<>>]
    /\ UNCHANGED line

Next == \E c \in Clients :
    Arrive(c) \/ Leave(c) \/ Serve(c) \/ SendError(c) \/ SendMore(c) \/ Close(c)

Spec == Init /\ [][Next]_vars
=============================================================================
