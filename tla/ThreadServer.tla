---------------------------- MODULE ThreadServer ----------------------------
(***************************************************************************)
(* The server of src/socket-thread/server.c: main accepts, and hands the   *)
(* descriptor to a detached thread in a block of memory.  A thread that    *)
(* could not read closes its descriptor twice, and after a failed accept   *)
(* main starts a thread all the same, with a block that it has freed.      *)
(***************************************************************************)
EXTENDS Naturals, Sequences

CONSTANTS
    Clients,       \* numbers; each makes one connection, in their order
    NoClient,
    Workers,       \* the threads that may exist at a time
    Fds,           \* the descriptors left for clients
    Blocks,        \* the blocks malloc hands out
    Junk, Freed,   \* what a block holds that is not yet written, or was freed
    Backlog        \* of listen

ASSUME FdsAssumption == Fds \subseteq Nat /\ Junk \notin Fds /\ Freed \notin Fds
ASSUME BlocksAssumption == Junk \notin Blocks /\ Junk # Freed
ASSUME LimitsAssumption == Backlog \in Nat \ {0}
ASSUME ClientsAssumption == Clients \subseteq Nat /\ NoClient \notin Clients

VARIABLES
    peer,      \* each connection: "new", "open", "fin", "rst" or "closed"
    unread,    \* the clients whose request lies in the receive buffer
    queue,     \* the accept queue
    owner,     \* the client behind each descriptor, NoClient when it is closed
    heap,      \* what is written in each block
    main,      \* main's program counter and its variable clientId
    thread,    \* pc, arg, clientId; client: history; reading: the file read holds
    ended,     \* "no", or what ended the process: "signal", "abort", "detach"
    starved,   \* history: accept failed
    hungUp,    \* history: a read found no request
    foreign    \* history: a close hit the connection of another client

net == <<peer, unread, queue, owner>>
history == <<starved, hungUp, foreign>>
vars == <<net, heap, main, thread, ended, history>>

NoThread == [pc |-> "none", arg |-> Junk, clientId |-> Junk,
             client |-> NoClient, reading |-> NoClient]
\* The loop begins again, and malloc will overwrite clientId.
NextRound == [pc |-> "malloc", clientId |-> Junk, client |-> NoClient]

Init ==
    /\ peer = [c \in Clients |-> "new"]
    /\ unread = {} /\ queue = <<>>
    /\ owner = [fd \in Fds |-> NoClient]
    /\ heap = [b \in Blocks |-> Freed]
    /\ main = NextRound
    /\ thread = [w \in Workers |-> NoThread]
    /\ ended = "no"
    /\ starved = FALSE /\ hungUp = FALSE /\ foreign = FALSE

-----------------------------------------------------------------------------
(* The clients *)
Connect(c) ==
    /\ peer[c] = "new" /\ Len(queue) < Backlog
    /\ \A d \in Clients : d < c => peer[d] # "new"
    /\ peer' = [peer EXCEPT ![c] = "open"]
    /\ queue' = Append(queue, c)
    /\ UNCHANGED <<unread, owner>>

Send(c) ==
    /\ peer[c] = "open" /\ c \notin unread
    /\ unread' = unread \cup {c}
    /\ UNCHANGED <<peer, queue, owner>>

Leave(c) ==
    /\ \/ peer[c] = "open" /\ peer' = [peer EXCEPT ![c] = "fin"]
       \/ peer[c] \in {"open", "fin"} /\ peer' = [peer EXCEPT ![c] = "rst"]
    /\ UNCHANGED <<unread, queue, owner>>

Rest == <<heap, main, thread, ended, history>>
Client(c) ==
    /\ ended = "no"
    /\ Connect(c) \/ Send(c) \/ Leave(c)
    /\ UNCHANGED Rest

-----------------------------------------------------------------------------
(* Descriptors and memory *)
Behind(fd) == IF fd \in Fds THEN owner[fd] ELSE NoClient

\* close: a connection ends with its last use, and a thread blocked in read uses it.
Close(fd, client) ==
    LET c == Behind(fd)
        gone == c # NoClient /\ \A w \in Workers : thread[w].reading # c
    IN  /\ owner' = IF c = NoClient THEN owner ELSE [owner EXCEPT ![fd] = NoClient]
        /\ peer' = IF gone THEN [peer EXCEPT ![c] = "closed"] ELSE peer
        /\ unread' = IF gone THEN unread \ {c} ELSE unread
        /\ foreign' = (foreign \/ c \notin {NoClient, client})
        /\ UNCHANGED <<queue, starved, hungUp>>

\* free: glibc aborts when the block is free already.
Free(b) ==
    IF heap[b] = Freed
    THEN ended' = "abort" /\ UNCHANGED heap
    ELSE heap' = [heap EXCEPT ![b] = Freed] /\ UNCHANGED ended

-----------------------------------------------------------------------------
(* main *)
\* Free blocks that no thread refers to are interchangeable.
Allocatable ==
    LET free == {b \in Blocks : heap[b] = Freed}
        referred == {thread[w].arg : w \in Workers}
    IN  (free \cap referred)
            \cup (IF free \subseteq referred THEN {} ELSE {CHOOSE b \in free \ referred : TRUE})

Malloc ==
    /\ main.pc = "malloc"
    /\ \E b \in Allocatable :
          /\ heap' = [heap EXCEPT ![b] = Junk]
          /\ main' = [main EXCEPT !.pc = "accept", !.clientId = b]
    /\ UNCHANGED <<net, thread, ended, history>>

NewFd(fd) == owner[fd] = NoClient /\ \A g \in Fds : owner[g] = NoClient => fd <= g

Accept ==
    /\ main.pc = "accept" /\ queue # <<>>
    /\ \E fd \in Fds :
          /\ NewFd(fd)
          /\ owner' = [owner EXCEPT ![fd] = Head(queue)]
          /\ heap' = [heap EXCEPT ![main.clientId] = fd]
    /\ main' = [main EXCEPT !.pc = "create", !.client = Head(queue)]
    /\ queue' = Tail(queue)
    /\ UNCHANGED <<peer, unread, thread, ended, history>>

\* EMFILE: close(-1), free(clientId), and on to pthread_create.
AcceptFails ==
    /\ main.pc = "accept" /\ \A fd \in Fds : owner[fd] # NoClient
    /\ Free(main.clientId)
    /\ main' = [main EXCEPT !.pc = "create", !.client = NoClient]
    /\ starved' = TRUE
    /\ UNCHANGED <<net, thread, hungUp, foreign>>

Idle == {w \in Workers : thread[w].pc = "none"}

Create ==
    /\ main.pc = "create" /\ Idle # {}
    /\ thread' = [thread EXCEPT ![CHOOSE w \in Idle : TRUE] =
          [NoThread EXCEPT !.pc = "start", !.arg = main.clientId, !.client = main.client]]
    /\ main' = NextRound
    /\ UNCHANGED <<net, heap, ended, history>>

\* Faulty variant: the descriptor of a connection without a thread stays open.
LeaveOpen(b) == UNCHANGED <<peer, unread, queue, owner, history>>

\* close(*clientId)
CloseUnserved(b) == Close(heap[b], main.client)

\* The block leaks: nobody reaches it again, and the model uses it again.
\* pthread_detach then gets a handle of a thread long gone, or none at all.
CreateFails ==
    /\ main.pc = "create"
    /\ CloseUnserved(main.clientId)
    /\ heap' = [heap EXCEPT ![main.clientId] = Freed]
    /\ main' = NextRound
    /\ ended' \in {"no", "detach"}
    /\ UNCHANGED thread

Main == Malloc \/ Accept \/ AcceptFails \/ Create \/ CreateFails

-----------------------------------------------------------------------------
(* A thread *)
Goto(w, pc) == thread' = [thread EXCEPT ![w].pc = pc]

\* Faulty variant: the pointer itself instead of what it points to.
PointerItself(w) == thread[w].arg

\* Faulty variant: all threads would read main's variable.
MainsDescriptor(w) == IF main.clientId \in Blocks THEN heap[main.clientId] ELSE Junk

\* *(int *)arg
Descriptor(w) == heap[thread[w].arg]

Start(w) ==
    /\ thread[w].pc = "start"
    /\ thread' = [thread EXCEPT ![w].pc = "send", ![w].clientId =
                      IF Descriptor(w) = Freed THEN Junk ELSE Descriptor(w)]
    /\ UNCHANGED <<net, heap, main, ended, history>>

SendOK(w) ==
    /\ thread[w].pc = "send"
    /\ LET c == Behind(thread[w].clientId) IN c # NoClient /\ peer[c] # "rst"
    /\ Goto(w, "read")
    /\ UNCHANGED <<net, heap, main, ended, history>>

\* A closed descriptor, or a reset: an error, or SIGPIPE when a FIN came first.
SendFails(w) ==
    /\ thread[w].pc = "send"
    /\ LET c == Behind(thread[w].clientId) IN
          /\ c # NoClient => peer[c] = "rst"
          /\ ended' \in (IF c = NoClient THEN {"no"} ELSE {"no", "signal"})
    /\ Goto(w, "closeUnsent")
    /\ UNCHANGED <<net, heap, main, history>>

\* read holds on to the connection, whatever becomes of the descriptor.
Read(w) ==
    /\ thread[w].pc = "read"
    /\ LET c == Behind(thread[w].clientId) IN
          thread' = [thread EXCEPT ![w].pc = IF c = NoClient THEN "close" ELSE "blocked",
                                   ![w].reading = c]
    /\ hungUp' = (hungUp \/ Behind(thread[w].clientId) = NoClient)
    /\ UNCHANGED <<net, heap, main, ended, starved, foreign>>

\* Faulty variant: the descriptor is closed at once after every read.
CloseAtOnce(found) == "close"

\* if (valread <= 0) closes, and goes on.
AfterRead(found) == IF found THEN "free" ELSE "close"

ReadReturns(w) ==
    LET c == thread[w].reading
        gone == /\ \A fd \in Fds : owner[fd] # c
                /\ \A v \in Workers \ {w} : thread[v].reading # c
    IN  /\ thread[w].pc = "blocked"
        /\ c \in unread \/ peer[c] # "open"
        /\ thread' = [thread EXCEPT ![w].reading = NoClient,
              ![w].pc = AfterRead(c \in unread)]
        /\ unread' = unread \ {c}
        /\ peer' = IF gone THEN [peer EXCEPT ![c] = "closed"] ELSE peer
        /\ hungUp' = (hungUp \/ c \notin unread)
        /\ UNCHANGED <<queue, owner, heap, main, ended, starved, foreign>>

\* Faulty variant: a thread that could not send returns without free.
AfterCloseUnfreed == [closeUnsent |-> "none", close |-> "free", closeLast |-> "none"]

\* The three calls of close and where they lead.
AfterClose == [closeUnsent |-> "freeUnsent", close |-> "free", closeLast |-> "none"]
CloseStep(w) ==
    /\ thread[w].pc \in DOMAIN AfterClose
    /\ Close(thread[w].clientId, thread[w].client)
    /\ thread' = IF AfterClose[thread[w].pc] = "none"
                 THEN [thread EXCEPT ![w] = NoThread]
                 ELSE [thread EXCEPT ![w].pc = AfterClose[thread[w].pc]]
    /\ UNCHANGED <<heap, main, ended>>

FreeStep(w) ==
    /\ thread[w].pc \in {"free", "freeUnsent"}
    /\ Free(thread[w].arg)
    /\ thread' = IF thread[w].pc = "freeUnsent"
                 THEN [thread EXCEPT ![w] = NoThread]
                 ELSE [thread EXCEPT ![w].pc = "closeLast"]
    /\ UNCHANGED <<net, main, history>>

Worker(w) ==
    Start(w) \/ SendOK(w) \/ SendFails(w) \/ Read(w) \/ ReadReturns(w)
        \/ CloseStep(w) \/ FreeStep(w)

Next ==
    \/ \E c \in Clients : Client(c)
    \/ ended = "no" /\ (Main \/ \E w \in Workers : Worker(w))

Fairness ==
    /\ WF_main(ended = "no" /\ Main)
    /\ \A w \in Workers : WF_thread(ended = "no" /\ Worker(w))
    /\ \A c \in Clients :
          WF_<<peer, unread>>(ended = "no" /\ (Send(c) \/ Leave(c)) /\ UNCHANGED Rest)

Spec == Init /\ [][Next]_vars /\ Fairness

-----------------------------------------------------------------------------
TypeOK ==
    /\ peer \in [Clients -> {"new", "open", "fin", "rst", "closed"}]
    /\ unread \subseteq Clients
    /\ queue \in Seq(Clients) /\ Len(queue) <= Backlog
    /\ owner \in [Fds -> Clients \cup {NoClient}]
    /\ heap \in [Blocks -> {Freed, Junk} \cup Fds]
    /\ main \in [pc : {"malloc", "accept", "create"},
                 clientId : Blocks \cup {Junk}, client : Clients \cup {NoClient}]
    /\ thread \in [Workers ->
          [pc : {"none", "start", "send", "read", "blocked", "free", "freeUnsent"}
                    \cup DOMAIN AfterClose,
           arg : Blocks \cup {Junk}, clientId : Fds \cup {Junk},
           client : Clients \cup {NoClient}, reading : Clients \cup {NoClient}]]
    /\ ended \in {"no", "signal", "abort", "detach"}
    /\ starved \in BOOLEAN /\ hungUp \in BOOLEAN /\ foreign \in BOOLEAN

\* Until a close has hit the connection of another client or accept has failed,
\* a thread talks to the client it was started for, and no other thread does.
OwnClient ==
    ~foreign /\ ~starved =>
        \A w \in Workers :
            /\ thread[w].pc \in {"send", "read", "blocked", "closeUnsent", "close"} =>
                  Behind(thread[w].clientId) = thread[w].client
            /\ thread[w].pc = "blocked" => thread[w].reading = thread[w].client
            /\ \A v \in Workers \ {w} :
                  thread[w].client # NoClient => thread[v].client # thread[w].client

\* The second close (src/socket-thread/server.c:53) hits another client only
\* after a client has left without a request, or the descriptors ran out.
SecondCloseIsHarmless == ~hungUp /\ ~starved => ~foreign

\* Unless accept has failed (line 99), the block of a connection is freed exactly
\* once, by its thread: what is allocated is what main or a thread has yet to
\* free.  Blocks of connections without a thread leak.
FreedOnce ==
    ~starved =>
        /\ ended # "abort"
        /\ {b \in Blocks : heap[b] # Freed} =
              {b \in {main.clientId} : main.pc # "malloc"}
                  \cup {thread[w].arg : w \in {v \in Workers : thread[v].pc \notin {"none", "closeLast"}}}

\* Every connection is accepted and closed in the end, whatever the order of
\* the threads and also when closes hit the wrong one; but not when accept has
\* failed: a thread may then take the descriptor of another, and leave it open.
Served == []<>(ended # "no" \/ starved \/ \A c \in Clients : peer[c] \in {"new", "closed"})
=============================================================================
