---------------------------- MODULE EpollServer -----------------------------
(***************************************************************************)
(* The servers of src/epoll_practice.c and src/epoll_practice2.c: one      *)
(* thread, an epoll instance in level-triggered mode, descriptors of the   *)
(* lowest free number.  The two programs differ in what they do with an    *)
(* event of the listening socket: the first accepts one connection, the    *)
(* second accepts until accept fails.                                      *)
(***************************************************************************)
EXTENDS Naturals, Sequences, SequencesExt

CONSTANTS
    Clients, NoClient,
    Fds,           \* the descriptors left for clients
    server_fd,
    MAX_EVENTS,
    Backlog        \* of listen

ASSUME FdsAssumption == Fds \subseteq Nat /\ server_fd \in Nat \ Fds
ASSUME LimitsAssumption == MAX_EVENTS \in Nat \ {0} /\ Backlog \in Nat \ {0}
ASSUME ClientsAssumption == NoClient \notin Clients

VARIABLES
    program,   \* which of the two
    peer,      \* each client's connection: "none", "open", "fin" or "rst"
    unread,    \* the clients whose request lies in the receive buffer
    queue,     \* the accept queue
    owner,     \* the client behind each descriptor, NoClient when it is closed
    watched,   \* the client descriptors in the interest list of epoll_fd
    ready,     \* the kernel's ready list
    events,    \* those events of the last epoll_wait that are not yet handled
    dead       \* killed by SIGPIPE, which neither program ignores

kernel == <<peer, unread, queue, owner, watched, ready>>
vars == <<program, kernel, events, dead>>

Open == {fd \in Fds : owner[fd] # NoClient}

Init ==
    /\ program \in {"epoll_practice", "epoll_practice2"}
    /\ peer = [c \in Clients |-> "none"]
    /\ unread = {} /\ queue = <<>>
    /\ owner = [fd \in Fds |-> NoClient]
    /\ watched = {} /\ ready = <<>> /\ events = <<>>
    /\ dead = FALSE

-----------------------------------------------------------------------------
(* The kernel *)
IsReady(fd) ==
    IF fd = server_fd THEN queue # <<>>
    ELSE fd \in watched /\ (owner[fd] \in unread \/ peer[owner[fd]] \in {"fin", "rst"})

\* What happens to fd puts it on the ready list.
Woken(fds) == ready \o SetToSeq({fd \in fds : ~Contains(ready, fd)})
FdsOf(c) == {fd \in watched : owner[fd] = c}

-----------------------------------------------------------------------------
(* The clients *)
Connect(c) ==
    /\ peer[c] = "none" /\ Len(queue) < Backlog
    /\ peer' = [peer EXCEPT ![c] = "open"]
    /\ queue' = Append(queue, c)
    /\ ready' = Woken({server_fd})
    /\ UNCHANGED <<unread, owner, watched>>

Send(c) ==
    /\ peer[c] = "open" /\ c \notin unread
    /\ unread' = unread \cup {c}
    /\ ready' = Woken(FdsOf(c))
    /\ UNCHANGED <<peer, queue, owner, watched>>

Leave(c) ==
    /\ \/ peer[c] = "open" /\ peer' = [peer EXCEPT ![c] = "fin"]
       \/ peer[c] \in {"open", "fin"} /\ peer' = [peer EXCEPT ![c] = "rst"]
    /\ ready' = Woken(FdsOf(c))
    /\ UNCHANGED <<unread, queue, owner, watched>>

Client(c) ==
    /\ ~dead
    /\ Connect(c) \/ Send(c) \/ Leave(c)
    /\ UNCHANGED <<program, events, dead>>

-----------------------------------------------------------------------------
(* The server *)
Handled == events' = Tail(events)
Current == Head(events).fd

\* close: the descriptor leaves every list of the kernel.
Closed(fd) ==
    /\ owner' = [owner EXCEPT ![fd] = NoClient]
    /\ peer' = [peer EXCEPT ![owner[fd]] = "none"]
    /\ unread' = unread \ {owner[fd]}
    /\ watched' = watched \ {fd}
    /\ ready' = RemoveFirst(ready, fd)
    /\ UNCHANGED queue

\* Faulty variant: one event more than the array holds is asked for.
MaxEventsAndOne == MAX_EVENTS + 1

\* The third argument of epoll_wait.
maxevents == MAX_EVENTS

\* The members of S on a list, in their order.
Those(list, S) ==
    LET kept[k \in 0 .. Len(list)] ==
            IF k = 0 THEN <<>>
            ELSE IF list[k] \in S THEN Append(kept[k - 1], list[k]) ELSE kept[k - 1]
    IN  kept[Len(list)]

\* Ready entries are reported in turn, maxevents at most; level-triggered, they
\* stay on the list, behind those that are still to be reported.
epoll_wait ==
    LET up == Those(ready, {fd \in watched \cup {server_fd} : IsReady(fd)})
        n  == IF Len(up) < maxevents THEN Len(up) ELSE maxevents
    IN  /\ events = <<>> /\ up # <<>>
        /\ events' = [k \in 1 .. n |->
              [fd |-> up[k],
               of |-> IF up[k] = server_fd THEN NoClient ELSE owner[up[k]]]]
        /\ ready' = SubSeq(up, n + 1, Len(up)) \o SubSeq(up, 1, n)
        /\ UNCHANGED <<peer, unread, queue, owner, watched, dead>>

\* Faulty variant: a connection whose set-up fails is not closed.
KeepRefused(fd) ==
    /\ owner' = [owner EXCEPT ![fd] = Head(queue)]
    /\ UNCHANGED <<peer, unread, watched, ready>>

\* set_nonblocking or epoll_ctl fails for the new descriptor: close.
Refused(fd) ==
    /\ peer' = [peer EXCEPT ![Head(queue)] = "none"]
    /\ unread' = unread \ {Head(queue)}
    /\ UNCHANGED <<owner, watched, ready>>

Watched(fd) ==
    /\ owner' = [owner EXCEPT ![fd] = Head(queue)]
    /\ watched' = watched \cup {fd}
    /\ ready' = IF Head(queue) \in unread \/ peer[Head(queue)] # "open"
                THEN Append(ready, fd) ELSE ready
    /\ UNCHANGED <<peer, unread>>

\* The lowest free descriptor.
NewFd(fd) == fd \in Fds \ Open /\ \A other \in Fds \ Open : fd <= other

\* epoll_practice goes on with the next event, epoll_practice2 accepts again.
AfterAccept == IF program = "epoll_practice" THEN Handled ELSE UNCHANGED events

Accepted(fd) ==
    /\ events # <<>> /\ Current = server_fd /\ queue # <<>>
    /\ NewFd(fd)
    /\ queue' = Tail(queue)
    /\ AfterAccept
    /\ UNCHANGED dead

Accept == \E fd \in Fds : Accepted(fd) /\ Watched(fd)
AcceptRefused == \E fd \in Fds : Accepted(fd) /\ Refused(fd)

\* EAGAIN, or EMFILE when no descriptor is left.
AcceptFails ==
    /\ events # <<>> /\ Current = server_fd
    /\ queue = <<>> \/ Open = Fds
    /\ Handled
    /\ UNCHANGED <<kernel, dead>>

\* read, write, close.  A peer that was reset makes write fail, or raise SIGPIPE
\* when the reset came after the peer's FIN.
Answer ==
    /\ events # <<>> /\ Current # server_fd
    /\ owner[Current] \in unread
    /\ Closed(Current) /\ Handled
    /\ dead' \in (IF peer[owner[Current]] = "rst" THEN BOOLEAN ELSE {FALSE})

\* Faulty variant: the descriptor of a client that left stays open.
StopWatching(fd) ==
    /\ watched' = watched \ {fd}
    /\ ready' = RemoveFirst(ready, fd)
    /\ UNCHANGED <<peer, unread, queue, owner>>

\* Faulty variant: no break behind the close, so read is called again.
KeepsReading == UNCHANGED events

\* break
LeavesLoop == Handled

\* epoll_ctl(EPOLL_CTL_DEL) and close
HungUp(fd) == Closed(fd)

\* read returned 0, or -1 with an error that is not EAGAIN.  EAGAIN itself does
\* not happen: EventsAreCurrent.
ReadFails ==
    /\ events # <<>> /\ Current \in Open
    /\ owner[Current] \notin unread /\ peer[owner[Current]] \in {"fin", "rst"}
    /\ HungUp(Current) /\ LeavesLoop
    /\ UNCHANGED dead

Server ==
    /\ ~dead
    /\ epoll_wait \/ Accept \/ AcceptRefused \/ AcceptFails \/ Answer \/ ReadFails
    /\ UNCHANGED program

Next == Server \/ \E c \in Clients : Client(c)

\* The thread runs; set_nonblocking and epoll_ctl do not fail for ever; and a
\* connected client sends its request or leaves.
Fairness ==
    /\ WF_vars(Server)
    /\ SF_vars(~dead /\ Accept /\ UNCHANGED program)
    /\ \A c \in Clients :
          WF_vars(~dead /\ (Send(c) \/ Leave(c)) /\ UNCHANGED <<program, events, dead>>)

Spec == Init /\ [][Next]_vars /\ Fairness

-----------------------------------------------------------------------------
TypeOK ==
    /\ program \in {"epoll_practice", "epoll_practice2"}
    /\ peer \in [Clients -> {"none", "open", "fin", "rst"}]
    /\ unread \subseteq Clients
    /\ queue \in Seq(Clients) /\ Len(queue) <= Backlog
    /\ owner \in [Fds -> Clients \cup {NoClient}]
    /\ watched \subseteq Fds
    /\ ready \in Seq(Fds \cup {server_fd})
    /\ events \in Seq([fd : Fds \cup {server_fd}, of : Clients \cup {NoClient}])
    /\ Len(events) <= MAX_EVENTS
    /\ dead \in BOOLEAN

\* Descriptor numbers are used again at once, and a batch of events is handled
\* while connections are closed and accepted: every event not yet handled still
\* belongs to the connection it was reported for, and read finds something
\* there (no EAGAIN, src/epoll_practice.c:211).
EventsAreCurrent ==
    \A k \in DOMAIN events :
        LET e == events[k] IN
        e.fd # server_fd =>
            /\ e.fd \in watched /\ owner[e.fd] = e.of
            /\ IsReady(e.fd)
            /\ \A j \in DOMAIN events : events[j].fd = e.fd => j = k

\* No path, failures of set_nonblocking and epoll_ctl included, leaves a
\* descriptor open that epoll does not watch, or two for one client; a live
\* connection waits in the accept queue or has a descriptor.
DescriptorsAgree ==
    /\ watched = Open
    /\ \A f, g \in Open : owner[f] = owner[g] => f = g
    /\ \A c \in Clients :
          IF peer[c] = "none"
          THEN ~Contains(queue, c) /\ \A fd \in Open : owner[fd] # c
          ELSE Contains(queue, c) <=> \A fd \in Open : owner[fd] # c

\* Every connection is accepted and closed in the end: no client is passed over
\* when more are ready than MAX_EVENTS, when the descriptors run out, or when
\* others come again and again.
Served == \A c \in Clients : peer[c] # "none" ~> peer[c] = "none" \/ dead
=============================================================================
