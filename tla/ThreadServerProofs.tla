-------------------------- MODULE ThreadServerProofs ---------------------------------
(*****************************************************************************)
(* Proofs about ThreadServer, for any number of clients, threads,            *)
(* descriptors and blocks: every block is freed once, a thread keeps its client. *)
(*****************************************************************************)
EXTENDS ThreadServer, SequenceTheorems, TLAPS

-----------------------------------------------------------------------------
\* The accept queue holds nothing twice.
NoRepeat(s) == \A i, j \in DOMAIN s : s[i] = s[j] => i = j
OnList(s, x) == \E i \in DOMAIN s : s[i] = x

\* Appending what is not there yet.
LEMMA Appended ==
    ASSUME NEW T, NEW s \in Seq(T), NEW x \in T, NoRepeat(s), ~OnList(s, x)
    PROVE  /\ Append(s, x) \in Seq(T) /\ Len(Append(s, x)) = Len(s) + 1
           /\ NoRepeat(Append(s, x))
           /\ \A y : OnList(Append(s, x), y) <=> y = x \/ OnList(s, y)
<1> DEFINE t == Append(s, x)
           n == Len(s)
<1>1. n \in Nat /\ DOMAIN s = 1 .. n
    OBVIOUS
<1>2. t \in Seq(T) /\ Len(t) = n + 1 /\ DOMAIN t = 1 .. n + 1
    OBVIOUS
<1>3. (\A i \in 1 .. n : t[i] = s[i]) /\ t[n + 1] = x
    OBVIOUS
<1> HIDE DEF t, n
<1>4. n + 1 \in 1 .. n + 1 /\ (\A i \in 1 .. n : i \in 1 .. n + 1)
      /\ \A i \in 1 .. n + 1 : i \in 1 .. n \/ i = n + 1
    BY <1>1
<1>5. NoRepeat(t)
    BY <1>1, <1>2, <1>3, <1>4 DEF NoRepeat, OnList
<1>6. ASSUME NEW y PROVE OnList(t, y) <=> y = x \/ OnList(s, y)
    BY <1>1, <1>2, <1>3, <1>4 DEF OnList
<1> QED
    BY <1>2, <1>5, <1>6 DEF t, n

\* Taking off the first one.
LEMMA TailKeeps ==
    ASSUME NEW T, NEW s \in Seq(T), s # <<>>
    PROVE  /\ Tail(s) \in Seq(T) /\ Len(Tail(s)) = Len(s) - 1
           /\ Head(s) = s[1] /\ 1 \in DOMAIN s /\ Head(s) \in T
           /\ \A i \in DOMAIN Tail(s) : i + 1 \in DOMAIN s /\ i + 1 # 1 /\ Tail(s)[i] = s[i + 1]
           /\ \A i \in DOMAIN s : i # 1 => i - 1 \in DOMAIN Tail(s) /\ Tail(s)[i - 1] = s[i]
<1> DEFINE t == Tail(s)
           n == Len(s)
<1>1. n \in Nat /\ DOMAIN s = 1 .. n /\ n # 0
    OBVIOUS
<1>2. t \in Seq(T) /\ Len(t) = n - 1 /\ DOMAIN t = 1 .. n - 1 /\ Head(s) = s[1]
    BY <1>1
<1>3. \A i \in 1 .. n - 1 : t[i] = s[i + 1]
    BY <1>1
<1>4. s[1] \in T
    BY <1>1
<1> HIDE DEF t, n
<1>5. /\ 1 \in 1 .. n
      /\ \A i \in 1 .. n - 1 : i + 1 \in 1 .. n /\ i + 1 # 1
      /\ \A i \in 1 .. n : i # 1 => i - 1 \in 1 .. n - 1 /\ (i - 1) + 1 = i
    BY <1>1
<1>6. \A i \in 1 .. n : i # 1 => t[i - 1] = s[i]
    BY <1>3, <1>5
<1> QED
    BY <1>1, <1>2, <1>3, <1>4, <1>5, <1>6 DEF t, n

\* What is left of a list without repetitions when its first one is taken.
LEMMA TailOnce ==
    ASSUME NEW T, NEW s \in Seq(T), s # <<>>, NoRepeat(s)
    PROVE  /\ NoRepeat(Tail(s))
           /\ \A y : OnList(Tail(s), y) <=> y # Head(s) /\ OnList(s, y)
<1> DEFINE t == Tail(s)
<1>1. /\ Head(s) = s[1] /\ 1 \in DOMAIN s
      /\ \A i \in DOMAIN t : i + 1 \in DOMAIN s /\ i + 1 # 1 /\ t[i] = s[i + 1]
      /\ \A i \in DOMAIN s : i # 1 => i - 1 \in DOMAIN t /\ t[i - 1] = s[i]
    BY TailKeeps
<1>2. \A i \in DOMAIN t : i \in Nat
  <2>1. t \in Seq(T)
    BY TailKeeps
  <2> HIDE DEF t
  <2> QED
    BY <2>1
<1> HIDE DEF t
<1>3. ASSUME NEW i \in DOMAIN t, NEW j \in DOMAIN t, t[i] = t[j] PROVE i = j
  <2>1. i + 1 = j + 1
    BY <1>1, <1>3 DEF NoRepeat
  <2> QED
    BY <1>2, <2>1
<1>4. ASSUME NEW y PROVE OnList(t, y) <=> y # Head(s) /\ OnList(s, y)
    BY <1>1 DEF OnList, NoRepeat
<1> QED
    BY <1>3, <1>4 DEF NoRepeat, t

-----------------------------------------------------------------------------
\* The inductive invariant.
\* Who has a block: main until it has started the thread, a thread until it has
\* called free.
MainHolds == main.pc # "malloc"
Holds(w) == thread[w].pc \notin {"none", "closeLast"}

\* Always: a block in use is one that malloc gave, and read holds a connection.
Pointers ==
    /\ MainHolds => main.clientId \in Blocks
    /\ \A w \in Workers :
          /\ thread[w].pc # "none" => thread[w].arg \in Blocks
          /\ thread[w].pc = "blocked" => thread[w].reading \in Clients

HungUpSeen == \A w \in Workers : thread[w].pc = "close" => hungUp

\* Until accept has failed, the blocks that are not free have one holder each.
Allocated ==
    \A b \in Blocks :
        heap[b] # Freed <=>
            \/ MainHolds /\ main.clientId = b
            \/ \E w \in Workers : Holds(w) /\ thread[w].arg = b

OneHolder ==
    /\ \A w \in Workers : MainHolds /\ Holds(w) => thread[w].arg # main.clientId
    /\ \A v, w \in Workers : Holds(v) /\ Holds(w) /\ thread[v].arg = thread[w].arg => v = w

Memory == ended # "abort" /\ Allocated /\ OneHolder

\* Until accept has failed, a client is in one place: the queue, main or a thread.
MainPlace ==
    main.pc = "create" =>
        main.client \in Clients /\ peer[main.client] # "new" /\ ~OnList(queue, main.client)

ThreadPlace(w) ==
    LET c == thread[w].client IN
    /\ thread[w].pc = "none" => c = NoClient
    /\ thread[w].pc # "none" =>
          /\ c \in Clients /\ peer[c] # "new" /\ ~OnList(queue, c)
          /\ main.pc = "create" => main.client # c
          /\ \A v \in Workers \ {w} : thread[v].client # c

OnePlace ==
    /\ NoRepeat(queue) /\ \A c \in Clients : OnList(queue, c) => peer[c] # "new"
    /\ MainPlace
    /\ \A w \in Workers : ThreadPlace(w)

\* Until a close has hit another client too, the descriptor main and the threads
\* work with is that of their client; and a thread whose read found a request has
\* not closed it when it comes to the last close.
Has(fd, client) == fd \in Fds /\ owner[fd] = client

OwnMain == main.pc = "create" => Has(heap[main.clientId], main.client)

OwnThread(w) ==
    /\ thread[w].pc = "start" => Has(heap[thread[w].arg], thread[w].client)
    /\ thread[w].pc \in {"send", "read", "blocked", "closeUnsent", "close"} =>
          Has(thread[w].clientId, thread[w].client)
    /\ thread[w].pc = "blocked" => thread[w].reading = thread[w].client
    /\ ~hungUp /\ thread[w].pc \in {"free", "closeLast"} =>
          Has(thread[w].clientId, thread[w].client)

OwnDescriptors == OwnMain /\ \A w \in Workers : OwnThread(w)

Inv ==
    /\ TypeOK /\ Pointers /\ HungUpSeen /\ SecondCloseIsHarmless
    /\ ~starved => Memory /\ OnePlace
    /\ ~starved /\ ~foreign => OwnDescriptors

-----------------------------------------------------------------------------
LEMMA AfterCloseIs ==
    /\ DOMAIN AfterClose = {"closeUnsent", "close", "closeLast"}
    /\ AfterClose["closeUnsent"] = "freeUnsent" /\ AfterClose["close"] = "free"
    /\ AfterClose["closeLast"] = "none"
    BY DEF AfterClose

Pcs == {"none", "start", "send", "read", "blocked", "free", "freeUnsent",
        "closeUnsent", "close", "closeLast"}
Thread == [pc : Pcs, arg : Blocks \cup {Junk}, clientId : Fds \cup {Junk},
           client : Clients \cup {NoClient}, reading : Clients \cup {NoClient}]
Main0 == [pc : {"malloc", "accept", "create"},
          clientId : Blocks \cup {Junk}, client : Clients \cup {NoClient}]

Peers == {"new", "open", "fin", "rst", "closed"}

Types ==
    /\ peer \in [Clients -> Peers]
    /\ unread \subseteq Clients
    /\ queue \in Seq(Clients) /\ Len(queue) <= Backlog
    /\ owner \in [Fds -> Clients \cup {NoClient}]
    /\ heap \in [Blocks -> {Freed, Junk} \cup Fds]
    /\ main \in Main0
    /\ thread \in [Workers -> Thread]
    /\ ended \in {"no", "signal", "abort", "detach"}
    /\ starved \in BOOLEAN /\ hungUp \in BOOLEAN /\ foreign \in BOOLEAN

LEMMA TypesAre == TypeOK <=> Types
<1>1. [pc : {"none", "start", "send", "read", "blocked", "free", "freeUnsent"}
                    \cup DOMAIN AfterClose,
       arg : Blocks \cup {Junk}, clientId : Fds \cup {Junk},
       client : Clients \cup {NoClient}, reading : Clients \cup {NoClient}] = Thread
  <2>1. {"none", "start", "send", "read", "blocked", "free", "freeUnsent"}
            \cup DOMAIN AfterClose = Pcs
    BY AfterCloseIs DEF Pcs
  <2> QED
    BY <2>1 DEF Thread
<1> QED
    BY <1>1 DEF TypeOK, Types, Main0, Peers

LEMMA TypesLater == TypeOK' <=> Types'
    BY TypesAre, PTL

LEMMA InitInv == Init => Inv
<1> SUFFICES ASSUME Init PROVE Inv
    OBVIOUS
<1>1. DOMAIN <<>> = {} /\ Len(<<>>) = 0 /\ <<>> \in Seq(Clients)
    OBVIOUS
<1>2. /\ queue = <<>> /\ main.pc = "malloc" /\ main = NextRound
      /\ \A w \in Workers : thread[w] = NoThread /\ thread[w].pc = "none" /\ thread[w].client = NoClient
    BY DEF Init, NextRound, NoThread
<1>3. NoThread \in Thread /\ NextRound \in Main0
    BY DEF NoThread, NextRound, Thread, Main0, Pcs
<1>4. queue \in Seq(Clients) /\ Len(queue) <= Backlog
    BY <1>1, <1>2, LimitsAssumption
<1>5. Types
    BY <1>3, <1>4 DEF Init, Types, Peers
<1>6. Pointers /\ HungUpSeen /\ SecondCloseIsHarmless
    BY <1>2 DEF Init, Pointers, HungUpSeen, SecondCloseIsHarmless, MainHolds
<1>7. Memory
    BY <1>2 DEF Init, Memory, Allocated, OneHolder, MainHolds, Holds
<1>8. OnePlace
    BY <1>1, <1>2 DEF OnePlace, MainPlace, ThreadPlace, NoRepeat, OnList
<1>9. OwnDescriptors
    BY <1>2 DEF OwnDescriptors, OwnMain, OwnThread
<1> QED
    BY <1>5, <1>6, <1>7, <1>8, <1>9, TypesAre DEF Inv

-----------------------------------------------------------------------------
\* What a step must leave alone for each part of the invariant to stay true.
LEMMA MemoryStays ==
    ASSUME Memory, ended' # "abort",
           \A b \in Blocks : heap'[b] = Freed <=> heap[b] = Freed,
           MainHolds' <=> MainHolds, MainHolds => main'.clientId = main.clientId,
           \A w \in Workers : (Holds(w)' <=> Holds(w))
                                /\ (Holds(w) => thread'[w].arg = thread[w].arg)
    PROVE  Memory'
<1>1. OneHolder'
    BY DEF Memory, OneHolder
<1>2. Allocated'
    BY DEF Memory, Allocated
<1> QED
    BY <1>1, <1>2 DEF Memory

LEMMA PlaceStays ==
    ASSUME OnePlace, queue' = queue,
           \A c \in Clients : peer[c] # "new" => peer'[c] # "new",
           main'.pc = "create" => main.pc = "create" /\ main'.client = main.client,
           \A w \in Workers :
               IF thread'[w].pc = "none" THEN thread'[w].client = NoClient
               ELSE thread[w].pc # "none" /\ thread'[w].client = thread[w].client
    PROVE  OnePlace'
<1>1. MainPlace'
    BY DEF OnePlace, MainPlace
<1>2. ASSUME NEW w \in Workers PROVE ThreadPlace(w)'
    BY ClientsAssumption DEF OnePlace, ThreadPlace
<1> QED
    BY <1>1, <1>2 DEF OnePlace

LEMMA MainStays ==
    ASSUME OwnMain, main' = main,
           main.pc = "create" =>
               /\ heap'[main.clientId] = heap[main.clientId]
               /\ \A fd : Has(fd, main.client) => owner'[fd] = owner[fd]
    PROVE  OwnMain'
    BY DEF OwnMain, Has

LEMMA ThreadStays ==
    ASSUME NEW w \in Workers, OwnThread(w), thread'[w] = thread[w], hungUp => hungUp',
           hungUp \in BOOLEAN, hungUp' \in BOOLEAN,
           thread[w].pc = "start" => heap'[thread[w].arg] = heap[thread[w].arg],
           thread[w].pc # "none" =>
               \A fd : Has(fd, thread[w].client) => owner'[fd] = owner[fd]
    PROVE  OwnThread(w)'
    BY DEF OwnThread, Has

-----------------------------------------------------------------------------
\* The clients' steps.
LEMMA RestStays ==
    ASSUME Inv, UNCHANGED Rest, owner' = owner
    PROVE  /\ Pointers' /\ HungUpSeen' /\ SecondCloseIsHarmless'
           /\ ~starved' => Memory'
           /\ ~starved' /\ ~foreign' => OwnDescriptors'
<1>1. /\ heap' = heap /\ main' = main /\ thread' = thread /\ ended' = ended
      /\ starved' = starved /\ hungUp' = hungUp /\ foreign' = foreign
    BY DEF Rest, history
<1>2. Pointers' /\ HungUpSeen' /\ SecondCloseIsHarmless'
    BY <1>1 DEF Inv, Pointers, HungUpSeen, SecondCloseIsHarmless, MainHolds
<1>3. ~starved' => Memory'
    BY <1>1 DEF Inv, Memory, Allocated, OneHolder, MainHolds, Holds
<1>4. ~starved' /\ ~foreign' => OwnDescriptors'
    BY <1>1 DEF Inv, OwnDescriptors, OwnMain, OwnThread, Has
<1> QED
    BY <1>2, <1>3, <1>4

LEMMA PlacesStay ==
    ASSUME OnePlace, queue' = queue, main' = main, thread' = thread,
           \A c \in Clients : peer[c] # "new" => peer'[c] # "new"
    PROVE  OnePlace'
<1>1. \A w \in Workers : thread[w].pc = "none" => thread[w].client = NoClient
    BY DEF OnePlace, ThreadPlace
<1> QED
    BY <1>1, PlaceStays

LEMMA ConnectInv ==
    ASSUME Inv, NEW c \in Clients, Connect(c), UNCHANGED Rest
    PROVE  Inv'
<1>1. /\ peer[c] = "new" /\ Len(queue) < Backlog
      /\ peer' = [peer EXCEPT ![c] = "open"] /\ queue' = Append(queue, c)
      /\ unread' = unread /\ owner' = owner
    BY DEF Connect
<1>2. /\ heap' = heap /\ main' = main /\ thread' = thread /\ ended' = ended
      /\ starved' = starved /\ hungUp' = hungUp /\ foreign' = foreign
    BY DEF Rest, history
<1>3. Types
    BY TypesAre DEF Inv
<1>4. /\ peer' \in [Clients -> Peers] /\ peer'[c] # "new"
      /\ \A d \in Clients : peer[d] # "new" => peer'[d] # "new"
    BY <1>1, <1>3 DEF Types, Peers
<1>5. queue' \in Seq(Clients) /\ Len(queue') <= Backlog
  <2>1. queue \in Seq(Clients) /\ Len(queue) \in Nat
    BY <1>3 DEF Types
  <2>2. Append(queue, c) \in Seq(Clients) /\ Len(Append(queue, c)) = Len(queue) + 1
    BY <2>1
  <2>3. Len(queue) + 1 <= Backlog
    <3> DEFINE n == Len(queue)
    <3>1. n \in Nat /\ n < Backlog
      BY <1>1, <2>1
    <3> HIDE DEF n
    <3>2. n + 1 <= Backlog
      BY <3>1, LimitsAssumption
    <3> QED
      BY <3>2 DEF n
  <2> QED
    BY <1>1, <2>2, <2>3
<1>6. Types'
    BY <1>1, <1>2, <1>3, <1>4, <1>5 DEF Types
<1>7. ~starved' => OnePlace'
  <2> SUFFICES ASSUME OnePlace PROVE OnePlace'
    BY <1>2 DEF Inv
  <2>1. ~OnList(queue, c) /\ NoRepeat(queue) /\ queue \in Seq(Clients)
    BY <1>1, <1>3 DEF OnePlace, Types
  <2>2. /\ NoRepeat(queue')
        /\ \A y : OnList(queue', y) <=> y = c \/ OnList(queue, y)
    BY <1>1, <2>1, Appended
  <2>3. MainPlace'
    BY <1>1, <1>2, <1>4, <2>2 DEF OnePlace, MainPlace
  <2>4. ASSUME NEW w \in Workers PROVE ThreadPlace(w)'
    BY <1>1, <1>2, <1>4, <2>2 DEF OnePlace, ThreadPlace
  <2>5. \A d \in Clients : OnList(queue', d) => peer'[d] # "new"
    BY <1>4, <2>2 DEF OnePlace
  <2> QED
    BY <2>2, <2>3, <2>4, <2>5 DEF OnePlace
<1> QED
    BY <1>1, <1>6, <1>7, RestStays, TypesLater DEF Inv

LEMMA SendLeaveInv ==
    ASSUME Inv, NEW c \in Clients, Send(c) \/ Leave(c), UNCHANGED Rest
    PROVE  Inv'
<1>1. queue' = queue /\ owner' = owner
    BY DEF Send, Leave
<1>2. /\ heap' = heap /\ main' = main /\ thread' = thread /\ ended' = ended
      /\ starved' = starved /\ hungUp' = hungUp /\ foreign' = foreign
    BY DEF Rest, history
<1>3. Types
    BY TypesAre DEF Inv
<1>4. /\ peer' \in [Clients -> Peers] /\ unread' \subseteq Clients
      /\ \A d \in Clients : peer[d] # "new" => peer'[d] # "new"
    BY <1>3 DEF Send, Leave, Types, Peers
<1>5. Types'
    BY <1>1, <1>2, <1>3, <1>4 DEF Types
<1>6. ~starved' => OnePlace'
    BY <1>1, <1>2, <1>4, PlacesStay DEF Inv
<1> QED
    BY <1>1, <1>5, <1>6, RestStays, TypesLater DEF Inv

LEMMA StutterInv ==
    ASSUME Inv, UNCHANGED vars
    PROVE  Inv'
<1>1. /\ UNCHANGED Rest /\ owner' = owner /\ queue' = queue /\ peer' = peer
      /\ unread' = unread
    BY DEF vars, net, Rest
<1>2. /\ heap' = heap /\ main' = main /\ thread' = thread /\ ended' = ended
      /\ starved' = starved /\ hungUp' = hungUp /\ foreign' = foreign
    BY DEF vars, history
<1>3. Types'
    BY <1>1, <1>2, TypesAre DEF Inv, Types
<1>4. ~starved' => OnePlace'
    BY <1>1, <1>2, PlacesStay DEF Inv
<1> QED
    BY <1>1, <1>3, <1>4, RestStays, TypesLater DEF Inv

-----------------------------------------------------------------------------
\* What main does.
LEMMA MallocInv ==
    ASSUME Inv, Malloc
    PROVE  Inv'
<1>1. PICK b \in Allocatable :
          heap' = [heap EXCEPT ![b] = Junk]
            /\ main' = [main EXCEPT !.pc = "accept", !.clientId = b]
    BY DEF Malloc
<1>2. /\ main.pc = "malloc" /\ thread' = thread /\ ended' = ended
      /\ peer' = peer /\ unread' = unread /\ queue' = queue /\ owner' = owner
      /\ starved' = starved /\ hungUp' = hungUp /\ foreign' = foreign
    BY DEF Malloc, net, history
<1>3. b \in Blocks /\ heap[b] = Freed
    BY <1>1 DEF Allocatable
<1>4. Types
    BY TypesAre DEF Inv
<1>5. /\ main' \in Main0 /\ main'.pc = "accept" /\ main'.clientId = b
      /\ heap' \in [Blocks -> {Freed, Junk} \cup Fds] /\ heap'[b] = Junk
      /\ \A a \in Blocks : a # b => heap'[a] = heap[a]
    BY <1>1, <1>3, <1>4 DEF Types, Main0
<1>6. Types'
    BY <1>2, <1>4, <1>5 DEF Types
<1>7. Pointers' /\ HungUpSeen' /\ SecondCloseIsHarmless'
    BY <1>2, <1>3, <1>5 DEF Inv, Pointers, HungUpSeen, SecondCloseIsHarmless, MainHolds
<1>8. ~starved' => Memory'
  <2> SUFFICES ASSUME Memory PROVE Memory'
    BY <1>2 DEF Inv
  <2>1. ~MainHolds /\ MainHolds' /\ \A w \in Workers : Holds(w)' <=> Holds(w)
    BY <1>2, <1>5 DEF MainHolds, Holds
  <2>2. \A w \in Workers : Holds(w) => thread[w].arg # b
    BY <1>3 DEF Memory, Allocated
  <2>3. OneHolder'
    BY <1>2, <1>5, <2>1, <2>2 DEF Memory, OneHolder
  <2>4. Allocated'
    <3>1. \A a \in Blocks : heap'[a] # Freed <=> a = b \/ heap[a] # Freed
      BY <1>3, <1>5, BlocksAssumption
    <3>2. ASSUME NEW a \in Blocks
          PROVE  (\E w \in Workers : Holds(w)' /\ thread'[w].arg = a)
                    <=> \E w \in Workers : Holds(w) /\ thread[w].arg = a
      BY <1>2, <2>1
    <3> QED
      BY <1>5, <2>1, <3>1, <3>2 DEF Memory, Allocated
  <2> QED
    BY <1>2, <2>3, <2>4 DEF Memory
<1>9. ~starved' => OnePlace'
  <2>1. OnePlace => \A w \in Workers : thread[w].pc = "none" => thread[w].client = NoClient
    BY DEF OnePlace, ThreadPlace
  <2> QED
    BY <1>2, <1>5, <2>1, PlaceStays DEF Inv
<1>10. ~starved' /\ ~foreign' => OwnDescriptors'
  <2> SUFFICES ASSUME Memory, OwnDescriptors PROVE OwnDescriptors'
    BY <1>2 DEF Inv
  <2>1. OwnMain'
    BY <1>5 DEF OwnMain
  <2>2. ASSUME NEW w \in Workers PROVE OwnThread(w)'
    <3>1. thread[w].pc = "start" => thread[w].arg \in Blocks /\ thread[w].arg # b
      BY <1>3 DEF Memory, Allocated, Holds, Inv, Pointers
    <3>2. thread[w].pc = "start" => heap'[thread[w].arg] = heap[thread[w].arg]
      BY <1>5, <3>1
    <3> QED
      BY <1>2, <1>4, <3>2, ThreadStays DEF OwnDescriptors, Types
  <2> QED
    BY <2>1, <2>2 DEF OwnDescriptors
<1> QED
    BY <1>6, <1>7, <1>8, <1>9, <1>10, TypesLater DEF Inv

LEMMA AcceptFailsInv ==
    ASSUME Inv, AcceptFails
    PROVE  Inv'
<1>1. /\ main.pc = "accept" /\ Free(main.clientId) /\ starved' = TRUE
      /\ main' = [main EXCEPT !.pc = "create", !.client = NoClient]
      /\ peer' = peer /\ unread' = unread /\ queue' = queue /\ owner' = owner
      /\ thread' = thread /\ hungUp' = hungUp /\ foreign' = foreign
    BY DEF AcceptFails, net
<1>2. Types
    BY TypesAre DEF Inv
<1>3. /\ heap' \in [Blocks -> {Freed, Junk} \cup Fds]
      /\ ended' \in {"no", "signal", "abort", "detach"}
    BY <1>1, <1>2 DEF Free, Types
<1>4. main' \in Main0 /\ main'.pc = "create" /\ main'.clientId = main.clientId
    BY <1>1, <1>2 DEF Types, Main0
<1>5. Types'
    BY <1>1, <1>2, <1>3, <1>4 DEF Types
<1>6. Pointers' /\ HungUpSeen' /\ SecondCloseIsHarmless'
    BY <1>1, <1>4 DEF Inv, Pointers, HungUpSeen, SecondCloseIsHarmless, MainHolds
<1> QED
    BY <1>1, <1>5, <1>6, TypesLater DEF Inv

\* accept moves the head of the queue to main and gives it a descriptor that is
\* nobody's.
LEMMA AcceptInv ==
    ASSUME Inv, Accept
    PROVE  Inv'
<1> DEFINE c == Head(queue)
<1>1. PICK fd \in Fds :
          /\ owner[fd] = NoClient /\ owner' = [owner EXCEPT ![fd] = c]
          /\ heap' = [heap EXCEPT ![main.clientId] = fd]
    BY DEF Accept, NewFd
<1>2. /\ main.pc = "accept" /\ queue # <<>> /\ queue' = Tail(queue)
      /\ main' = [main EXCEPT !.pc = "create", !.client = c]
      /\ thread' = thread /\ ended' = ended /\ peer' = peer /\ unread' = unread
      /\ starved' = starved /\ hungUp' = hungUp /\ foreign' = foreign
    BY DEF Accept, history
<1>3. Types
    BY TypesAre DEF Inv
<1>4. /\ c \in Clients /\ OnList(queue, c) /\ queue' \in Seq(Clients) /\ Len(queue') <= Backlog
  <2>1. queue \in Seq(Clients) /\ Len(queue) <= Backlog
    BY <1>3 DEF Types
  <2>2. /\ Tail(queue) \in Seq(Clients) /\ Len(Tail(queue)) = Len(queue) - 1
        /\ Head(queue) = queue[1] /\ 1 \in DOMAIN queue /\ Head(queue) \in Clients
    BY <1>2, <2>1, TailKeeps
  <2>3. Len(queue) - 1 <= Backlog
    <3> DEFINE n == Len(queue)
    <3>1. n \in Nat /\ n <= Backlog
      BY <2>1
    <3> HIDE DEF n
    <3>2. n - 1 <= Backlog
      BY <3>1, LimitsAssumption
    <3> QED
      BY <3>2 DEF n
  <2> QED
    BY <1>2, <2>2, <2>3 DEF OnList
<1> HIDE DEF c
<1>5. main.clientId \in Blocks
    BY <1>2 DEF Inv, Pointers, MainHolds
<1>6. /\ main' \in Main0 /\ main'.pc = "create" /\ main'.clientId = main.clientId
      /\ main'.client = c
    BY <1>2, <1>3, <1>4 DEF Types, Main0
<1>7. /\ heap' \in [Blocks -> {Freed, Junk} \cup Fds] /\ heap'[main.clientId] = fd
      /\ \A b \in Blocks : b # main.clientId => heap'[b] = heap[b]
      /\ owner' \in [Fds -> Clients \cup {NoClient}] /\ owner'[fd] = c
      /\ \A g \in Fds : g # fd => owner'[g] = owner[g]
    BY <1>1, <1>3, <1>4, <1>5 DEF Types
<1>8. Types'
    BY <1>2, <1>3, <1>4, <1>6, <1>7 DEF Types
<1>9. Pointers' /\ HungUpSeen' /\ SecondCloseIsHarmless'
    BY <1>2, <1>5, <1>6 DEF Inv, Pointers, HungUpSeen, SecondCloseIsHarmless, MainHolds
<1>10. ~starved' => Memory'
  <2> SUFFICES ASSUME Memory PROVE Memory'
    BY <1>2 DEF Inv
  <2>1. MainHolds /\ MainHolds' /\ \A w \in Workers : Holds(w)' <=> Holds(w)
    BY <1>2, <1>6 DEF MainHolds, Holds
  <2>2. heap[main.clientId] # Freed
    BY <1>5, <2>1 DEF Memory, Allocated
  <2>3. \A b \in Blocks : heap'[b] = Freed <=> heap[b] = Freed
    BY <1>7, <2>2, FdsAssumption
  <2> QED
    BY <1>2, <1>6, <2>1, <2>3, MemoryStays DEF Memory
<1>11. ~starved' => OnePlace'
  <2> SUFFICES ASSUME OnePlace PROVE OnePlace'
    BY <1>2 DEF Inv
  <2>1. NoRepeat(queue) /\ queue \in Seq(Clients)
    BY <1>3 DEF OnePlace, Types
  <2>2. /\ NoRepeat(queue')
        /\ \A y : OnList(queue', y) <=> y # c /\ OnList(queue, y)
    BY <1>2, <2>1, TailOnce DEF c
  <2>3. peer[c] # "new"
    BY <1>4 DEF OnePlace
  <2>4. MainPlace'
    BY <1>2, <1>4, <1>6, <2>2, <2>3 DEF MainPlace
  <2>5. ASSUME NEW w \in Workers PROVE ThreadPlace(w)'
    BY <1>2, <1>4, <1>6, <2>2 DEF OnePlace, ThreadPlace
  <2> QED
    BY <1>2, <2>2, <2>4, <2>5 DEF OnePlace
<1>12. ~starved' /\ ~foreign' => OwnDescriptors'
  <2> SUFFICES ASSUME Memory, OnePlace, OwnDescriptors PROVE OwnDescriptors'
    BY <1>2 DEF Inv
  <2>1. OwnMain'
    BY <1>6, <1>7 DEF OwnMain, Has
  <2>2. ASSUME NEW w \in Workers PROVE OwnThread(w)'
    <3>1. thread[w].pc = "start" => thread[w].arg \in Blocks /\ thread[w].arg # main.clientId
      BY <1>2 DEF Memory, OneHolder, Holds, MainHolds, Inv, Pointers
    <3>2. thread[w].pc = "start" => heap'[thread[w].arg] = heap[thread[w].arg]
      BY <1>7, <3>1
    <3>3. thread[w].pc # "none" => thread[w].client \in Clients
      BY DEF OnePlace, ThreadPlace
    <3>4. thread[w].pc # "none" => \A f : Has(f, thread[w].client) => owner'[f] = owner[f]
      BY <1>1, <1>7, <3>3, ClientsAssumption DEF Has
    <3> QED
      BY <1>2, <1>3, <3>2, <3>4, ThreadStays DEF OwnDescriptors, Types
  <2> QED
    BY <2>1, <2>2 DEF OwnDescriptors
<1> QED
    BY <1>8, <1>9, <1>10, <1>11, <1>12, TypesLater DEF Inv

\* The new thread takes over main's block and client.
LEMMA CreateInv ==
    ASSUME Inv, Create
    PROVE  Inv'
<1>0. PICK v : v = CHOOSE w \in Idle : TRUE
    OBVIOUS
<1>1. /\ main.pc = "create" /\ main' = NextRound
      /\ thread' = [thread EXCEPT ![v] =
             [NoThread EXCEPT !.pc = "start", !.arg = main.clientId, !.client = main.client]]
      /\ peer' = peer /\ unread' = unread /\ queue' = queue /\ owner' = owner
      /\ heap' = heap /\ ended' = ended
      /\ starved' = starved /\ hungUp' = hungUp /\ foreign' = foreign
    BY <1>0 DEF Create, net, history
<1>2. v \in Workers /\ thread[v].pc = "none"
    BY <1>0 DEF Create, Idle
<1>3. Types
    BY TypesAre DEF Inv
<1>4. /\ thread' \in [Workers -> Thread]
      /\ thread'[v].pc = "start" /\ thread'[v].arg = main.clientId
      /\ thread'[v].client = main.client
      /\ \A w \in Workers : w # v => thread'[w] = thread[w]
    BY <1>1, <1>2, <1>3 DEF Types, Thread, NoThread, Pcs, Main0
<1>5. main' \in Main0 /\ main'.pc = "malloc"
    BY <1>1 DEF NextRound, Main0
<1>6. main.clientId \in Blocks /\ MainHolds /\ ~MainHolds'
    BY <1>1, <1>5 DEF Inv, Pointers, MainHolds
<1>7. Types'
    BY <1>1, <1>3, <1>4, <1>5 DEF Types
<1>8. Pointers' /\ HungUpSeen' /\ SecondCloseIsHarmless'
    BY <1>1, <1>4, <1>5, <1>6 DEF Inv, Pointers, HungUpSeen, SecondCloseIsHarmless
<1>9. ~starved' => Memory'
  <2> SUFFICES ASSUME Memory PROVE Memory'
    BY <1>1 DEF Inv
  <2>1. /\ Holds(v)' /\ ~Holds(v)
        /\ \A w \in Workers : w # v => (Holds(w)' <=> Holds(w)) /\ thread'[w].arg = thread[w].arg
    BY <1>2, <1>4 DEF Holds
  <2>2. OneHolder'
    BY <1>4, <1>6, <2>1 DEF Memory, OneHolder
  <2>3. Allocated'
    BY <1>1, <1>2, <1>4, <1>6, <2>1 DEF Memory, Allocated
  <2> QED
    BY <1>1, <2>2, <2>3 DEF Memory
<1>10. ~starved' => OnePlace'
  <2> SUFFICES ASSUME OnePlace PROVE OnePlace'
    BY <1>1 DEF Inv
  <2>1. MainPlace'
    BY <1>5 DEF MainPlace
  <2>2. /\ main.client \in Clients /\ peer[main.client] # "new"
        /\ ~OnList(queue, main.client)
        /\ \A w \in Workers : thread[w].client # main.client
    BY <1>1, ClientsAssumption DEF OnePlace, MainPlace, ThreadPlace
  <2>3. ASSUME NEW w \in Workers PROVE ThreadPlace(w)'
    <3>1. CASE w = v
      BY <1>1, <1>4, <1>5, <2>2, <3>1 DEF ThreadPlace
    <3>2. CASE w # v
      BY <1>1, <1>4, <1>5, <2>2, <3>2 DEF OnePlace, ThreadPlace
    <3> QED
      BY <3>1, <3>2
  <2> QED
    BY <1>1, <2>1, <2>3 DEF OnePlace
<1>11. ~starved' /\ ~foreign' => OwnDescriptors'
  <2> SUFFICES ASSUME OwnDescriptors PROVE OwnDescriptors'
    BY <1>1 DEF Inv
  <2>1. OwnMain'
    BY <1>5 DEF OwnMain
  <2>2. ASSUME NEW w \in Workers PROVE OwnThread(w)'
    <3>1. CASE w = v
      BY <1>1, <1>4, <3>1 DEF OwnDescriptors, OwnMain, OwnThread, Has
    <3>2. CASE w # v
      BY <1>1, <1>3, <1>4, <3>2, ThreadStays DEF OwnDescriptors, Types
    <3> QED
      BY <3>1, <3>2
  <2> QED
    BY <2>1, <2>2 DEF OwnDescriptors
<1> QED
    BY <1>7, <1>8, <1>9, <1>10, <1>11, TypesLater DEF Inv

-----------------------------------------------------------------------------
\* What close changes: at most the descriptor it is called with, and then the
\* connection behind it ends, or lives on for a thread that reads from it.
LEMMA CloseIs ==
    ASSUME Types, NEW fd, NEW client, Close(fd, client)
    PROVE  /\ owner' \in [Fds -> Clients \cup {NoClient}]
           /\ \A g \in Fds : g # fd => owner'[g] = owner[g]
           /\ peer' \in [Clients -> Peers]
           /\ \A d \in Clients : peer[d] # "new" => peer'[d] # "new"
           /\ unread' \subseteq Clients
           /\ queue' = queue /\ starved' = starved /\ hungUp' = hungUp
           /\ foreign' \in BOOLEAN /\ (foreign => foreign')
           /\ Has(fd, client) /\ ~foreign => ~foreign'
           /\ ~foreign' /\ fd \in Fds => owner[fd] \in {NoClient, client}
<1> DEFINE c == Behind(fd)
           gone == c # NoClient /\ \A w \in Workers : thread[w].reading # c
<1>1. /\ owner' = IF c = NoClient THEN owner ELSE [owner EXCEPT ![fd] = NoClient]
      /\ peer' = IF gone THEN [peer EXCEPT ![c] = "closed"] ELSE peer
      /\ unread' = IF gone THEN unread \ {c} ELSE unread
      /\ foreign' = (foreign \/ c \notin {NoClient, client})
      /\ queue' = queue /\ starved' = starved /\ hungUp' = hungUp
    BY DEF Close
<1>2. fd \in Fds => c = owner[fd]
    BY DEF Behind
<1>3. fd \notin Fds => c = NoClient
    BY DEF Behind
<1> HIDE DEF c, gone
<1>4. /\ owner' \in [Fds -> Clients \cup {NoClient}]
      /\ \A g \in Fds : g # fd => owner'[g] = owner[g]
    BY <1>1, <1>3 DEF Types
<1>5. /\ peer' \in [Clients -> Peers]
      /\ \A d \in Clients : peer[d] # "new" => peer'[d] # "new"
    BY <1>1 DEF Types, Peers
<1>6. unread' \subseteq Clients
    BY <1>1 DEF Types
<1>7. /\ foreign' \in BOOLEAN /\ (foreign => foreign')
      /\ Has(fd, client) /\ ~foreign => ~foreign'
      /\ ~foreign' /\ fd \in Fds => owner[fd] \in {NoClient, client}
    BY <1>1, <1>2 DEF Types, Has
<1> QED
    BY <1>1, <1>4, <1>5, <1>6, <1>7

\* The descriptor of another client is not touched.
LEMMA CloseSpares ==
    ASSUME Types, NEW fd, NEW client, Close(fd, client), ~foreign',
           NEW d \in Clients, d # client
    PROVE  \A g : Has(g, d) => owner'[g] = owner[g]
<1>1. /\ \A g \in Fds : g # fd => owner'[g] = owner[g]
      /\ fd \in Fds => owner[fd] \in {NoClient, client}
    BY CloseIs
<1> QED
    BY <1>1, ClientsAssumption DEF Has

LEMMA CreateFailsInv ==
    ASSUME Inv, CreateFails
    PROVE  Inv'
<1> DEFINE fd == heap[main.clientId]
<1>1. /\ main.pc = "create" /\ Close(fd, main.client)
      /\ heap' = [heap EXCEPT ![main.clientId] = Freed]
      /\ main' = NextRound /\ ended' \in {"no", "detach"} /\ thread' = thread
    BY DEF CreateFails, CloseUnserved
<1>2. Types
    BY TypesAre DEF Inv
<1> HIDE DEF fd
<1>3. /\ owner' \in [Fds -> Clients \cup {NoClient}]
      /\ peer' \in [Clients -> Peers]
      /\ \A d \in Clients : peer[d] # "new" => peer'[d] # "new"
      /\ unread' \subseteq Clients
      /\ queue' = queue /\ starved' = starved /\ hungUp' = hungUp
      /\ foreign' \in BOOLEAN /\ (foreign => foreign')
      /\ Has(fd, main.client) /\ ~foreign => ~foreign'
    BY <1>1, <1>2, CloseIs
<1>4. main.clientId \in Blocks /\ MainHolds
    BY <1>1 DEF Inv, Pointers, MainHolds
<1>5. /\ main' \in Main0 /\ main'.pc = "malloc" /\ ~MainHolds'
      /\ heap' \in [Blocks -> {Freed, Junk} \cup Fds] /\ heap'[main.clientId] = Freed
      /\ \A b \in Blocks : b # main.clientId => heap'[b] = heap[b]
    BY <1>1, <1>2, <1>4 DEF Types, Main0, NextRound, MainHolds
<1>6. Types'
    BY <1>1, <1>2, <1>3, <1>5 DEF Types
<1>7. Pointers' /\ HungUpSeen'
    BY <1>1, <1>3, <1>5 DEF Inv, Pointers, HungUpSeen
<1>8. SecondCloseIsHarmless'
  <2>1. ~starved /\ ~foreign => Has(fd, main.client)
    BY <1>1 DEF Inv, OwnDescriptors, OwnMain, fd
  <2> QED
    BY <1>3, <2>1 DEF Inv, SecondCloseIsHarmless
<1>9. ~starved' => Memory'
  <2> SUFFICES ASSUME Memory PROVE Memory'
    BY <1>3 DEF Inv
  <2>1. \A w \in Workers : Holds(w)' <=> Holds(w)
    BY <1>1 DEF Holds
  <2>2. \A w \in Workers : Holds(w) => thread[w].arg # main.clientId
    BY <1>4 DEF Memory, OneHolder
  <2>3. OneHolder'
    BY <1>1, <1>5, <2>1 DEF Memory, OneHolder
  <2>4. Allocated'
    <3>1. ASSUME NEW b \in Blocks, b # main.clientId
          PROVE  heap'[b] # Freed <=> \E w \in Workers : Holds(w)' /\ thread'[w].arg = b
      BY <1>1, <1>5, <2>1, <3>1 DEF Memory, Allocated
    <3>2. ~\E w \in Workers : Holds(w)' /\ thread'[w].arg = main.clientId
      BY <1>1, <2>1, <2>2
    <3> QED
      BY <1>5, <3>1, <3>2 DEF Allocated
  <2> QED
    BY <1>1, <2>3, <2>4 DEF Memory
<1>10. ~starved' => OnePlace'
  <2>1. OnePlace => \A w \in Workers : thread[w].pc = "none" => thread[w].client = NoClient
    BY DEF OnePlace, ThreadPlace
  <2> QED
    BY <1>1, <1>3, <1>5, <2>1, PlaceStays DEF Inv
<1>11. ~starved' /\ ~foreign' => OwnDescriptors'
  <2> SUFFICES ASSUME ~foreign', Memory, OnePlace, OwnDescriptors PROVE OwnDescriptors'
    BY <1>3 DEF Inv
  <2>1. OwnMain'
    BY <1>5 DEF OwnMain
  <2>2. ASSUME NEW w \in Workers PROVE OwnThread(w)'
    <3>1. thread[w].pc = "start" => thread[w].arg \in Blocks /\ thread[w].arg # main.clientId
      BY <1>4 DEF Memory, OneHolder, Holds, Inv, Pointers
    <3>2. thread[w].pc = "start" => heap'[thread[w].arg] = heap[thread[w].arg]
      BY <1>5, <3>1
    <3>3. thread[w].pc # "none" => thread[w].client \in Clients /\ thread[w].client # main.client
      BY <1>1 DEF OnePlace, ThreadPlace
    <3>4. thread[w].pc # "none" => \A f : Has(f, thread[w].client) => owner'[f] = owner[f]
      BY <1>1, <1>2, <3>3, CloseSpares
    <3> QED
      BY <1>1, <1>2, <1>3, <3>2, <3>4, ThreadStays DEF OwnDescriptors, Types
  <2> QED
    BY <2>1, <2>2 DEF OwnDescriptors
<1> QED
    BY <1>6, <1>7, <1>8, <1>9, <1>10, <1>11, TypesLater DEF Inv

-----------------------------------------------------------------------------
\* What a thread does before it calls close: the descriptors and blocks stay.
Calls(w) ==
    /\ thread' \in [Workers -> Thread]
    /\ \A v \in Workers : v # w => thread'[v] = thread[v]
    /\ thread'[w].arg = thread[w].arg /\ thread'[w].client = thread[w].client
    /\ thread[w].pc \notin {"none", "closeLast"} /\ thread'[w].pc \notin {"none", "closeLast"}
    /\ thread'[w].pc = "blocked" => thread'[w].reading \in Clients
    /\ thread'[w].pc = "close" => hungUp'
    /\ heap' = heap /\ main' = main /\ queue' = queue /\ owner' = owner
    /\ starved' = starved /\ foreign' = foreign
    /\ ended' = ended \/ ended' \in {"no", "signal"}
    /\ hungUp' \in BOOLEAN /\ (hungUp => hungUp')
    /\ peer' \in [Clients -> Peers] /\ unread' \subseteq Clients
    /\ \A c \in Clients : peer[c] # "new" => peer'[c] # "new"

LEMMA CallsInv ==
    ASSUME Inv, NEW w \in Workers, Calls(w),
           ~starved /\ ~foreign /\ OwnThread(w) => OwnThread(w)'
    PROVE  Inv'
<1>1. Types
    BY TypesAre DEF Inv
<1>2. Types'
    BY <1>1 DEF Types, Calls
<1>3. Pointers' /\ HungUpSeen' /\ SecondCloseIsHarmless'
    BY DEF Inv, Pointers, HungUpSeen, SecondCloseIsHarmless, MainHolds, Calls
<1>4. ~starved' => Memory'
  <2> SUFFICES ASSUME Memory PROVE Memory'
    BY DEF Inv, Calls
  <2>1. (MainHolds' <=> MainHolds) /\ \A v \in Workers : Holds(v)' <=> Holds(v)
    BY DEF MainHolds, Holds, Calls
  <2>2. ended' # "abort" /\ \A v \in Workers : thread'[v].arg = thread[v].arg
    BY DEF Memory, Calls
  <2> QED
    BY <2>1, <2>2, MemoryStays DEF Calls
<1>5. ~starved' => OnePlace'
  <2>1. OnePlace => \A v \in Workers : thread[v].pc = "none" => thread[v].client = NoClient
    BY DEF OnePlace, ThreadPlace
  <2> QED
    BY <2>1, PlaceStays DEF Inv, Calls
<1>6. ~starved' /\ ~foreign' => OwnDescriptors'
  <2> SUFFICES ASSUME ~starved, ~foreign, OwnDescriptors PROVE OwnDescriptors'
    BY DEF Inv, Calls
  <2>1. OwnMain'
    BY MainStays DEF Calls, OwnDescriptors
  <2>2. ASSUME NEW v \in Workers, v # w PROVE OwnThread(v)'
    BY <1>1, <2>2, ThreadStays DEF OwnDescriptors, Types, Calls
  <2>3. OwnThread(w)'
    BY DEF OwnDescriptors
  <2> QED
    BY <2>1, <2>2, <2>3 DEF OwnDescriptors
<1> QED
    BY <1>2, <1>3, <1>4, <1>5, <1>6, TypesLater DEF Inv

LEMMA StartInv ==
    ASSUME Inv, NEW w \in Workers, Start(w)
    PROVE  Inv'
<1> DEFINE d == IF Descriptor(w) = Freed THEN Junk ELSE Descriptor(w)
<1>1. /\ thread[w].pc = "start"
      /\ thread' = [thread EXCEPT ![w].pc = "send", ![w].clientId = d]
      /\ peer' = peer /\ unread' = unread /\ queue' = queue /\ owner' = owner
      /\ heap' = heap /\ main' = main /\ ended' = ended
      /\ starved' = starved /\ hungUp' = hungUp /\ foreign' = foreign
    BY DEF Start, net, history
<1>2. Types
    BY TypesAre DEF Inv
<1>3. d \in Fds \cup {Junk} /\ (heap[thread[w].arg] \in Fds => d = heap[thread[w].arg])
  <2>1. thread[w].arg \in Blocks
    BY <1>1 DEF Inv, Pointers
  <2> QED
    BY <1>2, <2>1, FdsAssumption DEF Types, Descriptor
<1> HIDE DEF d
<1>4. /\ thread' \in [Workers -> Thread]
      /\ \A v \in Workers : v # w => thread'[v] = thread[v]
      /\ thread'[w].pc = "send" /\ thread'[w].clientId = d
      /\ thread'[w].arg = thread[w].arg /\ thread'[w].client = thread[w].client
  <2> DEFINE r == [thread[w] EXCEPT !.pc = "send", !.clientId = d]
  <2>1. thread \in [Workers -> Thread]
    BY <1>2 DEF Types
  <2>2. /\ r \in Thread /\ r.pc = "send" /\ r.clientId = d
        /\ r.arg = thread[w].arg /\ r.client = thread[w].client
    BY <1>3, <2>1 DEF Thread, Pcs
  <2>3. thread' = [thread EXCEPT ![w] = r]
    BY <1>1, <2>1 DEF Thread
  <2> HIDE DEF r
  <2> QED
    BY <2>1, <2>2, <2>3
<1>5. Calls(w)
    BY <1>1, <1>2, <1>4 DEF Calls, Types
<1>6. OwnThread(w) => OwnThread(w)'
    BY <1>1, <1>3, <1>4 DEF OwnThread, Has
<1> QED
    BY <1>5, <1>6, CallsInv

LEMMA SendInv ==
    ASSUME Inv, NEW w \in Workers, SendOK(w) \/ SendFails(w)
    PROVE  Inv'
<1>1. PICK pc \in {"read", "closeUnsent"} : Goto(w, pc)
    BY DEF SendOK, SendFails
<1>2. /\ thread[w].pc = "send" /\ (ended' = ended \/ ended' \in {"no", "signal"})
      /\ peer' = peer /\ unread' = unread /\ queue' = queue /\ owner' = owner
      /\ heap' = heap /\ main' = main
      /\ starved' = starved /\ hungUp' = hungUp /\ foreign' = foreign
    BY DEF SendOK, SendFails, net, history
<1>3. Types
    BY TypesAre DEF Inv
<1>4. /\ thread' \in [Workers -> Thread]
      /\ \A v \in Workers : v # w => thread'[v] = thread[v]
      /\ thread'[w].pc = pc /\ thread'[w].clientId = thread[w].clientId
      /\ thread'[w].arg = thread[w].arg /\ thread'[w].client = thread[w].client
    BY <1>1, <1>3 DEF Types, Thread, Pcs, Goto
<1>5. Calls(w)
    BY <1>2, <1>3, <1>4 DEF Calls, Types
<1>6. OwnThread(w) => OwnThread(w)'
    BY <1>2, <1>4 DEF OwnThread, Has
<1> QED
    BY <1>5, <1>6, CallsInv

LEMMA ReadInv ==
    ASSUME Inv, NEW w \in Workers, Read(w)
    PROVE  Inv'
<1> DEFINE c == Behind(thread[w].clientId)
           pc == IF c = NoClient THEN "close" ELSE "blocked"
<1>1. /\ thread[w].pc = "read"
      /\ thread' = [thread EXCEPT ![w].pc = pc, ![w].reading = c]
      /\ hungUp' = (hungUp \/ c = NoClient)
      /\ peer' = peer /\ unread' = unread /\ queue' = queue /\ owner' = owner
      /\ heap' = heap /\ main' = main /\ ended' = ended
      /\ starved' = starved /\ foreign' = foreign
    BY DEF Read, net
<1>2. Types
    BY TypesAre DEF Inv
<1>3. /\ c \in Clients \cup {NoClient} /\ pc \in {"close", "blocked"}
      /\ pc = "blocked" <=> c # NoClient
      /\ \A d : Has(thread[w].clientId, d) => c = d
    BY <1>2 DEF Types, Behind, Has
<1> HIDE DEF c, pc
<1>4. /\ thread' \in [Workers -> Thread]
      /\ \A v \in Workers : v # w => thread'[v] = thread[v]
      /\ thread'[w].pc = pc /\ thread'[w].reading = c
      /\ thread'[w].clientId = thread[w].clientId
      /\ thread'[w].arg = thread[w].arg /\ thread'[w].client = thread[w].client
    BY <1>1, <1>2, <1>3 DEF Types, Thread, Pcs
<1>5. Calls(w)
    BY <1>1, <1>2, <1>3, <1>4 DEF Calls, Types
<1>6. OwnThread(w) => OwnThread(w)'
  <2> SUFFICES ASSUME OwnThread(w) PROVE OwnThread(w)'
    OBVIOUS
  <2>1. Has(thread[w].clientId, thread[w].client) /\ c = thread[w].client
    BY <1>1, <1>3 DEF OwnThread
  <2> QED
    BY <1>1, <1>3, <1>4, <2>1 DEF OwnThread, Has
<1> QED
    BY <1>5, <1>6, CallsInv

LEMMA ReadReturnsInv ==
    ASSUME Inv, NEW w \in Workers, ReadReturns(w)
    PROVE  Inv'
<1> DEFINE c == thread[w].reading
           pc == IF c \in unread THEN "free" ELSE "close"
           gone == /\ \A fd \in Fds : owner[fd] # c
                   /\ \A v \in Workers \ {w} : thread[v].reading # c
<1>1. /\ thread[w].pc = "blocked"
      /\ thread' = [thread EXCEPT ![w].reading = NoClient, ![w].pc = pc]
      /\ unread' = unread \ {c}
      /\ peer' = (IF gone THEN [peer EXCEPT ![c] = "closed"] ELSE peer)
      /\ hungUp' = (hungUp \/ c \notin unread)
      /\ queue' = queue /\ owner' = owner /\ heap' = heap /\ main' = main
      /\ ended' = ended /\ starved' = starved /\ foreign' = foreign
    BY DEF ReadReturns, AfterRead
<1>2. Types
    BY TypesAre DEF Inv
<1>3. pc \in {"close", "free"} /\ (pc = "free" <=> c \in unread)
    OBVIOUS
<1> HIDE DEF c, pc, gone
<1>4. /\ thread' \in [Workers -> Thread]
      /\ \A v \in Workers : v # w => thread'[v] = thread[v]
      /\ thread'[w].pc = pc /\ thread'[w].clientId = thread[w].clientId
      /\ thread'[w].arg = thread[w].arg /\ thread'[w].client = thread[w].client
    BY <1>1, <1>2, <1>3 DEF Types, Thread, Pcs
<1>5. /\ peer' \in [Clients -> Peers] /\ unread' \subseteq Clients
      /\ \A d \in Clients : peer[d] # "new" => peer'[d] # "new"
    BY <1>1, <1>2 DEF Types, Peers
<1>6. Calls(w)
    BY <1>1, <1>2, <1>3, <1>4, <1>5 DEF Calls, Types
<1>7. OwnThread(w) => OwnThread(w)'
    BY <1>1, <1>3, <1>4 DEF OwnThread, Has
<1> QED
    BY <1>6, <1>7, CallsInv

\* What is left of a thread that has ended.
LEMMA NoThreadIs ==
    /\ NoThread \in Thread /\ NoThread.pc = "none" /\ NoThread.client = NoClient
    /\ NoThread.arg = Junk
    BY DEF NoThread, Thread, Pcs

\* A step of a thread behind which it has ended or goes on at pc.
LEMMA GoesOn ==
    ASSUME Types, NEW w \in Workers, NEW pc \in Pcs,
           thread' = IF pc = "none" THEN [thread EXCEPT ![w] = NoThread]
                     ELSE [thread EXCEPT ![w].pc = pc]
    PROVE  /\ thread' \in [Workers -> Thread] /\ thread'[w].pc = pc
           /\ \A v \in Workers : v # w => thread'[v] = thread[v]
           /\ pc = "none" => thread'[w].client = NoClient
           /\ pc # "none" =>
                 /\ thread'[w].arg = thread[w].arg /\ thread'[w].client = thread[w].client
                 /\ thread'[w].clientId = thread[w].clientId
                 /\ thread'[w].reading = thread[w].reading
<1>1. CASE pc = "none"
    BY <1>1, NoThreadIs DEF Types
<1>2. CASE pc # "none"
    BY <1>2 DEF Types, Thread
<1> QED
    BY <1>1, <1>2

LEMMA CloseStepInv ==
    ASSUME Inv, NEW w \in Workers, CloseStep(w)
    PROVE  Inv'
<1> DEFINE fd == thread[w].clientId
           client == thread[w].client
<1>0. PICK pc : pc = AfterClose[thread[w].pc]
    OBVIOUS
<1>1. /\ thread[w].pc \in {"closeUnsent", "close", "closeLast"}
      /\ Close(fd, client)
      /\ thread' = (IF pc = "none" THEN [thread EXCEPT ![w] = NoThread]
                    ELSE [thread EXCEPT ![w].pc = pc])
      /\ heap' = heap /\ main' = main /\ ended' = ended
    BY <1>0, AfterCloseIs DEF CloseStep
<1>2. /\ pc \in {"freeUnsent", "free", "none"}
      /\ pc = "none" <=> thread[w].pc = "closeLast"
      /\ pc = "free" <=> thread[w].pc = "close"
    BY <1>0, <1>1, AfterCloseIs
<1>3. Types
    BY TypesAre DEF Inv
<1> HIDE DEF fd, client
<1>4. /\ owner' \in [Fds -> Clients \cup {NoClient}]
      /\ peer' \in [Clients -> Peers]
      /\ \A d \in Clients : peer[d] # "new" => peer'[d] # "new"
      /\ unread' \subseteq Clients
      /\ queue' = queue /\ starved' = starved /\ hungUp' = hungUp
      /\ foreign' \in BOOLEAN /\ (foreign => foreign')
      /\ Has(fd, client) /\ ~foreign => ~foreign'
    BY <1>1, <1>3, CloseIs
<1>5. /\ thread' \in [Workers -> Thread] /\ thread'[w].pc = pc
      /\ \A v \in Workers : v # w => thread'[v] = thread[v]
      /\ pc = "none" => thread'[w].client = NoClient
      /\ pc # "none" =>
            thread'[w].arg = thread[w].arg /\ thread'[w].client = thread[w].client
  <2>1. pc \in Pcs
    BY <1>2 DEF Pcs
  <2> QED
    BY <1>1, <1>3, <2>1, GoesOn
<1>6. Types'
    BY <1>1, <1>3, <1>4, <1>5 DEF Types
<1>7. Pointers' /\ HungUpSeen'
    BY <1>1, <1>2, <1>4, <1>5 DEF Inv, Pointers, HungUpSeen, MainHolds
<1>8. SecondCloseIsHarmless'
  <2> SUFFICES ASSUME ~hungUp, ~starved PROVE ~foreign'
    BY <1>4 DEF SecondCloseIsHarmless
  <2>1. ~foreign /\ OwnThread(w)
    BY DEF Inv, SecondCloseIsHarmless, OwnDescriptors
  <2>2. Has(fd, client)
    BY <1>1, <2>1 DEF OwnThread, fd, client
  <2> QED
    BY <1>4, <2>1, <2>2
<1>9. ~starved' => Memory'
  <2> SUFFICES ASSUME Memory PROVE Memory'
    BY <1>4 DEF Inv
  <2>1. \A v \in Workers : /\ Holds(v)' <=> Holds(v)
                           /\ Holds(v) => thread'[v].arg = thread[v].arg
    BY <1>1, <1>2, <1>5 DEF Holds
  <2>2. (MainHolds' <=> MainHolds) /\ main'.clientId = main.clientId /\ ended' # "abort"
    BY <1>1 DEF MainHolds, Memory
  <2> QED
    BY <1>1, <2>1, <2>2, MemoryStays
<1>10. ~starved' => OnePlace'
  <2>1. OnePlace => \A v \in Workers :
            IF thread'[v].pc = "none" THEN thread'[v].client = NoClient
            ELSE thread[v].pc # "none" /\ thread'[v].client = thread[v].client
    BY <1>1, <1>5 DEF OnePlace, ThreadPlace
  <2> QED
    BY <1>1, <1>4, <2>1, PlaceStays DEF Inv
<1>11. ~starved' /\ ~foreign' => OwnDescriptors'
  <2> SUFFICES ASSUME ~foreign', OnePlace, OwnDescriptors PROVE OwnDescriptors'
    BY <1>4 DEF Inv
  <2>1. OwnMain'
    <3>1. main.pc = "create" => main.client \in Clients /\ main.client # client
      BY <1>1 DEF OnePlace, MainPlace, ThreadPlace, client
    <3>2. main.pc = "create" => \A f : Has(f, main.client) => owner'[f] = owner[f]
      BY <1>1, <1>3, <3>1, CloseSpares
    <3> QED
      BY <1>1, <3>2, MainStays DEF OwnDescriptors
  <2>2. ASSUME NEW v \in Workers, v # w PROVE OwnThread(v)'
    <3>1. thread[v].pc # "none" => thread[v].client \in Clients /\ thread[v].client # client
      BY <1>1, <2>2 DEF OnePlace, ThreadPlace, client
    <3>2. thread[v].pc # "none" => \A f : Has(f, thread[v].client) => owner'[f] = owner[f]
      BY <1>1, <1>3, <3>1, CloseSpares
    <3> QED
      BY <1>1, <1>3, <1>4, <1>5, <2>2, <3>2, ThreadStays DEF OwnDescriptors, Types
  <2>3. OwnThread(w)'
    BY <1>1, <1>2, <1>4, <1>5 DEF OwnThread, Inv, HungUpSeen
  <2> QED
    BY <2>2, <2>1, <2>3 DEF OwnDescriptors
<1> QED
    BY <1>6, <1>7, <1>8, <1>9, <1>10, <1>11, TypesLater DEF Inv

LEMMA FreeStepInv ==
    ASSUME Inv, NEW w \in Workers, FreeStep(w)
    PROVE  Inv'
<1>0. PICK pc : pc = IF thread[w].pc = "freeUnsent" THEN "none" ELSE "closeLast"
    OBVIOUS
<1>1. /\ thread[w].pc \in {"free", "freeUnsent"} /\ Free(thread[w].arg)
      /\ thread' = (IF pc = "none" THEN [thread EXCEPT ![w] = NoThread]
                    ELSE [thread EXCEPT ![w].pc = pc])
      /\ peer' = peer /\ unread' = unread /\ queue' = queue /\ owner' = owner
      /\ main' = main /\ starved' = starved /\ hungUp' = hungUp /\ foreign' = foreign
    BY <1>0 DEF FreeStep, net, history
<1>2. /\ pc \in {"none", "closeLast"} /\ (pc = "closeLast" => thread[w].pc = "free")
    BY <1>0, <1>1
<1>3. Types
    BY TypesAre DEF Inv
<1>4. /\ thread' \in [Workers -> Thread] /\ thread'[w].pc = pc
      /\ \A v \in Workers : v # w => thread'[v] = thread[v]
      /\ pc = "none" => thread'[w].client = NoClient
      /\ pc # "none" =>
            /\ thread'[w].arg = thread[w].arg /\ thread'[w].client = thread[w].client
            /\ thread'[w].clientId = thread[w].clientId
  <2>1. pc \in Pcs
    BY <1>2 DEF Pcs
  <2> QED
    BY <1>1, <1>3, <2>1, GoesOn
<1>5. /\ heap' \in [Blocks -> {Freed, Junk} \cup Fds]
      /\ ended' \in {"no", "signal", "abort", "detach"}
    BY <1>1, <1>3 DEF Free, Types
<1>6. Types'
    BY <1>1, <1>3, <1>4, <1>5 DEF Types
<1>7. thread[w].arg \in Blocks /\ Holds(w) /\ ~Holds(w)'
    BY <1>1, <1>2, <1>4 DEF Inv, Pointers, Holds
<1>8. Pointers' /\ HungUpSeen' /\ SecondCloseIsHarmless'
    BY <1>1, <1>2, <1>4, <1>7
       DEF Inv, Pointers, HungUpSeen, SecondCloseIsHarmless, MainHolds
<1>9. ~starved /\ Memory =>
          /\ heap' = [heap EXCEPT ![thread[w].arg] = Freed] /\ ended' = ended
          /\ Memory'
  <2> SUFFICES ASSUME Memory
               PROVE  /\ heap' = [heap EXCEPT ![thread[w].arg] = Freed] /\ ended' = ended
                      /\ Memory'
    OBVIOUS
  <2>1. heap' = [heap EXCEPT ![thread[w].arg] = Freed] /\ ended' = ended
    BY <1>1, <1>7 DEF Memory, Allocated, Free
  <2>2. /\ heap'[thread[w].arg] = Freed
        /\ \A b \in Blocks : b # thread[w].arg => heap'[b] = heap[b]
    BY <1>3, <1>7, <2>1 DEF Types
  <2>3. /\ \A v \in Workers : v # w => (Holds(v)' <=> Holds(v)) /\ thread'[v].arg = thread[v].arg
        /\ MainHolds' <=> MainHolds
    BY <1>1, <1>4 DEF Holds, MainHolds
  <2>4. OneHolder'
    BY <1>1, <1>7, <2>3 DEF Memory, OneHolder
  <2>5. Allocated'
    <3>1. ASSUME NEW b \in Blocks, b # thread[w].arg
          PROVE  heap'[b] # Freed <=>
                     \/ MainHolds' /\ main'.clientId = b
                     \/ \E v \in Workers : Holds(v)' /\ thread'[v].arg = b
      <4>1. (\E v \in Workers : Holds(v)' /\ thread'[v].arg = b)
                <=> \E v \in Workers : Holds(v) /\ thread[v].arg = b
        BY <1>7, <2>3, <3>1
      <4> QED
        BY <1>1, <2>2, <2>3, <3>1, <4>1 DEF Memory, Allocated
    <3>2. /\ ~(MainHolds' /\ main'.clientId = thread[w].arg)
          /\ ~\E v \in Workers : Holds(v)' /\ thread'[v].arg = thread[w].arg
      BY <1>1, <1>7, <2>3 DEF Memory, OneHolder
    <3> QED
      BY <2>2, <3>1, <3>2 DEF Allocated
  <2> QED
    BY <2>1, <2>4, <2>5 DEF Memory
<1>10. ~starved' => Memory'
    BY <1>1, <1>9 DEF Inv
<1>11. ~starved' => OnePlace'
  <2>1. OnePlace => \A v \in Workers :
            IF thread'[v].pc = "none" THEN thread'[v].client = NoClient
            ELSE thread[v].pc # "none" /\ thread'[v].client = thread[v].client
    BY <1>1, <1>4 DEF OnePlace, ThreadPlace
  <2> QED
    BY <1>1, <2>1, PlaceStays DEF Inv
<1>12. ~starved' /\ ~foreign' => OwnDescriptors'
  <2> SUFFICES ASSUME Memory, ~starved, OwnDescriptors PROVE OwnDescriptors'
    BY <1>1 DEF Inv
  <2>1. \A b \in Blocks : b # thread[w].arg => heap'[b] = heap[b]
    BY <1>3, <1>9 DEF Types
  <2>2. OwnMain'
    <3>1. main.pc = "create" => main.clientId \in Blocks /\ main.clientId # thread[w].arg
      BY <1>7 DEF Inv, Pointers, Memory, OneHolder, MainHolds
    <3> QED
      BY <1>1, <2>1, <3>1, MainStays DEF OwnDescriptors
  <2>3. ASSUME NEW v \in Workers, v # w PROVE OwnThread(v)'
    <3>1. thread[v].pc = "start" => thread[v].arg \in Blocks /\ thread[v].arg # thread[w].arg
      BY <1>7, <2>3 DEF Inv, Pointers, Memory, OneHolder, Holds
    <3> QED
      BY <1>1, <1>3, <1>4, <2>1, <2>3, <3>1, ThreadStays DEF OwnDescriptors, Types
  <2>4. OwnThread(w)'
    BY <1>1, <1>2, <1>4 DEF OwnDescriptors, OwnThread, Has
  <2> QED
    BY <2>2, <2>3, <2>4 DEF OwnDescriptors
<1> QED
    BY <1>6, <1>8, <1>10, <1>11, <1>12, TypesLater DEF Inv

-----------------------------------------------------------------------------
LEMMA Inductive == Inv /\ [Next]_vars => Inv'
<1> SUFFICES ASSUME Inv, [Next]_vars PROVE Inv'
    OBVIOUS
<1>1. CASE UNCHANGED vars
    BY <1>1, StutterInv
<1>2. ASSUME NEW c \in Clients, Client(c) PROVE Inv'
  <2>1. UNCHANGED Rest /\ (Connect(c) \/ Send(c) \/ Leave(c))
    BY <1>2 DEF Client
  <2> QED
    BY <2>1, ConnectInv, SendLeaveInv
<1>3. CASE Main
    BY <1>3, MallocInv, AcceptInv, AcceptFailsInv, CreateInv, CreateFailsInv DEF Main
<1>4. ASSUME NEW w \in Workers, Worker(w) PROVE Inv'
  <2>1. CASE Start(w)
    BY <2>1, StartInv
  <2>2. CASE SendOK(w) \/ SendFails(w)
    BY <2>2, SendInv
  <2>3. CASE Read(w)
    BY <2>3, ReadInv
  <2>4. CASE ReadReturns(w)
    BY <2>4, ReadReturnsInv
  <2>5. CASE CloseStep(w)
    BY <2>5, CloseStepInv
  <2>6. CASE FreeStep(w)
    BY <2>6, FreeStepInv
  <2> QED
    BY <1>4, <2>1, <2>2, <2>3, <2>4, <2>5, <2>6 DEF Worker
<1> QED
    BY <1>1, <1>2, <1>3, <1>4 DEF Next

LEMMA Always == Spec => []Inv
<1> QED
    BY InitInv, Inductive, PTL DEF Spec

\* What the variables hold: a thread's pointer leads to a block or nowhere, and
\* never is a thread blocked in a read of nothing.
THEOREM TypeCorrect == Spec => []TypeOK
<1>1. Inv => TypeOK
    BY DEF Inv
<1> QED
    BY <1>1, Always, PTL

\* As long as accept has not failed, the block of a connection is freed exactly
\* once, whatever the order of main and the threads.
THEOREM BlocksFreedOnce == Spec => []FreedOnce
<1>1. Inv => FreedOnce
  <2> SUFFICES ASSUME Inv, ~starved PROVE FreedOnce
    BY DEF FreedOnce
  <2>1. Memory /\ Pointers
    BY DEF Inv
  <2>2. {b \in Blocks : heap[b] # Freed} =
              {b \in {main.clientId} : main.pc # "malloc"}
                  \cup {thread[w].arg : w \in {v \in Workers : thread[v].pc \notin {"none", "closeLast"}}}
    BY <2>1 DEF Memory, Allocated, Pointers, MainHolds, Holds
  <2> QED
    BY <2>1, <2>2 DEF FreedOnce, Memory
<1> QED
    BY <1>1, Always, PTL

\* A thread talks to the client it was started for, and no other thread does,
\* until a close has hit the connection of another client or accept has failed.
THEOREM ThreadsKeepTheirClients == Spec => []OwnClient
<1>1. Inv => OwnClient
  <2> SUFFICES ASSUME Inv, ~foreign, ~starved PROVE OwnClient
    BY DEF OwnClient
  <2>1. OnePlace /\ OwnDescriptors
    BY DEF Inv
  <2>2. ASSUME NEW w \in Workers
        PROVE  /\ thread[w].pc \in {"send", "read", "blocked", "closeUnsent", "close"} =>
                      Behind(thread[w].clientId) = thread[w].client
               /\ thread[w].pc = "blocked" => thread[w].reading = thread[w].client
    BY <2>1 DEF OwnDescriptors, OwnThread, Has, Behind
  <2>3. ASSUME NEW w \in Workers, NEW v \in Workers \ {w}, thread[w].client # NoClient
        PROVE  thread[v].client # thread[w].client
    BY <2>1, <2>3 DEF OnePlace, ThreadPlace
  <2> QED
    BY <2>2, <2>3 DEF OwnClient
<1> QED
    BY <1>1, Always, PTL

\* The second close of a descriptor hits another client only after a client left
\* without a request, or accept failed.
THEOREM SecondCloseExplained == Spec => []SecondCloseIsHarmless
<1>1. Inv => SecondCloseIsHarmless
    BY DEF Inv
<1> QED
    BY <1>1, Always, PTL
==============================================================================
