---------------------------- MODULE ProxyProofs -----------------------------
(***************************************************************************)
(* The proxy's invariants hold for every set of clients, requests and      *)
(* responses, every routing table, every size of the buffers and of the    *)
(* accept queue, and whatever clients and backends do.                     *)
(***************************************************************************)
EXTENDS ProxyProperties, FiniteSetTheorems, SequenceTheorems, WellFoundedInduction,
        TLAPS

-----------------------------------------------------------------------------
\* What the operations of the accept queue do to the set of its members.
LEMMA AppendToQueue ==
    ASSUME NEW S, NEW q \in Seq(S), NEW c \in S, IsInjective(q), c \notin ToSet(q)
    PROVE  /\ Append(q, c) \in Seq(S) /\ Len(Append(q, c)) = Len(q) + 1
           /\ ToSet(Append(q, c)) = ToSet(q) \cup {c} /\ IsInjective(Append(q, c))
<1>1. /\ Append(q, c) \in Seq(S) /\ Len(Append(q, c)) = Len(q) + 1 /\ Len(q) \in Nat
      /\ DOMAIN Append(q, c) = 1 .. Len(q) + 1 /\ DOMAIN q = 1 .. Len(q)
      /\ \A k \in 1 .. Len(q) : Append(q, c)[k] = q[k]
      /\ Append(q, c)[Len(q) + 1] = c
    OBVIOUS
<1>2. ToSet(Append(q, c)) = ToSet(q) \cup {c}
    BY <1>1 DEF ToSet
<1>3. \A k \in 1 .. Len(q) : q[k] # c
    BY <1>1 DEF ToSet
<1>4. \A j, k \in 1 .. Len(q) : q[j] = q[k] => j = k
    BY <1>1 DEF IsInjective
<1>5. IsInjective(Append(q, c))
    BY <1>1, <1>3, <1>4 DEF IsInjective
<1> QED
    BY <1>1, <1>2, <1>5

\* accept takes the head of the queue.
LEMMA TailOfQueue ==
    ASSUME NEW S, NEW q \in Seq(S), q # <<>>, IsInjective(q)
    PROVE  /\ Tail(q) \in Seq(S) /\ Len(Tail(q)) = Len(q) - 1 /\ Len(q) \in Nat
           /\ Head(q) \in S /\ Head(q) \in ToSet(q)
           /\ ToSet(Tail(q)) = ToSet(q) \ {Head(q)} /\ IsInjective(Tail(q))
<1>1. /\ Tail(q) \in Seq(S) /\ Len(Tail(q)) = Len(q) - 1
      /\ Len(q) \in Nat /\ Len(q) >= 1
      /\ DOMAIN Tail(q) = 1 .. Len(q) - 1 /\ DOMAIN q = 1 .. Len(q)
      /\ Head(q) = q[1] /\ q[1] \in S
      /\ \A k \in 1 .. Len(q) - 1 : Tail(q)[k] = q[k + 1]
    OBVIOUS
<1>2. \A j, k \in 1 .. Len(q) : q[j] = q[k] => j = k
    BY <1>1 DEF IsInjective
<1>3. IsInjective(Tail(q))
    BY <1>1, <1>2 DEF IsInjective
<1>4. ToSet(Tail(q)) \subseteq ToSet(q) \ {Head(q)}
    BY <1>1, <1>2 DEF ToSet
<1>5. ASSUME NEW k \in 1 .. Len(q), q[k] # Head(q) PROVE q[k] \in ToSet(Tail(q))
  <2>1. k - 1 \in 1 .. Len(q) - 1 /\ Tail(q)[k - 1] = q[k]
    BY <1>1, <1>5
  <2> QED
    BY <1>1, <2>1 DEF ToSet
<1>6. ToSet(q) \ {Head(q)} \subseteq ToSet(Tail(q))
    BY <1>1, <1>5 DEF ToSet
<1>7. Head(q) \in ToSet(q)
  <2>1. 1 \in DOMAIN q
    BY <1>1
  <2> QED
    BY <1>1, <2>1 DEF ToSet
<1> QED
    BY <1>1, <1>3, <1>4, <1>6, <1>7

\* The kernel may take a connection out of its middle.
LEMMA RemoveFromQueue ==
    ASSUME NEW S, NEW q \in Seq(S), NEW i \in DOMAIN q, IsInjective(q)
    PROVE  /\ RemoveAt(q, i) \in Seq(S) /\ Len(RemoveAt(q, i)) = Len(q) - 1 /\ Len(q) \in Nat
           /\ ToSet(RemoveAt(q, i)) = ToSet(q) \ {q[i]} /\ IsInjective(RemoveAt(q, i))
<1> DEFINE r == RemoveAt(q, i)
<1>1. Len(q) \in Nat /\ DOMAIN q = 1 .. Len(q) /\ i \in 1 .. Len(q)
    OBVIOUS
<1>2. /\ SubSeq(q, 1, i - 1) \in Seq(S) /\ Len(SubSeq(q, 1, i - 1)) = i - 1
      /\ SubSeq(q, i + 1, Len(q)) \in Seq(S) /\ Len(SubSeq(q, i + 1, Len(q))) = Len(q) - i
      /\ \A k \in 1 .. i - 1 : SubSeq(q, 1, i - 1)[k] = q[k]
      /\ \A k \in 1 .. Len(q) - i : SubSeq(q, i + 1, Len(q))[k] = q[k + i]
  <2>1. SubSeq(q, 1, i - 1) \in Seq(S) /\ Len(SubSeq(q, 1, i - 1)) = i - 1
    BY <1>1
  <2>2. \A k \in 1 .. i - 1 : SubSeq(q, 1, i - 1)[k] = q[k]
    BY <1>1
  <2>3. SubSeq(q, i + 1, Len(q)) \in Seq(S) /\ Len(SubSeq(q, i + 1, Len(q))) = Len(q) - i
    BY <1>1
  <2>4. \A k \in 1 .. Len(q) - i : SubSeq(q, i + 1, Len(q))[k] = q[k + i]
    BY <1>1
  <2> QED
    BY <2>1, <2>2, <2>3, <2>4
<1>3. /\ r \in Seq(S) /\ Len(r) = Len(q) - 1 /\ DOMAIN r = 1 .. Len(q) - 1
      /\ \A k \in 1 .. Len(q) - 1 : r[k] = IF k < i THEN q[k] ELSE q[k + 1]
  <2> DEFINE a == SubSeq(q, 1, i - 1)
             b == SubSeq(q, i + 1, Len(q))
  <2>1. a \in Seq(S) /\ b \in Seq(S) /\ Len(a) = i - 1 /\ Len(b) = Len(q) - i
    BY <1>2
  <2>2. \A k \in 1 .. Len(a) : a[k] = q[k]
    BY <1>2
  <2>3. \A k \in 1 .. Len(b) : b[k] = q[k + i]
    BY <1>2
  <2> HIDE DEF a, b
  <2>4. /\ a \o b \in Seq(S) /\ Len(a \o b) = Len(a) + Len(b)
        /\ \A k \in 1 .. Len(a) + Len(b) :
              (a \o b)[k] = IF k <= Len(a) THEN a[k] ELSE b[k - Len(a)]
    BY <2>1, ConcatProperties
  <2>5. ASSUME NEW k \in 1 .. Len(q) - 1
        PROVE  (a \o b)[k] = IF k < i THEN q[k] ELSE q[k + 1]
    <3>1. CASE k < i
      BY <1>1, <2>1, <2>2, <2>4, <3>1
    <3>2. CASE ~(k < i)
      <4>1. k - (i - 1) \in 1 .. Len(b) /\ (k - (i - 1)) + i = k + 1
        BY <1>1, <2>1, <3>2
      <4>2. k \in 1 .. Len(a) + Len(b) /\ ~(k <= Len(a)) /\ Len(a) = i - 1
        BY <1>1, <2>1, <3>2
      <4>3. (a \o b)[k] = b[k - Len(a)]
        BY <2>4, <4>2
      <4> QED
        BY <2>3, <4>1, <4>2, <4>3, <3>2
    <3> QED
      BY <3>1, <3>2
  <2>6. r = a \o b
    BY DEF RemoveAt, a, b
  <2>7. Len(a \o b) = Len(q) - 1 /\ DOMAIN (a \o b) = 1 .. Len(q) - 1
    <3>1. DOMAIN (a \o b) = 1 .. Len(a \o b)
      BY <2>4
    <3>2. Len(a) + Len(b) = Len(q) - 1
      BY <1>1, <2>1
    <3> QED
      BY <2>4, <3>1, <3>2
  <2> HIDE DEF r
  <2> QED
    BY <2>4, <2>5, <2>6, <2>7
<1>4. \A j, k \in 1 .. Len(q) : q[j] = q[k] => j = k
    BY <1>1 DEF IsInjective
<1>5. IsInjective(r)
    BY <1>1, <1>3, <1>4 DEF IsInjective
<1>6. ToSet(r) \subseteq ToSet(q) \ {q[i]}
    BY <1>1, <1>3, <1>4 DEF ToSet
<1>7. ASSUME NEW k \in 1 .. Len(q), q[k] # q[i] PROVE q[k] \in ToSet(r)
  <2>1. CASE k < i
    BY <1>1, <1>3, <2>1 DEF ToSet
  <2>2. CASE k > i
    <3>1. k - 1 \in 1 .. Len(q) - 1 /\ r[k - 1] = q[k]
        BY <1>1, <1>3, <2>2
    <3> QED
        BY <1>3, <3>1 DEF ToSet
  <2> QED
    BY <1>1, <1>7, <2>1, <2>2
<1>8. ToSet(q) \ {q[i]} \subseteq ToSet(r)
    BY <1>1, <1>7 DEF ToSet
<1> QED
    BY <1>1, <1>3, <1>5, <1>6, <1>8

-----------------------------------------------------------------------------
\* Beginnings and rests of the texts that are passed on in parts.
LEMMA MinOfTwo ==
    ASSUME NEW m \in Nat, NEW n \in Nat
    PROVE  Min({m, n}) = IF m <= n THEN m ELSE n
<1> DEFINE low == IF m <= n THEN m ELSE n
<1>1. low \in {m, n} /\ \A x \in {m, n} : low <= x
    OBVIOUS
<1>2. \A x \in {m, n} : (\A y \in {m, n} : x <= y) => x = low
    OBVIOUS
<1> QED
    BY <1>1, <1>2 DEF Min

\* Cutting a sequence in two loses nothing.
LEMMA CutInTwo ==
    ASSUME NEW S, NEW s \in Seq(S), NEW n \in 0 .. Len(s)
    PROVE  /\ SubSeq(s, 1, n) \in Seq(S) /\ Len(SubSeq(s, 1, n)) = n
           /\ From(s, n + 1) \in Seq(S)
           /\ SubSeq(s, 1, n) \o From(s, n + 1) = s
<1>1. Len(s) \in Nat /\ n \in Nat /\ n <= Len(s)
    OBVIOUS
<1>2. SubSeq(s, 1, n) \in Seq(S) /\ Len(SubSeq(s, 1, n)) = n
    BY <1>1, SubSeqProperties
<1>3. SubSeq(s, n + 1, Len(s)) \in Seq(S)
    BY <1>1, SubSeqProperties
<1>4. SubSeq(s, 1, n) \o SubSeq(s, n + 1, Len(s)) = SubSeq(s, 1, Len(s))
  <2>1. 1 \in 1 .. Len(s) + 1 /\ n \in 1 - 1 .. Len(s) /\ Len(s) \in n .. Len(s)
    BY <1>1
  <2> QED
    BY <2>1, ConcatAdjacentSubSeq
<1> QED
    BY <1>2, <1>3, <1>4, SubSeqFull DEF From

\* A beginning of a, made longer by a part of what follows it in a, is a longer
\* beginning of a.
LEMMA LongerBeginning ==
    ASSUME NEW S, NEW s \in Seq(S), NEW t \in Seq(S), NEW u \in Seq(S), NEW n \in 1 .. Len(t)
    PROVE  LET a == (s \o t) \o u
           IN  /\ Len(s) + n \in Len(s) + 1 .. Len(a)
               /\ IsPrefix(s, a)
               /\ s \o SubSeq(t, 1, n) = SubSeq(a, 1, Len(s) + n)
<1> DEFINE a == (s \o t) \o u
           b == s \o SubSeq(t, 1, n)
           l == Len(s)
<1>1. l \in Nat /\ Len(t) \in Nat /\ Len(u) \in Nat /\ n \in Nat /\ n <= Len(t) /\ n >= 1
    OBVIOUS
<1>2. /\ s \o t \in Seq(S) /\ Len(s \o t) = l + Len(t)
      /\ \A i \in 1 .. l + Len(t) : (s \o t)[i] = IF i <= l THEN s[i] ELSE t[i - l]
    BY ConcatProperties
<1>3. /\ a \in Seq(S) /\ Len(a) = l + Len(t) + Len(u)
      /\ \A i \in 1 .. Len(s \o t) + Len(u) :
            a[i] = IF i <= Len(s \o t) THEN (s \o t)[i] ELSE u[i - Len(s \o t)]
    BY <1>2, ConcatProperties
<1>4. \A i \in 1 .. l + Len(t) : a[i] = IF i <= l THEN s[i] ELSE t[i - l]
    BY <1>1, <1>2, <1>3
<1>5. SubSeq(t, 1, n) \in Seq(S) /\ Len(SubSeq(t, 1, n)) = n
      /\ \A i \in 1 .. n : SubSeq(t, 1, n)[i] = t[i]
    BY <1>1
<1>6. /\ b \in Seq(S) /\ Len(b) = l + n
      /\ \A i \in 1 .. l + n : b[i] = IF i <= l THEN s[i] ELSE SubSeq(t, 1, n)[i - l]
    BY <1>5, ConcatProperties
<1> HIDE DEF a, b, l
<1>7. \A m \in 0 .. Len(a) : SubSeq(a, 1, m) \in Seq(S) /\ Len(SubSeq(a, 1, m)) = m
                             /\ \A i \in 1 .. m : SubSeq(a, 1, m)[i] = a[i]
    BY <1>3
<1>8. b = SubSeq(a, 1, l + n)
  <2>1. l + n \in 0 .. Len(a)
    BY <1>1, <1>3
  <2>2. \A i \in 1 .. Len(b) : b[i] = SubSeq(a, 1, l + n)[i]
    <3>1. \A i \in 1 .. l + n : b[i] = a[i]
      <4> TAKE i \in 1 .. l + n
      <4>0. i \in 1 .. l + Len(t)
        BY <1>1
      <4>1. CASE i <= l
        BY <1>4, <1>6, <4>0, <4>1
      <4>2. CASE ~(i <= l)
        <5>1. i - l \in 1 .. n
          BY <1>1, <4>2
        <5> QED
          BY <1>4, <1>5, <1>6, <4>0, <4>2, <5>1
      <4> QED
        BY <4>1, <4>2
    <3> QED
      BY <1>6, <1>7, <2>1, <3>1
  <2> QED
    BY <1>6, <1>7, <2>1, <2>2, SeqEqual
<1>9. SubSeq(a, 1, l) = s
  <2>1. l \in 0 .. Len(a)
    BY <1>1, <1>3
  <2>2. \A i \in 1 .. l : s[i] = SubSeq(a, 1, l)[i]
    BY <1>1, <1>4, <1>7, <2>1
  <2>3. Len(s) = l
    BY DEF l
  <2> QED
    BY <1>7, <2>1, <2>2, <2>3, SeqEqual
<1>10. SubSeq(s, 1, l) = s
    BY SubSeqFull DEF l
<1>11. l + n \in l + 1 .. Len(a) /\ l <= Len(a)
    BY <1>1, <1>3
<1> QED
    BY <1>8, <1>9, <1>10, <1>11 DEF IsPrefix, a, b, l

-----------------------------------------------------------------------------
\* SIGPIPE stays ignored, so that no step ends the process with connections open.
Survives == sigpipe = "ignored" /\ pc # "dead"

IInv == TypeOK /\ OneConnection /\ Survives /\ OnlyRejectedRequestsLeak

LEMMA InitIInv == Init => IInv
<1> SUFFICES ASSUME Init PROVE IInv
    OBVIOUS
<1> USE DEF Init
<1>1. TypeOK
    BY ConstantsAssumption, RoutesAssumption DEF TypeOK, SigpipeDisposition
<1>2. OneConnection
  <2>1. ToSet(backlog) = {} /\ IsInjective(backlog)
    BY DEF ToSet, IsInjective
  <2> QED
    BY <2>1 DEF OneConnection, Open
<1>3. Survives /\ OnlyRejectedRequestsLeak
    BY DEF Survives, SigpipeDisposition, OnlyRejectedRequestsLeak
<1> QED
    BY <1>1, <1>2, <1>3 DEF IInv

\* Cutting the host of a route leaves a table of as many routes.
LEMMA CutHostType ==
    ASSUME NEW table \in Seq(Routes), NEW k \in DOMAIN table
    PROVE  CutHost(table, k) \in Seq(Routes) /\ DOMAIN CutHost(table, k) = DOMAIN table
<1>1. table[k] \in Routes /\ k \in 1 .. Len(table)
    OBVIOUS
<1>2. table[k].host \in Seq(STRING) /\ table[k].host # <<>>
    BY <1>1 DEF Routes
<1>3. <<Head(table[k].host)>> \in Seq(STRING) \ {<<>>}
    BY <1>2
<1>4. [table[k] EXCEPT !.host = <<Head(table[k].host)>>] \in Routes
    BY <1>1, <1>3 DEF Routes
<1>5. CutHost(table, k) =
          [table EXCEPT ![k] = [table[k] EXCEPT !.host = <<Head(table[k].host)>>]]
    BY DEF CutHost
<1> QED
    BY <1>1, <1>4, <1>5, ExceptSeq

\* The client being served is a client.
LEMMA Serving == TypeOK /\ OneConnection /\ pc # "accept" => client_id \in Clients
    BY DEF TypeOK, OneConnection

LEMMA TypeStep == IInv /\ [Next]_vars => TypeOK'
<1> SUFFICES ASSUME IInv, [Next]_vars PROVE TypeOK'
    OBVIOUS
<1> USE DEF TypeOK, IInv, memory, sockets, backendConn
<1>1. CASE Accept
  <2>1. /\ Head(backlog) \in Clients /\ Tail(backlog) \in Seq(Clients)
        /\ Len(Tail(backlog)) = Len(backlog) - 1 /\ Len(backlog) \in Nat
    BY <1>1, TailOfQueue DEF Accept, OneConnection
  <2> QED
    BY <1>1, <2>1, ConstantsAssumption DEF Accept
<1>2. CASE ReadNothing
    BY <1>2 DEF ReadNothing
<1>3. CASE RejectRequest
    BY <1>3 DEF RejectRequest, ReadSome, LeaksOf
<1>4. CASE TakeRequest
  <2>1. backend' \in DOMAIN routes \cup {NoBackend}
    BY <1>4 DEF TakeRequest, BestBackend
  <2> QED
    BY <1>4, <2>1 DEF TakeRequest, ReadSome
<1>5. CASE ConnectFails
  <2>1. CutHost(routes, backend) \in Seq(Routes)
        /\ DOMAIN CutHost(routes, backend) = DOMAIN routes
    BY <1>5, CutHostType DEF ConnectFails
  <2> QED
    BY <1>5, <2>1 DEF ConnectFails
<1>6. CASE Connect
  <2>1. CutHost(routes, backend) \in Seq(Routes)
        /\ DOMAIN CutHost(routes, backend) = DOMAIN routes
    BY <1>6, CutHostType DEF Connect
  <2>2. DOMAIN request' = 1 .. MaxRequest
    BY <1>6 DEF Connect, Rebuild, Overwrite
  <2> QED
    BY <1>6, <2>1, <2>2 DEF Connect
<1>7. CASE ForwardFails
    BY <1>7 DEF ForwardFails, AfterSend
<1>8. CASE Forward
    BY <1>8 DEF Forward
<1>9. CASE Recv
    BY <1>9 DEF Recv
<1>10. CASE RecvEnds
    BY <1>10 DEF RecvEnds
<1>11. CASE RelaySend
    BY <1>11 DEF RelaySend
<1>12. CASE RelayFails
    BY <1>12 DEF RelayFails, NoReport, AfterSend
<1>13. CASE WriteError
    BY <1>13 DEF WriteError, AfterSend
<1>14. CASE Cleanup
    BY <1>14 DEF Cleanup, Closed, FreeRequest, CloseTarget
<1>15. ASSUME NEW c \in Clients, ClientConnect(c) PROVE TypeOK'
  <2>1. Append(backlog, c) \in Seq(Clients) /\ Len(Append(backlog, c)) = Len(backlog) + 1
        /\ Len(backlog) \in Nat
    OBVIOUS
  <2> QED
    BY <1>15, <2>1, ConstantsAssumption DEF ClientConnect
<1>16. ASSUME NEW c \in Clients, ClientSend(c) PROVE TypeOK'
    BY <1>16 DEF ClientSend
<1>17. ASSUME NEW c \in Clients, ClientClose(c) PROVE TypeOK'
    BY <1>17 DEF ClientClose
<1>18. ASSUME NEW c \in Clients, ClientReset(c) PROVE TypeOK'
    BY <1>18 DEF ClientReset
<1>19. ASSUME NEW c \in Clients, KernelDrops(c) PROVE TypeOK'
  <2>1. PICK k \in DOMAIN backlog : backlog[k] = c /\ backlog' = RemoveAt(backlog, k)
    BY <1>19 DEF KernelDrops
  <2>2. backlog' \in Seq(Clients) /\ Len(backlog') = Len(backlog) - 1 /\ Len(backlog) \in Nat
    BY <2>1, RemoveFromQueue DEF OneConnection
  <2> QED
    BY <1>19, <2>2, ConstantsAssumption DEF KernelDrops, Closed
<1>20. CASE BackendAnswer
    BY <1>20 DEF BackendAnswer
<1>21. CASE BackendSend
    BY <1>21 DEF BackendSend
<1>22. CASE BackendClose
    BY <1>22 DEF BackendClose
<1>23. CASE BackendFail
    BY <1>23 DEF BackendFail
<1>24. CASE UNCHANGED vars
    BY <1>24 DEF vars
<1> QED
    BY <1>1, <1>2, <1>3, <1>4, <1>5, <1>6, <1>7, <1>8, <1>9, <1>10, <1>11, <1>12, <1>13,
       <1>14, <1>15, <1>16, <1>17, <1>18, <1>19, <1>20, <1>21, <1>22, <1>23, <1>24
       DEF Next, ProxyStep, Environment

\* An action that leaves the accept queue, the links and targetfd alone.
LEMMA NoSocketMoves ==
    ASSUME OneConnection, UNCHANGED <<backlog, link, client_id>>,
           target = "none" => target' = "none", pc' = "accept" <=> pc = "accept"
    PROVE  OneConnection'
    BY DEF OneConnection, Open

LEMMA OneConnectionStep == IInv /\ [Next]_vars => OneConnection'
<1> SUFFICES ASSUME IInv, [Next]_vars PROVE OneConnection'
    OBVIOUS
<1>0. TypeOK /\ OneConnection /\ Survives
    BY DEF IInv
<1> USE DEF memory, sockets, backendConn
<1>1. CASE Accept
  <2>1. /\ pc = "accept" /\ backlog # <<>> /\ client_id' = Head(backlog)
        /\ backlog' = Tail(backlog) /\ link' = [link EXCEPT ![Head(backlog)] = "open"]
        /\ pc' = "read" /\ target' = target
    BY <1>1 DEF Accept
  <2>2. /\ Head(backlog) \in Clients /\ Head(backlog) \in ToSet(backlog)
        /\ ToSet(Tail(backlog)) = ToSet(backlog) \ {Head(backlog)} /\ IsInjective(Tail(backlog))
    BY <1>0, <2>1, TailOfQueue DEF TypeOK, OneConnection
  <2>3. \A c \in Clients : link'[c] = IF c = Head(backlog) THEN "open" ELSE link[c]
    BY <1>0, <2>1, <2>2 DEF TypeOK
  <2>4. Open' = {client_id'} \ {NoClient}
    BY <1>0, <2>1, <2>2, <2>3, ConstantsAssumption DEF Open, OneConnection
  <2>5. ToSet(backlog') = {c \in Clients : link'[c] = "queued"}
    BY <1>0, <2>1, <2>2, <2>3 DEF OneConnection
  <2>6. client_id' # NoClient
    BY <2>1, <2>2, ConstantsAssumption
  <2> QED
    BY <2>1, <2>2, <2>4, <2>5, <2>6 DEF OneConnection
<1>2. CASE ReadNothing
    BY <1>0, <1>2, NoSocketMoves DEF ReadNothing
<1>3. CASE RejectRequest
    BY <1>0, <1>3, NoSocketMoves DEF RejectRequest, ReadSome
<1>4. CASE TakeRequest
    BY <1>0, <1>4, NoSocketMoves DEF TakeRequest, ReadSome
<1>5. CASE ConnectFails
    BY <1>0, <1>5, NoSocketMoves DEF ConnectFails
<1>6. CASE Connect
    BY <1>0, <1>6 DEF Connect, OneConnection, Open
<1>7. CASE ForwardFails
    BY <1>0, <1>7, NoSocketMoves DEF ForwardFails, AfterSend
<1>8. CASE Forward
    BY <1>0, <1>8, NoSocketMoves DEF Forward
<1>9. CASE Recv
    BY <1>0, <1>9, NoSocketMoves DEF Recv
<1>10. CASE RecvEnds
    BY <1>0, <1>10, NoSocketMoves DEF RecvEnds
<1>11. CASE RelaySend
    BY <1>0, <1>11, NoSocketMoves DEF RelaySend
<1>12. CASE RelayFails
    BY <1>0, <1>12, NoSocketMoves DEF RelayFails, NoReport, AfterSend
<1>13. CASE WriteError
    BY <1>0, <1>13, NoSocketMoves DEF WriteError, AfterSend
<1>14. CASE Cleanup
  <2>1. /\ pc = "cleanup" /\ pc' = "accept" /\ client_id' = NoClient /\ target' = "none"
        /\ link' = [link EXCEPT ![client_id] = "closed"] /\ backlog' = backlog
    BY <1>14 DEF Cleanup, Closed, CloseTarget
  <2>2. client_id \in Clients
    BY <1>0, <2>1, Serving
  <2>3. \A c \in Clients : link'[c] = IF c = client_id THEN "closed" ELSE link[c]
    BY <1>0, <2>1, <2>2 DEF TypeOK
  <2>4. Open' = {}
    BY <1>0, <2>3 DEF Open, OneConnection
  <2>5. link[client_id] = "open"
    BY <1>0, <2>2, ConstantsAssumption DEF Open, OneConnection
  <2>6. ToSet(backlog') = {c \in Clients : link'[c] = "queued"}
    BY <1>0, <2>1, <2>3, <2>5 DEF OneConnection
  <2> QED
    BY <1>0, <2>1, <2>4, <2>6 DEF OneConnection
<1>15. ASSUME NEW c \in Clients, ClientConnect(c) PROVE OneConnection'
  <2>1. /\ link[c] = "closed" /\ backlog' = Append(backlog, c)
        /\ link' = [link EXCEPT ![c] = "queued"]
        /\ UNCHANGED <<pc, client_id, target>>
    BY <1>15 DEF ClientConnect
  <2>2. c \notin ToSet(backlog)
    BY <1>0, <2>1 DEF OneConnection
  <2>3. ToSet(backlog') = ToSet(backlog) \cup {c} /\ IsInjective(backlog')
    BY <1>0, <2>1, <2>2, AppendToQueue DEF TypeOK, OneConnection
  <2>4. \A d \in Clients : link'[d] = IF d = c THEN "queued" ELSE link[d]
    BY <1>0, <2>1 DEF TypeOK
  <2> QED
    BY <1>0, <2>1, <2>3, <2>4 DEF OneConnection, Open
<1>16. ASSUME NEW c \in Clients, ClientSend(c) PROVE OneConnection'
    BY <1>0, <1>16, NoSocketMoves DEF ClientSend
<1>17. ASSUME NEW c \in Clients, ClientClose(c) PROVE OneConnection'
    BY <1>0, <1>17, NoSocketMoves DEF ClientClose
<1>18. ASSUME NEW c \in Clients, ClientReset(c) PROVE OneConnection'
    BY <1>0, <1>18, NoSocketMoves DEF ClientReset
<1>19. ASSUME NEW c \in Clients, KernelDrops(c) PROVE OneConnection'
  <2>1. /\ link[c] = "queued" /\ link' = [link EXCEPT ![c] = "closed"]
        /\ UNCHANGED <<pc, client_id, target>>
    BY <1>19 DEF KernelDrops, Closed
  <2>2. PICK k \in DOMAIN backlog : backlog[k] = c /\ backlog' = RemoveAt(backlog, k)
    BY <1>19 DEF KernelDrops
  <2>3. ToSet(backlog') = ToSet(backlog) \ {c} /\ IsInjective(backlog')
    BY <1>0, <2>2, RemoveFromQueue DEF TypeOK, OneConnection
  <2>4. \A d \in Clients : link'[d] = IF d = c THEN "closed" ELSE link[d]
    BY <1>0, <2>1 DEF TypeOK
  <2> QED
    BY <1>0, <2>1, <2>3, <2>4 DEF OneConnection, Open
<1>20. CASE BackendAnswer
    BY <1>0, <1>20, NoSocketMoves DEF BackendAnswer
<1>21. CASE BackendSend
    BY <1>0, <1>21, NoSocketMoves DEF BackendSend
<1>22. CASE BackendClose
    BY <1>0, <1>22, NoSocketMoves DEF BackendClose
<1>23. CASE BackendFail
    BY <1>0, <1>23, NoSocketMoves DEF BackendFail
<1>24. CASE UNCHANGED vars
    BY <1>0, <1>24, NoSocketMoves DEF vars
<1> QED
    BY <1>1, <1>2, <1>3, <1>4, <1>5, <1>6, <1>7, <1>8, <1>9, <1>10, <1>11, <1>12, <1>13,
       <1>14, <1>15, <1>16, <1>17, <1>18, <1>19, <1>20, <1>21, <1>22, <1>23, <1>24
       DEF Next, ProxyStep, Environment

LEMMA SurvivesStep == IInv /\ [Next]_vars => Survives'
<1> SUFFICES ASSUME IInv, [Next]_vars PROVE Survives'
    OBVIOUS
<1> USE DEF IInv, Survives, memory, sockets, backendConn
<1>1. CASE ProxyStep
    BY <1>1 DEF ProxyStep, Accept, ReadNothing, RejectRequest, TakeRequest, ReadSome,
       ConnectFails, Connect, ForwardFails, Forward, Recv, RecvEnds, RelaySend, RelayFails,
       NoReport, WriteError, Cleanup, AfterSend
<1>2. CASE Environment
    BY <1>2 DEF Environment, ClientConnect, ClientSend, ClientClose, ClientReset,
       KernelDrops, BackendAnswer, BackendSend, BackendClose, BackendFail
<1>3. CASE UNCHANGED vars
    BY <1>3 DEF vars
<1> QED
    BY <1>1, <1>2, <1>3 DEF Next

\* A parsed request is a record with a path.
LEMMA ParsedIsRequest == \A text : Parse(text) # NoRequest
<1> TAKE text
<1>1. "path" \in DOMAIN Parse(text)
    BY DEF Parse
<1>2. "path" \notin DOMAIN NoRequest
    BY DEF NoRequest
<1> QED
    BY <1>1, <1>2

LEMMA LeakStep == IInv /\ [Next]_vars => OnlyRejectedRequestsLeak'
<1> SUFFICES ASSUME IInv, [Next]_vars PROVE OnlyRejectedRequestsLeak'
    OBVIOUS
<1> USE DEF IInv, OnlyRejectedRequestsLeak, memory, sockets, backendConn
<1>1. CASE RejectRequest
    BY <1>1 DEF RejectRequest, ReadSome, LeaksOf
<1>2. CASE TakeRequest
  <2>1. PICK text \in {CString(Received)} : req' = Parse(text)
    BY <1>2 DEF TakeRequest
  <2> QED
    BY <1>2, <2>1, ParsedIsRequest DEF TakeRequest
<1>3. CASE Cleanup
    BY <1>3 DEF Cleanup, FreeRequest
<1>4. CASE UNCHANGED <<heap, req>>
    BY <1>4
<1>5. ProxyStep => RejectRequest \/ TakeRequest \/ Cleanup \/ UNCHANGED <<heap, req>>
    BY DEF ProxyStep, Accept, ReadNothing, ConnectFails, Connect, ForwardFails, Forward,
       Recv, RecvEnds, RelaySend, RelayFails, WriteError
<1>6. Environment => UNCHANGED <<heap, req>>
    BY DEF Environment, ClientConnect, ClientSend, ClientClose, ClientReset,
       KernelDrops, BackendAnswer, BackendSend, BackendClose, BackendFail
<1>7. UNCHANGED vars => UNCHANGED <<heap, req>>
    BY DEF vars
<1> QED
    BY <1>1, <1>2, <1>3, <1>4, <1>5, <1>6, <1>7 DEF Next

LEMMA Inductive == Spec => []IInv
<1>1. IInv /\ [Next]_vars => IInv'
    BY TypeStep, OneConnectionStep, SurvivesStep, LeakStep DEF IInv
<1> QED
    BY <1>1, InitIInv, PTL DEF Spec

-----------------------------------------------------------------------------
\* What a backend has sent, and is not lost, is first what the client was sent,
\* then the chunk that relay_response holds, then what waits in the socket.
Token == ResponseTokens \cup {BadGateway, InternalError}
Stream == (got[client_id] \o chunk) \o pipe
PartOfResponse(s) == \E rest \in Seq(Token) : s \o rest \in Responses

RelayType ==
    /\ got \in [Clients -> Seq(Token)]
    /\ chunk \in Seq(Token) /\ pipe \in Seq(Token) /\ reply \in Seq(Token)

\* A client has nothing before main serves it, and nothing before main sends.
NothingYet ==
    /\ \A c \in Clients : link[c] # "open" => got[c] = <<>>
    /\ pc \in {"read", "connect", "forward", "error"} => got[client_id] = <<>>
    /\ pc = "send" <=> chunk # <<>>
    /\ pc = "error" => error # <<>>

Relaying == pc \in {"forward", "recv", "send"} =>
    /\ target # "none"
    /\ target = "reading" => Stream = <<>>
    /\ target = "answering" => Stream \o reply \in Responses
    /\ target \in {"fin", "rst"} => Stream = <<>> \/ PartOfResponse(Stream)

\* Why the relay of a request that was taken ends as it does, when the backend
\* does not fail and no send returns 0.
Unfailing == ~BackendFails /\ ~ZeroSends
RightError ==
    IF backend = NoBackend THEN error = <<BadGateway>>
    ELSE /\ error = <<InternalError>>
         /\ peer[client_id] = "up" => ~RebuildOK(RebuiltHead(req, client_id), req.body)
\* relay_response changes nothing: the whole answer is what the backend sent.
AnsweredVerbatim ==
    pc = "cleanup" /\ peer[client_id] = "up" =>
        IF req = NoRequest THEN got[client_id] = <<>>
        ELSE IF backend = NoBackend THEN got[client_id] = <<BadGateway>>
        ELSE IF ~RebuildOK(RebuiltHead(req, client_id), req.body)
             THEN got[client_id] = <<InternalError>>
        ELSE got[client_id] \in Responses
Explained ==
    /\ pc \in {"accept", "read"} => req = NoRequest
    /\ pc \in {"connect", "forward", "recv", "send", "error"} => req # NoRequest
    /\ pc = "error" => RightError
    /\ pc \in {"forward", "recv", "send"} =>
          /\ backend # NoBackend
          /\ target # "rst"
          /\ peer[client_id] = "up" => RebuildOK(RebuiltHead(req, client_id), req.body)
          /\ target = "fin" => Stream \in Responses
    /\ AnsweredVerbatim
Outcome == Unfailing => Explained

RelayInv == RelayType /\ NothingYet /\ Relaying /\ Outcome

RInv == IInv /\ RelayInv

LEMMA InitRelay == Init => RelayInv
<1> SUFFICES ASSUME Init PROVE RelayInv
    OBVIOUS
<1>1. RelayType
    BY DEF RelayType, Init
<1>2. NothingYet /\ Relaying /\ Outcome
    BY DEF NothingYet, Relaying, Outcome, Explained, AnsweredVerbatim, Init
<1> QED
    BY <1>1, <1>2 DEF RelayInv

\* What main holds while it is not in accept.
LEMMA Served == IInv /\ pc # "accept" => client_id \in Clients /\ link[client_id] = "open"
    BY ConstantsAssumption DEF IInv, OneConnection, Open

\* One call of recv takes a part of what has arrived, and something.
LEMMA RecvTakes ==
    ASSUME RelayType, pipe # <<>>
    PROVE  Min({RelaySize, Len(pipe)}) \in 1 .. Len(pipe)
<1>1. Len(pipe) \in Nat \ {0} /\ RelaySize \in Nat \ {0}
    BY ConstantsAssumption DEF RelayType
<1> QED
    BY <1>1, MinOfTwo

\* Of what is left to send, send takes a part.
LEMMA SendTakes ==
    ASSUME NEW S, NEW s \in Seq(S), s # <<>>, NEW n \in Amounts(Len(s)) \ {0}
    PROVE  n \in 1 .. Len(s)
<1>1. Len(s) \in Nat \ {0}
    OBVIOUS
<1> QED
    BY <1>1 DEF Amounts

\* An error response is one token.
LEMMA ErrorType == TypeOK => error \in Seq(Token)
<1>1. BadGateway \in Token /\ InternalError \in Token
    BY DEF Token
<1>2. <<>> \in Seq(Token) /\ <<BadGateway>> \in Seq(Token) /\ <<InternalError>> \in Seq(Token)
    BY <1>1
<1>3. TypeOK => error = <<>> \/ error = <<BadGateway>> \/ error = <<InternalError>>
    BY DEF TypeOK
<1> QED
    BY <1>2, <1>3

LEMMA RelayTypeStep == RInv /\ [Next]_vars => RelayType'
<1> SUFFICES ASSUME RInv, [Next]_vars PROVE RelayType'
    OBVIOUS
<1>0. IInv /\ RelayType /\ NothingYet /\ TypeOK
    BY DEF RInv, IInv, RelayInv
<1>a. got \in [Clients -> Seq(Token)] /\ chunk \in Seq(Token) /\ pipe \in Seq(Token)
      /\ reply \in Seq(Token) /\ <<>> \in Seq(Token)
    BY <1>0 DEF RelayType
<1> USE DEF memory, sockets, backendConn
<1>1. CASE Connect
    BY <1>1, <1>a DEF Connect, RelayType
<1>2. CASE Recv
  <2>1. Min({RelaySize, Len(pipe)}) \in 0 .. Len(pipe)
    BY <1>0, <1>2, RecvTakes DEF Recv
  <2>2. chunk' \in Seq(Token) /\ pipe' \in Seq(Token)
    BY <1>2, <1>a, <2>1, CutInTwo DEF Recv
  <2> QED
    BY <1>2, <1>a, <2>2 DEF Recv, RelayType
<1>3. CASE RelaySend
  <2>1. PICK n \in Amounts(Len(chunk)) \ {0} :
            /\ got' = [got EXCEPT ![client_id] = @ \o SubSeq(chunk, 1, n)]
            /\ chunk' = RestAfter(chunk, n)
    BY <1>3 DEF RelaySend
  <2>2. chunk # <<>> /\ client_id \in Clients
    BY <1>0, <1>3, Served DEF RelaySend, NothingYet
  <2>3. n \in 0 .. Len(chunk)
    BY <1>a, <2>2, SendTakes
  <2>4. SubSeq(chunk, 1, n) \in Seq(Token) /\ chunk' \in Seq(Token)
    BY <1>a, <2>1, <2>3, CutInTwo DEF RestAfter
  <2>5. got[client_id] \o SubSeq(chunk, 1, n) \in Seq(Token)
    BY <1>a, <2>2, <2>4, ConcatProperties
  <2> QED
    BY <1>3, <1>a, <2>1, <2>4, <2>5 DEF RelaySend, RelayType
<1>4. CASE RelayFails
    BY <1>4, <1>a DEF RelayFails, NoReport, RelayType
<1>5. CASE WriteError
  <2>1. client_id \in Clients /\ error \in Seq(Token)
    BY <1>0, <1>5, Served, ErrorType DEF WriteError
  <2>2. got[client_id] \o error \in Seq(Token)
    BY <1>a, <2>1, ConcatProperties
  <2> QED
    BY <1>5, <1>a, <2>2 DEF WriteError, RelayType
<1>6. CASE Cleanup
    BY <1>6, <1>a DEF Cleanup, Closed, RelayType
<1>7. ASSUME NEW c \in Clients, KernelDrops(c) PROVE RelayType'
    BY <1>7, <1>a DEF KernelDrops, Closed, RelayType
<1>8. CASE BackendAnswer
  <2>1. reply' \in Seq(ResponseTokens)
    BY <1>8, TextsAssumption DEF BackendAnswer
  <2>2. reply' \in Seq(Token)
    BY <2>1, SeqMonotonic DEF Token
  <2> QED
    BY <1>8, <1>a, <2>2 DEF BackendAnswer, RelayType
<1>9. CASE BackendSend
  <2>1. PICK n \in {1, Len(reply)} :
            pipe' = pipe \o SubSeq(reply, 1, n) /\ reply' = From(reply, n + 1)
    BY <1>9 DEF BackendSend
  <2>2. reply # <<>>
    BY <1>9 DEF BackendSend
  <2>3. n \in 0 .. Len(reply)
    BY <1>a, <2>2
  <2>4. SubSeq(reply, 1, n) \in Seq(Token) /\ reply' \in Seq(Token)
    BY <1>a, <2>1, <2>3, CutInTwo
  <2>5. pipe' \in Seq(Token)
    BY <1>a, <2>1, <2>4, ConcatProperties
  <2> QED
    BY <1>9, <1>a, <2>4, <2>5 DEF BackendSend, RelayType
<1>10. CASE BackendFail
    BY <1>10, <1>a DEF BackendFail, RelayType
<1>11. CASE UNCHANGED <<got, chunk, pipe, reply>>
    BY <1>11, <1>a DEF RelayType
<1>12. Accept \/ ReadNothing \/ RejectRequest \/ TakeRequest \/ ConnectFails \/ ForwardFails
       \/ Forward \/ RecvEnds => UNCHANGED <<got, chunk, pipe, reply>>
    BY DEF Accept, ReadNothing, RejectRequest, TakeRequest, ReadSome, ConnectFails,
       ForwardFails, Forward, RecvEnds
<1>13. \A c \in Clients : ClientConnect(c) \/ ClientSend(c) \/ ClientClose(c) \/ ClientReset(c)
            => UNCHANGED <<got, chunk, pipe, reply>>
    BY DEF ClientConnect, ClientSend, ClientClose, ClientReset
<1>14. BackendClose \/ UNCHANGED vars => UNCHANGED <<got, chunk, pipe, reply>>
    BY DEF BackendClose, vars
<1> QED
    BY <1>1, <1>2, <1>3, <1>4, <1>5, <1>6, <1>7, <1>8, <1>9, <1>10, <1>11, <1>12, <1>13, <1>14
       DEF Next, ProxyStep, Environment

LEMMA NothingYetStep == RInv /\ [Next]_vars => NothingYet'
<1> SUFFICES ASSUME RInv, [Next]_vars PROVE NothingYet'
    OBVIOUS
<1>0. IInv /\ RelayType /\ NothingYet /\ TypeOK
    BY DEF RInv, IInv, RelayInv
<1>a. /\ got \in [Clients -> Seq(Token)] /\ link \in [Clients -> {"closed", "queued", "open"}]
      /\ chunk \in Seq(Token)
      /\ \A c \in Clients : link[c] # "open" => got[c] = <<>>
      /\ pc \in {"read", "connect", "forward", "error"} => got[client_id] = <<>>
      /\ pc = "send" <=> chunk # <<>>
      /\ pc = "error" => error # <<>>
      /\ pc # "accept" => client_id \in Clients /\ link[client_id] = "open"
    BY <1>0, Served DEF RelayType, NothingYet, TypeOK
<1> USE DEF memory, sockets, backendConn, NothingYet
<1>1. CASE Accept
  <2>1. Head(backlog) \in Clients /\ link[Head(backlog)] = "queued"
    <3>1. Head(backlog) \in ToSet(backlog)
      BY <1>0, <1>1, TailOfQueue DEF Accept, TypeOK, IInv, OneConnection
    <3> QED
      BY <1>0, <3>1 DEF IInv, OneConnection
  <2>2. got[Head(backlog)] = <<>>
    BY <1>a, <2>1
  <2> QED
    BY <1>1, <1>a, <2>1, <2>2 DEF Accept
<1>2. CASE ReadNothing
    BY <1>2, <1>a DEF ReadNothing
<1>3. CASE RejectRequest
    BY <1>3, <1>a DEF RejectRequest, ReadSome
<1>4. CASE TakeRequest
  <2>1. /\ pc = "read" /\ pc' \in {"error", "connect"}
        /\ pc' = "error" => error' # <<>>
        /\ UNCHANGED <<client_id, got, link, chunk>>
    BY <1>4 DEF TakeRequest, ReadSome
  <2> QED
    BY <1>a, <2>1
<1>5. CASE ConnectFails
    BY <1>5, <1>a DEF ConnectFails
<1>6. CASE Connect
  <2>1. /\ pc = "connect" /\ pc' \in {"error", "forward"}
        /\ pc' = "error" => error' # <<>>
        /\ UNCHANGED <<client_id, got, link, chunk>>
    BY <1>6 DEF Connect
  <2> QED
    BY <1>a, <2>1
<1>7. CASE ForwardFails
    BY <1>0, <1>7, <1>a DEF ForwardFails, AfterSend, IInv, Survives
<1>8. CASE Forward
    BY <1>8, <1>a DEF Forward
<1>9. CASE Recv
  <2>1. Min({RelaySize, Len(pipe)}) \in 1 .. Len(pipe)
    BY <1>0, <1>9, RecvTakes DEF Recv
  <2>2. Len(chunk') = Min({RelaySize, Len(pipe)}) /\ Len(chunk') # 0
    BY <1>0, <1>9, <2>1, CutInTwo DEF Recv, RelayType
  <2>3. chunk' # <<>>
    BY <2>2
  <2> QED
    BY <1>9, <1>a, <2>3 DEF Recv
<1>10. CASE RecvEnds
    BY <1>10, <1>a DEF RecvEnds
<1>11. CASE RelaySend
    BY <1>11, <1>a DEF RelaySend
<1>12. CASE RelayFails
    BY <1>0, <1>12, <1>a DEF RelayFails, NoReport, AfterSend, IInv, Survives
<1>13. CASE WriteError
    BY <1>0, <1>13, <1>a DEF WriteError, AfterSend, IInv, Survives
<1>14. CASE Cleanup
    BY <1>14, <1>a DEF Cleanup, Closed
<1>15. ASSUME NEW c \in Clients, ClientConnect(c) PROVE NothingYet'
    BY <1>15, <1>a DEF ClientConnect
<1>16. ASSUME NEW c \in Clients, KernelDrops(c) PROVE NothingYet'
    BY <1>16, <1>a DEF KernelDrops, Closed
<1>17. CASE UNCHANGED <<pc, client_id, got, link, chunk, error>>
    BY <1>17, <1>a
<1>18. \A c \in Clients : ClientSend(c) \/ ClientClose(c) \/ ClientReset(c)
            => UNCHANGED <<pc, client_id, got, link, chunk, error>>
    BY DEF ClientSend, ClientClose, ClientReset
<1>19. BackendAnswer \/ BackendSend \/ BackendClose \/ BackendFail \/ UNCHANGED vars
            => UNCHANGED <<pc, client_id, got, link, chunk, error>>
    BY DEF BackendAnswer, BackendSend, BackendClose, BackendFail, vars
<1> QED
    BY <1>1, <1>2, <1>3, <1>4, <1>5, <1>6, <1>7, <1>8, <1>9, <1>10, <1>11, <1>12, <1>13,
       <1>14, <1>15, <1>16, <1>17, <1>18, <1>19 DEF Next, ProxyStep, Environment

LEMMA Regroup ==
    \A s, t, u \in Seq(Token) : (s \o t) \o u = s \o (t \o u)
    BY ConcatAssociative

\* A step of the relay that neither the backend nor the stream notices.
LEMMA SameStream ==
    ASSUME Relaying, Stream' = Stream, UNCHANGED <<target, reply>>,
           pc \in {"forward", "recv", "send"}
    PROVE  Relaying'
    BY DEF Relaying, PartOfResponse

\* The two steps of relay_response that move a part of the stream on.
LEMMA RecvKeepsStream == RInv /\ Recv => Stream' = Stream
<1> SUFFICES ASSUME RInv, Recv PROVE Stream' = Stream
    OBVIOUS
<1>0. IInv /\ RelayType /\ NothingYet
    BY DEF RInv, RelayInv
<1> DEFINE n == Min({RelaySize, Len(pipe)})
           g == got[client_id]
<1>1. /\ pipe # <<>> /\ chunk' = SubSeq(pipe, 1, n) /\ pipe' = From(pipe, n + 1)
      /\ chunk = <<>> /\ g' = g /\ client_id \in Clients
    BY <1>0, Served DEF Recv, sockets, NothingYet
<1>2. g \in Seq(Token) /\ pipe \in Seq(Token) /\ n \in 0 .. Len(pipe)
    BY <1>0, <1>1, RecvTakes DEF RelayType
<1> HIDE DEF n, g
<1>3. chunk' \in Seq(Token) /\ pipe' \in Seq(Token) /\ chunk' \o pipe' = pipe
    BY <1>1, <1>2, CutInTwo
<1>4. (g \o chunk') \o pipe' = g \o pipe
    BY <1>2, <1>3, Regroup
<1>5. (g \o chunk) \o pipe = g \o pipe
    BY <1>1, <1>2, ConcatEmptySeq
<1> QED
    BY <1>1, <1>4, <1>5 DEF Stream, g

LEMMA RelaySendKeepsStream == RInv /\ RelaySend => Stream' = Stream
<1> SUFFICES ASSUME RInv, RelaySend PROVE Stream' = Stream
    OBVIOUS
<1>0. IInv /\ RelayType /\ NothingYet
    BY DEF RInv, RelayInv
<1>1. PICK n \in Amounts(Len(chunk)) \ {0} :
          /\ got' = [got EXCEPT ![client_id] = @ \o SubSeq(chunk, 1, n)]
          /\ chunk' = RestAfter(chunk, n)
    BY DEF RelaySend
<1> DEFINE g == got[client_id]
           part == SubSeq(chunk, 1, n)
<1>2. client_id \in Clients /\ client_id' = client_id /\ pipe' = pipe /\ chunk # <<>>
    BY <1>0, Served DEF RelaySend, NothingYet, backendConn
<1>3. g' = g \o part
    BY <1>0, <1>1, <1>2 DEF RelayType
<1>4. g \in Seq(Token) /\ chunk \in Seq(Token) /\ pipe \in Seq(Token)
    BY <1>0, <1>2 DEF RelayType
<1>5. n \in 0 .. Len(chunk)
    BY <1>2, <1>4, SendTakes
<1>6. part \in Seq(Token) /\ chunk' \in Seq(Token) /\ part \o chunk' = chunk
    BY <1>1, <1>4, <1>5, CutInTwo DEF RestAfter
<1> HIDE DEF g, part
<1>7. (g \o part) \o chunk' = g \o chunk
  <2>1. g \in Seq(Token) /\ part \in Seq(Token) /\ chunk' \in Seq(Token)
    BY <1>4, <1>6
  <2>2. (g \o part) \o chunk' = g \o (part \o chunk')
    BY <2>1, Regroup
  <2> QED
    BY <1>6, <2>2
<1> QED
    BY <1>2, <1>3, <1>7 DEF Stream, g

\* The step of the backend that moves a part of its response on.
LEMMA BackendSendMoves ==
    RInv /\ pc # "accept" /\ BackendSend => Stream' \o reply' = Stream \o reply
<1> SUFFICES ASSUME RInv, pc # "accept", BackendSend PROVE Stream' \o reply' = Stream \o reply
    OBVIOUS
<1>0. IInv /\ RelayType
    BY DEF RInv, RelayInv
<1>1. PICK n \in {1, Len(reply)} :
          pipe' = pipe \o SubSeq(reply, 1, n) /\ reply' = From(reply, n + 1)
    BY DEF BackendSend
<1> DEFINE h == got[client_id] \o chunk
           part == SubSeq(reply, 1, n)
<1>2. h' = h /\ reply # <<>>
    BY DEF BackendSend, memory, sockets
<1>3. reply \in Seq(Token) /\ pipe \in Seq(Token) /\ chunk \in Seq(Token)
      /\ got[client_id] \in Seq(Token)
    BY <1>0, Served DEF RelayType
<1>4. h \in Seq(Token)
    BY <1>3, ConcatProperties
<1>5. n \in 0 .. Len(reply)
    BY <1>2, <1>3
<1>6. part \in Seq(Token) /\ reply' \in Seq(Token) /\ part \o reply' = reply
    BY <1>1, <1>3, <1>5, CutInTwo
<1> HIDE DEF h, part
<1>7. pipe' = pipe \o part
    BY <1>1 DEF part
<1>8. h \o pipe \in Seq(Token)
    BY <1>3, <1>4, ConcatProperties
<1>9. (h \o (pipe \o part)) \o reply' = ((h \o pipe) \o part) \o reply'
    BY <1>3, <1>4, <1>6, Regroup, ZenonT(30)
<1>10. ((h \o pipe) \o part) \o reply' = (h \o pipe) \o reply
    BY <1>6, <1>8, Regroup
<1>11. Stream = h \o pipe /\ Stream' = h \o (pipe \o part)
    BY <1>2, <1>7 DEF Stream, h
<1> QED
    BY <1>9, <1>10, <1>11

\* The stream to a client is a text.
LEMMA StreamType == RInv /\ pc # "accept" => Stream \in Seq(Token)
<1> SUFFICES ASSUME RInv, pc # "accept" PROVE Stream \in Seq(Token)
    OBVIOUS
<1>1. got[client_id] \in Seq(Token) /\ chunk \in Seq(Token) /\ pipe \in Seq(Token)
    BY Served DEF RInv, RelayInv, RelayType
<1>2. got[client_id] \o chunk \in Seq(Token)
    BY <1>1, ConcatProperties
<1> QED
    BY <1>1, <1>2, ConcatProperties DEF Stream

LEMMA RelayingStep == RInv /\ [Next]_vars => Relaying'
<1> SUFFICES ASSUME RInv, [Next]_vars PROVE Relaying'
    OBVIOUS
<1>0. IInv /\ RelayType /\ NothingYet /\ Relaying /\ TypeOK
    BY DEF RInv, IInv, RelayInv
<1> DEFINE Engaged == pc \in {"forward", "recv", "send"}
<1>a. Engaged' \/ Relaying'
    BY DEF Relaying
<1> USE DEF memory, sockets, backendConn
<1>1. CASE Connect
  <2>1. pc = "connect" /\ got' = got /\ client_id' = client_id /\ chunk' = chunk
        /\ pipe' = <<>> /\ target' = "reading"
    BY <1>1 DEF Connect
  <2>2. got[client_id] = <<>> /\ chunk = <<>>
    BY <1>0, <2>1 DEF NothingYet
  <2>3. Stream' = <<>>
    BY <2>1, <2>2 DEF Stream
  <2> QED
    BY <2>1, <2>3 DEF Relaying
<1>2. CASE Recv
    BY <1>0, <1>2, RecvKeepsStream, SameStream DEF Recv
<1>3. CASE RelaySend
    BY <1>0, <1>3, RelaySendKeepsStream, SameStream DEF RelaySend
<1>4. CASE Forward
    BY <1>0, <1>4, SameStream DEF Forward, Stream
<1>5. CASE ~Engaged'
    BY <1>5, <1>a
<1>6. Accept \/ ReadNothing \/ RejectRequest \/ TakeRequest \/ ConnectFails \/ ForwardFails
       \/ RecvEnds \/ RelayFails \/ WriteError \/ Cleanup => ~Engaged'
    BY DEF Accept, ReadNothing, RejectRequest, TakeRequest, ConnectFails, ForwardFails,
       RecvEnds, RelayFails, NoReport, WriteError, Cleanup, AfterSend
<1>7. CASE UNCHANGED <<pc, got, client_id, chunk, backendConn>>
    BY <1>0, <1>7, <1>a, SameStream DEF Stream
<1>8. \A c \in Clients : ClientConnect(c) \/ ClientSend(c) \/ ClientClose(c) \/ ClientReset(c)
            => UNCHANGED <<pc, got, client_id, chunk, backendConn>>
    BY DEF ClientConnect, ClientSend, ClientClose, ClientReset
<1>9. UNCHANGED vars => UNCHANGED <<pc, got, client_id, chunk, backendConn>>
    BY DEF vars
<1>10. ASSUME NEW c \in Clients, KernelDrops(c), Engaged' PROVE Relaying'
  <2>1. UNCHANGED <<pc, client_id, chunk, backendConn>> /\ link[c] = "queued"
        /\ got' = [got EXCEPT ![c] = <<>>]
    BY <1>10 DEF KernelDrops, Closed
  <2>2. link[client_id] = "open" /\ client_id \in Clients /\ Engaged
    BY <1>0, <1>10, <2>1, Served
  <2>3. got'[client_id] = got[client_id]
    BY <1>0, <2>1, <2>2 DEF RelayType
  <2>4. Stream' = Stream
    BY <2>1, <2>3 DEF Stream
  <2> QED
    BY <1>0, <2>1, <2>2, <2>4, SameStream
<1>11. ASSUME BackendAnswer \/ BackendSend \/ BackendClose \/ BackendFail, Engaged'
       PROVE  Relaying'
  <2>1. Engaged /\ UNCHANGED <<memory, sockets>>
    BY <1>11 DEF BackendAnswer, BackendSend, BackendClose, BackendFail
  <2>2. Stream \in Seq(Token) /\ reply \in Seq(Token)
    BY <1>0, <2>1, StreamType DEF RelayType
  <2>3. CASE BackendAnswer
    <3>1. Stream = <<>> /\ Stream' = Stream /\ target' = "answering" /\ reply' \in Responses
      BY <1>0, <2>1, <2>3 DEF BackendAnswer, Relaying, Stream
    <3>2. reply' \in Seq(ResponseTokens)
      BY <3>1, TextsAssumption
    <3>3. Stream' \o reply' = reply'
      BY <3>1, <3>2, ConcatEmptySeq
    <3> QED
      BY <3>1, <3>3 DEF Relaying
  <2>4. CASE BackendSend
    <3>1. target = "answering" /\ target' = "answering"
      BY <2>4 DEF BackendSend
    <3>2. Stream \o reply \in Responses
      BY <1>0, <2>1, <3>1 DEF Relaying
    <3>3. Stream' \o reply' = Stream \o reply
      BY <2>1, <2>4, BackendSendMoves
    <3> QED
      BY <3>1, <3>2, <3>3 DEF Relaying
  <2>5. CASE BackendClose
    <3>1. target = "answering" /\ reply = <<>> /\ target' = "fin" /\ Stream' = Stream
      BY <2>5 DEF BackendClose, Stream
    <3>2. Stream \o <<>> \in Responses
      BY <1>0, <2>1, <3>1 DEF Relaying
    <3>3. PartOfResponse(Stream')
      <4>1. <<>> \in Seq(Token) /\ Stream' \o <<>> \in Responses
        BY <3>1, <3>2
      <4> QED
        BY <4>1 DEF PartOfResponse
    <3> QED
      BY <3>1, <3>3 DEF Relaying
  <2>6. CASE BackendFail
    <3>1. /\ target \in {"reading", "answering", "fin"} /\ target' \in {"fin", "rst"}
          /\ Stream' = Stream
      BY <2>6 DEF BackendFail, Stream
    <3>2. Stream = <<>> \/ PartOfResponse(Stream)
      BY <1>0, <2>1, <2>2, <3>1 DEF Relaying, PartOfResponse
    <3>3. Stream' = <<>> \/ PartOfResponse(Stream')
      BY <3>1, <3>2
    <3> QED
      BY <3>1, <3>3 DEF Relaying
  <2> QED
    BY <1>11, <2>3, <2>4, <2>5, <2>6
<1> QED
    BY <1>1, <1>2, <1>3, <1>4, <1>5, <1>6, <1>7, <1>8, <1>9, <1>10, <1>11
       DEF Next, ProxyStep, Environment

\* A step that changes none of what Explained speaks of, except that a client
\* that was up may close or be reset.
LEMMA StillExplained ==
    ASSUME Explained,
           UNCHANGED <<pc, req, backend, error, client_id, got, chunk, pipe, target>>,
           pc # "accept" /\ peer'[client_id] = "up" => peer[client_id] = "up"
    PROVE  Explained'
<1>1. AnsweredVerbatim'
    BY DEF Explained, AnsweredVerbatim
<1>2. Stream' = Stream
    BY DEF Stream
<1>3. pc' = "error" => RightError'
    BY DEF Explained, RightError
<1> QED
    BY <1>1, <1>2, <1>3 DEF Explained

LEMMA OutcomeStep == RInv /\ [Next]_vars => Outcome'
<1> SUFFICES ASSUME RInv, [Next]_vars, Unfailing PROVE Explained'
    BY DEF Outcome, Unfailing
<1>0. IInv /\ RelayType /\ NothingYet /\ Relaying /\ TypeOK /\ Explained /\ Survives
    BY DEF RInv, IInv, RelayInv, Outcome
<1>a. pc # "accept" => client_id \in Clients /\ link[client_id] = "open"
    BY <1>0, Served
<1>b. ~BackendFails /\ ~ZeroSends
    BY DEF Unfailing
<1> USE DEF memory, sockets, backendConn
<1>1. CASE Accept
    BY <1>0, <1>1 DEF Accept, Explained, AnsweredVerbatim
<1>2. CASE ReadNothing
  <2>1. pc' = "cleanup" /\ peer'[client_id'] # "up"
    BY <1>2 DEF ReadNothing
  <2> QED
    BY <2>1 DEF Explained, AnsweredVerbatim
<1>3. CASE RejectRequest
  <2>1. pc = "read" /\ pc' = "cleanup" /\ UNCHANGED <<req, got, client_id>>
    BY <1>3 DEF RejectRequest, ReadSome
  <2>2. req' = NoRequest /\ got'[client_id'] = <<>>
    BY <1>0, <2>1 DEF Explained, NothingYet
  <2> QED
    BY <2>1, <2>2 DEF Explained, AnsweredVerbatim
<1>4. CASE TakeRequest
  <2>1. \/ pc' = "error" /\ backend' = NoBackend /\ error' = <<BadGateway>>
        \/ pc' = "connect"
    BY <1>4 DEF TakeRequest
  <2>2. PICK text \in {CString(Received)} : req' = Parse(text)
    BY <1>4 DEF TakeRequest
  <2>3. req' # NoRequest
    BY <2>2, ParsedIsRequest
  <2> QED
    BY <2>1, <2>3 DEF Explained, AnsweredVerbatim, RightError
<1>5. CASE ConnectFails
    BY <1>b, <1>5 DEF ConnectFails
<1>6. CASE Connect
  <2>1. /\ pc = "connect" /\ target' = "reading"
        /\ UNCHANGED <<client_id, req, backend, peer>>
    BY <1>6 DEF Connect
  <2>2. IF RebuildOK(RebuiltHead(req, ClientIp), req.body)
        THEN pc' = "forward" ELSE pc' = "error" /\ error' = <<InternalError>>
    BY <1>6 DEF Connect
  <2>3. req # NoRequest /\ backend # NoBackend
    BY <1>0, <2>1 DEF Explained, TypeOK
  <2>4. peer[client_id] = "up" => ClientIp = client_id
    BY DEF ClientIp
  <2>5. CASE RebuildOK(RebuiltHead(req, ClientIp), req.body)
    BY <2>1, <2>2, <2>3, <2>4, <2>5 DEF Explained, AnsweredVerbatim
  <2>6. CASE ~RebuildOK(RebuiltHead(req, ClientIp), req.body)
    <3>1. peer'[client_id'] = "up" => ~RebuildOK(RebuiltHead(req', client_id'), req'.body)
      BY <2>1, <2>4, <2>6
    <3>2. RightError'
      BY <2>1, <2>2, <2>3, <2>6, <3>1 DEF RightError
    <3> QED
      BY <2>1, <2>2, <2>3, <2>6, <3>2 DEF Explained, AnsweredVerbatim
  <2> QED
    BY <2>5, <2>6
<1>7. CASE ForwardFails
    BY <1>0, <1>7 DEF ForwardFails, Explained
<1>8. CASE Forward
  <2>1. /\ pc = "forward" /\ pc' \in {"forward", "recv"}
        /\ UNCHANGED <<client_id, req, backend, peer, got, chunk, pipe, target>>
    BY <1>8 DEF Forward
  <2>2. Stream' = Stream
    BY <2>1 DEF Stream
  <2> QED
    BY <1>0, <2>1, <2>2 DEF Explained, AnsweredVerbatim
<1>9. CASE Recv
  <2>1. Stream' = Stream
    BY <1>9, RecvKeepsStream
  <2> QED
    BY <1>0, <1>9, <2>1 DEF Recv, Explained, AnsweredVerbatim
<1>10. CASE RecvEnds
  <2>1. /\ pc = "recv" /\ pc' = "cleanup" /\ target = "fin" /\ pipe = <<>>
        /\ UNCHANGED <<client_id, req, backend, peer, got>>
    BY <1>0, <1>10 DEF RecvEnds, Drained, Explained
  <2>2. chunk = <<>> /\ got[client_id] \in Seq(Token)
    BY <1>0, <1>a, <2>1 DEF NothingYet, RelayType
  <2>3. Stream = got[client_id]
    BY <2>1, <2>2, ConcatEmptySeq DEF Stream
  <2>4. got[client_id] \in Responses
    BY <1>0, <2>1, <2>3 DEF Explained
  <2> QED
    BY <1>0, <2>1, <2>4 DEF Explained, AnsweredVerbatim
<1>11. CASE RelaySend
  <2>1. Stream' = Stream
    BY <1>11, RelaySendKeepsStream
  <2> QED
    BY <1>0, <1>11, <2>1 DEF RelaySend, Explained, AnsweredVerbatim
<1>12. CASE RelayFails
  <2>1. pc' = "cleanup" /\ peer'[client_id'] # "up"
    BY <1>0, <1>b, <1>12 DEF RelayFails, NoReport, AfterSend, Survives
  <2> QED
    BY <2>1 DEF Explained, AnsweredVerbatim
<1>13. CASE WriteError
  <2>1. pc = "error" /\ pc' = "cleanup" /\ UNCHANGED <<client_id, req, backend, peer>>
    BY <1>0, <1>13 DEF WriteError, AfterSend, Survives
  <2>2. RightError /\ req # NoRequest /\ got[client_id] = <<>> /\ error \in Seq(Token)
    BY <1>0, <2>1, ErrorType DEF Explained, NothingYet
  <2>3. peer[client_id] = "up" => got'[client_id] = error
    <3>1. peer[client_id] = "up" => got' = [got EXCEPT ![client_id] = @ \o error]
      BY <1>13 DEF WriteError
    <3>2. <<>> \o error = error
      BY <2>2, ConcatEmptySeq
    <3> QED
      BY <1>0, <1>a, <2>1, <2>2, <3>1, <3>2 DEF RelayType
  <2> QED
    BY <2>1, <2>2, <2>3 DEF Explained, AnsweredVerbatim, RightError
<1>14. CASE Cleanup
    BY <1>14 DEF Cleanup, Explained, AnsweredVerbatim
<1>15. ASSUME NEW c \in Clients, ClientConnect(c) PROVE Explained'
    BY <1>0, <1>15, StillExplained DEF ClientConnect
<1>16. ASSUME NEW c \in Clients, ClientSend(c) PROVE Explained'
    BY <1>0, <1>16, StillExplained DEF ClientSend
<1>17. ASSUME NEW c \in Clients, ClientClose(c) \/ ClientReset(c) PROVE Explained'
  <2>1. peer' \in {[peer EXCEPT ![c] = "fin"], [peer EXCEPT ![c] = "rst"]}
    BY <1>17 DEF ClientClose, ClientReset
  <2>2. \A d \in Clients : peer'[d] = "up" => peer[d] = "up"
    BY <1>0, <2>1 DEF TypeOK
  <2> QED
    BY <1>0, <1>a, <1>17, <2>2, StillExplained DEF ClientClose, ClientReset
<1>18. ASSUME NEW c \in Clients, KernelDrops(c) PROVE Explained'
  <2>1. /\ link[c] = "queued" /\ peer' = [peer EXCEPT ![c] = "up"]
        /\ got' = [got EXCEPT ![c] = <<>>] /\ UNCHANGED <<memory, backendConn>>
    BY <1>18 DEF KernelDrops, Closed
  <2>2. got' = got
    BY <1>0, <2>1 DEF RelayType, NothingYet
  <2>3. pc # "accept" => peer'[client_id] = peer[client_id]
    BY <1>0, <1>a, <2>1 DEF TypeOK
  <2> QED
    BY <1>0, <2>1, <2>2, <2>3, StillExplained
<1>19. CASE BackendAnswer
  <2>1. target' = "answering" /\ UNCHANGED <<memory, sockets>>
    BY <1>19 DEF BackendAnswer
  <2> QED
    BY <1>0, <2>1 DEF Explained, AnsweredVerbatim, RightError
<1>20. CASE BackendSend
  <2>1. target = "answering" /\ target' = "answering" /\ UNCHANGED <<memory, sockets>>
    BY <1>20 DEF BackendSend
  <2> QED
    BY <1>0, <2>1 DEF Explained, AnsweredVerbatim, RightError
<1>21. CASE BackendClose
  <2>1. target = "answering" /\ reply = <<>> /\ target' = "fin" /\ pipe' = pipe
        /\ UNCHANGED <<memory, sockets>>
    BY <1>21 DEF BackendClose
  <2>2. ASSUME pc \in {"forward", "recv", "send"} PROVE Stream' \in Responses
    <3>1. Stream \o <<>> \in Responses
      BY <1>0, <2>1, <2>2 DEF Relaying
    <3>2. Stream \in Seq(Token)
      BY <2>2, StreamType
    <3>3. Stream' = Stream
      BY <2>1 DEF Stream
    <3> QED
      BY <3>1, <3>2, <3>3, ConcatEmptySeq
  <2> QED
    BY <1>0, <2>1, <2>2 DEF Explained, AnsweredVerbatim, RightError
<1>22. CASE BackendFail
    BY <1>b, <1>22 DEF BackendFail
<1>23. CASE UNCHANGED vars
    BY <1>0, <1>23, StillExplained DEF vars
<1> QED
    BY <1>1, <1>2, <1>3, <1>4, <1>5, <1>6, <1>7, <1>8, <1>9, <1>10, <1>11, <1>12, <1>13,
       <1>14, <1>15, <1>16, <1>17, <1>18, <1>19, <1>20, <1>21, <1>22, <1>23
       DEF Next, ProxyStep, Environment

LEMMA RelayInductive == Spec => []RInv
<1>1. Init => RInv
    BY InitIInv, InitRelay DEF RInv
<1>2. RInv /\ [Next]_vars => IInv'
    BY TypeStep, OneConnectionStep, SurvivesStep, LeakStep DEF RInv, IInv
<1>3. RInv /\ [Next]_vars => RelayInv'
    BY RelayTypeStep, NothingYetStep, RelayingStep, OutcomeStep DEF RelayInv
<1>4. RInv /\ [Next]_vars => RInv'
    BY <1>2, <1>3 DEF RInv
<1> QED
    BY <1>1, <1>4, PTL DEF Spec

-----------------------------------------------------------------------------
\* The proxy implements module Gateway: each step is a step of the gateway or
\* none that a client sees.
LEMMA GatewayInit == Init => G!Init
    BY DEF Init, G!Init

\* What SendMore of module Gateway does to what a client was sent.
GrowsTo(g, longer) ==
    \E a \in Responses : \E m \in Len(g) + 1 .. Len(a) :
        IsPrefix(g, a) /\ longer = SubSeq(a, 1, m)

\* A client that got a part of a response gets a longer part of the same one.
LEMMA MoreOfResponse ==
    ASSUME NEW g \in Seq(Token), NEW c \in Seq(Token), NEW p \in Seq(Token),
           NEW rest \in Seq(Token), NEW n \in 1 .. Len(c),
           ((g \o c) \o p) \o rest \in Responses
    PROVE  GrowsTo(g, g \o SubSeq(c, 1, n))
<1> DEFINE h == g \o c
           t == p \o rest
           a == h \o t
<1>1. h \in Seq(Token) /\ t \in Seq(Token)
    BY ConcatProperties
<1>2. (h \o p) \o rest \in Responses
    OBVIOUS
<1>3. a = (g \o c) \o t
    OBVIOUS
<1>4. /\ Len(g) + n \in Len(g) + 1 .. Len(a) /\ IsPrefix(g, a)
      /\ g \o SubSeq(c, 1, n) = SubSeq(a, 1, Len(g) + n)
  <2> HIDE DEF t
  <2>1. t \in Seq(Token)
    BY <1>1
  <2> QED
    BY <2>1, LongerBeginning, ZenonT(40)
<1> HIDE DEF h
<1>5. (h \o p) \o rest = a
  <2>1. h \in Seq(Token)
    BY <1>1
  <2> QED
    BY <2>1, Regroup
<1> HIDE DEF a
<1> QED
    BY <1>2, <1>4, <1>5 DEF GrowsTo

LEMMA GatewayStep == RInv /\ [Next]_vars => [G!Next]_G!vars
<1> SUFFICES ASSUME RInv, [Next]_vars PROVE [G!Next]_G!vars
    OBVIOUS
<1>0. IInv /\ RelayType /\ NothingYet /\ Relaying /\ TypeOK /\ Survives /\ OneConnection
    BY DEF RInv, IInv, RelayInv
<1>a. pc # "accept" => client_id \in Clients /\ link[client_id] = "open"
    BY <1>0, Served
<1> USE DEF memory, sockets, backendConn
<1>1. CASE Accept
  <2>1. Head(backlog) \in Clients
    BY <1>0, <1>1, TailOfQueue DEF Accept, TypeOK
  <2>2. \A d \in Clients : link[d] # "open"
    BY <1>0, <1>1, ConstantsAssumption DEF Accept, OneConnection, Open
  <2>3. G!Serve(Head(backlog))
    BY <1>1, <2>2 DEF Accept, G!Serve
  <2> QED
    BY <2>1, <2>3 DEF G!Next
<1>2. CASE RelaySend
  <2>1. PICK n \in Amounts(Len(chunk)) \ {0} :
            got' = [got EXCEPT ![client_id] = @ \o SubSeq(chunk, 1, n)]
    BY <1>2 DEF RelaySend
  <2> DEFINE g == got[client_id]
  <2>2. chunk # <<>> /\ client_id \in Clients /\ link[client_id] = "open"
        /\ UNCHANGED <<backlog, link>>
    BY <1>0, <1>a, <1>2 DEF RelaySend, NothingYet
  <2>3. g \in Seq(Token) /\ chunk \in Seq(Token) /\ pipe \in Seq(Token) /\ reply \in Seq(Token)
    BY <1>0, <2>2 DEF RelayType
  <2>4. n \in 1 .. Len(chunk)
    BY <2>2, <2>3, SendTakes
  <2>5. Stream # <<>> /\ Stream \in Seq(Token)
    <3>1. g \o chunk \in Seq(Token) /\ g \o chunk # <<>>
      BY <2>2, <2>3, ConcatProperties, ConcatEqualIffEmpty
    <3> QED
      BY <2>3, <3>1, ConcatProperties, ConcatEqualIffEmpty DEF Stream
  <2>6. PartOfResponse(Stream)
    BY <1>0, <1>2, <2>3, <2>5 DEF RelaySend, Relaying, TypeOK, PartOfResponse
  <2>7. PICK rest \in Seq(Token) : Stream \o rest \in Responses
    BY <2>6 DEF PartOfResponse
  <2>8. ((g \o chunk) \o pipe) \o rest \in Responses
    BY <2>7 DEF Stream
  <2> HIDE DEF g
  <2>9. g \in Seq(Token) /\ chunk \in Seq(Token) /\ pipe \in Seq(Token) /\ rest \in Seq(Token)
    BY <2>3 DEF g
  <2>10. GrowsTo(g, g \o SubSeq(chunk, 1, n))
    BY <2>4, <2>8, <2>9, MoreOfResponse
  <2>11. PICK a \in Responses : \E m \in Len(g) + 1 .. Len(a) :
            IsPrefix(g, a) /\ g \o SubSeq(chunk, 1, n) = SubSeq(a, 1, m)
    BY <2>10 DEF GrowsTo
  <2>12. PICK m \in Len(g) + 1 .. Len(a) :
            IsPrefix(g, a) /\ g \o SubSeq(chunk, 1, n) = SubSeq(a, 1, m)
    BY <2>11
  <2>13. got' = [got EXCEPT ![client_id] = SubSeq(a, 1, m)]
    BY <2>1, <2>12 DEF g
  <2>14. G!SendMore(client_id)
    BY <2>2, <2>11, <2>12, <2>13 DEF G!SendMore, G!IsPrefix, IsPrefix, g
  <2> QED
    BY <2>2, <2>14 DEF G!Next
<1>3. CASE WriteError
  <2>1. link[client_id] = "open" /\ client_id \in Clients /\ got[client_id] = <<>>
        /\ error \in {<<BadGateway>>, <<InternalError>>} /\ UNCHANGED <<backlog, link>>
    BY <1>0, <1>a, <1>3 DEF WriteError, NothingYet, TypeOK
  <2>2. <<>> \o error = error
    BY <1>0, ErrorType, ConcatEmptySeq
  <2>3. CASE peer[client_id] = "rst"
    BY <1>3, <2>1, <2>3 DEF WriteError, G!vars
  <2>4. CASE peer[client_id] # "rst"
    <3>1. got' = [got EXCEPT ![client_id] = error]
      BY <1>3, <2>1, <2>2, <2>4 DEF WriteError
    <3>2. \E e \in {BadGateway, InternalError} : got' = [got EXCEPT ![client_id] = <<e>>]
      BY <2>1, <3>1
    <3> QED
      BY <2>1, <3>2 DEF G!Next, G!SendError
  <2> QED
    BY <2>3, <2>4
<1>4. CASE Cleanup
    BY <1>a, <1>4 DEF Cleanup, Closed, G!Next, G!Close
<1>5. ASSUME NEW c \in Clients, ClientConnect(c) PROVE [G!Next]_G!vars
    BY <1>5 DEF ClientConnect, G!Next, G!Arrive
<1>6. ASSUME NEW c \in Clients, KernelDrops(c) PROVE [G!Next]_G!vars
  <2>1. got' = got
    BY <1>0, <1>6 DEF KernelDrops, Closed, NothingYet, RelayType
  <2>2. G!Leave(c)
    BY <1>6, <2>1 DEF KernelDrops, Closed, G!Leave, G!RemoveAt, RemoveAt
  <2> QED
    BY <2>2 DEF G!Next
<1>7. CASE UNCHANGED <<backlog, link, got>>
    BY <1>7 DEF G!vars
<1>8. ReadNothing \/ RejectRequest \/ TakeRequest \/ ConnectFails \/ Connect \/ ForwardFails
      \/ Forward \/ Recv \/ RecvEnds \/ RelayFails => UNCHANGED <<backlog, link, got>>
    BY DEF ReadNothing, RejectRequest, TakeRequest, ReadSome, ConnectFails, Connect,
       ForwardFails, Forward, Recv, RecvEnds, RelayFails
<1>9. \A c \in Clients : ClientSend(c) \/ ClientClose(c) \/ ClientReset(c)
            => UNCHANGED <<backlog, link, got>>
    BY DEF ClientSend, ClientClose, ClientReset
<1>10. BackendAnswer \/ BackendSend \/ BackendClose \/ BackendFail \/ UNCHANGED vars
            => UNCHANGED <<backlog, link, got>>
    BY DEF BackendAnswer, BackendSend, BackendClose, BackendFail, vars
<1> QED
    BY <1>1, <1>2, <1>3, <1>4, <1>5, <1>6, <1>7, <1>8, <1>9, <1>10
       DEF Next, ProxyStep, Environment

-----------------------------------------------------------------------------
\* Induction over numbers, and the least of a set of them.
\* A set of numbers has a least element: tlapm cannot instantiate the library's
\* induction theorems, but that the subsets of 0 .. n are well founded says it.
LEMMA LeastNumber ==
    ASSUME NEW T \in SUBSET Nat, T # {}
    PROVE  \E m \in T : \A k \in T : m <= k
<1> DEFINE R == OpToRel(<, Nat)
<1>1. IsWellFoundedOn(R, Nat)
  BY NatLessThanWellFounded
<1>2. \A i, j \in Nat : i < j => <<i, j>> \in R
  BY DEF OpToRel
<1> HIDE DEF R
<1>3. PICK m \in T : \A k \in T : ~(<<k, m>> \in R)
  BY <1>1, WFMin
<1>4. m \in Nat /\ \A k \in T : k \in Nat /\ ~(k < m)
  BY <1>2, <1>3
<1>5. \A k \in Nat : ~(k < m) => m <= k
  BY <1>4
<1> QED
  BY <1>4, <1>5

\* Induction up to n, over a set instead of a predicate.
LEMMA Reaches ==
    ASSUME NEW n \in Nat, NEW U, 0 \in U, \A k \in 1 .. n : k - 1 \in U => k \in U
    PROVE  \A k \in 0 .. n : k \in U
<1> DEFINE T == {k \in 0 .. n : k \notin U}
<1>1. SUFFICES ASSUME T # {} PROVE FALSE
  OBVIOUS
<1>2. T \in SUBSET Nat
  OBVIOUS
<1>3. PICK m \in T : \A k \in T : m <= k
  <2> HIDE DEF T
  <2> QED BY <1>1, <1>2, LeastNumber
<1>4. m \in 1 .. n /\ m - 1 \in 0 .. n
  OBVIOUS
<1>5. m - 1 \in U
  BY <1>3, <1>4
<1> QED
  BY <1>4, <1>5

\* Min of FiniteSetsExt is that element.
LEMMA MinIsLeast ==
    ASSUME NEW T \in SUBSET Nat, T # {}
    PROVE  Min(T) \in T /\ \A k \in T : Min(T) <= k
BY LeastNumber DEF Min

\* f is the function in HeadersUpTo: what the header loop has kept of line.
Fills(f, line, max) ==
    /\ f[0] = <<>>
    /\ \A k \in 1 .. Len(line) :
          f[k] = IF IsHeader(line[k]) /\ Len(f[k - 1]) < max
                 THEN Append(f[k - 1], line[k]) ELSE f[k - 1]

\* There is such a function, and its last value is what HeadersUpTo returns.
LEMMA FilledIs ==
    ASSUME NEW S, NEW s, HeaderPart(s) \in Seq(S), NEW max
    PROVE  \E f : Fills(f, HeaderPart(s), max)
                  /\ HeadersUpTo(s, max) = f[Len(HeaderPart(s))]
<1> DEFINE line == HeaderPart(s)
           n == Len(line)
           Fill(g, m) == [k \in 0 .. m |->
              IF k = 0 THEN <<>>
              ELSE IF IsHeader(line[k]) /\ Len(g[k - 1]) < max
              THEN Append(g[k - 1], line[k])
              ELSE g[k - 1]]
           f == CHOOSE g : g = Fill(g, n)
<1>1. HeadersUpTo(s, max) = f[n]
  BY DEF HeadersUpTo
<1>2. line \in Seq(S) /\ n \in Nat /\ \A k \in 1 .. n : line[k] \in S
    OBVIOUS
<1> HIDE DEF line, n
<1> DEFINE U == {m \in 0 .. n : \E g : g = Fill(g, m)}
<1>3. \A m \in 0 .. n : m \in U
  <2>1. 0 \in U
    <3> DEFINE h == [k \in 0 .. 0 |-> <<>>]
    <3>1. h = Fill(h, 0)
      OBVIOUS
    <3>2. 0 \in 0 .. n
      BY <1>2
    <3> HIDE DEF h, Fill
    <3> QED
      BY <3>1, <3>2
  <2>2. ASSUME NEW m \in 1 .. n, m - 1 \in U PROVE m \in U
    <3>1. m \in Nat /\ m - 1 \in Nat /\ m \in 0 .. n
      BY <1>2
    <3>2. PICK g : g = Fill(g, m - 1)
      BY <2>2
    <3> DEFINE h == [k \in 0 .. m |-> IF k = m
                      THEN IF IsHeader(line[m]) /\ Len(g[m - 1]) < max
                           THEN Append(g[m - 1], line[m]) ELSE g[m - 1]
                      ELSE g[k]]
    <3>3. \A k \in 0 .. m - 1 : h[k] = g[k]
      BY <3>1
    <3>4. ASSUME NEW k \in 0 .. m PROVE h[k] = Fill(h, m)[k]
      <4>1. CASE k = m
        <5>1. m # 0 /\ m - 1 \in 0 .. m - 1
          BY <3>1
        <5>2. h[m - 1] = g[m - 1]
          BY <3>3, <5>1
        <5> QED
          BY <4>1, <5>1, <5>2
      <4>2. CASE k # m
        <5>1. k \in 0 .. m - 1 /\ (k # 0 => k - 1 \in 0 .. m - 1)
          BY <3>1, <4>2
        <5>2. h[k] = g[k] /\ (k # 0 => h[k - 1] = g[k - 1])
          BY <3>3, <5>1
        <5>3. g[k] = Fill(g, m - 1)[k]
          BY <3>2
        <5> HIDE DEF h
        <5> QED
          BY <5>1, <5>2, <5>3
      <4> QED
        BY <4>1, <4>2
    <3>5. h = Fill(h, m)
      <4>1. h = [k \in 0 .. m |-> h[k]]
        OBVIOUS
      <4>2. Fill(h, m) = [k \in 0 .. m |-> Fill(h, m)[k]]
        OBVIOUS
      <4> HIDE DEF h, Fill
      <4> QED
        BY <3>4, <4>1, <4>2
    <3> HIDE DEF h
    <3> QED
      BY <3>1, <3>5
  <2> HIDE DEF U
  <2> QED
    BY <1>2, <2>1, <2>2, Reaches
<1>4. f = Fill(f, n)
  <2> HIDE DEF Fill
  <2>1. n \in 0 .. n
    BY <1>2
  <2>2. \E g : g = Fill(g, n)
    BY <1>3, <2>1
  <2> QED
    BY <2>2
<1> HIDE DEF f, U
<1>5. Fills(f, line, max)
  <2>1. 0 \in 0 .. n /\ \A k \in 1 .. n : k \in 0 .. n /\ k # 0
    BY <1>2
  <2>2. f[0] = <<>>
    BY <1>4, <2>1
  <2>3. \A k \in 1 .. n : f[k] = IF IsHeader(line[k]) /\ Len(f[k - 1]) < max
                                 THEN Append(f[k - 1], line[k]) ELSE f[k - 1]
    BY <1>4, <2>1
  <2> QED
    BY <2>2, <2>3 DEF Fills, n
<1> QED
  BY <1>1, <1>5 DEF n, line

\* Of n tokens it keeps at most n, all of them headers.
LEMMA FillsType ==
    ASSUME NEW S, NEW line \in Seq(S), NEW max, NEW f, Fills(f, line, max)
    PROVE  \A k \in 0 .. Len(line) : f[k] \in Seq({t \in S : IsHeader(t)}) /\ Len(f[k]) <= k
<1> DEFINE n == Len(line)
           T == {t \in S : IsHeader(t)}
           V == {k \in 0 .. n : f[k] \in Seq(T) /\ Len(f[k]) <= k}
<1>1. n \in Nat /\ \A k \in 1 .. n : line[k] \in S
    OBVIOUS
<1>2. 0 \in V
  <2>1. <<>> \in Seq(T) /\ Len(<<>>) <= 0 /\ 0 \in 0 .. n
    BY <1>1
  <2> QED
    BY <2>1 DEF Fills
<1>3. ASSUME NEW k \in 1 .. n, k - 1 \in V PROVE k \in V
  <2>1. k \in 0 .. n /\ line[k] \in S /\ f[k - 1] \in Seq(T) /\ Len(f[k - 1]) <= k - 1
    BY <1>1, <1>3
  <2>2. \/ IsHeader(line[k]) /\ f[k] = Append(f[k - 1], line[k])
        \/ f[k] = f[k - 1]
    BY DEF Fills
  <2>3. IsHeader(line[k]) => line[k] \in T
    BY <2>1
  <2> HIDE DEF T
  <2>4. \A x \in T : Append(f[k - 1], x) \in Seq(T) /\ Len(Append(f[k - 1], x)) = Len(f[k - 1]) + 1
    BY <2>1
  <2>5. Len(f[k - 1]) \in Nat
    BY <2>1
  <2>6. f[k] \in Seq(T) /\ Len(f[k]) <= k
    <3>1. CASE IsHeader(line[k]) /\ f[k] = Append(f[k - 1], line[k])
      BY <2>1, <2>3, <2>4, <2>5, <3>1
    <3>2. CASE f[k] = f[k - 1]
      BY <2>1, <2>5, <3>2
    <3> QED
      BY <2>2, <3>1, <3>2
  <2> QED
    BY <2>1, <2>6
<1> HIDE DEF V, n, T
<1>4. \A k \in 0 .. n : k \in V
    BY <1>1, <1>2, <1>3, Reaches
<1> QED
    BY <1>4 DEF V, T, n

\* The headers of a request are tokens of its text.
LEMMA HeadersType ==
    ASSUME NEW S, NEW s, HeaderPart(s) \in Seq(S), NEW max
    PROVE  HeadersUpTo(s, max) \in Seq(S)
<1> DEFINE T == {t \in S : IsHeader(t)}
           n == Len(HeaderPart(s))
<1>1. PICK f : Fills(f, HeaderPart(s), max) /\ HeadersUpTo(s, max) = f[n]
    BY FilledIs
<1>2. n \in 0 .. n /\ T \subseteq S
    OBVIOUS
<1>3. f[n] \in Seq(T)
    BY <1>1, <1>2, FillsType
<1> HIDE DEF T, n
<1> QED
    BY <1>1, <1>2, <1>3, SeqMonotonic

-----------------------------------------------------------------------------
\* The place of the first NUL, behind the text when it holds none.
FirstNul(s) == Min({k \in DOMAIN s : s[k] = NUL} \cup {Len(s) + 1})

\* No NUL comes before the first one.
LEMMA FirstNulIs ==
    ASSUME NEW S, NEW s \in Seq(S)
    PROVE  /\ FirstNul(s) \in 1 .. Len(s) + 1
           /\ FirstNul(s) # Len(s) + 1 => s[FirstNul(s)] = NUL
           /\ \A k \in 1 .. FirstNul(s) - 1 : s[k] # NUL
<1> DEFINE T == {k \in DOMAIN s : s[k] = NUL} \cup {Len(s) + 1}
<1>1. T \in SUBSET Nat /\ T # {} /\ Len(s) \in Nat /\ DOMAIN s = 1 .. Len(s)
    OBVIOUS
<1>2. Min(T) \in T /\ \A k \in T : Min(T) <= k
  <2> HIDE DEF T
  <2> QED
    BY <1>1, MinIsLeast
<1>3. FirstNul(s) = Min(T)
    BY DEF FirstNul
<1> DEFINE m == Min(T)
<1>4. m \in 1 .. Len(s) + 1
    BY <1>1, <1>2
<1>5. ASSUME NEW k \in 1 .. m - 1, s[k] = NUL PROVE FALSE
  <2>1. k \in DOMAIN s /\ ~(m <= k)
    BY <1>1, <1>4
  <2>2. k \in T
    BY <1>5, <2>1
  <2> HIDE DEF T
  <2> QED
    BY <1>2, <2>1, <2>2
<1> QED
    BY <1>2, <1>3, <1>4, <1>5

\* What the string functions see of a text is the part before its first NUL.
LEMMA CStringIs ==
    ASSUME NEW S, NEW s \in Seq(S)
    PROVE  /\ CString(s) \in Seq(S \ {NUL})
           /\ Len(CString(s)) = FirstNul(s) - 1
           /\ \A k \in 1 .. FirstNul(s) - 1 : CString(s)[k] = s[k]
<1> DEFINE m == FirstNul(s)
<1>1. m \in 1 .. Len(s) + 1 /\ \A k \in 1 .. m - 1 : s[k] # NUL
    BY FirstNulIs
<1>2. CString(s) = SubSeq(s, 1, m - 1)
    BY DEF CString, FirstNul
<1> HIDE DEF m
<1>3. 1 \in Int /\ m - 1 \in Int /\ \A k \in 1 .. m - 1 : s[k] \in S \ {NUL}
    BY <1>1
<1>4. /\ SubSeq(s, 1, m - 1) \in Seq(S \ {NUL})
      /\ Len(SubSeq(s, 1, m - 1)) = IF 1 <= m - 1 THEN m - 1 - 1 + 1 ELSE 0
      /\ \A k \in 1 .. (m - 1) - 1 + 1 : SubSeq(s, 1, m - 1)[k] = s[1 + k - 1]
    BY <1>3, SubSeqProperties
<1>5. Len(SubSeq(s, 1, m - 1)) = m - 1
    BY <1>1, <1>4
<1>6. \A k \in 1 .. m - 1 : SubSeq(s, 1, m - 1)[k] = s[k]
    BY <1>1, <1>4
<1> QED
    BY <1>2, <1>4, <1>5, <1>6 DEF m

\* A beginning that holds no NUL is a beginning of the string.
LEMMA BeginsString ==
    ASSUME NEW S, NEW s \in Seq(S), NEW n \in 0 .. Len(s),
           \A k \in 1 .. n : s[k] # NUL
    PROVE  n < FirstNul(s)
<1>1. FirstNul(s) \in 1 .. Len(s) + 1 /\ (FirstNul(s) # Len(s) + 1 => s[FirstNul(s)] = NUL)
    BY FirstNulIs
<1> QED
    BY <1>1

\* A text without a NUL is the string that it holds.
LEMMA StringIs ==
    ASSUME NEW S, NEW s \in Seq(S), NUL \notin ToSet(s)
    PROVE  CString(s) = s
<1>1. Len(s) \in Nat /\ DOMAIN s = 1 .. Len(s)
    OBVIOUS
<1>2. {k \in DOMAIN s : s[k] = NUL} \cup {Len(s) + 1} = {Len(s) + 1}
    BY DEF ToSet
<1> DEFINE T == {Len(s) + 1}
<1>3. Min(T) = Len(s) + 1
  <2>1. T \in SUBSET Nat /\ T # {} /\ \A k \in T : k = Len(s) + 1
    BY <1>1
  <2> HIDE DEF T
  <2> QED
    BY <2>1, MinIsLeast
<1>4. CString(s) = SubSeq(s, 1, (Len(s) + 1) - 1)
    BY <1>2, <1>3 DEF CString
<1>5. (Len(s) + 1) - 1 = Len(s) /\ SubSeq(s, 1, Len(s)) = s
    BY <1>1
<1> QED
    BY <1>4, <1>5

\* The parts of a text are texts over its tokens, and the header part begins it.
LEMMA PartsType ==
    ASSUME NEW S, NEW s \in Seq(S)
    PROVE  /\ HeaderPart(s) \in Seq(S) /\ BodyPart(s) \in Seq(S)
           /\ Len(HeaderPart(s)) <= Len(s)
           /\ \A k \in 1 .. Len(HeaderPart(s)) : HeaderPart(s)[k] = s[k]
<1> DEFINE hits == {k \in 2 .. Len(s) : s[k] = EOL /\ EndsLine(s[k - 1])}
           b == BlankLine(s)
<1>1. b = IF hits = {} THEN 0 ELSE Min(hits)
    BY DEF BlankLine
<1>2. hits # {} => Min(hits) \in hits
  <2>1. hits \in SUBSET Nat
    OBVIOUS
  <2> HIDE DEF hits
  <2> QED
    BY <2>1, MinIsLeast
<1>3. b = 0 \/ b \in 2 .. Len(s)
    BY <1>1, <1>2
<1> HIDE DEF b
<1>4. HeaderPart(s) = IF b = 0 THEN s ELSE SubSeq(s, 1, b - 1)
    BY DEF HeaderPart, UpTo, b
<1>5. BodyPart(s) = IF b = 0 THEN <<>> ELSE SubSeq(s, b + 1, Len(s))
    BY DEF BodyPart, From, b
<1>6. CASE b = 0
    BY <1>4, <1>5, <1>6
<1>7. CASE b \in 2 .. Len(s)
  <2>1. b # 0
    BY <1>7
  <2>2. /\ SubSeq(s, 1, b - 1) \in Seq(S) /\ Len(SubSeq(s, 1, b - 1)) = b - 1
        /\ \A k \in 1 .. b - 1 : SubSeq(s, 1, b - 1)[k] = s[k]
    BY <1>7
  <2>3. SubSeq(s, b + 1, Len(s)) \in Seq(S) /\ b - 1 <= Len(s)
    BY <1>7
  <2> QED
    BY <1>4, <1>5, <2>1, <2>2, <2>3
<1> QED
    BY <1>3, <1>6, <1>7

\* The headers and the body of a request are texts over the tokens of the text.
LEMMA ParseType ==
    ASSUME NEW S, NEW s \in Seq(S)
    PROVE  Parse(s).headers \in Seq(S) /\ Parse(s).body \in Seq(S)
    BY PartsType, HeadersType DEF Parse, HeadersOf

\* A beginning of a text agrees with it cell by cell.
LEMMA PrefixIs ==
    ASSUME NEW S, NEW s \in Seq(S), NEW t \in Seq(S)
    PROVE  IsPrefix(s, t) <=> Len(s) <= Len(t) /\ \A k \in 1 .. Len(s) : s[k] = t[k]
<1>1. Len(s) \in Nat /\ Len(t) \in Nat /\ SubSeq(s, 1, Len(s)) = s
    BY SubSeqFull
<1>2. CASE Len(s) <= Len(t)
  <2>1. /\ SubSeq(t, 1, Len(s)) \in Seq(S) /\ Len(SubSeq(t, 1, Len(s))) = Len(s)
        /\ \A k \in 1 .. Len(s) : SubSeq(t, 1, Len(s))[k] = t[k]
    BY <1>1, <1>2
  <2>2. (\A k \in 1 .. Len(s) : s[k] = t[k]) => s = SubSeq(t, 1, Len(s))
    BY <2>1, SeqEqual
  <2> QED
    BY <1>1, <1>2, <2>1, <2>2 DEF IsPrefix
<1> QED
    BY <1>1, <1>2 DEF IsPrefix

\* Two beginnings of one text.
LEMMA Beginnings ==
    ASSUME NEW S, NEW r \in Seq(S), NEW s \in Seq(S), NEW t \in Seq(S),
           IsPrefix(r, t), IsPrefix(s, t)
    PROVE  IsPrefix(r, s) \/ IsPrefix(s, r)
<1>1. Len(r) \in Nat /\ Len(s) \in Nat
    OBVIOUS
<1>2. /\ \A k \in 1 .. Len(r) : r[k] = t[k]
      /\ \A k \in 1 .. Len(s) : s[k] = t[k]
    BY PrefixIs
<1>3. CASE Len(r) <= Len(s)
  <2>1. \A k \in 1 .. Len(r) : r[k] = s[k]
    BY <1>1, <1>2, <1>3
  <2> QED
    BY <1>3, <2>1, PrefixIs
<1>4. CASE Len(s) <= Len(r)
  <2>1. \A k \in 1 .. Len(s) : s[k] = r[k]
    BY <1>1, <1>2, <1>4
  <2> QED
    BY <1>4, <2>1, PrefixIs
<1> QED
    BY <1>1, <1>3, <1>4

\* A text begins what is made of it by writing more behind it.
LEMMA BeginsConcat ==
    ASSUME NEW S, NEW s \in Seq(S), NEW t \in Seq(S)
    PROVE  IsPrefix(s, s \o t)
<1>1. Len(s) \in Nat /\ Len(t) \in Nat
    OBVIOUS
<1>2. /\ s \o t \in Seq(S) /\ Len(s \o t) = Len(s) + Len(t)
      /\ \A k \in 1 .. Len(s) + Len(t) :
            (s \o t)[k] = IF k <= Len(s) THEN s[k] ELSE t[k - Len(s)]
    BY ConcatProperties
<1>3. Len(s) <= Len(s \o t) /\ \A k \in 1 .. Len(s) : s[k] = (s \o t)[k]
    BY <1>1, <1>2
<1> QED
    BY <1>2, <1>3, PrefixIs

\* A text is a sequence over its own tokens.
IsSeq(s) == s \in Seq(ToSet(s))

LEMMA SeqIsSeq ==
    ASSUME NEW S, NEW s \in Seq(S)
    PROVE  IsSeq(s)
<1>1. DOMAIN s = 1 .. Len(s) /\ Len(s) \in Nat /\ s = [k \in 1 .. Len(s) |-> s[k]]
    OBVIOUS
<1>2. \A k \in 1 .. Len(s) : s[k] \in ToSet(s)
    BY <1>1 DEF ToSet
<1> QED
    BY <1>1, <1>2 DEF IsSeq

LEMMA EmptyIsSeq == IsSeq(<<>>)
<1>1. <<>> \in Seq({})
    OBVIOUS
<1> QED
    BY <1>1, SeqIsSeq

\* The cells of two texts, one behind the other.
LEMMA ConcatCells ==
    ASSUME NEW S, NEW s \in Seq(S), NEW t \in Seq(S)
    PROVE  /\ s \o t \in Seq(S) /\ Len(s \o t) = Len(s) + Len(t)
           /\ \A k \in 1 .. Len(s) : (s \o t)[k] = s[k]
           /\ \A k \in 1 .. Len(t) : (s \o t)[Len(s) + k] = t[k]
<1>1. Len(s) \in Nat /\ Len(t) \in Nat
    OBVIOUS
<1> DEFINE u == s \o t
<1>2. /\ u \in Seq(S) /\ Len(u) = Len(s) + Len(t)
      /\ \A k \in 1 .. Len(s) + Len(t) : u[k] = IF k <= Len(s) THEN s[k] ELSE t[k - Len(s)]
    BY ConcatProperties
<1> HIDE DEF u
<1>3. \A k \in 1 .. Len(s) : u[k] = s[k]
  <2>1. \A k \in 1 .. Len(s) : k \in 1 .. Len(s) + Len(t) /\ k <= Len(s)
    BY <1>1
  <2> QED
    BY <1>2, <2>1
<1>4. \A k \in 1 .. Len(t) : u[Len(s) + k] = t[k]
  <2>1. \A k \in 1 .. Len(t) : Len(s) + k \in 1 .. Len(s) + Len(t) /\ ~(Len(s) + k <= Len(s))
                               /\ (Len(s) + k) - Len(s) = k
    BY <1>1
  <2> QED
    BY <1>2, <2>1
<1> QED
    BY <1>2, <1>3, <1>4 DEF u

\* The cells of the head that rebuild_request writes, of h headers: the request
\* line, the client's headers, those it adds, and the blank line.
HeadCells(a, r, ip, n) ==
    LET h == Len(r.headers)
    IN  /\ n \in Nat /\ n >= h + 7
        /\ a[1] = Word(r.method) /\ a[2] = Word(r.path) /\ a[3] = Word(<<"HTTP/1.1">>)
        /\ a[4] = EOL
        /\ \A k \in 1 .. h : a[4 + k] = r.headers[k]
        /\ a[h + 5] = ConnectionClose /\ a[h + 6] = Hdr("X-Forwarded-For", ip)
        /\ IF r.body = <<>> THEN n = h + 7
           ELSE n = h + 8 /\ a[h + 7] = ContentLength(Len(r.body))
        /\ a[n] = EOL

\* They are what rebuild_request writes.
LEMMA CellsOfHead ==
    ASSUME NEW S, NEW r, NEW ip, r.headers \in Seq(S),
           {Word(r.method), Word(r.path), Word(<<"HTTP/1.1">>), EOL, ConnectionClose,
            Hdr("X-Forwarded-For", ip), ContentLength(Len(r.body))} \subseteq S
    PROVE  /\ RebuiltHead(r, ip) \in Seq(S)
           /\ HeadCells(RebuiltHead(r, ip), r, ip, Len(RebuiltHead(r, ip)))
<1> DEFINE h == r.headers
           l == Len(h)
           a == RequestLine(r.method, r.path)
           b == <<ConnectionClose, Hdr("X-Forwarded-For", ip)>>
           c == IF r.body = <<>> THEN <<>> ELSE <<ContentLength(Len(r.body))>>
           e == <<EOL>>
<1>1. /\ a \in Seq(S) /\ Len(a) = 4 /\ a[1] = Word(r.method) /\ a[2] = Word(r.path)
      /\ a[3] = Word(<<"HTTP/1.1">>) /\ a[4] = EOL
    BY DEF RequestLine
<1>2. /\ b \in Seq(S) /\ Len(b) = 2 /\ b[1] = ConnectionClose
      /\ b[2] = Hdr("X-Forwarded-For", ip)
    OBVIOUS
<1>3. /\ c \in Seq(S) /\ (r.body = <<>> => Len(c) = 0)
      /\ (r.body # <<>> => Len(c) = 1 /\ c[1] = ContentLength(Len(r.body)))
    OBVIOUS
<1>4. e \in Seq(S) /\ Len(e) = 1 /\ e[1] = EOL
    OBVIOUS
<1>5. h \in Seq(S) /\ l \in Nat
    OBVIOUS
<1>6. RebuiltHead(r, ip) = (((a \o h) \o b) \o c) \o e
    BY DEF RebuiltHead
<1> DEFINE t1 == a \o h
           t2 == t1 \o b
           t3 == t2 \o c
           t4 == t3 \o e
           m == Len(c)
<1>0. m \in Nat
    BY <1>3
<1> HIDE DEF a, b, c, e, l, m
<1>7. /\ t1 \in Seq(S) /\ Len(t1) = 4 + l /\ \A k \in 1 .. 4 : t1[k] = a[k]
      /\ \A k \in 1 .. l : t1[4 + k] = h[k]
  <2> HIDE DEF h
  <2>0. a \in Seq(S) /\ h \in Seq(S)
    BY <1>1, <1>5
  <2>1. /\ t1 \in Seq(S) /\ Len(t1) = Len(a) + Len(h)
        /\ \A k \in 1 .. Len(a) : t1[k] = a[k]
        /\ \A k \in 1 .. Len(h) : t1[Len(a) + k] = h[k]
    BY <2>0, ConcatCells
  <2> HIDE DEF t1
  <2> QED
    BY <1>1, <2>1 DEF l
<1> HIDE DEF t1
<1>8. /\ t2 \in Seq(S) /\ Len(t2) = 6 + l /\ \A k \in 1 .. 4 + l : t2[k] = t1[k]
      /\ t2[l + 5] = b[1] /\ t2[l + 6] = b[2]
  <2>1. /\ t2 \in Seq(S) /\ Len(t2) = Len(t1) + Len(b)
        /\ \A k \in 1 .. Len(t1) : t2[k] = t1[k]
        /\ \A k \in 1 .. Len(b) : t2[Len(t1) + k] = b[k]
    <3>1. t1 \in Seq(S) /\ b \in Seq(S)
      BY <1>2, <1>7
    <3> QED
      BY <3>1, ConcatCells
  <2> HIDE DEF t2
  <2>2. t2[Len(t1) + 1] = b[1] /\ t2[Len(t1) + 2] = b[2]
    BY <1>2, <2>1
  <2>3. Len(t1) + 1 = l + 5 /\ Len(t1) + 2 = l + 6 /\ Len(t2) = 6 + l
    BY <1>2, <1>5, <1>7, <2>1
  <2> QED
    BY <1>7, <2>1, <2>2, <2>3
<1> HIDE DEF t2
<1>9. /\ t3 \in Seq(S) /\ Len(t3) = 6 + l + m /\ \A k \in 1 .. 6 + l : t3[k] = t2[k]
      /\ m = 1 => t3[l + 7] = c[1]
  <2>1. /\ t3 \in Seq(S) /\ Len(t3) = Len(t2) + m
        /\ \A k \in 1 .. Len(t2) : t3[k] = t2[k]
        /\ \A k \in 1 .. m : t3[Len(t2) + k] = c[k]
    <3>1. t2 \in Seq(S) /\ c \in Seq(S)
      BY <1>3, <1>8
    <3> QED
      BY <3>1, ConcatCells DEF m
  <2> HIDE DEF t3
  <2>2. m = 1 => t3[Len(t2) + 1] = c[1]
    BY <2>1
  <2>3. Len(t2) + 1 = l + 7 /\ Len(t3) = 6 + l + m
    BY <1>0, <1>5, <1>8, <2>1
  <2> QED
    BY <1>8, <2>1, <2>2, <2>3
<1> HIDE DEF t3
<1>10. /\ t4 \in Seq(S) /\ Len(t4) = 7 + l + m /\ \A k \in 1 .. 6 + l + m : t4[k] = t3[k]
       /\ t4[7 + l + m] = EOL
  <2>1. /\ t4 \in Seq(S) /\ Len(t4) = Len(t3) + Len(e)
        /\ \A k \in 1 .. Len(t3) : t4[k] = t3[k]
        /\ \A k \in 1 .. Len(e) : t4[Len(t3) + k] = e[k]
    <3>1. t3 \in Seq(S) /\ e \in Seq(S)
      BY <1>4, <1>9
    <3> QED
      BY <3>1, ConcatCells
  <2> HIDE DEF t4
  <2>2. t4[Len(t3) + 1] = EOL
    BY <1>4, <2>1
  <2>3. Len(t3) + 1 = 7 + l + m /\ Len(t4) = 7 + l + m
    BY <1>0, <1>4, <1>5, <1>9, <2>1
  <2> QED
    BY <1>9, <2>1, <2>2, <2>3
<1> HIDE DEF t4
<1>11. /\ \A k \in 1 .. 4 : t4[k] = a[k]
       /\ \A k \in 1 .. l : t4[4 + k] = h[k]
  <2>1. \A k \in 1 .. 4 + l : t4[k] = t1[k]
    <3>1. \A k \in 1 .. 4 + l : k \in 1 .. 6 + l + m /\ k \in 1 .. 6 + l
      BY <1>0, <1>5
    <3> QED
      BY <1>8, <1>9, <1>10, <3>1
  <2>2. \A k \in 1 .. 4 : k \in 1 .. 4 + l
    BY <1>5
  <2>3. \A k \in 1 .. l : 4 + k \in 1 .. 4 + l
    BY <1>5
  <2> QED
    BY <1>7, <2>1, <2>2, <2>3
<1>12. t4[l + 5] = b[1] /\ t4[l + 6] = b[2] /\ (m = 1 => t4[l + 7] = c[1])
  <2>1. l + 5 \in 1 .. 6 + l /\ l + 6 \in 1 .. 6 + l
        /\ l + 5 \in 1 .. 6 + l + m /\ l + 6 \in 1 .. 6 + l + m
        /\ (m = 1 => l + 7 \in 1 .. 6 + l + m)
    BY <1>0, <1>5
  <2> QED
    BY <1>8, <1>9, <1>10, <2>1
<1> DEFINE n == Len(t4)
<1>13. IF r.body = <<>> THEN n = l + 7
       ELSE n = l + 8 /\ t4[l + 7] = ContentLength(Len(r.body))
  <2>1. CASE r.body = <<>>
    BY <1>3, <1>5, <1>10, <2>1 DEF m
  <2>2. CASE r.body # <<>>
    <3>1. m = 1 /\ c[1] = ContentLength(Len(r.body))
      BY <1>3, <2>2 DEF m
    <3>2. n = l + 8
      BY <1>5, <1>10, <3>1
    <3> HIDE DEF n
    <3> QED
      BY <1>12, <2>2, <3>1, <3>2
  <2> QED
    BY <2>1, <2>2
<1>14. t4[1] = a[1] /\ t4[2] = a[2] /\ t4[3] = a[3] /\ t4[4] = a[4]
  <2>1. 1 \in 1 .. 4 /\ 2 \in 1 .. 4 /\ 3 \in 1 .. 4 /\ 4 \in 1 .. 4
    OBVIOUS
  <2> QED
    BY <1>11, <2>1
<1>15. n \in Nat /\ n >= l + 7 /\ t4[n] = EOL
    BY <1>0, <1>5, <1>10
<1> HIDE DEF n
<1>16. HeadCells(t4, r, ip, n)
    BY <1>1, <1>2, <1>11, <1>12, <1>13, <1>14, <1>15 DEF HeadCells, l
<1>17. RebuiltHead(r, ip) = t4
    BY <1>6 DEF t1, t2, t3, t4
<1> QED
    BY <1>10, <1>16, <1>17 DEF n

CleanTokens == RequestTokens \ {NUL}
HeadTokens(r, ip) ==
    CleanTokens \cup {Word(r.method), Word(r.path), Word(<<"HTTP/1.1">>), EOL, ConnectionClose,
                      Hdr("X-Forwarded-For", ip), ContentLength(Len(r.body))}

\* No token of a rebuilt request is a NUL: strlen finds none of its own in it.
LEMMA RebuiltType ==
    ASSUME NEW r, r.headers \in Seq(CleanTokens), r.body \in Seq(CleanTokens), NEW ip
    PROVE  LET S == HeadTokens(r, ip)
           IN  /\ NUL \notin S
               /\ RebuiltHead(r, ip) \in Seq(S) /\ r.body \in Seq(S)
               /\ RebuiltHead(r, ip) # <<>>
<1> DEFINE S == HeadTokens(r, ip)
<1>1. NUL \notin S
  <2>1. DOMAIN NUL = {"nul"} /\ \A w : DOMAIN Word(w) = {"word"}
    BY DEF NUL, Word
  <2>2. DOMAIN EOL = {"eol"} /\ \A n : DOMAIN ContentLength(n) = {"length"}
    BY DEF EOL, ContentLength
  <2>3. \A k, v : "key" \in DOMAIN Hdr(k, v)
    BY DEF Hdr
  <2>4. \A w : NUL # Word(w)
    BY <2>1
  <2>5. NUL # EOL /\ \A n : NUL # ContentLength(n)
    BY <2>1, <2>2
  <2>6. \A k, v : NUL # Hdr(k, v)
    BY <2>1, <2>3
  <2>7. NUL \notin CleanTokens
    BY DEF CleanTokens
  <2> QED
    BY <2>4, <2>5, <2>6, <2>7 DEF HeadTokens, ConnectionClose
<1>2. CleanTokens \subseteq S
    BY DEF HeadTokens
<1>3. r.headers \in Seq(S) /\ r.body \in Seq(S)
    BY <1>2, SeqMonotonic
<1>4. {Word(r.method), Word(r.path), Word(<<"HTTP/1.1">>), EOL, ConnectionClose,
       Hdr("X-Forwarded-For", ip), ContentLength(Len(r.body))} \subseteq S
    BY DEF HeadTokens
<1> DEFINE head == RebuiltHead(r, ip)
<1> HIDE DEF S
<1>5. head \in Seq(S) /\ HeadCells(head, r, ip, Len(head))
    BY <1>3, <1>4, CellsOfHead
<1>6. head # <<>>
  <2>1. Len(r.headers) \in Nat /\ Len(head) >= Len(r.headers) + 7
    BY <1>5 DEF HeadCells
  <2> HIDE DEF head
  <2> QED
    BY <2>1
<1> QED
    BY <1>1, <1>3, <1>5, <1>6 DEF S

\* What an array of MaxRequest cells holds after a text was written to it.
LEMMA OverwriteIs ==
    ASSUME NEW cells, DOMAIN cells = 1 .. MaxRequest,
           NEW S, NEW s \in Seq(S), Len(s) <= MaxRequest
    PROVE  \E V : /\ Overwrite(cells, s) \in Seq(V) /\ Len(Overwrite(cells, s)) = MaxRequest
                  /\ \A k \in 1 .. Len(s) : Overwrite(cells, s)[k] = s[k]
<1> DEFINE c == Overwrite(cells, s)
           V == {c[k] : k \in 1 .. MaxRequest}
<1>1. c = [k \in 1 .. MaxRequest |-> IF k <= Len(s) THEN s[k] ELSE cells[k]]
    BY DEF Overwrite
<1>2. \A k \in 1 .. Len(s) : k \in 1 .. MaxRequest /\ c[k] = s[k]
    BY <1>1, SizesAssumption
<1>3. c = [k \in 1 .. MaxRequest |-> c[k]]
    BY <1>1
<1> HIDE DEF c
<1>4. c \in [1 .. MaxRequest -> V] /\ MaxRequest \in Nat
    BY <1>3, SizesAssumption
<1> HIDE DEF V
<1>5. c \in Seq(V) /\ Len(c) = MaxRequest
    BY <1>4
<1> HIDE DEF V
<1> QED
    BY <1>2, <1>5 DEF c

\* What strlen makes of the array holds the rebuilt request from its first
\* token on, and of a request without a body nothing else.
LEMMA TextsInRebuilt ==
    ASSUME NEW cells, DOMAIN cells = 1 .. MaxRequest,
           NEW S, NUL \notin S, NEW head \in Seq(S), NEW body \in Seq(S),
           RebuildOK(head, body), NEW u \in TextsIn(Rebuild(cells, head, body))
    PROVE  /\ IsSeq(u)
           /\ IF body = <<>> THEN u = head \o body ELSE IsPrefix(head \o body, u)
<1>1. Len(head) \in Nat /\ Len(body) \in Nat /\ MaxRequest \in Nat \ {0}
      /\ Len(head) < MaxRequest /\ Len(head) + Len(body) < MaxRequest
    BY SizesAssumption DEF RebuildOK, Fits
<1>2. CASE body = <<>>
  <2> DEFINE s == head \o <<NUL>>
             c == Overwrite(cells, s)
  <2>1. Terminated(head) = s
    <3>1. Min({MaxRequest - 1, Len(head)}) = Len(head)
      BY <1>1, MinOfTwo
    <3> QED
      BY <3>1, SubSeqFull DEF Terminated
  <2>2. Rebuild(cells, head, body) = c
    BY <1>2, <2>1 DEF Rebuild
  <2> DEFINE W == S \cup {NUL}
  <2>3. head \in Seq(W) /\ <<NUL>> \in Seq(W) /\ Len(<<NUL>>) = 1 /\ <<NUL>>[1] = NUL
    <3>1. head \in Seq(W)
      BY SeqMonotonic
    <3> QED
      BY <3>1
  <2>4. /\ s \in Seq(W) /\ Len(s) = Len(head) + 1
        /\ \A k \in 1 .. Len(head) : s[k] = head[k]
        /\ s[Len(head) + 1] = NUL
    <3> HIDE DEF W
    <3>1. /\ s \in Seq(W) /\ Len(s) = Len(head) + Len(<<NUL>>)
          /\ \A k \in 1 .. Len(head) + Len(<<NUL>>) :
                s[k] = IF k <= Len(head) THEN head[k] ELSE <<NUL>>[k - Len(head)]
      BY <2>3, ConcatProperties
    <3> HIDE DEF s
    <3>2. \A k \in 1 .. Len(head) : k \in 1 .. Len(head) + Len(<<NUL>>) /\ k <= Len(head)
      BY <1>1, <2>3
    <3>3. \A k \in 1 .. Len(head) : s[k] = head[k]
      BY <3>1, <3>2
    <3>4. LET k == Len(head) + 1 IN
            k \in 1 .. Len(head) + Len(<<NUL>>) /\ ~(k <= Len(head)) /\ k - Len(head) = 1
      BY <1>1, <2>3
    <3>5. s[Len(head) + 1] = <<NUL>>[1]
      BY <3>1, <3>4
    <3> QED
      BY <2>3, <3>1, <3>3, <3>5
  <2> HIDE DEF s, W
  <2>5. PICK V : /\ c \in Seq(V) /\ Len(c) = MaxRequest
                 /\ \A k \in 1 .. Len(s) : c[k] = s[k]
    <3>1. Len(s) <= MaxRequest
      BY <1>1, <2>4
    <3> QED
      BY <2>4, <3>1, OverwriteIs, ZenonT(30)
  <2> HIDE DEF c
  <2>6. /\ \A k \in 1 .. Len(head) : c[k] = head[k] /\ c[k] # NUL
        /\ c[Len(head) + 1] = NUL /\ Len(head) + 1 \in 1 .. Len(c)
    <3>1. \A k \in 1 .. Len(head) : k \in 1 .. Len(s) /\ head[k] \in S
      BY <1>1, <2>4
    <3>2. Len(head) + 1 \in 1 .. Len(s) /\ Len(head) + 1 \in 1 .. MaxRequest
      BY <1>1, <2>4
    <3> QED
      BY <2>4, <2>5, <3>1, <3>2
  <2>7. FirstNul(c) = Len(head) + 1
    <3>1. Len(head) < FirstNul(c)
      <4>1. Len(head) \in 0 .. Len(c)
        BY <1>1, <2>5
      <4> QED
        BY <2>5, <2>6, <4>1, BeginsString
    <3>2. FirstNul(c) \in 1 .. Len(c) + 1 /\ \A k \in 1 .. FirstNul(c) - 1 : c[k] # NUL
      BY <2>5, FirstNulIs
    <3> QED
      BY <1>1, <2>5, <2>6, <3>1, <3>2
  <2>8. /\ CString(c) \in Seq(V \ {NUL}) /\ Len(CString(c)) = Len(head)
        /\ \A k \in 1 .. Len(head) : CString(c)[k] = head[k]
    <3>1. /\ CString(c) \in Seq(V \ {NUL}) /\ Len(CString(c)) = FirstNul(c) - 1
          /\ \A k \in 1 .. FirstNul(c) - 1 : CString(c)[k] = c[k]
      BY <2>5, CStringIs
    <3>2. FirstNul(c) - 1 = Len(head)
      BY <1>1, <2>7
    <3> QED
      BY <2>6, <3>1, <3>2
  <2>9. CString(c) = head
    <3> DEFINE X == S \cup (V \ {NUL})
    <3>1. head \in Seq(X)
      BY SeqMonotonic
    <3>2. CString(c) \in Seq(X)
      BY <2>8, SeqMonotonic
    <3> HIDE DEF X
    <3> QED
      BY <2>8, <3>1, <3>2, SeqEqual
  <2>10. u = CString(c)
    <3>1. Len(head) + 1 \in DOMAIN c
      BY <2>5, <2>6
    <3> QED
      BY <2>2, <2>6, <3>1 DEF TextsIn
  <2> QED
    BY <1>2, <2>9, <2>10, SeqIsSeq, ConcatEmptySeq
<1>3. CASE body # <<>>
  <2> DEFINE s == head \o body
             c == Overwrite(cells, s)
  <2>1. Rebuild(cells, head, body) = c
    BY <1>3 DEF Rebuild
  <2>2. s \in Seq(S) /\ Len(s) = Len(head) + Len(body)
    BY ConcatProperties
  <2> HIDE DEF s
  <2>3. PICK V : /\ c \in Seq(V) /\ Len(c) = MaxRequest
                 /\ \A k \in 1 .. Len(s) : c[k] = s[k]
    <3>1. Len(s) <= MaxRequest
      BY <1>1, <2>2
    <3> QED
      BY <2>2, <3>1, OverwriteIs
  <2> HIDE DEF c
  <2>4. Len(s) \in 0 .. Len(c) /\ \A k \in 1 .. Len(s) : c[k] # NUL
    BY <1>1, <2>2, <2>3
  <2> DEFINE X == S \cup V \cup {Byte("stack")}
  <2>5. s \in Seq(X) /\ c \in Seq(X)
    <3>1. s \in Seq(X)
      BY <2>2, SeqMonotonic
    <3>2. c \in Seq(X)
      BY <2>3, SeqMonotonic
    <3> QED
      BY <3>1, <3>2
  <2>6. IsPrefix(s, c)
    <3> HIDE DEF X
    <3>1. Len(s) <= Len(c)
      BY <1>1, <2>2, <2>3
    <3> QED
      BY <2>3, <2>5, <3>1, PrefixIs
  <2>7. CASE \E k \in DOMAIN c : c[k] = NUL
    <3>1. u = CString(c)
      BY <2>1, <2>7 DEF TextsIn
    <3>2. /\ CString(c) \in Seq(V \ {NUL}) /\ Len(CString(c)) = FirstNul(c) - 1
          /\ \A k \in 1 .. FirstNul(c) - 1 : CString(c)[k] = c[k]
          /\ FirstNul(c) \in 1 .. Len(c) + 1
      BY <2>3, CStringIs, FirstNulIs
    <3>3. Len(s) < FirstNul(c)
      BY <2>3, <2>4, BeginsString
    <3>4. CString(c) \in Seq(X)
      BY <3>2, SeqMonotonic
    <3> HIDE DEF X
    <3>5. Len(s) <= Len(CString(c)) /\ \A k \in 1 .. Len(s) : s[k] = CString(c)[k]
      <4>1. Len(s) <= FirstNul(c) - 1 /\ \A k \in 1 .. Len(s) : k \in 1 .. FirstNul(c) - 1
        BY <2>3, <2>4, <3>2, <3>3
      <4> QED
        BY <2>3, <3>2, <4>1
    <3>6. IsPrefix(s, u)
      BY <2>5, <3>1, <3>4, <3>5, PrefixIs
    <3> QED
      BY <1>3, <3>1, <3>4, <3>6, SeqIsSeq DEF s
  <2>8. CASE ~ \E k \in DOMAIN c : c[k] = NUL
    <3>1. PICK n \in 0 .. MaxOverread : u = c \o [k \in 1 .. n |-> Byte("stack")]
      BY <2>1, <2>8 DEF TextsIn
    <3> DEFINE t == [k \in 1 .. n |-> Byte("stack")]
    <3>2. t \in Seq(X)
      BY SizesAssumption
    <3> HIDE DEF t, X
    <3>3. u = c \o t
      BY <3>1 DEF t
    <3>4. u \in Seq(X) /\ Len(u) = Len(c) + Len(t) /\ Len(t) \in Nat
          /\ \A k \in 1 .. Len(c) + Len(t) : u[k] = IF k <= Len(c) THEN c[k] ELSE t[k - Len(c)]
      BY <2>5, <3>2, <3>3, ConcatProperties
    <3>5. Len(s) <= Len(u) /\ \A k \in 1 .. Len(s) : s[k] = u[k]
      <4>1. \A k \in 1 .. Len(s) : k \in 1 .. Len(c) + Len(t) /\ k <= Len(c)
        BY <1>1, <2>2, <2>3, <3>4
      <4>2. Len(s) <= Len(u)
        BY <1>1, <2>2, <2>3, <3>4
      <4> QED
        BY <2>3, <3>4, <4>1, <4>2
    <3>6. IsPrefix(s, u)
      BY <2>5, <3>4, <3>5, PrefixIs
    <3> QED
      BY <1>3, <3>4, <3>6, SeqIsSeq DEF s
  <2> QED
    BY <2>7, <2>8
<1> QED
    BY <1>2, <1>3

-----------------------------------------------------------------------------
\* The clients' texts and the parsed request keep the tokens of the requests,
\* and what the backend has received is a text.
TextTypes ==
    /\ inbox \in [Clients -> Seq(RequestTokens)]
    /\ outbox \in [Clients -> Seq(Seq(RequestTokens))]
    /\ req # NoRequest => req.headers \in Seq(CleanTokens) /\ req.body \in Seq(CleanTokens)
    /\ IsSeq(arrived)
    /\ pc \in {"read", "connect"} => target = "none"
    /\ pc = "connect" => req # NoRequest

\* What was sent and what is left are the rebuilt request, which may be followed
\* by what lies behind the body in the array.
StillWhole == pc = "forward" =>
    /\ unsent # <<>> /\ IsSeq(unsent)
    /\ req # NoRequest
    /\ \E ip \in Addresses :
          IF req.body = <<>> THEN arrived \o unsent = Rebuilt(req, ip)
          ELSE IsPrefix(Rebuilt(req, ip), arrived \o unsent)

ForwardInv == TextTypes /\ StillWhole /\ ForwardedIsRequest
FInv == IInv /\ ForwardInv

LEMMA InitForward == Init => ForwardInv
<1>1. Init => TextTypes
  <2>1. IsSeq(<<>>)
    BY EmptyIsSeq
  <2> QED
    BY <2>1 DEF Init, TextTypes
<1> QED
    BY <1>1 DEF Init, ForwardInv, StillWhole, ForwardedIsRequest

\* Two texts are texts over the tokens of both.
LEMMA ConcatIsSeq ==
    ASSUME NEW s, NEW t, IsSeq(s), IsSeq(t)
    PROVE  LET S == ToSet(s) \cup ToSet(t) IN s \in Seq(S) /\ t \in Seq(S) /\ s \o t \in Seq(S)
<1> DEFINE S == ToSet(s) \cup ToSet(t)
<1>1. s \in Seq(S)
    BY SeqMonotonic DEF IsSeq
<1>2. t \in Seq(S)
    BY SeqMonotonic DEF IsSeq
<1> HIDE DEF S
<1> QED
    BY <1>1, <1>2, ConcatProperties DEF S

\* What read returns is a part of what has arrived.
LEMMA ReceivedType ==
    ASSUME TextTypes, client_id \in Clients
    PROVE  /\ Received \in Seq(RequestTokens)
           /\ From(inbox[client_id], Len(Received) + 1) \in Seq(RequestTokens)
<1> DEFINE box == inbox[client_id]
           n == Min({BufferSize - 1, Len(box)})
<1>1. box \in Seq(RequestTokens) /\ Len(box) \in Nat
    BY DEF TextTypes
<1>2. BufferSize - 1 \in Nat
    BY ConstantsAssumption
<1>3. n \in 0 .. Len(box)
    BY <1>1, <1>2, MinOfTwo
<1>4. Received = SubSeq(box, 1, n)
    BY DEF Received
<1> HIDE DEF n, box
<1> QED
    BY <1>1, <1>3, <1>4, CutInTwo DEF box

\* The texts keep their tokens, and no backend is connected before connect.
LEMMA TextTypesStep == FInv /\ [Next]_vars => TextTypes'
<1> SUFFICES ASSUME FInv, [Next]_vars PROVE TextTypes'
    OBVIOUS
<1>0. IInv /\ TypeOK /\ TextTypes /\ StillWhole
    BY DEF FInv, IInv, ForwardInv
<1>a. /\ inbox \in [Clients -> Seq(RequestTokens)]
      /\ outbox \in [Clients -> Seq(Seq(RequestTokens))]
      /\ req # NoRequest => req.headers \in Seq(CleanTokens) /\ req.body \in Seq(CleanTokens)
      /\ IsSeq(arrived) /\ IsSeq(<<>>)
      /\ pc \in {"read", "connect"} => target = "none"
      /\ pc = "connect" => req # NoRequest
      /\ pc # "accept" => client_id \in Clients
      /\ pc = "accept" => target = "none"
      /\ <<>> \in Seq(RequestTokens) /\ <<>> \in Seq(Seq(RequestTokens))
    BY <1>0, Served, EmptyIsSeq DEF TextTypes, IInv, OneConnection
<1> USE DEF memory, sockets, backendConn
<1>1. CASE Accept
    BY <1>1, <1>a DEF Accept, TextTypes
<1>2. CASE RejectRequest \/ TakeRequest
  <2>1. /\ ReadSome /\ pc = "read" /\ client_id \in Clients
        /\ inbox' = [inbox EXCEPT ![client_id] = From(@, Len(Received) + 1)]
        /\ UNCHANGED <<outbox, arrived, target>>
    BY <1>2, <1>a DEF RejectRequest, TakeRequest, ReadSome
  <2>2. inbox' \in [Clients -> Seq(RequestTokens)]
    BY <1>0, <1>a, <2>1, ReceivedType
  <2>3. CString(Received) \in Seq(CleanTokens)
    BY <1>0, <2>1, ReceivedType, CStringIs DEF CleanTokens
  <2>4. \/ req' = req /\ pc' = "cleanup"
        \/ req' = Parse(CString(Received)) /\ req' # NoRequest
    BY <1>2, ParsedIsRequest DEF RejectRequest, TakeRequest
  <2>5. Parse(CString(Received)).headers \in Seq(CleanTokens)
        /\ Parse(CString(Received)).body \in Seq(CleanTokens)
    BY <2>3, ParseType
  <2> QED
    BY <1>a, <2>1, <2>2, <2>4, <2>5 DEF TextTypes
<1>3. CASE Connect
    BY <1>3, <1>a DEF Connect, TextTypes
<1>4. CASE Forward
  <2>1. PICK n \in Amounts(Len(unsent)) : arrived' = arrived \o SubSeq(unsent, 1, n)
    BY <1>4 DEF Forward
  <2>2. IsSeq(unsent) /\ unsent # <<>>
    BY <1>0, <1>4 DEF Forward, StillWhole
  <2> DEFINE S == ToSet(arrived) \cup ToSet(unsent)
  <2>3. arrived \in Seq(S) /\ unsent \in Seq(S)
    BY <1>a, <2>2, ConcatIsSeq
  <2> HIDE DEF S
  <2>4. n \in 0 .. Len(unsent)
    <3>1. Len(unsent) \in Nat \ {0}
      BY <2>2, <2>3
    <3> QED
      BY <3>1 DEF Amounts
  <2>5. SubSeq(unsent, 1, n) \in Seq(S)
    BY <2>3, <2>4, CutInTwo
  <2>6. arrived' \in Seq(S)
    BY <2>1, <2>3, <2>5, ConcatProperties
  <2>7. IsSeq(arrived')
    BY <2>6, SeqIsSeq
  <2> QED
    BY <1>4, <1>a, <2>7 DEF Forward, TextTypes
<1>5. CASE Cleanup
    BY <1>5, <1>a DEF Cleanup, Closed, CloseTarget, TextTypes
<1>6. ASSUME NEW c \in Clients, ClientConnect(c) PROVE TextTypes'
  <2>1. PICK r \in Requests : outbox' = [outbox EXCEPT ![c] = r]
    BY <1>6 DEF ClientConnect
  <2>2. r \in Seq(Seq(RequestTokens))
    BY TextsAssumption
  <2> QED
    BY <1>6, <1>a, <2>1, <2>2 DEF ClientConnect, TextTypes
<1>7. ASSUME NEW c \in Clients, ClientSend(c) PROVE TextTypes'
  <2>1. Head(outbox[c]) \in Seq(RequestTokens) /\ Tail(outbox[c]) \in Seq(Seq(RequestTokens))
    BY <1>7, <1>a DEF ClientSend
  <2>2. inbox[c] \o Head(outbox[c]) \in Seq(RequestTokens)
    BY <1>a, <2>1, ConcatProperties
  <2> QED
    BY <1>7, <1>a, <2>1, <2>2 DEF ClientSend, TextTypes
<1>8. ASSUME NEW c \in Clients, ClientClose(c) \/ ClientReset(c) PROVE TextTypes'
    BY <1>8, <1>a DEF ClientClose, ClientReset, TextTypes
<1>9. ASSUME NEW c \in Clients, KernelDrops(c) PROVE TextTypes'
    BY <1>9, <1>a DEF KernelDrops, Closed, TextTypes
<1>10. CASE UNCHANGED <<inbox, outbox, req, arrived>>
            /\ (pc' \in {"read", "connect"} => pc' = pc /\ target' = target)
    BY <1>10, <1>a DEF TextTypes
<1>11. ReadNothing \/ ConnectFails \/ ForwardFails \/ Recv \/ RecvEnds \/ RelaySend
       \/ RelayFails \/ WriteError
            => UNCHANGED <<inbox, outbox, req, arrived>> /\ pc' \notin {"read", "connect"}
    BY DEF ReadNothing, ConnectFails, ForwardFails, Recv, RecvEnds, RelaySend, RelayFails,
       NoReport, WriteError, AfterSend
<1>12. BackendAnswer \/ BackendSend \/ BackendClose \/ BackendFail
            => UNCHANGED <<inbox, outbox, req, arrived>> /\ pc' \notin {"read", "connect"}
    BY <1>a DEF BackendAnswer, BackendSend, BackendClose, BackendFail
<1>13. UNCHANGED vars => UNCHANGED <<inbox, outbox, req, arrived, pc, target>>
    BY DEF vars
<1> QED
    BY <1>1, <1>2, <1>3, <1>4, <1>5, <1>6, <1>7, <1>8, <1>9, <1>10, <1>11, <1>12, <1>13, <1>a
       DEF Next, ProxyStep, Environment

\* What rebuild_request made of the array is what there is to send.
LEMMA ConnectForwards == FInv /\ Connect => StillWhole' /\ ForwardedIsRequest'
<1> SUFFICES ASSUME FInv, Connect PROVE StillWhole' /\ ForwardedIsRequest'
    OBVIOUS
<1>0. IInv /\ TypeOK /\ TextTypes
    BY DEF FInv, IInv, ForwardInv
<1> DEFINE ip == ClientIp
           head == RebuiltHead(req, ip)
           R == Rebuilt(req, ip)
           S == HeadTokens(req, ip)
<1>1. /\ arrived' = <<>> /\ req' = req /\ Addresses' = Addresses
      /\ request' = Rebuild(request, head, req.body)
      /\ IF RebuildOK(head, req.body)
         THEN pc' = "forward" /\ unsent' \in TextsIn(request') ELSE pc' = "error"
    BY DEF Connect, Addresses, sockets
<1>2. ip \in Addresses
    BY DEF ClientIp, Addresses
<1>3. req # NoRequest
    BY <1>0 DEF Connect, TextTypes
<1>4. req.headers \in Seq(CleanTokens) /\ req.body \in Seq(CleanTokens)
    BY <1>0, <1>3 DEF TextTypes
<1>5. NUL \notin S /\ head \in Seq(S) /\ req.body \in Seq(S) /\ head # <<>>
    BY <1>4, RebuiltType
<1> HIDE DEF S
<1>6. R = head \o req.body /\ R \in Seq(S) /\ R # <<>>
    BY <1>5, ConcatProperties, ConcatEqualIffEmpty DEF Rebuilt
<1> HIDE DEF head, ip
<1>7. IsPrefix(<<>>, R)
  <2>1. <<>> \in Seq(S) /\ <<>> \o R = R
    BY <1>6, ConcatEmptySeq
  <2> QED
    BY <1>6, <2>1, BeginsConcat
<1>8. ForwardedIsRequest'
    BY <1>1, <1>2, <1>7 DEF ForwardedIsRequest
<1>9. ASSUME RebuildOK(head, req.body) PROVE StillWhole'
  <2>1. /\ IsSeq(unsent')
        /\ IF req.body = <<>> THEN unsent' = R ELSE IsPrefix(R, unsent')
    BY <1>0, <1>1, <1>5, <1>6, <1>9, TextsInRebuilt DEF TypeOK
  <2>2. <<>> \o unsent' = unsent'
    BY <2>1, ConcatEmptySeq DEF IsSeq
  <2>3. unsent' # <<>>
    <3>1. CASE req.body = <<>>
      BY <1>6, <2>1, <3>1
    <3>2. CASE req.body # <<>>
      <4>1. Len(R) <= Len(unsent')
        BY <2>1, <3>2 DEF IsPrefix
      <4>2. Len(R) \in Nat \ {0}
        BY <1>6
      <4>3. unsent' = <<>> => Len(unsent') = 0
        OBVIOUS
      <4> QED
        BY <4>1, <4>2, <4>3
    <3> QED
      BY <3>1, <3>2
  <2> HIDE DEF R
  <2>4. IF req'.body = <<>> THEN arrived' \o unsent' = R
        ELSE IsPrefix(R, arrived' \o unsent')
    BY <1>1, <2>1, <2>2
  <2> QED
    BY <1>1, <1>2, <1>3, <2>1, <2>3, <2>4 DEF StillWhole, R
<1> QED
    BY <1>1, <1>8, <1>9 DEF StillWhole

\* The backend receives a longer beginning of what was to be sent, and what is
\* left to send is the rest of it.
LEMMA ForwardTakes ==
    ASSUME NEW S, NEW s \in Seq(S), NEW t \in Seq(S), NEW n \in 0 .. Len(t)
    PROVE  LET b == s \o SubSeq(t, 1, n)
           IN  /\ b \in Seq(S) /\ From(t, n + 1) \in Seq(S)
               /\ b \o From(t, n + 1) = s \o t /\ IsPrefix(b, s \o t)
<1> DEFINE c == SubSeq(t, 1, n)
           d == From(t, n + 1)
<1>1. c \in Seq(S) /\ d \in Seq(S) /\ c \o d = t
    BY CutInTwo
<1> HIDE DEF c, d
<1>2. (s \o c) \o d = s \o t
  <2>1. c \in Seq(S) /\ d \in Seq(S)
    BY <1>1
  <2>2. s \o (c \o d) = (s \o c) \o d
    BY <2>1, ConcatAssociative, Z3T(30)
  <2> QED
    BY <1>1, <2>2
<1>3. s \o c \in Seq(S)
    BY <1>1, ConcatProperties
<1>4. IsPrefix(s \o c, (s \o c) \o d)
    BY <1>1, <1>3, BeginsConcat
<1> QED
    BY <1>1, <1>2, <1>3, <1>4 DEF c, d

\* A partial send leaves the rest to be sent, one that returns 0 forgets it.
LEMMA ForwardForwards == FInv /\ Forward => StillWhole' /\ ForwardedIsRequest'
<1> SUFFICES ASSUME FInv, Forward PROVE StillWhole' /\ ForwardedIsRequest'
    OBVIOUS
<1>0. /\ pc = "forward" /\ StillWhole /\ TextTypes
      /\ Addresses' = Addresses /\ req' = req
    BY DEF FInv, ForwardInv, Forward, Addresses, sockets
<1>1. PICK n \in Amounts(Len(unsent)) :
          /\ arrived' = arrived \o SubSeq(unsent, 1, n)
          /\ unsent' = IF n = 0 THEN <<>> ELSE RestAfter(unsent, n)
          /\ pc' = IF unsent' = <<>> THEN "recv" ELSE "forward"
    BY DEF Forward
<1>2. IsSeq(arrived) /\ IsSeq(unsent) /\ unsent # <<>> /\ req # NoRequest
    BY <1>0 DEF StillWhole, TextTypes
<1>3. PICK ip \in Addresses :
          IF req.body = <<>> THEN arrived \o unsent = Rebuilt(req, ip)
          ELSE IsPrefix(Rebuilt(req, ip), arrived \o unsent)
    BY <1>0 DEF StillWhole
<1> DEFINE R == Rebuilt(req, ip)
           t == arrived \o unsent
           Q == HeadTokens(req, ip)
           S == Q \cup (ToSet(arrived) \cup ToSet(unsent))
<1>4. R \in Seq(Q)
  <2>1. req.headers \in Seq(CleanTokens) /\ req.body \in Seq(CleanTokens)
    BY <1>0, <1>2 DEF TextTypes
  <2>2. RebuiltHead(req, ip) \in Seq(Q) /\ req.body \in Seq(Q)
    BY <2>1, RebuiltType
  <2> HIDE DEF Q
  <2> QED
    BY <2>2, ConcatProperties DEF Rebuilt
<1>5. arrived \in Seq(S) /\ unsent \in Seq(S) /\ R \in Seq(S)
  <2>1. arrived \in Seq(ToSet(arrived) \cup ToSet(unsent))
        /\ unsent \in Seq(ToSet(arrived) \cup ToSet(unsent))
    BY <1>2, ConcatIsSeq
  <2> HIDE DEF R, Q
  <2>2. R \in Seq(S)
    BY <1>4, SeqMonotonic
  <2>3. arrived \in Seq(S)
    BY <2>1, SeqMonotonic
  <2>4. unsent \in Seq(S)
    BY <2>1, SeqMonotonic
  <2> QED
    BY <2>2, <2>3, <2>4
<1> HIDE DEF R, S
<1>6. n \in 0 .. Len(unsent)
  <2>1. Len(unsent) \in Nat \ {0}
    BY <1>2, <1>5
  <2> QED
    BY <2>1 DEF Amounts
<1>7. /\ arrived' \in Seq(S) /\ From(unsent, n + 1) \in Seq(S)
      /\ arrived' \o From(unsent, n + 1) = t /\ IsPrefix(arrived', t)
  <2> DEFINE b == arrived \o SubSeq(unsent, 1, n)
  <2>1. /\ b \in Seq(S) /\ From(unsent, n + 1) \in Seq(S)
        /\ b \o From(unsent, n + 1) = t /\ IsPrefix(b, t)
    BY <1>5, <1>6, ForwardTakes
  <2>2. arrived' = b
    BY <1>1
  <2> HIDE DEF b, t
  <2> QED
    BY <2>1, <2>2
<1>8. t \in Seq(S)
    BY <1>5, ConcatProperties
<1>9. IF req.body = <<>> THEN t = R ELSE IsPrefix(R, t)
    BY <1>3 DEF R
<1> HIDE DEF t
<1>10. IsPrefix(arrived', R) \/ (req.body # <<>> /\ IsPrefix(R, arrived'))
  <2>1. CASE req.body = <<>>
    BY <1>7, <1>9, <2>1
  <2>2. CASE req.body # <<>>
    <3>1. IsPrefix(R, arrived') \/ IsPrefix(arrived', R)
      BY <1>5, <1>7, <1>8, <1>9, <2>2, Beginnings
    <3> QED
      BY <2>2, <3>1
  <2> QED
    BY <2>1, <2>2
<1>11. ForwardedIsRequest'
    BY <1>0, <1>3, <1>10 DEF ForwardedIsRequest, R
<1>12. ASSUME pc' = "forward" PROVE StillWhole'
  <2>1. unsent' # <<>> /\ unsent' = From(unsent, n + 1)
    BY <1>1, <1>12 DEF RestAfter
  <2>2. IsSeq(unsent')
    BY <1>7, <2>1, SeqIsSeq
  <2>3. arrived' \o unsent' = t
    BY <1>7, <2>1
  <2>4. IF req'.body = <<>> THEN arrived' \o unsent' = R
        ELSE IsPrefix(R, arrived' \o unsent')
    BY <1>0, <1>9, <2>3
  <2> QED
    BY <1>0, <1>2, <1>3, <2>1, <2>2, <2>4 DEF StillWhole, R
<1> QED
    BY <1>11, <1>12 DEF StillWhole

\* While a client is served its address can only be lost.
LEMMA AddressesStay ==
    IInv /\ pc # "accept" /\ [Next]_vars /\ client_id' = client_id => Addresses \subseteq Addresses'
<1> SUFFICES ASSUME IInv, pc # "accept", [Next]_vars, client_id' = client_id
             PROVE  peer[client_id] = "rst" => peer'[client_id] = "rst"
    BY DEF Addresses
<1>0. client_id \in Clients /\ link[client_id] = "open" /\ peer \in [Clients -> {"up", "fin", "rst"}]
    BY Served DEF IInv, TypeOK
<1> USE DEF memory, sockets, backendConn
<1>1. CASE ProxyStep
  <2>1. Cleanup => client_id' = NoClient
    BY DEF Cleanup
  <2>2. ~Cleanup
    BY <1>0, <2>1, ConstantsAssumption
  <2>3. peer' = peer
    BY <1>1, <2>2 DEF ProxyStep, Accept, ReadNothing, ReadSome, RejectRequest, TakeRequest,
       ConnectFails, Connect, ForwardFails, Forward, Recv, RecvEnds, RelaySend, RelayFails, WriteError
  <2> QED
    BY <2>3
<1>2. ASSUME NEW c \in Clients, ClientConnect(c) \/ ClientSend(c) \/ ClientClose(c) \/ ClientReset(c)
      PROVE  peer[client_id] = "rst" => peer'[client_id] = "rst"
    BY <1>0, <1>2 DEF ClientConnect, ClientSend, ClientClose, ClientReset
<1>3. ASSUME NEW c \in Clients, KernelDrops(c)
      PROVE  peer[client_id] = "rst" => peer'[client_id] = "rst"
  <2>1. link[c] = "queued" /\ peer' = [peer EXCEPT ![c] = "up"]
    BY <1>3 DEF KernelDrops, Closed
  <2>2. c # client_id
    BY <1>0, <2>1
  <2> QED
    BY <1>0, <2>1, <2>2
<1>4. CASE BackendAnswer \/ BackendSend \/ BackendClose \/ BackendFail \/ UNCHANGED vars
    BY <1>4 DEF BackendAnswer, BackendSend, BackendClose, BackendFail, vars
<1> QED
    BY <1>1, <1>2, <1>3, <1>4 DEF Next, Environment

\* No other step disturbs what was sent, what is left, or whose request it is.
LEMMA ForwardStep == FInv /\ [Next]_vars => StillWhole' /\ ForwardedIsRequest'
<1> SUFFICES ASSUME FInv, [Next]_vars PROVE StillWhole' /\ ForwardedIsRequest'
    OBVIOUS
<1>0. StillWhole /\ ForwardedIsRequest /\ (pc \in {"read", "connect"} => target = "none")
    BY DEF FInv, ForwardInv, TextTypes
<1> USE DEF memory, sockets, backendConn
<1>1. CASE Connect
    BY <1>1, ConnectForwards
<1>2. CASE Forward
    BY <1>2, ForwardForwards
<1>3. CASE UNCHANGED <<arrived, unsent, req>> /\ (pc' = "forward" => pc = "forward")
           /\ (target = "none" => target' = "none") /\ Addresses \subseteq Addresses'
  <2>1. StillWhole'
    BY <1>0, <1>3 DEF StillWhole
  <2>2. ForwardedIsRequest'
    BY <1>0, <1>3 DEF ForwardedIsRequest
  <2> QED
    BY <2>1, <2>2
<1>4. CASE target' = "none" /\ pc' # "forward"
    BY <1>4 DEF StillWhole, ForwardedIsRequest
<1>5. Accept \/ RejectRequest \/ TakeRequest \/ Cleanup => target' = "none" /\ pc' # "forward"
  <2>1. Accept => target = "none"
    BY DEF FInv, IInv, OneConnection, Accept
  <2> QED
    BY <1>0, <2>1 DEF Accept, RejectRequest, TakeRequest, ReadSome, Cleanup, CloseTarget
<1>6. ReadNothing \/ ConnectFails \/ ForwardFails \/ Recv \/ RecvEnds \/ RelaySend
      \/ RelayFails \/ WriteError
          => UNCHANGED <<arrived, unsent, req, client_id, target>> /\ pc' # "forward"
    BY DEF ReadNothing, ConnectFails, ForwardFails, Recv, RecvEnds, RelaySend, RelayFails,
       NoReport, WriteError, AfterSend
<1>7. \A c \in Clients : ClientConnect(c) \/ ClientSend(c) \/ ClientClose(c) \/ ClientReset(c)
                         \/ KernelDrops(c)
          => UNCHANGED <<arrived, unsent, req, client_id, target, pc>>
    BY DEF ClientConnect, ClientSend, ClientClose, ClientReset, KernelDrops
<1>8. BackendAnswer \/ BackendSend \/ BackendClose \/ BackendFail
          => UNCHANGED <<arrived, unsent, req, client_id, pc>> /\ target # "none"
    BY DEF BackendAnswer, BackendSend, BackendClose, BackendFail
<1>9. UNCHANGED vars => UNCHANGED <<arrived, unsent, req, client_id, target, pc>>
    BY DEF vars
<1>10. pc = "accept" => target = "none" /\ pc # "forward"
    BY DEF FInv, IInv, OneConnection
<1>11. pc # "accept" /\ client_id' = client_id => Addresses \subseteq Addresses'
    BY AddressesStay DEF FInv
<1>12. CASE UNCHANGED <<arrived, unsent, req, client_id>> /\ (pc' = "forward" => pc = "forward")
            /\ (target = "none" => target' = "none")
    BY <1>3, <1>4, <1>10, <1>11, <1>12
<1> QED
    BY <1>1, <1>2, <1>4, <1>5, <1>6, <1>7, <1>8, <1>9, <1>12 DEF Next, ProxyStep, Environment

LEMMA ForwardInductive == Spec => []FInv
<1>1. Init => FInv
    BY InitIInv, InitForward DEF FInv
<1>2. FInv /\ [Next]_vars => IInv'
    BY TypeStep, OneConnectionStep, SurvivesStep, LeakStep DEF FInv, IInv
<1>3. FInv /\ [Next]_vars => FInv'
    BY <1>2, TextTypesStep, ForwardStep DEF FInv, ForwardInv
<1> QED
    BY <1>1, <1>3, PTL DEF Spec

-----------------------------------------------------------------------------
\* How the backend reads the request that was rebuilt: what the header loop makes
\* of the client's text and of what the backend has received.
\* With places for max headers it keeps the first max of all headers.
LEMMA FillsCut ==
    ASSUME NEW S, NEW line \in Seq(S), NEW max \in Nat, NEW all \in Nat, Len(line) <= all,
           NEW f, Fills(f, line, max), NEW g, Fills(g, line, all)
    PROVE  f[Len(line)] = SubSeq(g[Len(line)], 1, Min({max, Len(g[Len(line)])}))
<1> DEFINE n == Len(line)
           T == {t \in S : IsHeader(t)}
           V == {k \in 0 .. n : f[k] = SubSeq(g[k], 1, Min({max, Len(g[k])}))}
<1>1. n \in Nat /\ n <= all /\ \A k \in 1 .. n : line[k] \in S
    OBVIOUS
<1>2. /\ \A k \in 0 .. n : f[k] \in Seq(T)
      /\ \A k \in 0 .. n : g[k] \in Seq(T) /\ Len(g[k]) <= k
  <2>1. \A k \in 0 .. n : f[k] \in Seq(T)
    BY FillsType
  <2>2. \A k \in 0 .. n : g[k] \in Seq(T) /\ Len(g[k]) <= k
    BY FillsType
  <2> QED
    BY <2>1, <2>2
<1>3. 0 \in V
  <2>1. g[0] = <<>> /\ f[0] = <<>>
    BY DEF Fills
  <2> DEFINE l == Len(g[0])
  <2>2. l = 0 /\ 0 \in 0 .. n /\ SubSeq(g[0], 1, 0) = <<>>
    BY <1>1, <2>1
  <2> HIDE DEF l
  <2>3. Min({max, l}) = 0
    BY <2>2, MinOfTwo
  <2> QED
    BY <2>1, <2>2, <2>3 DEF l
<1>4. ASSUME NEW k \in 1 .. n, k - 1 \in V PROVE k \in V
  <2> DEFINE p == g[k - 1]
             x == line[k]
             m == Min({max, Len(p)})
  <2>0. k \in 0 .. n /\ k - 1 \in 0 .. n /\ x \in S /\ f[k - 1] = SubSeq(p, 1, m)
    <3>1. k \in 0 .. n /\ k - 1 \in 0 .. n /\ x \in S
      BY <1>1
    <3>2. f[k - 1] = SubSeq(g[k - 1], 1, Min({max, Len(g[k - 1])}))
      BY <1>4
    <3> QED
      BY <3>1, <3>2
  <2>1. k \in 0 .. n /\ k - 1 \in 0 .. n /\ p \in Seq(T) /\ Len(p) \in Nat /\ Len(p) < all
        /\ f[k - 1] = SubSeq(p, 1, m) /\ x \in S /\ Len(p) <= k - 1
    <3>1. p \in Seq(T) /\ Len(p) <= k - 1
      BY <1>2, <2>0
    <3>2. Len(p) \in Nat
      BY <3>1
    <3> HIDE DEF p, x, m, T, V
    <3> QED
      BY <1>1, <2>0, <3>1, <3>2
  <2>2. m = IF max <= Len(p) THEN max ELSE Len(p)
    BY <2>1, MinOfTwo
  <2>3. f[k] = IF IsHeader(x) /\ Len(f[k - 1]) < max THEN Append(f[k - 1], x) ELSE f[k - 1]
    BY DEF Fills
  <2>4. g[k] = IF IsHeader(x) THEN Append(p, x) ELSE p
    BY <2>1 DEF Fills
  <2> HIDE DEF p, m, x, n
  <2>5. CASE ~IsHeader(x)
    BY <2>1, <2>3, <2>4, <2>5 DEF m
  <2>6. CASE IsHeader(x)
    <3>1. x \in T
      BY <2>1, <2>6
    <3> HIDE DEF T
    <3>2. Len(SubSeq(p, 1, m)) = m
      BY <2>1, <2>2
    <3>3. Append(p, x) \in Seq(T) /\ Len(Append(p, x)) = Len(p) + 1
      BY <2>1, <3>1
    <3>4. Min({max, Len(p) + 1}) = IF max <= Len(p) + 1 THEN max ELSE Len(p) + 1
      BY <2>1, MinOfTwo
    <3>5. CASE max <= Len(p)
      <4>1. f[k] = SubSeq(p, 1, max)
        BY <2>1, <2>2, <2>3, <3>2, <3>5
      <4>2. Min({max, Len(g[k])}) = max
        BY <2>1, <2>4, <2>6, <3>3, <3>4, <3>5
      <4>3. SubSeq(Append(p, x), 1, max) = SubSeq(p, 1, max)
        BY <2>1, <3>1, <3>5
      <4> QED
        BY <2>1, <2>4, <2>6, <4>1, <4>2, <4>3
    <3>6. CASE ~(max <= Len(p))
      <4>1. f[k] = Append(p, x)
        <5>1. m = Len(p)
          BY <2>2, <3>6
        <5>2. SubSeq(p, 1, Len(p)) = p
          BY <2>1
        <5> QED
          BY <2>1, <2>3, <2>6, <3>6, <5>1, <5>2
      <4>2. Min({max, Len(g[k])}) = Len(g[k])
        BY <2>1, <2>4, <2>6, <3>3, <3>4, <3>6
      <4>3. SubSeq(Append(p, x), 1, Len(Append(p, x))) = Append(p, x)
        BY <3>3
      <4> QED
        BY <2>1, <2>4, <2>6, <4>1, <4>2, <4>3
    <3> QED
      BY <3>5, <3>6
  <2> QED
    BY <2>5, <2>6
<1> HIDE DEF V, n
<1>5. \A k \in 0 .. n : k \in V
    BY <1>1, <1>3, <1>4, Reaches
<1>6. n \in 0 .. n
    BY <1>1
<1> QED
    BY <1>5, <1>6 DEF V, n

\* h holds the first length of line's first k tokens as its own first length,
\* or no length, and then line has none there or h was full before it came.
KeepsLength(h, line, k, max) ==
    \/ \E i \in 1 .. k, j \in 1 .. Len(h) :
          /\ IsLength(line[i]) /\ \A m \in 1 .. i - 1 : ~IsLength(line[m])
          /\ h[j] = line[i] /\ \A m \in 1 .. j - 1 : ~IsLength(h[m])
    \/ /\ \A j \in 1 .. Len(h) : ~IsLength(h[j])
       /\ Len(h) >= max \/ \A m \in 1 .. k : ~IsLength(line[m])

LEMMA FillsLength ==
    ASSUME NEW S, NEW line \in Seq(S), NEW max \in Nat, NEW f, Fills(f, line, max)
    PROVE  KeepsLength(f[Len(line)], line, Len(line), max)
<1> DEFINE n == Len(line)
           T == {t \in S : IsHeader(t)}
           V == {k \in 0 .. n : KeepsLength(f[k], line, k, max)}
<1>1. n \in Nat /\ \A k \in 1 .. n : line[k] \in S
    OBVIOUS
<1>2. \A k \in 0 .. n : f[k] \in Seq(T) /\ Len(f[k]) <= k
    BY FillsType
<1>3. 0 \in V
  <2>1. f[0] = <<>>
    BY DEF Fills
  <2>2. 0 \in 0 .. n /\ Len(f[0]) = 0
    BY <1>1, <2>1
  <2>3. KeepsLength(f[0], line, 0, max)
    BY <2>2 DEF KeepsLength
  <2> QED
    BY <2>2, <2>3
<1>4. ASSUME NEW k \in 1 .. n, k - 1 \in V PROVE k \in V
  <2> DEFINE p == f[k - 1]
             x == line[k]
             l == Len(p)
  <2>0. k \in 0 .. n /\ k - 1 \in 0 .. n /\ k \in Nat /\ x \in S
    BY <1>1
  <2>1. p \in Seq(T) /\ l \in Nat /\ DOMAIN p = 1 .. l
    <3>1. p \in Seq(T)
      BY <1>2, <2>0
    <3> HIDE DEF p
    <3> QED
      BY <3>1
  <2>2. KeepsLength(p, line, k - 1, max)
    BY <1>4
  <2>3. f[k] = IF IsHeader(x) /\ l < max THEN Append(p, x) ELSE p
    BY DEF Fills
  <2> HIDE DEF p, x, l, n
  <2>4. ASSUME IsHeader(x)
        PROVE  /\ Len(Append(p, x)) = l + 1 /\ Append(p, x)[l + 1] = x
               /\ \A j \in 1 .. l : Append(p, x)[j] = p[j]
    <3>1. x \in T
      BY <2>0, <2>4
    <3> HIDE DEF T
    <3> QED
      BY <2>1, <3>1 DEF l
  <2>5. CASE \E i \in 1 .. k - 1, j \in 1 .. l :
          /\ IsLength(line[i]) /\ \A m \in 1 .. i - 1 : ~IsLength(line[m])
          /\ p[j] = line[i] /\ \A m \in 1 .. j - 1 : ~IsLength(p[m])
    <3>1. PICK i \in 1 .. k - 1, j \in 1 .. l :
          /\ IsLength(line[i]) /\ \A m \in 1 .. i - 1 : ~IsLength(line[m])
          /\ p[j] = line[i] /\ \A m \in 1 .. j - 1 : ~IsLength(p[m])
      BY <2>5
    <3>2. i \in 1 .. k /\ \A m \in 1 .. j - 1 : m \in 1 .. l
      BY <2>0, <2>1
    <3>3. j \in 1 .. Len(f[k]) /\ f[k][j] = p[j] /\ \A m \in 1 .. j - 1 : f[k][m] = p[m]
      <4>1. CASE IsHeader(x) /\ l < max
        BY <2>1, <2>3, <2>4, <3>2, <4>1
      <4>2. CASE ~(IsHeader(x) /\ l < max)
        BY <2>1, <2>3, <4>2 DEF l
      <4> QED
        BY <4>1, <4>2
    <3>4. KeepsLength(f[k], line, k, max)
      BY <3>1, <3>2, <3>3 DEF KeepsLength
    <3> QED
      BY <2>0, <3>4
  <2>6. CASE /\ \A j \in 1 .. l : ~IsLength(p[j])
             /\ l >= max \/ \A m \in 1 .. k - 1 : ~IsLength(line[m])
    <3>1. CASE l >= max
      <4>1. f[k] = p
        BY <2>1, <2>3, <3>1
      <4> QED
        BY <2>0, <2>6, <3>1, <4>1 DEF KeepsLength, l
    <3>2. CASE ~(l >= max)
      <4>1. l < max /\ \A m \in 1 .. k - 1 : ~IsLength(line[m])
        BY <2>1, <2>6, <3>2
      <4>2. CASE IsLength(x)
        <5>1. IsHeader(x) /\ f[k] = Append(p, x)
          BY <2>3, <4>1, <4>2 DEF IsHeader
        <5>2. k \in 1 .. k /\ l + 1 \in 1 .. Len(f[k]) /\ f[k][l + 1] = line[k]
              /\ IsLength(line[k]) /\ \A m \in 1 .. (l + 1) - 1 : ~IsLength(f[k][m])
          BY <2>0, <2>1, <2>4, <2>6, <4>2, <5>1 DEF x
        <5>3. KeepsLength(f[k], line, k, max)
          BY <4>1, <5>2 DEF KeepsLength
        <5> QED
          BY <2>0, <5>3
      <4>3. CASE ~IsLength(x)
        <5>1. \A m \in 1 .. k : ~IsLength(line[m])
          <6>1. \A m \in 1 .. k : m = k \/ m \in 1 .. k - 1
            BY <2>0
          <6> QED
            BY <4>1, <4>3, <6>1 DEF x
        <5>2. \A j \in 1 .. Len(f[k]) : ~IsLength(f[k][j])
          <6>1. CASE IsHeader(x)
            <7>1. f[k] = Append(p, x)
              BY <2>3, <4>1, <6>1
            <7>2. \A j \in 1 .. l + 1 : j = l + 1 \/ j \in 1 .. l
              BY <2>1
            <7> QED
              BY <2>4, <2>6, <4>3, <6>1, <7>1, <7>2
          <6>2. CASE ~IsHeader(x)
            BY <2>3, <2>6, <6>2 DEF l
          <6> QED
            BY <6>1, <6>2
        <5>3. KeepsLength(f[k], line, k, max)
          BY <5>1, <5>2 DEF KeepsLength
        <5> QED
          BY <2>0, <5>3
      <4> QED
        BY <4>2, <4>3
    <3> QED
      BY <3>1, <3>2
  <2> QED
    BY <2>2, <2>5, <2>6 DEF KeepsLength, l
<1> HIDE DEF V, n
<1>5. \A k \in 0 .. n : k \in V
    BY <1>1, <1>3, <1>4, Reaches
<1>6. n \in 0 .. n
    BY <1>1
<1> QED
    BY <1>5, <1>6 DEF V, n

\* What a loop that never fills up keeps of line: nothing before place b, the
\* headers in the places behind it, and these remain the beginning.
LEMMA FillsCopy ==
    ASSUME NEW S, NEW line \in Seq(S), NEW all \in Nat, Len(line) <= all,
           NEW f, Fills(f, line, all),
           NEW b \in Nat, NEW h \in Seq(S), b + Len(h) <= Len(line),
           \A k \in 1 .. b : ~IsHeader(line[k]),
           \A k \in 1 .. Len(h) : IsHeader(h[k]) /\ line[b + k] = h[k]
    PROVE  IsPrefix(h, f[Len(line)])
<1> DEFINE n == Len(line)
           l == Len(h)
           T == {t \in S : IsHeader(t)}
           V == {k \in 0 .. n : /\ k <= b => Len(f[k]) = 0
                                /\ \A j \in 1 .. l : b + j <= k => j <= Len(f[k]) /\ f[k][j] = h[j]
                                /\ k >= b /\ k <= b + l => Len(f[k]) = k - b}
<1>1. n \in Nat /\ l \in Nat /\ n <= all /\ b + l <= n /\ \A k \in 1 .. n : line[k] \in S
    OBVIOUS
<1>2. \A k \in 0 .. n : f[k] \in Seq(T) /\ Len(f[k]) <= k
    BY FillsType
<1>3. 0 \in V
  <2>1. f[0] = <<>>
    BY DEF Fills
  <2>2. 0 \in 0 .. n /\ Len(f[0]) = 0
    BY <1>1, <2>1
  <2> HIDE DEF n, l
  <2> QED
    BY <1>1, <2>2
<1>4. ASSUME NEW k \in 1 .. n, k - 1 \in V PROVE k \in V
  <2> DEFINE p == f[k - 1]
             q == f[k]
             x == line[k]
  <2>1. k \in 0 .. n /\ k - 1 \in 0 .. n /\ k \in Nat /\ x \in S
    BY <1>1
  <2>2. p \in Seq(T) /\ Len(p) <= k - 1 /\ q \in Seq(T)
    BY <1>2, <2>1
  <2>3. q = IF IsHeader(x) /\ Len(p) < all THEN Append(p, x) ELSE p
    BY DEF Fills
  <2>4. /\ k - 1 <= b => Len(p) = 0
        /\ \A j \in 1 .. l : b + j <= k - 1 => j <= Len(p) /\ p[j] = h[j]
        /\ k - 1 >= b /\ k - 1 <= b + l => Len(p) = (k - 1) - b
    BY <1>4
  <2>5. k <= b => ~IsHeader(x)
    BY <2>1
  <2>6. \A j \in 1 .. l : k = b + j => IsHeader(x) /\ x = h[j]
    OBVIOUS
  <2> HIDE DEF p, q, x, n, l
  <2>7. Len(p) \in Nat /\ Len(p) < all
    <3>1. Len(p) \in Nat
      BY <2>2
    <3> QED
      BY <1>1, <2>1, <2>2, <3>1
  <2>8. \/ ~IsHeader(x) /\ q = p
        \/ /\ IsHeader(x) /\ Len(q) = Len(p) + 1 /\ q[Len(p) + 1] = x
           /\ \A j \in 1 .. Len(p) : q[j] = p[j]
    <3>1. CASE IsHeader(x)
      <4>1. x \in T
        BY <2>1, <3>1
      <4> HIDE DEF T
      <4> QED
        BY <2>2, <2>3, <2>7, <3>1, <4>1
    <3> QED
      BY <2>3, <3>1
  <2>9. k <= b => Len(q) = 0
    BY <1>1, <2>1, <2>4, <2>5, <2>8
  <2>10. ASSUME NEW j \in 1 .. l, b + j <= k PROVE j <= Len(q) /\ q[j] = h[j]
    <3>1. CASE b + j <= k - 1
      <4>1. j <= Len(p) /\ p[j] = h[j] /\ j \in 1 .. Len(p)
        BY <1>1, <2>4, <2>7, <3>1
      <4> QED
        BY <2>7, <2>8, <4>1
    <3>2. CASE ~(b + j <= k - 1)
      <4>1. k = b + j
        BY <1>1, <2>1, <2>10, <3>2
      <4>2. IsHeader(x) /\ x = h[j]
        BY <2>6, <4>1
      <4>3. Len(p) = j - 1
        <5>1. k - 1 >= b /\ k - 1 <= b + l /\ (k - 1) - b = j - 1
          BY <1>1, <4>1
        <5> QED
          BY <2>4, <5>1
      <4>4. Len(p) + 1 = j
        BY <4>3
      <4>5. Len(q) = Len(p) + 1 /\ q[Len(p) + 1] = x
        BY <2>8, <4>2
      <4> QED
        BY <2>7, <4>2, <4>4, <4>5
    <3> QED
      BY <3>1, <3>2
  <2>11. k >= b /\ k <= b + l => Len(q) = k - b
    <3>1. CASE k - 1 >= b /\ k <= b + l
      <4>1. k - b \in 1 .. l /\ k = b + (k - b)
        BY <1>1, <2>1, <3>1
      <4>2. IsHeader(x)
        BY <2>6, <4>1
      <4>3. Len(p) = (k - 1) - b
        BY <1>1, <2>1, <2>4, <3>1
      <4> QED
        BY <1>1, <2>1, <2>8, <4>2, <4>3
    <3>2. CASE k = b
      BY <1>1, <2>1, <2>9, <3>2
    <3> QED
      BY <1>1, <2>1, <3>1, <3>2
  <2> QED
    BY <2>1, <2>9, <2>10, <2>11 DEF q
<1> HIDE DEF V
<1>5. \A k \in 0 .. n : k \in V
    BY <1>1, <1>3, <1>4, Reaches
<1>6. n \in V
    BY <1>1, <1>5
<1>7. \A j \in 1 .. l : j <= Len(f[n]) /\ f[n][j] = h[j]
  <2>1. \A j \in 1 .. l : b + j <= n
    BY <1>1
  <2> QED
    BY <1>6, <2>1 DEF V
<1>8. f[n] \in Seq(T) /\ T \subseteq S
  <2>1. n \in 0 .. n
    BY <1>1
  <2> QED
    BY <1>2, <2>1
<1>9. f[n] \in Seq(S)
  <2> HIDE DEF T, n
  <2> QED
    BY <1>8, SeqMonotonic
<1>10. l <= Len(f[n])
  <2>1. CASE l = 0
    BY <1>9, <2>1
  <2>2. CASE l # 0
    <3>1. l \in 1 .. l
      BY <1>1, <2>2
    <3> QED
      BY <1>7, <3>1
  <2> QED
    BY <2>1, <2>2
<1> QED
    BY <1>7, <1>9, <1>10, PrefixIs

\* The kinds of tokens.
LEMMA Kinds ==
    /\ \A w : /\ IsWord(Word(w)) /\ Word(w).word = w
              /\ Word(w) # EOL /\ ~EndsLine(Word(w)) /\ ~IsHeader(Word(w))
    /\ \A t : IsHeader(t) => t # EOL /\ EndsLine(t)
    /\ \A t : IsWord(t) => t # EOL /\ ~EndsLine(t)
    /\ \A k, v : IsHeader(Hdr(k, v)) /\ ~IsLength(Hdr(k, v))
    /\ \A n : IsLength(ContentLength(n)) /\ ContentLength(n).length = n
    /\ \A t : IsLength(t) => IsHeader(t)
    /\ ~IsHeader(EOL)
<1>1. /\ DOMAIN EOL = {"eol"} /\ DOMAIN Junk = {"line"}
      /\ \A w : DOMAIN Word(w) = {"word"} /\ Word(w).word = w
    BY DEF EOL, Junk, Word
<1>2. \A n : DOMAIN ContentLength(n) = {"length"} /\ ContentLength(n).length = n
    BY DEF ContentLength
<1>3. \A k, v : DOMAIN Hdr(k, v) = {"key", "val"}
    BY DEF Hdr
<1>4. {"key", "val"} # {"length"} /\ {"key", "val"} # {"word"} /\ {"key", "val"} # {"eol"}
    OBVIOUS
<1>5. /\ {"word"} # {"length"} /\ {"eol"} # {"length"} /\ {"word"} # {"eol"}
      /\ {"word"} # {"line"}
    OBVIOUS
<1>6. \A t : DOMAIN t = {"word"} => ~IsHeader(t) /\ t # EOL /\ t # Junk
    BY <1>1, <1>4, <1>5, Zenon DEF IsHeader, IsLength
<1>7. ~IsHeader(EOL)
    BY <1>1, <1>4, <1>5, Zenon DEF IsHeader, IsLength
<1>8. \A k, v : IsHeader(Hdr(k, v)) /\ ~IsLength(Hdr(k, v))
    BY <1>3, <1>4, Zenon DEF IsHeader, IsLength
<1> QED
    BY <1>1, <1>2, <1>6, <1>7, <1>8, Zenon DEF IsWord, IsHeader, IsLength, EndsLine

\* What begins with a rebuilt request has its cells.
LEMMA CellsOfRebuilt ==
    ASSUME NEW S, NEW r, NEW ip, r.headers \in Seq(S), r.body \in Seq(S),
           {Word(r.method), Word(r.path), Word(<<"HTTP/1.1">>), EOL, ConnectionClose,
            Hdr("X-Forwarded-For", ip), ContentLength(Len(r.body))} \subseteq S,
           NEW a \in Seq(S), IsPrefix(Rebuilt(r, ip), a)
    PROVE  \E n \in 1 .. Len(a) : /\ HeadCells(a, r, ip, n) /\ n + Len(r.body) <= Len(a)
                                  /\ \A k \in 1 .. Len(r.body) : a[n + k] = r.body[k]
<1> DEFINE d == RebuiltHead(r, ip)
           n == Len(d)
           R == Rebuilt(r, ip)
<1>1. d \in Seq(S) /\ HeadCells(d, r, ip, n)
    BY CellsOfHead
<1>2. R = d \o r.body
    BY DEF Rebuilt
<1> HIDE DEF d, R
<1>3. /\ R \in Seq(S) /\ Len(R) = n + Len(r.body)
      /\ \A k \in 1 .. n : R[k] = d[k]
      /\ \A k \in 1 .. Len(r.body) : R[n + k] = r.body[k]
  <2>1. d \in Seq(S) /\ r.body \in Seq(S)
    BY <1>1
  <2> QED
    BY <1>2, <2>1, ConcatCells
<1>4. Len(R) <= Len(a) /\ \A k \in 1 .. Len(R) : R[k] = a[k]
  <2>1. IsPrefix(R, a)
    BY DEF R
  <2> QED
    BY <1>3, <2>1, PrefixIs
<1>5. n \in Nat /\ Len(r.body) \in Nat /\ Len(r.headers) \in Nat /\ Len(a) \in Nat
      /\ n >= Len(r.headers) + 7
    BY <1>1 DEF HeadCells
<1> HIDE DEF n
<1>6. \A k \in 1 .. n : a[k] = d[k]
  <2>1. \A k \in 1 .. n : k \in 1 .. Len(R)
    BY <1>3, <1>5
  <2> QED
    BY <1>3, <1>4, <2>1
<1>7. \A k \in 1 .. Len(r.body) : a[n + k] = r.body[k]
  <2>1. \A k \in 1 .. Len(r.body) : n + k \in 1 .. Len(R)
    BY <1>3, <1>5
  <2> QED
    BY <1>3, <1>4, <2>1
<1>8. HeadCells(a, r, ip, n)
  <2> DEFINE h == Len(r.headers)
  <2>1. 1 \in 1 .. n /\ 2 \in 1 .. n /\ 3 \in 1 .. n /\ 4 \in 1 .. n /\ h + 5 \in 1 .. n
        /\ h + 6 \in 1 .. n /\ h + 7 \in 1 .. n /\ n \in 1 .. n
        /\ \A k \in 1 .. h : 4 + k \in 1 .. n
    BY <1>5
  <2>2. /\ a[1] = d[1] /\ a[2] = d[2] /\ a[3] = d[3] /\ a[4] = d[4] /\ a[h + 5] = d[h + 5]
        /\ a[h + 6] = d[h + 6] /\ a[h + 7] = d[h + 7] /\ a[n] = d[n]
    BY <1>6, <2>1
  <2>3. \A k \in 1 .. h : a[4 + k] = d[4 + k]
    BY <1>6, <2>1
  <2> QED
    BY <1>1, <2>2, <2>3, Zenon DEF HeadCells
<1>9. n \in 1 .. Len(a) /\ n + Len(r.body) <= Len(a)
    BY <1>3, <1>4, <1>5
<1> QED
    BY <1>7, <1>8, <1>9

\* Its blank line is the end of the head: every other EOL follows a word.
LEMMA BlankOfRebuilt ==
    ASSUME NEW S, NEW a \in Seq(S), NEW r, NEW ip, NEW T, r.headers \in Seq(T),
           \A k \in 1 .. Len(r.headers) : IsHeader(r.headers[k]),
           NEW n \in 1 .. Len(a), HeadCells(a, r, ip, n)
    PROVE  /\ BlankLine(a) = n
           /\ HeaderPart(a) = SubSeq(a, 1, n - 1) /\ HeaderPart(a) \in Seq(S)
           /\ Len(HeaderPart(a)) = n - 1 /\ \A k \in 1 .. n - 1 : HeaderPart(a)[k] = a[k]
           /\ BodyPart(a) = From(a, n + 1)
           /\ \A k \in 5 .. n - 1 : IsHeader(a[k])
<1> DEFINE h == Len(r.headers)
           hits == {k \in 2 .. Len(a) : a[k] = EOL /\ EndsLine(a[k - 1])}
<1>1. h \in Nat /\ n \in Nat /\ n >= h + 7 /\ Len(a) \in Nat /\ n <= Len(a)
      /\ a[n] = EOL
    BY DEF HeadCells
<1>2. \A k \in 5 .. n - 1 : IsHeader(a[k])
  <2> TAKE k \in 5 .. n - 1
  <2>1. CASE k \in 5 .. h + 4
    <3>1. k - 4 \in 1 .. h /\ 4 + (k - 4) = k
      BY <1>1, <2>1
    <3>2. a[4 + (k - 4)] = r.headers[k - 4]
      BY <3>1 DEF HeadCells
    <3> QED
      BY <3>1, <3>2
  <2>2. CASE k = h + 5 \/ k = h + 6
    BY <2>2, Kinds DEF HeadCells, ConnectionClose
  <2>3. CASE k = h + 7
    <3>1. n # h + 7
      BY <1>1, <2>3
    <3>2. a[h + 7] = ContentLength(Len(r.body))
      BY <3>1 DEF HeadCells
    <3> QED
      BY <2>3, <3>2, Kinds
  <2>4. n = h + 7 \/ n = h + 8
    BY DEF HeadCells
  <2> QED
    BY <1>1, <2>1, <2>2, <2>3, <2>4
<1>3. n \in hits
  <2>1. n - 1 \in 5 .. n - 1 /\ n \in 2 .. Len(a)
    BY <1>1
  <2> QED
    BY <1>1, <1>2, <2>1, Kinds
<1>4. \A k \in hits : n <= k
  <2> SUFFICES ASSUME NEW k \in 2 .. Len(a), a[k] = EOL, EndsLine(a[k - 1]), k < n PROVE FALSE
    BY <1>1
  <2>1. k \in {2, 3, 4} \/ k \in 5 .. n - 1
    BY <1>1
  <2>2. CASE k = 2
    BY <2>2, Kinds DEF HeadCells
  <2>3. CASE k = 3
    BY <2>3, Kinds DEF HeadCells
  <2>4. CASE k = 4
    BY <2>4, Kinds DEF HeadCells
  <2>5. CASE k \in 5 .. n - 1
    BY <1>2, <2>5, Kinds
  <2> QED
    BY <2>1, <2>2, <2>3, <2>4, <2>5
<1>5. Min(hits) = n
  <2>1. hits \in SUBSET Nat
    OBVIOUS
  <2> HIDE DEF hits
  <2>2. Min(hits) \in hits /\ \A k \in hits : Min(hits) <= k
    BY <1>3, <2>1, MinIsLeast
  <2>3. Min(hits) \in Nat
    BY <2>1, <2>2
  <2> QED
    BY <1>1, <1>3, <1>4, <2>2, <2>3
<1>6. BlankLine(a) = n
    BY <1>3, <1>5 DEF BlankLine
<1>7. HeaderPart(a) = SubSeq(a, 1, n - 1) /\ BodyPart(a) = From(a, n + 1)
    BY <1>1, <1>6 DEF HeaderPart, UpTo, BodyPart
<1>8. /\ SubSeq(a, 1, n - 1) \in Seq(S) /\ Len(SubSeq(a, 1, n - 1)) = n - 1
      /\ \A k \in 1 .. n - 1 : SubSeq(a, 1, n - 1)[k] = a[k]
    BY <1>1
<1> QED
    BY <1>2, <1>6, <1>7, <1>8

\* The length that a text announces is that of the first Content-Length.
LEMMA AnnouncedIs ==
    ASSUME NEW S, NEW s, HeaderPart(s) \in Seq(S)
    PROVE  LET n == Len(HeaderPart(s)) IN
           /\ \A i \in 1 .. n : IsLength(s[i]) /\ (\A m \in 1 .. i - 1 : ~IsLength(s[m]))
                                => Announced(s) = s[i].length
           /\ (\A m \in 1 .. n : ~IsLength(s[m])) => Announced(s) = 0
<1> DEFINE line == HeaderPart(s)
           n == Len(line)
           lengths == {k \in DOMAIN line : IsLength(s[k])}
<1>1. n \in Nat /\ DOMAIN line = 1 .. n
    OBVIOUS
<1>2. Announced(s) = IF lengths = {} THEN 0 ELSE s[Min(lengths)].length
    BY DEF Announced
<1> HIDE DEF line, n
<1>3. ASSUME NEW i \in 1 .. n, IsLength(s[i]), \A m \in 1 .. i - 1 : ~IsLength(s[m])
      PROVE  Announced(s) = s[i].length
  <2>1. i \in lengths /\ lengths \in SUBSET Nat /\ \A m \in lengths : i <= m
    BY <1>1, <1>3
  <2> HIDE DEF lengths
  <2>2. Min(lengths) \in lengths /\ \A k \in lengths : Min(lengths) <= k
    BY <2>1, MinIsLeast
  <2>3. Min(lengths) = i
    <3>1. Min(lengths) <= i /\ i <= Min(lengths) /\ i \in Nat /\ Min(lengths) \in Nat
      BY <1>1, <2>1, <2>2
    <3> QED
      BY <3>1
  <2> QED
    BY <1>2, <2>1, <2>3
<1>4. ASSUME \A m \in 1 .. n : ~IsLength(s[m]) PROVE Announced(s) = 0
    BY <1>1, <1>2, <1>4
<1> QED
    BY <1>3, <1>4 DEF n, line

\* A text that begins with three words: the first line begins with them.
LEMMA FirstWords ==
    ASSUME NEW S, NEW s \in Seq(S), Len(s) >= 3, \A k \in 1 .. 3 : IsWord(s[k])
    PROVE  FirstLine(s)[1] = s[1] /\ FirstLine(s)[2] = s[2]
<1> DEFINE T == {k \in DOMAIN s : s[k] # EOL} \cup {Len(s) + 1}
           start == Min(T)
           U == {k \in start .. Len(s) : EndsLine(s[k])} \cup {Len(s)}
           end == Min(U)
<1>1. FirstLine(s) = SubSeq(s, start, end)
    BY DEF FirstLine
<1>2. Len(s) \in Nat /\ DOMAIN s = 1 .. Len(s)
    OBVIOUS
<1>3. \A k \in 1 .. 3 : s[k] # EOL /\ ~EndsLine(s[k])
    BY Kinds
<1>4. start = 1
  <2>1. 1 \in T /\ T \in SUBSET Nat /\ \A k \in T : 1 <= k
    BY <1>2, <1>3
  <2> HIDE DEF T
  <2>2. Min(T) \in T /\ Min(T) <= 1
    BY <2>1, MinIsLeast
  <2>3. Min(T) \in Nat /\ 1 <= Min(T)
    BY <2>1, <2>2
  <2>4. start \in Nat /\ 1 <= start /\ start <= 1
    BY <2>2, <2>3
  <2> HIDE DEF start
  <2> QED
    BY <2>4
<1> HIDE DEF start
<1>5. end \in 3 .. Len(s)
  <2>1. Len(s) \in U /\ U \in SUBSET Nat /\ \A k \in U : 3 <= k
    <3>1. \A k \in 1 .. Len(s) : EndsLine(s[k]) => 3 <= k
      BY <1>2, <1>3
    <3>2. \A k \in U : k = Len(s) \/ (k \in 1 .. Len(s) /\ EndsLine(s[k]))
      BY <1>4
    <3>3. U \subseteq Nat /\ Len(s) \in U
      <4>1. Len(s) \in U
        OBVIOUS
      <4> HIDE DEF U
      <4> QED
        BY <1>2, <3>2, <4>1
    <3> HIDE DEF U
    <3> QED
      BY <1>2, <3>1, <3>2, <3>3
  <2>2. \A k \in U : k <= Len(s)
    <3>1. \A k \in U : k = Len(s) \/ k \in 1 .. Len(s)
      BY <1>4
    <3> HIDE DEF U
    <3> QED
      BY <1>2, <3>1
  <2> HIDE DEF U
  <2>3. Min(U) \in U
    BY <2>1, MinIsLeast
  <2>4. Min(U) \in Nat /\ 3 <= Min(U) /\ Min(U) <= Len(s)
    BY <2>1, <2>2, <2>3
  <2> QED
    BY <1>2, <2>4
<1> HIDE DEF end
<1>6. SubSeq(s, 1, end)[1] = s[1] /\ SubSeq(s, 1, end)[2] = s[2]
    BY <1>5
<1> QED
    BY <1>1, <1>4, <1>6

\* Of a method no more is cut than what its array does not hold.
LEMMA MethodCut ==
    ASSUME NEW w, IsSeq(w)
    PROVE  IsPrefix(Method(w), w) /\ Len(Method(w)) >= Min({MaxMethod, Len(w)})
<1> DEFINE S == ToSet(w)
           n == Min({MaxMethod, Len(w)})
<1>1. w \in Seq(S)
    BY DEF IsSeq
<1> HIDE DEF S
<1>2. n \in 0 .. Len(w) /\ Len(w) \in Nat
    BY <1>1, MinOfTwo, SizesAssumption
<1> HIDE DEF n
<1> DEFINE u == SubSeq(w, 1, n)
<1>3. u \in Seq(S) /\ Len(u) = n /\ \A k \in 1 .. n : u[k] = w[k]
    BY <1>1, <1>2
<1> HIDE DEF u
<1>4. IsPrefix(u, w)
  <2>1. Len(u) <= Len(w) /\ \A k \in 1 .. Len(u) : u[k] = w[k]
    BY <1>2, <1>3
  <2> QED
    BY <1>1, <1>3, <2>1, PrefixIs
<1>5. Len(u) >= n
    BY <1>2, <1>3
<1>6. Method(w) = u
    BY DEF Method, n, u
<1> QED
    BY <1>4, <1>5, <1>6 DEF n

\* The headers that begin a list of headers are in it, in their order.
LEMMA PrefixKeeps ==
    ASSUME NEW S, NEW h \in Seq(S), NEW s \in Seq(S), IsPrefix(h, s)
    PROVE  KeepsHeaders(h, s)
<1> DEFINE others == {k \in DOMAIN h : ~IsConnection(h[k])}
           at == [k \in others |-> k]
<1>1. /\ DOMAIN h = 1 .. Len(h) /\ DOMAIN s = 1 .. Len(s) /\ Len(h) \in Nat /\ Len(s) \in Nat
      /\ Len(h) <= Len(s) /\ \A k \in 1 .. Len(h) : s[k] = h[k]
    BY PrefixIs
<1>2. others \subseteq 1 .. Len(h) /\ others \subseteq DOMAIN s
    BY <1>1
<1>3. \A k \in others : k \in DOMAIN s /\ s[k] = h[k]
    BY <1>1, <1>2
<1> HIDE DEF others
<1>4. at \in [others -> DOMAIN s]
    BY <1>3
<1>5. \A k \in others : at[k] = k
    OBVIOUS
<1> HIDE DEF at
<1>6. /\ \A k \in others : s[at[k]] = h[k]
      /\ \A j, k \in others : j < k => at[j] < at[k]
    BY <1>3, <1>5
<1> QED
    BY <1>4, <1>6 DEF KeepsHeaders, others

\* What WordsAssumption says of the tokens in S.
WordsIn(S) == \A t \in S : IsWord(t) => t = Word(t.word) /\ IsSeq(t.word)

\* A receiver of a finds in it the request r, which was parsed from s, as s has it.
ReadsAs(a, s, r) ==
    LET sent == Message(s)
        seen == Message(a)
        method == sent.line[1].word
    IN  /\ IsPrefix(seen.line[1].word, method)
        /\ Len(seen.line[1].word) >= Min({MaxMethod, Len(method)})
        /\ seen.line[2] = sent.line[2] /\ seen.body = sent.body
        /\ KeepsHeaders(SubSeq(sent.headers, 1, Min({MaxHeaders, Len(sent.headers)})),
                        seen.headers)
        /\ sent.line[2].word = r.path

\* The headers that are stored are the first MaxHeaders of those that came.
LEMMA FirstHeadersStored ==
    ASSUME NEW S, NEW s \in Seq(S)
    PROVE  HeadersOf(s) = SubSeq(HeadersUpTo(s, Len(s)), 1,
                                 Min({MaxHeaders, Len(HeadersUpTo(s, Len(s)))}))
<1> DEFINE line == HeaderPart(s)
           n == Len(line)
           all == Len(s)
<1>1. line \in Seq(S) /\ n <= all /\ all \in Nat
    BY PartsType
<1>2. MaxHeaders \in Nat
    BY SizesAssumption
<1>3. PICK f : Fills(f, line, MaxHeaders) /\ HeadersUpTo(s, MaxHeaders) = f[n]
    BY <1>1, FilledIs
<1>4. PICK g : Fills(g, line, all) /\ HeadersUpTo(s, all) = g[n]
    BY <1>1, FilledIs
<1>5. f[n] = SubSeq(g[n], 1, Min({MaxHeaders, Len(g[n])}))
  <2> HIDE DEF line, all
  <2> QED
    BY <1>1, <1>2, <1>3, <1>4, FillsCut
<1> QED
    BY <1>3, <1>4, <1>5 DEF HeadersOf

\* How the receiver reads what begins with the request that was rebuilt from s.
LEMMA ReadAsSent ==
    ASSUME NEW S, NEW s \in Seq(S), WellFormed(s), WordsIn(S),
           NEW r, NEW ip, NEW V, NEW a \in Seq(V), IsPrefix(Rebuilt(r, ip), a)
    PROVE  r = Parse(s) => ReadsAs(a, s, r)
<1>0. SUFFICES ASSUME r = Parse(s) PROVE ReadsAs(a, s, r)
    OBVIOUS
<1> DEFINE W == {Word(r.method), Word(r.path), Word(<<"HTTP/1.1">>), EOL, ConnectionClose,
                 Hdr("X-Forwarded-For", ip), ContentLength(Len(r.body))}
           X == (S \cup V) \cup W
           line == HeaderPart(s)
           n == Len(line)
           h == r.headers
           l == Len(h)
           body == r.body
<1>1. s \in Seq(X) /\ a \in Seq(X) /\ W \subseteq X
  <2>1. S \subseteq X /\ V \subseteq X /\ W \subseteq X
    OBVIOUS
  <2> HIDE DEF X
  <2>2. s \in Seq(X)
    BY <2>1, SeqMonotonic
  <2>3. a \in Seq(X)
    BY <2>1, SeqMonotonic
  <2> QED
    BY <2>1, <2>2, <2>3
<1> HIDE DEF X
<1>2. line \in Seq(X) /\ body \in Seq(X)
    BY <1>0, <1>1, PartsType DEF Parse
<1>3. /\ h = HeadersOf(s) /\ body = BodyPart(s)
      /\ r.method = Method(FirstLine(s)[1].word) /\ r.path = FirstLine(s)[2].word
    BY <1>0 DEF Parse
<1>4. PICK f : Fills(f, line, MaxHeaders) /\ h = f[n]
  <2>1. \E f : Fills(f, line, MaxHeaders) /\ HeadersUpTo(s, MaxHeaders) = f[n]
    BY <1>2, FilledIs
  <2> QED
    BY <1>3, <2>1 DEF HeadersOf
<1>6. n <= Len(s) /\ n \in Nat /\ Len(s) \in Nat /\ \A k \in 1 .. n : line[k] = s[k]
    BY <1>1, PartsType
<1>7. h \in Seq(X) /\ l \in Nat /\ \A k \in 1 .. l : IsHeader(h[k])
  <2> DEFINE Y == {t \in X : IsHeader(t)}
  <2>1. n \in 0 .. n
    BY <1>6
  <2>2. f[n] \in Seq(Y)
    BY <1>2, <1>4, <2>1, FillsType
  <2>3. Y \subseteq X
    OBVIOUS
  <2>4. \A y \in Y : IsHeader(y)
    OBVIOUS
  <2> HIDE DEF Y, h
  <2>5. h \in Seq(Y)
    BY <1>4, <2>2
  <2>6. h \in Seq(X)
    BY <2>3, <2>5, SeqMonotonic
  <2> QED
    BY <2>4, <2>5, <2>6
<1>8. h = SubSeq(HeadersUpTo(s, Len(s)), 1, Min({MaxHeaders, Len(HeadersUpTo(s, Len(s)))}))
  <2> HIDE DEF h
  <2> QED
    BY <1>3, FirstHeadersStored
<1>9. PICK b \in 1 .. Len(a) : /\ HeadCells(a, r, ip, b) /\ b + Len(body) <= Len(a)
                               /\ \A k \in 1 .. Len(body) : a[b + k] = body[k]
  <2>1. r.headers \in Seq(X) /\ r.body \in Seq(X)
    BY <1>2, <1>7
  <2>2. {Word(r.method), Word(r.path), Word(<<"HTTP/1.1">>), EOL, ConnectionClose,
         Hdr("X-Forwarded-For", ip), ContentLength(Len(r.body))} \subseteq X
    BY <1>1
  <2> QED
    BY <1>1, <2>1, <2>2, CellsOfRebuilt
<1> DEFINE head == HeaderPart(a)
<1>10. /\ head \in Seq(X) /\ Len(head) = b - 1 /\ \A k \in 1 .. b - 1 : head[k] = a[k]
       /\ BodyPart(a) = From(a, b + 1) /\ \A k \in 5 .. b - 1 : IsHeader(a[k])
    BY <1>1, <1>7, <1>9, BlankOfRebuilt, ZenonT(30)
<1>11. /\ b \in Nat /\ b >= l + 7 /\ b <= Len(a) /\ Len(a) \in Nat
       /\ a[1] = Word(r.method) /\ a[2] = Word(r.path) /\ a[3] = Word(<<"HTTP/1.1">>)
       /\ a[4] = EOL /\ \A k \in 1 .. l : a[4 + k] = h[k]
       /\ a[l + 5] = ConnectionClose /\ a[l + 6] = Hdr("X-Forwarded-For", ip)
       /\ IF body = <<>> THEN b = l + 7
          ELSE b = l + 8 /\ a[l + 7] = ContentLength(Len(body))
    BY <1>1, <1>9 DEF HeadCells
<1>12. Len(s) >= 3 /\ (\A k \in 1 .. 3 : IsWord(s[k])) /\ Announced(s) = Len(BodyPart(s))
    BY DEF WellFormed
<1>13. /\ SubSeq(a, 1, 2)[1].word = Method(SubSeq(s, 1, 2)[1].word)
       /\ IsSeq(SubSeq(s, 1, 2)[1].word)
       /\ SubSeq(a, 1, 2)[2] = SubSeq(s, 1, 2)[2] /\ SubSeq(s, 1, 2)[2].word = r.path
  <2>1. FirstLine(s)[1] = s[1] /\ FirstLine(s)[2] = s[2]
    BY <1>12, FirstWords
  <2>2. IsSeq(s[1].word) /\ r.method = Method(s[1].word) /\ s[2] = Word(r.path)
    <3>1. s[1] \in S /\ s[2] \in S /\ IsWord(s[1]) /\ IsWord(s[2])
      BY <1>12
    <3> QED
      BY <1>3, <2>1, <3>1 DEF WordsIn
  <2>3. a[1].word = Method(s[1].word) /\ a[2] = s[2] /\ s[2].word = r.path
    BY <1>11, <2>2, Kinds
  <2>4. Len(a) >= 2 /\ Len(s) >= 2
    BY <1>6, <1>7, <1>11, <1>12
  <2>5. SubSeq(a, 1, 2)[1] = a[1] /\ SubSeq(a, 1, 2)[2] = a[2]
    BY <1>1, <2>4
  <2>6. SubSeq(s, 1, 2)[1] = s[1] /\ SubSeq(s, 1, 2)[2] = s[2]
    BY <1>1, <2>4
  <2> QED
    BY <2>2, <2>3, <2>5, <2>6
<1>14. KeepsHeaders(h, HeadersUpTo(a, Len(a)))
  <2>1. PICK e : Fills(e, head, Len(a)) /\ HeadersUpTo(a, Len(a)) = e[Len(head)]
    BY <1>10, FilledIs
  <2> HIDE DEF h, head
  <2>2. \A k \in 1 .. 4 : ~IsHeader(head[k])
    <3>1. \A k \in 1 .. 4 : k \in 1 .. b - 1 /\ k \in {1, 2, 3, 4}
      BY <1>7, <1>11
    <3>2. ~IsHeader(a[1]) /\ ~IsHeader(a[2]) /\ ~IsHeader(a[3]) /\ ~IsHeader(a[4])
      BY <1>11, Kinds
    <3> QED
      BY <1>10, <3>1, <3>2
  <2>3. \A k \in 1 .. Len(h) : IsHeader(h[k]) /\ head[4 + k] = h[k]
    <3>1. \A k \in 1 .. l : 4 + k \in 1 .. b - 1
      BY <1>7, <1>11
    <3> QED
      BY <1>7, <1>10, <1>11, <3>1
  <2>4. Len(head) <= Len(a) /\ 4 + Len(h) <= Len(head) /\ 4 \in Nat /\ Len(a) \in Nat
    BY <1>7, <1>10, <1>11
  <2>5. IsPrefix(h, e[Len(head)])
    BY <1>7, <1>10, <2>1, <2>2, <2>3, <2>4, FillsCopy
  <2>6. HeadersUpTo(a, Len(a)) \in Seq(X)
    BY <1>10, HeadersType DEF head
  <2> QED
    BY <1>7, <2>1, <2>5, <2>6, PrefixKeeps
<1>15. Announced(a) = Len(body)
  <2> HIDE DEF h, head, body, line
  <2>1. /\ \A i \in 1 .. b - 1 : IsLength(a[i]) /\ (\A m \in 1 .. i - 1 : ~IsLength(a[m]))
                                 => Announced(a) = a[i].length
        /\ (\A m \in 1 .. b - 1 : ~IsLength(a[m])) => Announced(a) = 0
    BY <1>10, AnnouncedIs DEF head
  <2>2. /\ \A i \in 1 .. n : IsLength(s[i]) /\ (\A m \in 1 .. i - 1 : ~IsLength(s[m]))
                             => Announced(s) = s[i].length
        /\ (\A m \in 1 .. n : ~IsLength(s[m])) => Announced(s) = 0
    BY <1>2, AnnouncedIs DEF line
  <2>3. \A k \in 1 .. 4 : ~IsLength(a[k])
    <3>1. \A k \in 1 .. 4 : k \in {1, 2, 3, 4}
      OBVIOUS
    <3>2. ~IsLength(a[1]) /\ ~IsLength(a[2]) /\ ~IsLength(a[3]) /\ ~IsLength(a[4])
      BY <1>11, Kinds
    <3> QED
      BY <3>1, <3>2
  <2>4. KeepsLength(h, line, n, MaxHeaders)
    <3>1. MaxHeaders \in Nat
      BY SizesAssumption
    <3> QED
      BY <1>2, <1>4, <3>1, FillsLength
  <2>5. CASE \E i \in 1 .. n, j \in 1 .. l :
              /\ IsLength(line[i]) /\ \A m \in 1 .. i - 1 : ~IsLength(line[m])
              /\ h[j] = line[i] /\ \A m \in 1 .. j - 1 : ~IsLength(h[m])
    <3>1. PICK i \in 1 .. n, j \in 1 .. l :
              /\ IsLength(line[i]) /\ \A m \in 1 .. i - 1 : ~IsLength(line[m])
              /\ h[j] = line[i] /\ \A m \in 1 .. j - 1 : ~IsLength(h[m])
      BY <2>5
    <3>2. Announced(s) = line[i].length
      <4>1. \A m \in 1 .. i - 1 : m \in 1 .. n
        BY <1>6
      <4> QED
        BY <1>6, <2>2, <3>1, <4>1
    <3>3. 4 + j \in 1 .. b - 1 /\ a[4 + j] = h[j]
      BY <1>7, <1>11
    <3>4. \A m \in 1 .. (4 + j) - 1 : ~IsLength(a[m])
      <4> TAKE m \in 1 .. (4 + j) - 1
      <4>1. m \in 1 .. 4 \/ (m - 4 \in 1 .. j - 1 /\ m - 4 \in 1 .. l /\ 4 + (m - 4) = m)
        BY <1>7
      <4>2. \A k \in 1 .. j - 1 : k \in 1 .. l => ~IsLength(a[4 + k])
        BY <1>11, <3>1
      <4> QED
        BY <2>3, <4>1, <4>2
    <3>5. Announced(a) = a[4 + j].length
      BY <2>1, <3>1, <3>3, <3>4
    <3> QED
      BY <1>3, <1>12, <3>1, <3>2, <3>3, <3>5
  <2>6. CASE \A j \in 1 .. l : ~IsLength(h[j])
    <3>1. \A m \in 1 .. l + 6 : ~IsLength(a[m])
      <4> TAKE m \in 1 .. l + 6
      <4>1. \/ m \in 1 .. 4 \/ m = l + 5 \/ m = l + 6
            \/ m - 4 \in 1 .. l /\ 4 + (m - 4) = m
        BY <1>7, Z3T(30)
      <4>2. \A k \in 1 .. l : ~IsLength(a[4 + k])
        BY <1>11, <2>6
      <4>3. ~IsLength(a[l + 5]) /\ ~IsLength(a[l + 6])
        BY <1>11, Kinds DEF ConnectionClose
      <4> QED
        BY <2>3, <4>1, <4>2, <4>3
    <3>2. CASE body = <<>>
      <4>1. b - 1 = l + 6 /\ Len(body) = 0
        BY <1>7, <1>11, <3>2
      <4> QED
        BY <2>1, <3>1, <4>1
    <3>3. CASE body # <<>>
      <4>1. l + 7 \in 1 .. b - 1 /\ (l + 7) - 1 = l + 6 /\ a[l + 7] = ContentLength(Len(body))
        BY <1>7, <1>11, <3>3
      <4> QED
        BY <2>1, <3>1, <4>1, Kinds
    <3> QED
      BY <3>2, <3>3
  <2> QED
    BY <2>4, <2>5, <2>6 DEF KeepsLength
<1>16. SubSeq(BodyPart(a), 1, Min({Announced(a), Len(BodyPart(a))})) = body
  <2> DEFINE q == From(a, b + 1)
             c == Len(body)
  <2> HIDE DEF body
  <2>1. c \in Nat /\ b + c <= Len(a)
    BY <1>2, <1>9
  <2>2. /\ q \in Seq(X) /\ Len(q) = Len(a) - b
        /\ \A k \in 1 .. Len(a) - b : q[k] = a[b + k]
    BY <1>1, <1>11 DEF From
  <2> HIDE DEF q, c
  <2>0. b \in Nat /\ Len(a) \in Nat
    BY <1>11
  <2>3. c <= Len(q) /\ Len(q) \in Nat /\ \A k \in 1 .. c : k \in 1 .. Len(a) - b
    BY <2>0, <2>1, <2>2
  <2>4. Min({c, Len(q)}) = c
    BY <2>1, <2>3, MinOfTwo
  <2>5. /\ SubSeq(q, 1, c) \in Seq(X) /\ Len(SubSeq(q, 1, c)) = c
        /\ \A k \in 1 .. c : SubSeq(q, 1, c)[k] = q[k]
    BY <2>1, <2>2, <2>3
  <2>6. \A k \in 1 .. c : SubSeq(q, 1, c)[k] = body[k]
    BY <1>9, <2>2, <2>3, <2>5 DEF c
  <2>7. SubSeq(q, 1, c) = body
    <3>1. Len(body) = c
      BY DEF c
    <3> QED
      BY <1>2, <2>5, <2>6, <3>1, SeqEqual
  <2> QED
    BY <1>10, <1>15, <2>4, <2>7, Zenon DEF q, c
<1>17. SubSeq(BodyPart(s), 1, Min({Announced(s), Len(BodyPart(s))})) = body
  <2> HIDE DEF body
  <2>1. Len(body) \in Nat /\ SubSeq(body, 1, Len(body)) = body
    BY <1>2
  <2>2. Min({Len(body), Len(body)}) = Len(body)
    BY <2>1, MinOfTwo
  <2> QED
    BY <1>3, <1>12, <2>1, <2>2
<1> HIDE DEF h, body, line, head, W
<1> QED
  <2>1. /\ Message(s).line = SubSeq(s, 1, 2) /\ Message(a).line = SubSeq(a, 1, 2)
        /\ Message(s).headers = HeadersUpTo(s, Len(s)) /\ Message(a).headers = HeadersUpTo(a, Len(a))
        /\ Message(s).body = body /\ Message(a).body = body
    BY <1>16, <1>17 DEF Message
  <2>2. /\ IsPrefix(SubSeq(a, 1, 2)[1].word, SubSeq(s, 1, 2)[1].word)
        /\ Len(SubSeq(a, 1, 2)[1].word) >= Min({MaxMethod, Len(SubSeq(s, 1, 2)[1].word)})
    BY <1>13, MethodCut
  <2> QED
    BY <1>8, <1>13, <1>14, <2>1, <2>2 DEF ReadsAs

-----------------------------------------------------------------------------
\* What the clients' segments are together: functions on 0 .. n by recursion,
\* and FlattenSeq.
\* f is a at 0, and at k what step k of F makes of f[k - 1].
Steps(n, V) == [1 .. n -> [V -> V]]
Iterates(f, n, V, a, F) ==
    f \in [0 .. n -> V] /\ f[0] = a /\ \A k \in 1 .. n : f[k] = F[k][f[k - 1]]

LEMMA Recursion ==
    \A n \in Nat : \A V : \A a \in V : \A F \in Steps(n, V) : \E f : Iterates(f, n, V, a, F)
<1> SUFFICES ASSUME NEW n \in Nat, NEW V, NEW a \in V, NEW F \in Steps(n, V)
             PROVE  \E f : Iterates(f, n, V, a, F)
    OBVIOUS
<1>0. \A k \in 1 .. n : F[k] \in [V -> V]
    BY DEF Steps
<1> DEFINE U == {m \in 0 .. n : \E f \in [0 .. m -> V] :
                    f[0] = a /\ \A k \in 1 .. m : f[k] = F[k][f[k - 1]]}
<1>1. 0 \in U
  <2> DEFINE h == [k \in 0 .. 0 |-> a]
  <2>1. h \in [0 .. 0 -> V] /\ h[0] = a /\ 0 \in 0 .. n /\ \A k \in 1 .. 0 : FALSE
    OBVIOUS
  <2> HIDE DEF h
  <2> QED
    BY <2>1
<1>2. ASSUME NEW m \in 1 .. n, m - 1 \in U PROVE m \in U
  <2>1. PICK g \in [0 .. m - 1 -> V] :
              g[0] = a /\ \A k \in 1 .. m - 1 : g[k] = F[k][g[k - 1]]
    BY <1>2
  <2>2. m \in Nat /\ m \in 0 .. n /\ m - 1 \in 0 .. m - 1 /\ 0 \in 0 .. m - 1 /\ 0 # m
    OBVIOUS
  <2>3. g[m - 1] \in V
    BY <2>2
  <2>4. F[m] \in [V -> V]
    BY <1>0
  <2>5. F[m][g[m - 1]] \in V
    BY <2>3, <2>4
  <2> DEFINE h == [k \in 0 .. m |-> IF k = m THEN F[m][g[m - 1]] ELSE g[k]]
  <2>6. \A k \in 0 .. m : k # m => k \in 0 .. m - 1
    BY <2>2
  <2>7. h \in [0 .. m -> V]
    BY <2>5, <2>6
  <2>8. h[m] = F[m][g[m - 1]] /\ \A k \in 0 .. m - 1 : h[k] = g[k]
    BY <2>2
  <2> HIDE DEF h
  <2>9. ASSUME NEW k \in 1 .. m PROVE h[k] = F[k][h[k - 1]]
    <3>1. k - 1 \in 0 .. m - 1 /\ (k # m => k \in 1 .. m - 1 /\ k \in 0 .. m - 1)
      BY <2>2
    <3>2. CASE k = m
      BY <2>8, <3>1, <3>2
    <3>3. CASE k # m
      <4>1. h[k] = g[k] /\ h[k - 1] = g[k - 1]
        BY <2>8, <3>1, <3>3
      <4>2. g[k] = F[k][g[k - 1]]
        BY <2>1, <3>1, <3>3
      <4> QED
        BY <4>1, <4>2
    <3> QED
      BY <3>2, <3>3
  <2> QED
    BY <2>1, <2>2, <2>7, <2>8, <2>9
<1>3. n \in 0 .. n
    OBVIOUS
<1> HIDE DEF U
<1>4. n \in U
    BY <1>1, <1>2, <1>3, Reaches
<1> QED
    BY <1>4 DEF U, Iterates

-----------------------------------------------------------------------------
\* FlattenSeq is the last value of the function in its definition.
Joined(seqs, g) ==
    [k \in 1 .. Len(seqs) |-> IF k = 1 THEN seqs[k] ELSE g[k - 1] \o seqs[k]]

LEMMA FlattenIs ==
    ASSUME NEW T, NEW s \in Seq(Seq(T)), Len(s) # 0
    PROVE  \E f \in [1 .. Len(s) -> Seq(T)] : f = Joined(s, f) /\ FlattenSeq(s) = f[Len(s)]
<1> DEFINE n == Len(s)
           V == Seq(T)
           F == [k \in 1 .. n |-> [r \in V |-> IF k = 1 THEN s[k] ELSE r \o s[k]]]
           h == CHOOSE g : g = Joined(s, g)
<1>1. FlattenSeq(s) = h[n]
    BY DEF FlattenSeq, Joined
<1>2. n \in Nat /\ \A k \in 1 .. n : s[k] \in V
    OBVIOUS
<1>3. <<>> \in V /\ \A r, q \in V : r \o q \in V
    OBVIOUS
<1>4. F \in Steps(n, V)
  <2> HIDE DEF V, n
  <2> QED
    BY <1>2, <1>3 DEF Steps
<1>5. \A k \in 1 .. n, r \in V : F[k][r] = IF k = 1 THEN s[k] ELSE r \o s[k]
  <2> HIDE DEF V, n
  <2> QED
    OBVIOUS
<1> HIDE DEF n, V, F
<1>6. PICK e : Iterates(e, n, V, <<>>, F)
    BY <1>2, <1>3, <1>4, Recursion, Zenon
<1> DEFINE f == [k \in 1 .. n |-> e[k]]
<1>7. \A k \in 1 .. n : k \in 0 .. n /\ k - 1 \in 0 .. n /\ k # 0 /\ (k # 1 => k - 1 \in 1 .. n)
    BY <1>2
<1>8. \A k \in 0 .. n : e[k] \in V
    BY <1>6 DEF Iterates
<1>9. f \in [1 .. n -> V]
    BY <1>7, <1>8
<1>10. f = Joined(s, f)
  <2>1. ASSUME NEW k \in 1 .. n
        PROVE  f[k] = IF k = 1 THEN s[k] ELSE f[k - 1] \o s[k]
    <3>1. e[k - 1] \in V
      BY <1>7, <1>8
    <3>2. e[k] = F[k][e[k - 1]]
      BY <1>6 DEF Iterates
    <3>3. e[k] = IF k = 1 THEN s[k] ELSE e[k - 1] \o s[k]
      BY <1>5, <3>1, <3>2
    <3> QED
      BY <1>7, <3>3
  <2>2. f = [k \in 1 .. n |-> IF k = 1 THEN s[k] ELSE f[k - 1] \o s[k]]
    <3>1. f = [k \in 1 .. n |-> f[k]]
      OBVIOUS
    <3> HIDE DEF f
    <3> QED
      BY <2>1, <3>1
  <2> QED
    BY <2>2 DEF Joined, n
<1> HIDE DEF f
<1>11. h = Joined(s, h)
    BY <1>10
<1> HIDE DEF h
<1> DEFINE U == {k \in 0 .. n : k # 0 => h[k] = f[k]}
<1>12. \A k \in 0 .. n : k \in U
  <2>1. 0 \in U
    BY <1>2
  <2>2. ASSUME NEW k \in 1 .. n, k - 1 \in U PROVE k \in U
    <3>1. k # 1 => h[k - 1] = f[k - 1]
      BY <1>7, <2>2
    <3> QED
      BY <1>7, <1>10, <1>11, <3>1, ZenonT(30) DEF Joined, n
  <2> HIDE DEF U
  <2> QED
    BY <1>2, <2>1, <2>2, Reaches
<1>13. h = f
    BY <1>7, <1>10, <1>11, <1>12, ZenonT(30) DEF Joined, n
<1> QED
    BY <1>1, <1>9, <1>10, <1>13 DEF V, n

LEMMA FlattenEmpty == FlattenSeq(<<>>) = <<>>
    BY DEF FlattenSeq

LEMMA FlattenType ==
    ASSUME NEW T, NEW s \in Seq(Seq(T))
    PROVE  FlattenSeq(s) \in Seq(T)
<1>1. CASE Len(s) = 0
  <2>1. s = <<>>
    BY <1>1
  <2> QED
    BY <2>1, FlattenEmpty, <<>> \in Seq(T)
<1>2. CASE Len(s) # 0
  <2>1. PICK f \in [1 .. Len(s) -> Seq(T)] : FlattenSeq(s) = f[Len(s)]
    BY <1>2, FlattenIs
  <2>2. Len(s) \in 1 .. Len(s)
    BY <1>2
  <2> QED
    BY <2>1, <2>2
<1> QED
    BY <1>1, <1>2

LEMMA FlattenAppend ==
    ASSUME NEW T, NEW s \in Seq(Seq(T)), NEW c \in Seq(T)
    PROVE  FlattenSeq(Append(s, c)) = FlattenSeq(s) \o c
<1> DEFINE t == Append(s, c)
           n == Len(s)
<1>1. /\ t \in Seq(Seq(T)) /\ n \in Nat /\ Len(t) = n + 1 /\ Len(t) # 0 /\ t[n + 1] = c
      /\ \A k \in 1 .. n : t[k] = s[k]
    OBVIOUS
<1> HIDE DEF t
<1>2. PICK g : g = Joined(t, g) /\ FlattenSeq(t) = g[Len(t)]
    BY <1>1, FlattenIs
<1>3. CASE n = 0
  <2>1. s = <<>>
    BY <1>3
  <2>2. FlattenSeq(s) = <<>> /\ <<>> \o c = c
    BY <2>1, FlattenEmpty
  <2>3. g[1] = c
    BY <1>1, <1>2, <1>3 DEF Joined
  <2> QED
    BY <1>1, <1>2, <1>3, <2>2, <2>3 DEF t
<1>4. CASE n # 0
  <2>1. PICK f : f = Joined(s, f) /\ FlattenSeq(s) = f[n]
    BY <1>4, FlattenIs
  <2> DEFINE U == {k \in 0 .. n : k # 0 => g[k] = f[k]}
  <2>2. ASSUME NEW k \in 1 .. n, k - 1 \in U PROVE k \in U
    <3>1. /\ k \in 1 .. Len(t) /\ k \in 0 .. n /\ t[k] = s[k]
          /\ k # 1 => g[k - 1] = f[k - 1]
      BY <1>1, <2>2
    <3>2. f[k] = IF k = 1 THEN s[k] ELSE f[k - 1] \o s[k]
      BY <2>1 DEF Joined
    <3>3. g[k] = IF k = 1 THEN t[k] ELSE g[k - 1] \o t[k]
      BY <1>2, <3>1 DEF Joined
    <3> QED
      BY <3>1, <3>2, <3>3
  <2>3. n \in U
    <3>1. 0 \in U
      BY <1>1
    <3> HIDE DEF U
    <3>2. \A k \in 0 .. n : k \in U
      BY <1>1, <2>2, <3>1, Reaches
    <3> QED
      BY <1>1, <3>2
  <2>4. g[n + 1] = g[n] \o c
    <3>1. n + 1 \in 1 .. Len(t) /\ n + 1 # 1 /\ (n + 1) - 1 = n
      BY <1>1, <1>4
    <3> QED
      BY <1>1, <1>2, <3>1 DEF Joined
  <2> QED
    BY <1>1, <1>2, <1>4, <2>1, <2>3, <2>4 DEF t
<1> QED
    BY <1>3, <1>4

\* Beginnings of a sequence, one element longer each.
LEMMA Beginning ==
    ASSUME NEW T, NEW s \in Seq(T), NEW n \in 0 .. Len(s)
    PROVE  /\ SubSeq(s, 1, n) \in Seq(T) /\ Len(SubSeq(s, 1, n)) = n
           /\ n < Len(s) => /\ s[n + 1] \in T
                            /\ SubSeq(s, 1, n + 1) = Append(SubSeq(s, 1, n), s[n + 1])
           /\ SubSeq(s, 1, 0) = <<>> /\ SubSeq(s, 1, Len(s)) = s
<1>1. SubSeq(s, 1, n) \in Seq(T) /\ Len(SubSeq(s, 1, n)) = n
    OBVIOUS
<1>2. ASSUME n < Len(s)
      PROVE  s[n + 1] \in T /\ SubSeq(s, 1, n + 1) = Append(SubSeq(s, 1, n), s[n + 1])
    BY <1>2
<1> QED
    BY <1>1, <1>2

\* The first of some texts comes before the rest of them.
LEMMA FlattenHead ==
    ASSUME NEW T, NEW s \in Seq(Seq(T)), s # <<>>
    PROVE  FlattenSeq(s) = Head(s) \o FlattenSeq(Tail(s))
<1> DEFINE n == Len(s)
           A(k) == FlattenSeq(SubSeq(s, 1, k))
           B(k) == FlattenSeq(SubSeq(s, 2, k))
           V == {k \in 0 .. n - 1 : A(k + 1) = Head(s) \o B(k + 1)}
<1>1. n \in Nat \ {0} /\ \A k \in 1 .. n : s[k] \in Seq(T)
    OBVIOUS
<1>2. 0 \in V
  <2> DEFINE e == <<>>
             W == Seq(T)
  <2>0. e \in Seq(W)
    OBVIOUS
  <2> HIDE DEF W
  <2>1. e \in Seq(W) /\ s[1] \in W /\ Head(s) = s[1]
    <3>1. s \in Seq(W) /\ s # <<>>
      BY DEF W
    <3> QED
      BY <2>0, <3>1
  <2>2. SubSeq(s, 1, 1) = Append(e, s[1]) /\ SubSeq(s, 2, 1) = e
    <3>1. s \in Seq(W) /\ Len(s) >= 1 /\ Len(s) \in Nat
      BY <1>1 DEF W
    <3>2. 0 \in 0 .. Len(s) /\ 0 < Len(s) /\ 0 + 1 = 1
      BY <3>1
    <3>3. SubSeq(s, 1, 0 + 1) = Append(SubSeq(s, 1, 0), s[0 + 1]) /\ SubSeq(s, 1, 0) = <<>>
      BY <3>1, <3>2, Beginning
    <3>4. SubSeq(s, 2, 1) = <<>>
      BY <3>1
    <3> QED
      BY <3>2, <3>3, <3>4
  <2>3. FlattenSeq(e) = <<>>
    BY FlattenEmpty
  <2> HIDE DEF e
  <2>4. A(1) = <<>> \o s[1]
    <3>1. e \in Seq(Seq(T)) /\ s[1] \in Seq(T)
      BY <2>1 DEF W
    <3> QED
      BY <2>2, <2>3, <3>1, FlattenAppend
  <2>5. B(1) = <<>>
    BY <2>2, <2>3
  <2>6. <<>> \o s[1] = s[1] /\ s[1] \o <<>> = s[1]
    BY <2>1, ConcatEmptySeq DEF W
  <2>7. 0 \in 0 .. n - 1 /\ 0 + 1 = 1
    BY <1>1
  <2> HIDE DEF n, A, B
  <2> QED
    BY <2>1, <2>4, <2>5, <2>6, <2>7
<1>3. ASSUME NEW k \in 1 .. n - 1, k - 1 \in V PROVE k \in V
  <2> DEFINE p == SubSeq(s, 1, k)
             q == SubSeq(s, 2, k)
             x == s[k + 1]
             h == Head(s)
  <2>1. /\ p \in Seq(Seq(T)) /\ q \in Seq(Seq(T)) /\ x \in Seq(T) /\ h \in Seq(T)
        /\ (k - 1) + 1 = k /\ k \in 0 .. n - 1
    BY <1>1
  <2>2. SubSeq(s, 1, k + 1) = Append(p, x) /\ SubSeq(s, 2, k + 1) = Append(q, x)
    BY <1>1
  <2>3. FlattenSeq(p) = h \o FlattenSeq(q)
    BY <1>3, <2>1
  <2> HIDE DEF p, q, x, h
  <2>4. FlattenSeq(Append(p, x)) = FlattenSeq(p) \o x
    BY <2>1, FlattenAppend
  <2>5. FlattenSeq(Append(q, x)) = FlattenSeq(q) \o x
    BY <2>1, FlattenAppend
  <2> DEFINE v == FlattenSeq(q)
  <2>6. h \in Seq(T) /\ v \in Seq(T) /\ x \in Seq(T)
    BY <2>1, FlattenType
  <2> HIDE DEF v
  <2>9. (h \o v) \o x = h \o (v \o x)
    BY <2>6, ConcatAssociative, SMTT(60)
  <2>7. (h \o FlattenSeq(q)) \o x = h \o (FlattenSeq(q) \o x)
    BY <2>9 DEF v
  <2>8. A(k + 1) = h \o B(k + 1)
    BY <2>2, <2>3, <2>4, <2>5, <2>7, Zenon
  <2> QED
    BY <2>1, <2>8 DEF h
<1> HIDE DEF V, n
<1>4. n - 1 \in V
  <2>1. n - 1 \in Nat /\ n - 1 \in 0 .. n - 1
    BY <1>1
  <2>2. \A k \in 0 .. n - 1 : k \in V
    BY <1>2, <1>3, <2>1, Reaches
  <2> QED
    BY <2>1, <2>2
<1>5. A(n) = Head(s) \o B(n)
  <2>1. (n - 1) + 1 = n
    BY <1>1
  <2> QED
    BY <1>4, <2>1 DEF V
<1>6. SubSeq(s, 1, n) = s /\ SubSeq(s, 2, n) = Tail(s)
    BY <1>1 DEF n
<1> QED
    BY <1>5, <1>6

-----------------------------------------------------------------------------
\* The invariant behind the delivery of requests.
\* What client c sends, and the part of it that is still to be read.
Sent(c) == FlattenSeq(asked[c])
Rest(c) == inbox[c] \o FlattenSeq(outbox[c])
Forwarding == pc \in {"connect", "forward", "recv", "send"}

\* Nothing is left over from a former connection, and of what a client sends
\* nothing is lost: what the request was parsed from and what is still to be read
\* make up all of it.
Unread ==
    /\ asked \in [Clients -> Seq(Seq(RequestTokens))]
    /\ \A c \in Clients :
       /\ link[c] = "closed" => inbox[c] = <<>>
       /\ link[c] # "closed" /\ peer[c] = "up" =>
             IF c # client_id \/ pc = "read" THEN Rest(c) = Sent(c)
             ELSE Forwarding => \E p \in Seq(RequestTokens) :
                                   p \o Rest(c) = Sent(c) /\ req = Parse(CString(p))

\* Cutting a host changes no prefix, so the lookup goes by the configuration.
Routed ==
    /\ DOMAIN routes = DOMAIN LoadedRoutes
    /\ \A k \in DOMAIN routes : routes[k].prefix = LoadedRoutes[k].prefix
    /\ Forwarding => IsBest(backend, LoadedRoutes, req.path)

\* forward_request has returned: all of the request was sent, unless a send
\* returned 0.
AllArrived ==
    ~ZeroSends /\ pc \in {"recv", "send"} =>
       /\ req # NoRequest
       /\ \E ip \in {client_id, LoopbackAddress} : IsPrefix(Rebuilt(req, ip), arrived)

Faithful == Unread /\ Routed /\ AllArrived
DInv == FInv /\ Faithful

LEMMA InitFaithful == Init => Faithful
<1> SUFFICES ASSUME Init PROVE Faithful
    OBVIOUS
<1>1. Unread
    BY DEF Init, Unread
<1>2. Routed /\ AllArrived
    BY DEF Init, Routed, AllArrived, Forwarding
<1> QED
    BY <1>1, <1>2 DEF Faithful

\* Reading takes a beginning of what has arrived.
LEMMA ReceivedIs ==
    ASSUME TextTypes, client_id \in Clients
    PROVE  Received \o From(inbox[client_id], Len(Received) + 1) = inbox[client_id]
<1> DEFINE box == inbox[client_id]
           n == Min({BufferSize - 1, Len(box)})
<1>1. box \in Seq(RequestTokens) /\ Len(box) \in Nat
    BY DEF TextTypes
<1>2. BufferSize - 1 \in Nat
    BY ConstantsAssumption
<1>3. n \in 0 .. Len(box)
    BY <1>1, <1>2, MinOfTwo
<1>4. Received = SubSeq(box, 1, n)
    BY DEF Received
<1> HIDE DEF n, box
<1>5. SubSeq(box, 1, n) \o From(box, n + 1) = box /\ Len(SubSeq(box, 1, n)) = n
    BY <1>1, <1>3, CutInTwo
<1> QED
    BY <1>4, <1>5 DEF box

LEMMA UnreadStep == DInv /\ [Next]_vars => Unread'
<1> SUFFICES ASSUME DInv, [Next]_vars PROVE Unread'
    OBVIOUS
<1>0. IInv /\ TypeOK /\ OneConnection /\ TextTypes /\ Unread
    BY DEF DInv, FInv, IInv, ForwardInv, Faithful
<1>a. /\ asked \in [Clients -> Seq(Seq(RequestTokens))]
      /\ inbox \in [Clients -> Seq(RequestTokens)]
      /\ outbox \in [Clients -> Seq(Seq(RequestTokens))]
      /\ link \in [Clients -> {"closed", "queued", "open"}]
      /\ peer \in [Clients -> {"up", "fin", "rst"}]
      /\ NoClient \notin Clients
      /\ pc # "accept" => client_id \in Clients /\ link[client_id] = "open"
      /\ pc = "accept" => client_id = NoClient
      /\ \A c \in Clients : link[c] = "closed" => inbox[c] = <<>>
    BY <1>0, Served, ConstantsAssumption DEF Unread, TextTypes, TypeOK, OneConnection
<1>b. \A c \in Clients : link[c] # "closed" /\ peer[c] = "up" =>
             IF c # client_id \/ pc = "read" THEN Rest(c) = Sent(c)
             ELSE Forwarding => \E p \in Seq(RequestTokens) :
                                   p \o Rest(c) = Sent(c) /\ req = Parse(CString(p))
    BY <1>0 DEF Unread
<1> USE DEF memory, sockets, backendConn
\* One condition per client for all steps.
<1> DEFINE Kept(c) ==
       /\ link'[c] = "closed" => inbox'[c] = <<>>
       /\ link'[c] # "closed" /\ peer'[c] = "up" =>
             IF c # client_id' \/ pc' = "read" THEN Rest(c)' = Sent(c)'
             ELSE Forwarding' => \E p \in Seq(RequestTokens) :
                                   p \o Rest(c)' = Sent(c)' /\ req' = Parse(CString(p))
<1>c. asked' \in [Clients -> Seq(Seq(RequestTokens))] /\ (\A c \in Clients : Kept(c)) => Unread'
    BY DEF Unread
<1>1. CASE Accept
  <2>1. PICK d \in Clients : /\ client_id' = d /\ link' = [link EXCEPT ![d] = "open"]
                             /\ link[d] = "queued"
    <3>1. Head(backlog) \in ToSet(backlog)
      <4>1. backlog \in Seq(Clients) /\ backlog # <<>>
        BY <1>0, <1>1 DEF Accept, TypeOK
      <4>2. Head(backlog) = backlog[1] /\ 1 \in DOMAIN backlog
        BY <4>1
      <4> QED
        BY <4>2 DEF ToSet
    <3> QED
      BY <1>0, <1>1, <3>1 DEF Accept, OneConnection
  <2>2. UNCHANGED <<asked, inbox, outbox, peer>> /\ pc' = "read" /\ client_id \notin Clients
    BY <1>1, <1>a DEF Accept
  <2>3. ASSUME NEW c \in Clients PROVE Kept(c)
    <3>1. link'[c] = IF c = d THEN "open" ELSE link[c]
      BY <1>a, <2>1
    <3>2. Rest(c)' = Rest(c) /\ Sent(c)' = Sent(c)
      BY <2>2 DEF Rest, Sent
    <3> QED
      BY <1>a, <1>b, <2>1, <2>2, <3>1, <3>2
  <2> QED
    BY <1>a, <1>c, <2>2, <2>3
<1>2. CASE RejectRequest \/ TakeRequest
  <2> DEFINE c == client_id
  <2>1. /\ c \in Clients /\ link[c] = "open" /\ pc = "read"
        /\ inbox' = [inbox EXCEPT ![c] = From(@, Len(Received) + 1)]
        /\ UNCHANGED <<link, peer, asked, outbox, client_id>>
        /\ pc' # "read"
        /\ Forwarding' => req' = Parse(CString(Received))
    BY <1>2, <1>a DEF RejectRequest, TakeRequest, ReadSome, Forwarding
  <2>2. Received \in Seq(RequestTokens) /\ From(inbox[c], Len(Received) + 1) \in Seq(RequestTokens)
        /\ Received \o From(inbox[c], Len(Received) + 1) = inbox[c]
    BY <1>0, <2>1, ReceivedType, ReceivedIs
  <2>3. Received \o Rest(c)' = Rest(c)
    <3> DEFINE q == From(inbox[c], Len(Received) + 1)
               o == FlattenSeq(outbox[c])
    <3>1. inbox'[c] = q
      BY <1>a, <2>1
    <3>2. o \in Seq(RequestTokens)
      BY <1>a, <2>1, FlattenType
    <3>3. q \in Seq(RequestTokens) /\ Received \in Seq(RequestTokens)
      BY <2>2
    <3>6. Received \o q = inbox[c]
      BY <2>2
    <3> HIDE DEF q, o
    <3>4. Received \o (q \o o) = (Received \o q) \o o
      BY <3>2, <3>3, ConcatAssociative, Z3T(30)
    <3>5. Rest(c)' = q \o o
      BY <2>1, <3>1 DEF Rest, o
    <3> QED
      BY <3>4, <3>5, <3>6 DEF Rest, o
  <2>4. ASSUME NEW d \in Clients PROVE Kept(d)
    <3>1. CASE d = c
      <4>1. peer[c] = "up" => Received \o Rest(c)' = Sent(c)
        BY <1>b, <2>1, <2>3
      <4>2. Sent(c)' = Sent(c)
        BY <2>1 DEF Sent
      <4> QED
        BY <2>1, <2>2, <3>1, <4>1, <4>2
    <3>2. CASE d # c
      <4>1. inbox'[d] = inbox[d]
        BY <1>a, <2>1, <3>2
      <4>2. Rest(d)' = Rest(d) /\ Sent(d)' = Sent(d)
        BY <2>1, <4>1 DEF Rest, Sent
      <4> QED
        BY <1>a, <1>b, <2>1, <3>2, <4>1, <4>2
    <3> QED
      BY <3>1, <3>2
  <2> QED
    BY <1>a, <1>c, <2>1, <2>4
<1>3. CASE Cleanup
  <2> DEFINE c == client_id
  <2>1. /\ c \in Clients /\ pc' = "accept" /\ client_id' = NoClient
        /\ UNCHANGED backlog /\ Closed(c)
    BY <1>3, <1>a DEF Cleanup
  <2>2. asked' = [asked EXCEPT ![c] = <<>>]
    BY <2>1 DEF Closed
  <2>3. ASSUME NEW d \in Clients PROVE Kept(d)
    <3>1. CASE d = c
      BY <1>a, <2>1, <3>1 DEF Closed
    <3>2. CASE d # c
      <4>1. link'[d] = link[d] /\ peer'[d] = peer[d] /\ asked'[d] = asked[d]
            /\ inbox'[d] = inbox[d] /\ outbox'[d] = outbox[d]
        BY <1>a, <2>1, <3>2 DEF Closed
      <4>2. Rest(d)' = Rest(d) /\ Sent(d)' = Sent(d)
        BY <4>1 DEF Rest, Sent
      <4> QED
        BY <1>a, <1>b, <2>1, <3>2, <4>1, <4>2
    <3> QED
      BY <3>1, <3>2
  <2>4. <<>> \in Seq(Seq(RequestTokens))
    OBVIOUS
  <2> QED
    BY <1>a, <1>c, <2>2, <2>3, <2>4
<1>4. ASSUME NEW c \in Clients, ClientConnect(c) PROVE Unread'
  <2>1. PICK r \in Requests : asked' = [asked EXCEPT ![c] = r] /\ outbox' = [outbox EXCEPT ![c] = r]
    BY <1>4 DEF ClientConnect
  <2>2. r \in Seq(Seq(RequestTokens))
    BY TextsAssumption
  <2>3. /\ link[c] = "closed" /\ link' = [link EXCEPT ![c] = "queued"]
        /\ UNCHANGED <<peer, inbox, client_id, pc, req>>
    BY <1>4 DEF ClientConnect
  <2>4. c # client_id
    BY <1>a, <2>3
  <2>5. ASSUME NEW d \in Clients PROVE Kept(d)
    <3>1. CASE d = c
      <4>1. asked'[c] = r /\ outbox'[c] = r /\ inbox'[c] = <<>> /\ link'[c] = "queued"
        BY <1>a, <2>1, <2>3
      <4>2. <<>> \o FlattenSeq(r) = FlattenSeq(r)
        <5>1. FlattenSeq(r) \in Seq(RequestTokens)
          BY <2>2, FlattenType
        <5> QED
          BY <5>1, ConcatEmptySeq
      <4>3. Rest(c)' = Sent(c)'
        BY <4>1, <4>2 DEF Rest, Sent
      <4> QED
        BY <2>3, <2>4, <3>1, <4>1, <4>3
    <3>2. CASE d # c
      <4>1. link'[d] = link[d] /\ asked'[d] = asked[d] /\ outbox'[d] = outbox[d]
        BY <1>a, <2>1, <2>3, <3>2
      <4>2. Rest(d)' = Rest(d) /\ Sent(d)' = Sent(d)
        BY <2>3, <4>1 DEF Rest, Sent
      <4> QED
        BY <1>a, <1>b, <2>3, <3>2, <4>1, <4>2 DEF Forwarding
    <3> QED
      BY <3>1, <3>2
  <2> QED
    BY <1>a, <1>c, <2>1, <2>2, <2>5
<1>5. ASSUME NEW c \in Clients, ClientSend(c) PROVE Unread'
  <2>1. /\ outbox[c] # <<>> /\ link[c] # "closed"
        /\ inbox' = [inbox EXCEPT ![c] = @ \o Head(outbox[c])]
        /\ outbox' = [outbox EXCEPT ![c] = Tail(@)]
        /\ UNCHANGED <<link, peer, asked, client_id, pc, req>>
    BY <1>5 DEF ClientSend
  <2>2. Rest(c)' = Rest(c)
    <3> DEFINE b == inbox[c]
               o == outbox[c]
               h == Head(o)
               t == FlattenSeq(Tail(o))
    <3>1. inbox'[c] = b \o h /\ outbox'[c] = Tail(o) /\ o \in Seq(Seq(RequestTokens))
      BY <1>a, <2>1
    <3>2. FlattenSeq(o) = h \o t
      BY <2>1, <3>1, FlattenHead
    <3>3. b \in Seq(RequestTokens) /\ h \in Seq(RequestTokens)
          /\ Tail(o) \in Seq(Seq(RequestTokens))
      BY <1>a, <2>1
    <3>4. t \in Seq(RequestTokens)
      BY <3>3, FlattenType
    <3> HIDE DEF b, h, t, o
    <3>5. (b \o h) \o t = b \o (h \o t)
      BY <3>3, <3>4, ConcatAssociative, Z3T(30)
    <3> QED
      BY <3>1, <3>2, <3>5 DEF Rest, b, o, t
  <2>3. ASSUME NEW d \in Clients PROVE Kept(d)
    <3>1. Sent(d)' = Sent(d) /\ Rest(d)' = Rest(d)
      <4>1. CASE d = c
        BY <2>1, <2>2, <4>1 DEF Sent
      <4>2. CASE d # c
        <5>1. inbox'[d] = inbox[d] /\ outbox'[d] = outbox[d]
          BY <1>a, <2>1, <4>2
        <5> QED
          BY <2>1, <5>1 DEF Rest, Sent
      <4> QED
        BY <4>1, <4>2
    <3>2. link'[d] = "closed" => inbox'[d] = <<>>
      <4>1. d # c => inbox'[d] = inbox[d]
        BY <1>a, <2>1
      <4> QED
        BY <1>a, <2>1, <4>1
    <3> QED
      BY <1>b, <2>1, <3>1, <3>2 DEF Forwarding
  <2> QED
    BY <1>a, <1>c, <2>1, <2>3
<1>6. ASSUME NEW c \in Clients, ClientClose(c) \/ ClientReset(c) PROVE Unread'
  <2>1. /\ link[c] # "closed" /\ UNCHANGED <<link, asked, inbox, client_id, pc, req>>
        /\ peer'[c] # "up" /\ \A d \in Clients : d # c => peer'[d] = peer[d]
                                                           /\ outbox'[d] = outbox[d]
    BY <1>6, <1>a DEF ClientClose, ClientReset
  <2>2. ASSUME NEW d \in Clients PROVE Kept(d)
    <3>1. CASE d = c
      BY <1>a, <2>1, <3>1
    <3>2. CASE d # c
      <4>1. Rest(d)' = Rest(d) /\ Sent(d)' = Sent(d)
        BY <2>1, <3>2 DEF Rest, Sent
      <4> QED
        BY <1>a, <1>b, <2>1, <3>2, <4>1 DEF Forwarding
    <3> QED
      BY <3>1, <3>2
  <2> QED
    BY <1>a, <1>c, <2>1, <2>2
<1>7. ASSUME NEW c \in Clients, KernelDrops(c) PROVE Unread'
  <2>1. Closed(c) /\ UNCHANGED <<client_id, pc, req>>
    BY <1>7 DEF KernelDrops
  <2>2. asked' = [asked EXCEPT ![c] = <<>>] /\ <<>> \in Seq(Seq(RequestTokens))
    BY <2>1 DEF Closed
  <2>3. ASSUME NEW d \in Clients PROVE Kept(d)
    <3>1. CASE d = c
      BY <1>a, <2>1, <3>1 DEF Closed
    <3>2. CASE d # c
      <4>1. link'[d] = link[d] /\ peer'[d] = peer[d] /\ asked'[d] = asked[d]
            /\ inbox'[d] = inbox[d] /\ outbox'[d] = outbox[d]
        BY <1>a, <2>1, <3>2 DEF Closed
      <4>2. Rest(d)' = Rest(d) /\ Sent(d)' = Sent(d)
        BY <4>1 DEF Rest, Sent
      <4> QED
        BY <1>a, <1>b, <2>1, <3>2, <4>1, <4>2 DEF Forwarding
    <3> QED
      BY <3>1, <3>2
  <2> QED
    BY <1>a, <1>c, <2>2, <2>3
<1>8. CASE /\ UNCHANGED <<link, peer, asked, inbox, outbox, client_id, req>>
           /\ Forwarding' => Forwarding
           /\ pc' = "read" => pc = "read"
           /\ pc = "read" => ~Forwarding'
  <2>1. ASSUME NEW d \in Clients PROVE Kept(d)
    <3>1. Rest(d)' = Rest(d) /\ Sent(d)' = Sent(d)
      BY <1>8 DEF Rest, Sent
    <3> QED
      BY <1>8, <1>a, <1>b, <3>1
  <2> QED
    BY <1>8, <1>a, <1>c, <2>1
<1>9. ReadNothing \/ ConnectFails \/ Connect \/ ForwardFails \/ Forward \/ Recv \/ RecvEnds
      \/ RelaySend \/ RelayFails \/ WriteError
          => /\ UNCHANGED <<link, peer, asked, inbox, outbox, client_id, req>>
             /\ Forwarding' => Forwarding
             /\ pc' # "read" /\ (pc = "read" => ~Forwarding')
    BY DEF ReadNothing, ConnectFails, Connect, ForwardFails, Forward, Recv, RecvEnds, RelaySend,
       RelayFails, NoReport, WriteError, AfterSend, Forwarding
<1>10. BackendAnswer \/ BackendSend \/ BackendClose \/ BackendFail \/ UNCHANGED vars
          => UNCHANGED <<link, peer, asked, inbox, outbox, client_id, req, pc>>
    BY DEF BackendAnswer, BackendSend, BackendClose, BackendFail, vars
<1>11. pc = "read" => ~Forwarding
    BY DEF Forwarding
<1>12. pc' = pc => (Forwarding' <=> Forwarding)
    BY DEF Forwarding
<1> QED
    BY <1>1, <1>2, <1>3, <1>4, <1>5, <1>6, <1>7, <1>8, <1>9, <1>10, <1>11, <1>12
       DEF Next, ProxyStep, Environment

\* find_backend goes by the prefixes of the table alone.
LEMMA SamePrefixes ==
    ASSUME NEW table, NEW other, DOMAIN table = DOMAIN other,
           \A k \in DOMAIN table : table[k].prefix = other[k].prefix,
           NEW path, NEW i, IsBest(i, table, path)
    PROVE  IsBest(i, other, path)
<1>1. Candidates(table, path) = Candidates(other, path)
    BY DEF Candidates, Matches
<1>2. \A k \in Candidates(table, path) : k \in DOMAIN table
    BY DEF Candidates
<1> QED
    BY <1>1, <1>2 DEF IsBest

\* A backend is chosen by TakeRequest, and routes are only cut.
LEMMA RoutedStep == DInv /\ [Next]_vars => Routed'
<1> SUFFICES ASSUME DInv, [Next]_vars PROVE Routed'
    OBVIOUS
<1>0. Routed /\ TypeOK
    BY DEF DInv, FInv, IInv, Faithful
<1> USE DEF memory, sockets, backendConn
<1>1. CASE TakeRequest
  <2>1. routes' = routes /\ backend' = BestBackend(routes, req'.path)
        /\ (Forwarding' => backend' # NoBackend)
    BY <1>1 DEF TakeRequest, ReadSome, Forwarding
  <2>2. ASSUME Forwarding' PROVE IsBest(backend', LoadedRoutes, req'.path)
    <3>1. \E i \in DOMAIN routes : IsBest(i, routes, req'.path)
      BY <2>1, <2>2 DEF BestBackend
    <3>2. backend' = CHOOSE i \in DOMAIN routes : IsBest(i, routes, req'.path)
      BY <2>1, <2>2 DEF BestBackend
    <3>3. IsBest(backend', routes, req'.path)
      BY <3>1, <3>2
    <3> QED
      BY <1>0, <3>3, SamePrefixes DEF Routed
  <2> QED
    BY <1>0, <2>1, <2>2 DEF Routed
<1>2. CASE ConnectFails \/ Connect
  <2>1. routes' = CutHost(routes, backend) /\ UNCHANGED <<backend, req>> /\ Forwarding
        /\ routes \in Seq(Routes)
    BY <1>0, <1>2 DEF ConnectFails, Connect, Forwarding, TypeOK
  <2>2. DOMAIN routes' = DOMAIN routes
        /\ \A k \in DOMAIN routes : routes'[k].prefix = routes[k].prefix
    <3>1. routes' = [routes EXCEPT ![backend].host = <<Head(@)>>]
      BY <2>1 DEF CutHost
    <3>2. \A k \in DOMAIN routes : routes[k] \in Routes
      BY <2>1
    <3>3. \A x \in Routes : \A h : [x EXCEPT !.host = h].prefix = x.prefix
      BY DEF Routes
    <3>4. /\ DOMAIN routes' = DOMAIN routes
          /\ \A k \in DOMAIN routes :
                \/ routes'[k] = routes[k]
                \/ \E h : routes'[k] = [routes[k] EXCEPT !.host = h]
      BY <3>1
    <3>5. ASSUME NEW k \in DOMAIN routes PROVE routes'[k].prefix = routes[k].prefix
      <4>1. CASE \E h : routes'[k] = [routes[k] EXCEPT !.host = h]
        <5>1. PICK h : routes'[k] = [routes[k] EXCEPT !.host = h]
          BY <4>1
        <5>2. [routes[k] EXCEPT !.host = h].prefix = routes[k].prefix
          BY <3>2, <3>3
        <5> QED
          BY <5>1, <5>2
      <4> QED
        BY <3>4, <4>1
    <3> QED
      BY <3>4, <3>5
  <2> QED
    BY <1>0, <2>1, <2>2 DEF Routed, Forwarding
<1>3. CASE UNCHANGED <<routes, backend, req>> /\ (Forwarding' => Forwarding)
    BY <1>0, <1>3 DEF Routed
<1>4. CASE UNCHANGED routes /\ ~Forwarding'
    BY <1>0, <1>4 DEF Routed
<1>5. Accept \/ ReadNothing \/ RejectRequest \/ RelayFails \/ WriteError \/ Cleanup
      \/ ForwardFails => UNCHANGED routes /\ ~Forwarding'
    BY DEF Accept, ReadNothing, RejectRequest, ReadSome, RelayFails, NoReport, WriteError,
       Cleanup, ForwardFails, AfterSend, Forwarding
<1>6. Forward \/ Recv \/ RecvEnds \/ RelaySend
          => UNCHANGED <<routes, backend, req>> /\ (Forwarding' => Forwarding)
    BY DEF Forward, Recv, RecvEnds, RelaySend, Forwarding
<1>7. \A c \in Clients : ClientConnect(c) \/ ClientSend(c) \/ ClientClose(c) \/ ClientReset(c)
                         \/ KernelDrops(c)
          => UNCHANGED <<routes, backend, req, pc>>
    BY DEF ClientConnect, ClientSend, ClientClose, ClientReset, KernelDrops
<1>8. BackendAnswer \/ BackendSend \/ BackendClose \/ BackendFail \/ UNCHANGED vars
          => UNCHANGED <<routes, backend, req, pc>>
    BY DEF BackendAnswer, BackendSend, BackendClose, BackendFail, vars
<1>9. pc' = pc => (Forwarding' <=> Forwarding)
    BY DEF Forwarding
<1> QED
    BY <1>1, <1>2, <1>3, <1>4, <1>5, <1>6, <1>7, <1>8, <1>9 DEF Next, ProxyStep, Environment

\* Sends that take something leave forward_request only when nothing is left.
LEMMA AllArrivedStep == DInv /\ [Next]_vars => AllArrived'
<1> SUFFICES ASSUME ~ZeroSends, DInv, [Next]_vars PROVE AllArrived'
    BY DEF AllArrived
<1>0. AllArrived /\ StillWhole /\ TextTypes
    BY DEF DInv, FInv, ForwardInv, Faithful
<1> USE DEF memory, sockets, backendConn
<1>1. CASE Forward
  <2>1. PICK n \in Amounts(Len(unsent)) :
          /\ arrived' = arrived \o SubSeq(unsent, 1, n)
          /\ unsent' = IF n = 0 THEN <<>> ELSE RestAfter(unsent, n)
          /\ pc' = IF unsent' = <<>> THEN "recv" ELSE "forward"
    BY <1>1 DEF Forward
  <2>2. /\ IsSeq(arrived) /\ IsSeq(unsent) /\ unsent # <<>> /\ req # NoRequest
        /\ UNCHANGED <<client_id, req>>
    BY <1>0, <1>1 DEF Forward, StillWhole, TextTypes
  <2>3. PICK ip \in {client_id, LoopbackAddress} :
          IF req.body = <<>> THEN arrived \o unsent = Rebuilt(req, ip)
          ELSE IsPrefix(Rebuilt(req, ip), arrived \o unsent)
    BY <1>0, <1>1 DEF Forward, StillWhole, Addresses
  <2> DEFINE S == ToSet(arrived) \cup ToSet(unsent)
             R == Rebuilt(req, ip)
             t == arrived \o unsent
  <2>4. arrived \in Seq(S) /\ unsent \in Seq(S) /\ t \in Seq(S)
    BY <2>2, ConcatIsSeq
  <2> HIDE DEF S
  <2>5. n \in 1 .. Len(unsent) /\ n # 0
    <3>1. Len(unsent) \in Nat \ {0}
      BY <2>2, <2>4
    <3> QED
      BY <3>1 DEF Amounts
  <2>6. ASSUME pc' \in {"recv", "send"} PROVE arrived' = t
    <3>1. unsent' = <<>> /\ unsent' = From(unsent, n + 1)
      BY <2>1, <2>5, <2>6 DEF RestAfter
    <3> DEFINE b == SubSeq(unsent, 1, n)
               d == From(unsent, n + 1)
    <3>2. b \in Seq(S) /\ b \o d = unsent
      <4>1. n \in 0 .. Len(unsent)
        BY <2>5
      <4> QED
        BY <2>4, <4>1, CutInTwo
    <3> HIDE DEF b, d
    <3>3. d = <<>>
      BY <3>1 DEF d
    <3>4. b = unsent
      BY <3>2, <3>3, ConcatEmptySeq
    <3> QED
      BY <2>1, <3>4 DEF b
  <2>7. IsPrefix(R, t)
    <3>1. CASE req.body = <<>>
      <4>1. t = R
        BY <2>3, <3>1
      <4>2. IsPrefix(t, t)
        <5>1. Len(t) \in Nat /\ \A k \in 1 .. Len(t) : t[k] = t[k]
          BY <2>4
        <5> HIDE DEF t
        <5> QED
          BY <2>4, <5>1, PrefixIs
      <4> HIDE DEF t, R
      <4> QED
        BY <4>1, <4>2
    <3> QED
      BY <2>3, <3>1
  <2> HIDE DEF t
  <2>8. pc' \in {"recv", "send"} => IsPrefix(Rebuilt(req', ip), arrived')
    BY <2>2, <2>6, <2>7
  <2> QED
    BY <2>2, <2>3, <2>8 DEF AllArrived
<1>2. CASE UNCHANGED <<arrived, req, client_id>>
           /\ (pc' \in {"recv", "send"} => pc \in {"recv", "send"})
    BY <1>0, <1>2 DEF AllArrived
<1>3. CASE pc' \notin {"recv", "send"}
    BY <1>3 DEF AllArrived
<1>4. Accept \/ ReadNothing \/ RejectRequest \/ TakeRequest \/ ConnectFails \/ Connect
      \/ ForwardFails \/ RelayFails \/ WriteError \/ Cleanup => pc' \notin {"recv", "send"}
    BY DEF Accept, ReadNothing, RejectRequest, TakeRequest, ReadSome, ConnectFails, Connect,
       ForwardFails, RelayFails, NoReport, WriteError, Cleanup, AfterSend
<1>5. Recv \/ RecvEnds \/ RelaySend => UNCHANGED <<arrived, req, client_id>>
                                       /\ pc \in {"recv", "send"}
    BY DEF Recv, RecvEnds, RelaySend
<1>6. \A c \in Clients : ClientConnect(c) \/ ClientSend(c) \/ ClientClose(c) \/ ClientReset(c)
                         \/ KernelDrops(c)
          => UNCHANGED <<arrived, req, client_id, pc>>
    BY DEF ClientConnect, ClientSend, ClientClose, ClientReset, KernelDrops
<1>7. BackendAnswer \/ BackendSend \/ BackendClose \/ BackendFail \/ UNCHANGED vars
          => UNCHANGED <<arrived, req, client_id, pc>>
    BY DEF BackendAnswer, BackendSend, BackendClose, BackendFail, vars
<1> QED
    BY <1>1, <1>2, <1>3, <1>4, <1>5, <1>6, <1>7 DEF Next, ProxyStep, Environment

LEMMA FaithfulInductive == Spec => []DInv
<1>1. Init => DInv
    BY InitIInv, InitForward, InitFaithful DEF DInv, FInv
<1>2. DInv /\ [Next]_vars => FInv'
  <2>1. DInv => FInv
    BY DEF DInv
  <2>2. FInv /\ [Next]_vars => IInv'
    BY TypeStep, OneConnectionStep, SurvivesStep, LeakStep DEF FInv, IInv
  <2> QED
    BY <2>1, <2>2, TextTypesStep, ForwardStep DEF FInv, ForwardInv
<1>3. DInv /\ [Next]_vars => DInv'
    BY <1>2, UnreadStep, RoutedStep, AllArrivedStep DEF DInv, Faithful
<1> QED
    BY <1>1, <1>3, PTL DEF Spec

\* With nothing left to be read, the request was parsed from all that was sent.
LEMMA InvFaithful == ~ZeroSends /\ DInv => DeliveredFaithfully
<1> SUFFICES ASSUME ~ZeroSends, DInv, pc \in {"recv", "send"}, ReadWhole(client_id),
                    WellFormed(FlattenSeq(asked[client_id]))
             PROVE  LET sent == Message(FlattenSeq(asked[client_id]))
                        seen == Message(arrived)
                        kept == SubSeq(sent.headers, 1, Min({MaxHeaders, Len(sent.headers)}))
                        method == sent.line[1].word
                    IN  /\ IsPrefix(seen.line[1].word, method)
                        /\ Len(seen.line[1].word) >= Min({MaxMethod, Len(method)})
                        /\ seen.line[2] = sent.line[2] /\ seen.body = sent.body
                        /\ KeepsHeaders(kept, seen.headers)
                        /\ IsBest(backend, LoadedRoutes, sent.line[2].word)
    BY DEF DeliveredFaithfully
<1> DEFINE s == FlattenSeq(asked[client_id])
<1>1. client_id \in Clients /\ link[client_id] = "open"
    BY Served DEF DInv, FInv
<1>2. /\ IsSeq(arrived) /\ Unread /\ AllArrived
      /\ IsBest(backend, LoadedRoutes, req.path)
    BY DEF DInv, FInv, ForwardInv, TextTypes, Faithful, Routed, Forwarding
<1>3. s \in Seq(RequestTokens)
    BY <1>1, <1>2, FlattenType DEF Unread
<1>4. NUL \notin ToSet(s)
    BY DEF WellFormed
<1>5. Rest(client_id) = <<>>
  <2>1. <<>> \o <<>> = <<>>
    BY <<>> \in Seq({}), ConcatEmptySeq
  <2> QED
    BY <2>1, FlattenEmpty DEF Rest, ReadWhole
<1>6. PICK p \in Seq(RequestTokens) : p \o Rest(client_id) = s /\ req = Parse(CString(p))
  <2>1. peer[client_id] = "up" /\ pc # "read" /\ Forwarding
    BY DEF ReadWhole, Forwarding
  <2> QED
    BY <1>1, <1>2, <2>1 DEF Unread, Sent
<1> HIDE DEF s
<1>7. p = s
    BY <1>5, <1>6, ConcatEmptySeq
<1>8. req = Parse(s)
    BY <1>3, <1>4, <1>6, <1>7, StringIs
<1>9. PICK ip \in {client_id, LoopbackAddress} : IsPrefix(Rebuilt(req, ip), arrived)
    BY <1>2 DEF AllArrived
<1>10. ReadsAs(arrived, s, req)
  <2> DEFINE V == ToSet(arrived)
         r == req
         a == arrived
         T == RequestTokens
  <2>1. a \in Seq(V) /\ WellFormed(s)
    BY <1>2 DEF IsSeq, s
  <2>2. s \in Seq(T) /\ r = Parse(s) /\ IsPrefix(Rebuilt(r, ip), a)
    BY <1>3, <1>8, <1>9
  <2>3. WordsIn(T)
    BY WordsAssumption DEF IsSeq, WordsIn
  <2> HIDE DEF V, r, a, T
  <2>4. ReadsAs(a, s, r)
    BY <2>1, <2>2, <2>3, ReadAsSent, Z3T(60)
  <2> QED
    BY <2>4 DEF r, a
<1> QED
    BY <1>2, <1>10 DEF ReadsAs, s

-----------------------------------------------------------------------------
\* Every variable of the proxy, its clients and its backend keeps its type; the
\* routing table stays a table of routes with hosts although it is modified.
THEOREM TypeCorrect == Spec => []TypeOK
<1>1. IInv => TypeOK
    BY DEF IInv
<1> QED
    BY <1>1, Inductive, PTL

\* Every path through the loop of main closes what it opened: the proxy holds
\* the connection of the client it serves and no other, and nothing in accept.
THEOREM HoldsOneConnection == Spec => []OneConnection
<1>1. IInv => OneConnection
    BY DEF IInv
<1> QED
    BY <1>1, Inductive, PTL

\* Every request that was taken is freed, on every path to cleanup.
THEOREM RequestsAreFreed == Spec => []OnlyRejectedRequestsLeak
<1>1. IInv => OnlyRejectedRequestsLeak
    BY DEF IInv
<1> QED
    BY <1>1, Inductive, PTL

\* What the backend receives is the request rebuilt for the client being served,
\* in order and with nothing left out or repeated, however the sends split it.
THEOREM ForwardsTheRequest == Spec => []ForwardedIsRequest
<1>1. FInv => ForwardedIsRequest
    BY DEF FInv, ForwardInv
<1> QED
    BY <1>1, ForwardInductive, PTL

\* Cutting hosts in the routing table never misleads a lookup: the table keeps the
\* prefixes that were loaded, and the route of the request being forwarded is the
\* longest match in the configuration.
THEOREM RoutedAsConfigured == Spec => []Routed
<1>1. DInv => Routed
    BY DEF DInv, Faithful
<1> QED
    BY <1>1, FaithfulInductive, PTL

\* What a well-formed request says, its method as far as methode holds it, its
\* path, its headers up to the limit and its body, is what the backend of its
\* longest prefix reads, whatever former requests left behind (of sends that take
\* something, a constant).
THEOREM DeliversFaithfully == ~ZeroSends => (Spec => []DeliveredFaithfully)
<1> SUFFICES ASSUME ~ZeroSends PROVE Spec => []DeliveredFaithfully
    OBVIOUS
<1>1. DInv => DeliveredFaithfully
    BY InvFaithful
<1> QED
    BY <1>1, FaithfulInductive, PTL

\* A backend that does not fail, and sends that take something, are constants
\* of the specification: of such runs, every accepted client is answered whole.
THEOREM WholeAnswers == Unfailing => (Spec => []AnsweredInFull)
<1> SUFFICES ASSUME Unfailing PROVE Spec => []AnsweredInFull
    OBVIOUS
<1>1. RInv => AnsweredVerbatim
    BY DEF RInv, RelayInv, Outcome, Explained
<1>2. \A s \in Responses : Relayed(s)
    BY DEF Relayed
<1>3. AnsweredVerbatim => AnsweredInFull
    BY <1>2 DEF AnsweredVerbatim, AnsweredInFull
<1> QED
    BY <1>1, <1>3, RelayInductive, PTL

\* Clients are served one at a time in the order in which the kernel accepted
\* them, and what each is sent is one error or a growing part of one response.
THEOREM GatewayImplemented == Spec => KeepsGatewayPromise
<1> QED
    BY GatewayInit, GatewayStep, RelayInductive, PTL DEF Spec, KeepsGatewayPromise, G!Spec
=============================================================================
