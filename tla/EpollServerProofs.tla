-------------------------- MODULE EpollServerProofs ----------------------------------
(*****************************************************************************)
(* Proofs about EpollServer, for any number of clients and descriptors and   *)
(* any limits: no pending event is stale, no connection is lost or leaked.   *)
(*****************************************************************************)
EXTENDS EpollServer, FiniteSetTheorems, SequenceTheorems, WellFoundedInduction, TLAPS

-----------------------------------------------------------------------------
\* Induction up to n, over a set instead of a predicate.
LEMMA Reaches ==
    ASSUME NEW n \in Nat, NEW U, 0 \in U, \A k \in 1 .. n : k - 1 \in U => k \in U
    PROVE  \A k \in 0 .. n : k \in U
<1> DEFINE T == {k \in 0 .. n : k \notin U}
           R == OpToRel(<, Nat)
<1>1. SUFFICES ASSUME T # {} PROVE FALSE
    OBVIOUS
<1>2. \A i, j \in Nat : i < j => <<i, j>> \in R
    BY DEF OpToRel
<1>3. IsWellFoundedOn(R, Nat)
    BY NatLessThanWellFounded
<1> HIDE DEF R
<1>4. PICK m \in T : \A k \in T : ~(<<k, m>> \in R)
  <2>1. T \subseteq Nat
    OBVIOUS
  <2> HIDE DEF T
  <2> QED
    BY <1>1, <1>3, <2>1, WFMin
<1>5. m \in 1 .. n /\ m - 1 \in 0 .. n /\ m - 1 \in Nat /\ m \in Nat /\ m - 1 < m
    OBVIOUS
<1>6. m - 1 \notin T
    BY <1>2, <1>4, <1>5
<1> QED
    BY <1>5, <1>6

-----------------------------------------------------------------------------
\* The kernel's lists hold nothing twice.
NoRepeat(s) == \A i, j \in DOMAIN s : s[i] = s[j] => i = j
OnList(s, x) == \E i \in DOMAIN s : s[i] = x

\* Appending what is not there yet.
LEMMA Appended ==
    ASSUME NEW T, NEW s \in Seq(T), NEW x \in T, NoRepeat(s), ~OnList(s, x)
    PROVE  /\ Append(s, x) \in Seq(T) /\ Len(Append(s, x)) = Len(s) + 1
           /\ NoRepeat(Append(s, x))
           /\ \A y : OnList(Append(s, x), y) <=> y = x \/ OnList(s, y)
<1> DEFINE t == Append(s, x)
           n == Len(s)
<1>1. n \in Nat /\ DOMAIN s = 1 .. n
    OBVIOUS
<1>2. t \in Seq(T) /\ Len(t) = n + 1 /\ DOMAIN t = 1 .. n + 1
    OBVIOUS
<1>3. (\A i \in 1 .. n : t[i] = s[i]) /\ t[n + 1] = x
    OBVIOUS
<1> HIDE DEF t, n
<1>4. n + 1 \in 1 .. n + 1 /\ (\A i \in 1 .. n : i \in 1 .. n + 1)
      /\ \A i \in 1 .. n + 1 : i \in 1 .. n \/ i = n + 1
    BY <1>1
<1>5. NoRepeat(t)
    BY <1>1, <1>2, <1>3, <1>4 DEF NoRepeat, OnList
<1>6. ASSUME NEW y PROVE OnList(t, y) <=> y = x \/ OnList(s, y)
    BY <1>1, <1>2, <1>3, <1>4 DEF OnList
<1> QED
    BY <1>2, <1>5, <1>6 DEF t, n

\* Taking off the first one.
LEMMA TailKeeps ==
    ASSUME NEW T, NEW s \in Seq(T), s # <<>>
    PROVE  /\ Tail(s) \in Seq(T) /\ Len(Tail(s)) = Len(s) - 1
           /\ Head(s) = s[1] /\ 1 \in DOMAIN s /\ Head(s) \in T
           /\ \A i \in DOMAIN Tail(s) : i + 1 \in DOMAIN s /\ i + 1 # 1 /\ Tail(s)[i] = s[i + 1]
           /\ \A i \in DOMAIN s : i # 1 => i - 1 \in DOMAIN Tail(s) /\ Tail(s)[i - 1] = s[i]
<1> DEFINE t == Tail(s)
           n == Len(s)
<1>1. n \in Nat /\ DOMAIN s = 1 .. n /\ n # 0
    OBVIOUS
<1>2. t \in Seq(T) /\ Len(t) = n - 1 /\ DOMAIN t = 1 .. n - 1 /\ Head(s) = s[1]
    BY <1>1
<1>3. \A i \in 1 .. n - 1 : t[i] = s[i + 1]
    BY <1>1
<1>4. s[1] \in T
    BY <1>1
<1> HIDE DEF t, n
<1>5. /\ 1 \in 1 .. n
      /\ \A i \in 1 .. n - 1 : i + 1 \in 1 .. n /\ i + 1 # 1
      /\ \A i \in 1 .. n : i # 1 => i - 1 \in 1 .. n - 1 /\ (i - 1) + 1 = i
    BY <1>1
<1>6. \A i \in 1 .. n : i # 1 => t[i - 1] = s[i]
    BY <1>3, <1>5
<1> QED
    BY <1>1, <1>2, <1>3, <1>4, <1>5, <1>6 DEF t, n

\* What is left of a list without repetitions when its first one is taken.
LEMMA TailOnce ==
    ASSUME NEW T, NEW s \in Seq(T), s # <<>>, NoRepeat(s)
    PROVE  /\ NoRepeat(Tail(s))
           /\ \A y : OnList(Tail(s), y) <=> y # Head(s) /\ OnList(s, y)
<1> DEFINE t == Tail(s)
<1>1. /\ Head(s) = s[1] /\ 1 \in DOMAIN s
      /\ \A i \in DOMAIN t : i + 1 \in DOMAIN s /\ i + 1 # 1 /\ t[i] = s[i + 1]
      /\ \A i \in DOMAIN s : i # 1 => i - 1 \in DOMAIN t /\ t[i - 1] = s[i]
    BY TailKeeps
<1>2. \A i \in DOMAIN t : i \in Nat
  <2>1. t \in Seq(T)
    BY TailKeeps
  <2> HIDE DEF t
  <2> QED
    BY <2>1
<1> HIDE DEF t
<1>3. ASSUME NEW i \in DOMAIN t, NEW j \in DOMAIN t, t[i] = t[j] PROVE i = j
  <2>1. i + 1 = j + 1
    BY <1>1, <1>3 DEF NoRepeat
  <2> QED
    BY <1>2, <2>1
<1>4. ASSUME NEW y PROVE OnList(t, y) <=> y # Head(s) /\ OnList(s, y)
    BY <1>1 DEF OnList, NoRepeat
<1> QED
    BY <1>3, <1>4 DEF NoRepeat, t

\* Those keeps the members of S, in their order: each comes from a place of the
\* list, no two from the same one.
Fill(list, S, g, m) == [k \in 0 .. m |->
        IF k = 0 THEN <<>>
        ELSE IF list[k] \in S THEN Append(g[k - 1], list[k]) ELSE g[k - 1]]

LEMMA ThoseIs ==
    ASSUME NEW T, NEW s \in Seq(T), NEW S
    PROVE  \E f : f = Fill(s, S, f, Len(s)) /\ Those(s, S) = f[Len(s)]
<1> DEFINE n == Len(s)
           f == CHOOSE g : g = Fill(s, S, g, n)
<1>1. Those(s, S) = f[n]
    BY DEF Those, Fill
<1>2. n \in Nat
    OBVIOUS
<1> HIDE DEF n
<1> DEFINE U == {m \in 0 .. n : \E g : g = Fill(s, S, g, m)}
<1>3. \A m \in 0 .. n : m \in U
  <2>1. 0 \in U
    <3> DEFINE h == [k \in 0 .. 0 |-> <<>>]
    <3>1. h = Fill(s, S, h, 0)
      BY DEF Fill
    <3>2. 0 \in 0 .. n
      BY <1>2
    <3> HIDE DEF h
    <3> QED
      BY <3>1, <3>2
  <2>2. ASSUME NEW m \in 1 .. n, m - 1 \in U PROVE m \in U
    <3>1. m \in Nat /\ m - 1 \in Nat /\ m \in 0 .. n
      BY <1>2
    <3>2. PICK g : g = Fill(s, S, g, m - 1)
      BY <2>2
    <3> DEFINE h == [k \in 0 .. m |-> IF k = m
                      THEN IF s[m] \in S THEN Append(g[m - 1], s[m]) ELSE g[m - 1]
                      ELSE g[k]]
    <3>3. \A k \in 0 .. m - 1 : h[k] = g[k]
      BY <3>1
    <3>4. ASSUME NEW k \in 0 .. m
          PROVE  h[k] = IF k = 0 THEN <<>>
                        ELSE IF s[k] \in S THEN Append(h[k - 1], s[k]) ELSE h[k - 1]
      <4>1. CASE k = m
        <5>1. m # 0 /\ m - 1 \in 0 .. m - 1
          BY <3>1
        <5>2. h[m - 1] = g[m - 1]
          BY <3>3, <5>1
        <5> QED
          BY <4>1, <5>1, <5>2
      <4>2. CASE k # m
        <5>1. k \in 0 .. m - 1 /\ (k # 0 => k - 1 \in 0 .. m - 1)
          BY <3>1, <4>2
        <5>2. h[k] = g[k] /\ (k # 0 => h[k - 1] = g[k - 1])
          BY <3>3, <5>1
        <5>3. g[k] = IF k = 0 THEN <<>>
                     ELSE IF s[k] \in S THEN Append(g[k - 1], s[k]) ELSE g[k - 1]
          BY <3>2, <5>1 DEF Fill
        <5> HIDE DEF h
        <5> QED
          BY <5>2, <5>3
      <4> QED
        BY <4>1, <4>2
    <3>5. h = Fill(s, S, h, m)
      <4>1. h = [k \in 0 .. m |-> h[k]]
        OBVIOUS
      <4> HIDE DEF h
      <4> QED
        BY <3>4, <4>1 DEF Fill
    <3> HIDE DEF h
    <3> QED
      BY <3>1, <3>5
  <2> HIDE DEF U
  <2> QED
    BY <1>2, <2>1, <2>2, Reaches
<1>4. f = Fill(s, S, f, n)
  <2>1. n \in 0 .. n
    BY <1>2
  <2>2. \E g : g = Fill(s, S, g, n)
    BY <1>3, <2>1
  <2> QED
    BY <2>2
<1> HIDE DEF f
<1> QED
    BY <1>1, <1>4 DEF n

LEMMA ThoseKeeps ==
    ASSUME NEW T, NEW s \in Seq(T), NEW S, NoRepeat(s)
    PROVE  /\ Those(s, S) \in Seq(T) /\ NoRepeat(Those(s, S))
           /\ \A y : OnList(Those(s, S), y) => y \in S /\ OnList(s, y)
<1> DEFINE n == Len(s)
<1>1. PICK f : f = Fill(s, S, f, n) /\ Those(s, S) = f[n]
    BY ThoseIs
<1>2. n \in Nat /\ DOMAIN s = 1 .. n /\ \A k \in 1 .. n : s[k] \in T
    OBVIOUS
<1> HIDE DEF n
<1>3. \A k \in 0 .. n : f[k] = IF k = 0 THEN <<>>
                               ELSE IF s[k] \in S THEN Append(f[k - 1], s[k]) ELSE f[k - 1]
    BY <1>1 DEF Fill
<1> DEFINE V == {m \in 0 .. n :
                    /\ f[m] \in Seq(T) /\ NoRepeat(f[m])
                    /\ \A y : OnList(f[m], y) => y \in S /\ \E j \in 1 .. m : y = s[j]}
<1>4. \A m \in 0 .. n : m \in V
  <2>1. 0 \in V
    <3>1. 0 \in 0 .. n
      BY <1>2
    <3>2. f[0] = <<>>
      BY <1>3, <3>1
    <3>3. <<>> \in Seq(T) /\ DOMAIN <<>> = {}
      OBVIOUS
    <3> QED
      BY <3>1, <3>2, <3>3 DEF NoRepeat, OnList
  <2>2. ASSUME NEW m \in 1 .. n, m - 1 \in V PROVE m \in V
    <3>1. /\ m \in 0 .. n /\ m # 0 /\ m \in 1 .. m /\ s[m] \in T
          /\ \A j \in 1 .. m - 1 : j \in 1 .. m /\ j \in 1 .. n /\ j # m
      BY <1>2
    <3>2. /\ f[m - 1] \in Seq(T) /\ NoRepeat(f[m - 1])
          /\ \A y : OnList(f[m - 1], y) => y \in S /\ \E j \in 1 .. m - 1 : y = s[j]
      BY <2>2
    <3>3. CASE s[m] \in S
      <4>1. f[m] = Append(f[m - 1], s[m])
        BY <1>3, <3>1, <3>3
      <4>2. ~OnList(f[m - 1], s[m])
        BY <1>2, <3>1, <3>2 DEF NoRepeat
      <4>3. /\ f[m] \in Seq(T) /\ NoRepeat(f[m])
            /\ \A y : OnList(f[m], y) <=> y = s[m] \/ OnList(f[m - 1], y)
        BY <3>1, <3>2, <4>1, <4>2, Appended
      <4> QED
        BY <3>1, <3>2, <3>3, <4>3
    <3>4. CASE s[m] \notin S
      <4>1. f[m] = f[m - 1]
        BY <1>3, <3>1, <3>4
      <4> QED
        BY <3>1, <3>2, <4>1
    <3> QED
      BY <3>3, <3>4
  <2> HIDE DEF V
  <2> QED
    BY <1>2, <2>1, <2>2, Reaches
<1>5. n \in 0 .. n
    BY <1>2
<1>6. n \in V
    BY <1>4, <1>5
<1> QED
    BY <1>1, <1>2, <1>6 DEF OnList

\* close takes a descriptor off a list, if it is there.
LEMMA TakenOff ==
    ASSUME NEW T, NEW s \in Seq(T), NoRepeat(s), NEW e
    PROVE  LET t == RemoveFirst(s, e)
           IN  /\ t \in Seq(T) /\ NoRepeat(t)
               /\ \A y : OnList(t, y) <=> y # e /\ OnList(s, y)
<1> DEFINE n == Len(s)
           t == RemoveFirst(s, e)
<1>1. n \in Nat /\ DOMAIN s = 1 .. n
    OBVIOUS
<1>2. CASE ~OnList(s, e)
  <2>1. t = s
    BY <1>1, <1>2 DEF RemoveFirst, OnList
  <2> QED
    BY <1>2, <2>1
<1>3. CASE OnList(s, e)
  <2>1. PICK p \in 1 .. n : s[p] = e
    BY <1>1, <1>3 DEF OnList
  <2>2. t = RemoveAt(s, p)
    <3>1. {i \in 1 .. n : s[i] = e} = {p}
      BY <1>1, <2>1 DEF NoRepeat
    <3>2. SelectInSeq(s, LAMBDA v : v = e) = p
      <4>1. SelectInSeq(s, LAMBDA v : v = e)
              = IF {i \in 1 .. n : s[i] = e} # {} THEN Min({i \in 1 .. n : s[i] = e}) ELSE 0
        BY DEF SelectInSeq
      <4>2. Min({p}) = p
        BY <2>1 DEF Min
      <4> QED
        BY <3>1, <4>1, <4>2
    <3> QED
      BY <2>1, <3>2 DEF RemoveFirst
  <2> DEFINE a == SubSeq(s, 1, p - 1)
             b == SubSeq(s, p + 1, n)
  <2>3. t = a \o b
    BY <2>2 DEF RemoveAt
  <2>4. /\ a \in Seq(T) /\ Len(a) = p - 1 /\ \A i \in 1 .. p - 1 : a[i] = s[i]
    BY <1>1, <2>1
  <2>5. /\ b \in Seq(T) /\ Len(b) = n - p /\ \A i \in 1 .. n - p : b[i] = s[i + p]
    <3>1. p + 1 \in Int /\ n \in Int /\ (p + 1 <= n => n - (p + 1) + 1 = n - p)
          /\ (~(p + 1 <= n) => n - p = 0)
      <4>1. n \in Nat
        BY <1>1
      <4> HIDE DEF n
      <4> QED
        BY <4>1
    <3>2. \A i \in p + 1 .. n : s[i] \in T
      BY <1>1
    <3>3. /\ b \in Seq(T) /\ Len(b) = IF p + 1 <= n THEN n - (p + 1) + 1 ELSE 0
          /\ \A i \in 1 .. n - (p + 1) + 1 : b[i] = s[(p + 1) + i - 1]
      BY <3>1, <3>2, SubSeqProperties
    <3>4. n - (p + 1) + 1 = n - p /\ \A i \in 1 .. n - p : (p + 1) + i - 1 = i + p
      BY <1>1
    <3> HIDE DEF b
    <3> QED
      BY <3>1, <3>3, <3>4
  <2> HIDE DEF n, t, a, b
  <2>6. /\ t \in Seq(T) /\ DOMAIN t = 1 .. n - 1
        /\ \A i \in 1 .. n - 1 : t[i] = IF i < p THEN s[i] ELSE s[i + 1]
    <3>1. /\ a \o b \in Seq(T) /\ Len(a \o b) = Len(a) + Len(b)
          /\ \A i \in 1 .. Len(a) + Len(b) :
                (a \o b)[i] = IF i <= Len(a) THEN a[i] ELSE b[i - Len(a)]
      BY <2>4, <2>5, ConcatProperties
    <3>2. Len(a) + Len(b) = n - 1
      BY <1>1, <2>1, <2>4, <2>5
    <3>3. DOMAIN t = 1 .. n - 1
      BY <2>3, <3>1, <3>2
    <3>4. ASSUME NEW i \in 1 .. n - 1 PROVE t[i] = IF i < p THEN s[i] ELSE s[i + 1]
      <4>1. t[i] = IF i <= p - 1 THEN a[i] ELSE b[i - (p - 1)]
        BY <2>3, <2>4, <3>1, <3>2
      <4>2. CASE i < p
        <5>1. i <= p - 1 /\ i \in 1 .. p - 1
          BY <1>1, <4>2
        <5> QED
          BY <2>4, <4>1, <4>2, <5>1
      <4>3. CASE ~(i < p)
        <5>1. ~(i <= p - 1) /\ i - (p - 1) \in 1 .. n - p /\ (i - (p - 1)) + p = i + 1
          BY <1>1, <4>3
        <5> QED
          BY <2>5, <4>1, <4>3, <5>1
      <4> QED
        BY <4>2, <4>3
    <3> QED
      BY <2>3, <3>1, <3>3, <3>4
  <2> DEFINE at(i) == IF i < p THEN i ELSE i + 1
  <2>7. \A i \in 1 .. n - 1 : at(i) \in 1 .. n /\ at(i) # p /\ t[i] = s[at(i)]
    BY <1>1, <2>6
  <2>8. \A i, j \in 1 .. n - 1 : at(i) = at(j) => i = j
    BY <1>1
  <2>9. ASSUME NEW j \in 1 .. n, j # p PROVE \E i \in 1 .. n - 1 : at(i) = j
    <3>1. CASE j < p
      <4>1. j \in 1 .. n - 1 /\ at(j) = j
        BY <1>1, <3>1
      <4> QED
        BY <4>1
    <3>2. CASE j > p
      <4>1. j - 1 \in 1 .. n - 1 /\ ~(j - 1 < p) /\ (j - 1) + 1 = j
        BY <1>1, <3>2
      <4> QED
        BY <4>1
    <3> QED
      BY <2>9, <3>1, <3>2
  <2> HIDE DEF at
  <2>10. NoRepeat(t)
    BY <1>1, <2>6, <2>7, <2>8 DEF NoRepeat
  <2>11. ASSUME NEW y PROVE OnList(t, y) <=> y # e /\ OnList(s, y)
    <3>1. ASSUME NEW i \in 1 .. n - 1, t[i] = y PROVE y # e /\ OnList(s, y)
      BY <1>1, <2>1, <2>7, <3>1 DEF OnList, NoRepeat
    <3>2. ASSUME NEW j \in 1 .. n, s[j] = y, y # e PROVE \E i \in 1 .. n - 1 : t[i] = y
      <4>1. PICK i \in 1 .. n - 1 : at(i) = j
        BY <2>1, <2>9, <3>2
      <4> QED
        BY <2>7, <3>2, <4>1
    <3> QED
      BY <1>1, <2>6, <3>1, <3>2 DEF OnList
  <2> QED
    BY <2>6, <2>10, <2>11 DEF t
<1> QED
    BY <1>2, <1>3 DEF t

\* Two parts of a list in the other order.
LEMMA Rotated ==
    ASSUME NEW T, NEW s \in Seq(T), NoRepeat(s), NEW n \in 0 .. Len(s)
    PROVE  LET t == SubSeq(s, n + 1, Len(s)) \o SubSeq(s, 1, n)
           IN  t \in Seq(T) /\ NoRepeat(t) /\ \A y : OnList(t, y) => OnList(s, y)
<1> DEFINE m == Len(s)
           a == SubSeq(s, n + 1, m)
           b == SubSeq(s, 1, n)
           t == a \o b
<1>1. m \in Nat /\ DOMAIN s = 1 .. m
    OBVIOUS
<1>2. b \in Seq(T) /\ Len(b) = n /\ \A i \in 1 .. n : b[i] = s[i]
    BY <1>1
<1>3. a \in Seq(T) /\ Len(a) = m - n /\ \A i \in 1 .. m - n : a[i] = s[i + n]
  <2>1. n + 1 \in Int /\ m \in Int /\ (n + 1 <= m => m - (n + 1) + 1 = m - n)
        /\ (~(n + 1 <= m) => m - n = 0)
    <3>1. m \in Nat /\ n \in 0 .. m
      BY <1>1
    <3> HIDE DEF m
    <3> QED
      BY <3>1
  <2>2. \A i \in n + 1 .. m : s[i] \in T
    BY <1>1
  <2>3. /\ a \in Seq(T) /\ Len(a) = IF n + 1 <= m THEN m - (n + 1) + 1 ELSE 0
        /\ \A i \in 1 .. m - (n + 1) + 1 : a[i] = s[(n + 1) + i - 1]
    BY <2>1, <2>2, SubSeqProperties
  <2>4. m - (n + 1) + 1 = m - n /\ \A i \in 1 .. m - n : (n + 1) + i - 1 = i + n
    BY <1>1
  <2> HIDE DEF a
  <2> QED
    BY <2>1, <2>3, <2>4
<1> HIDE DEF m, a, b
<1>4. /\ t \in Seq(T) /\ Len(t) = Len(a) + Len(b)
      /\ \A i \in 1 .. Len(a) + Len(b) : t[i] = IF i <= Len(a) THEN a[i] ELSE b[i - Len(a)]
    BY <1>2, <1>3, ConcatProperties
<1> HIDE DEF t
<1> DEFINE at(i) == IF i <= m - n THEN i + n ELSE i - (m - n)
<1>5. DOMAIN t = 1 .. m
  <2>1. Len(a) + Len(b) = m
    BY <1>1, <1>2, <1>3
  <2> QED
    BY <1>4, <2>1
<1>6. ASSUME NEW i \in 1 .. m PROVE at(i) \in 1 .. m /\ t[i] = s[at(i)]
  <2>1. t[i] = IF i <= m - n THEN a[i] ELSE b[i - (m - n)]
    <3>1. Len(a) + Len(b) = m /\ Len(a) = m - n
      BY <1>1, <1>2, <1>3
    <3> QED
      BY <1>4, <3>1
  <2>2. CASE i <= m - n
    <3>1. i \in 1 .. m - n /\ i + n \in 1 .. m
      BY <1>1, <2>2
    <3> QED
      BY <1>3, <2>1, <2>2, <3>1
  <2>3. CASE ~(i <= m - n)
    <3>1. i - (m - n) \in 1 .. n /\ i - (m - n) \in 1 .. m
      BY <1>1, <2>3
    <3> QED
      BY <1>2, <2>1, <2>3, <3>1
  <2> QED
    BY <2>2, <2>3
<1>7. \A i, j \in 1 .. m : at(i) = at(j) => i = j
    BY <1>1
<1> HIDE DEF at
<1>8. NoRepeat(t)
    BY <1>1, <1>5, <1>6, <1>7 DEF NoRepeat
<1>9. \A y : OnList(t, y) => OnList(s, y)
    BY <1>1, <1>5, <1>6 DEF OnList
<1> QED
    BY <1>4, <1>8, <1>9 DEF t, a, b, m

\* A descriptor that becomes ready goes to the end, if it is not there yet.
LEMMA WokenIs ==
    ASSUME NEW T, ready \in Seq(T), NoRepeat(ready), NEW X \in SUBSET T,
           \A x, y \in X : x = y
    PROVE  /\ Woken(X) \in Seq(T) /\ NoRepeat(Woken(X))
           /\ \A y : OnList(Woken(X), y) => OnList(ready, y) \/ y \in X
<1> DEFINE S == {fd \in X : ~Contains(ready, fd)}
<1>1. Woken(X) = ready \o SetToSeq(S)
    BY DEF Woken
<1>2. \A fd : Contains(ready, fd) <=> OnList(ready, fd)
    BY DEF Contains, OnList
<1>3. CASE S = {}
  <2>1. Cardinality(S) = 0
    BY <1>3, FS_EmptySet
  <2> HIDE DEF S
  <2>2. SetToSeq(S) = <<>>
    <3>1. [1 .. 0 -> {}] = {<<>>}
      <4>1. ASSUME NEW f \in [1 .. 0 -> {}] PROVE f = <<>>
        <5>1. f \in Seq({}) /\ Len(f) = 0
          BY SeqDef
        <5> QED
          BY <5>1, EmptySeq
      <4>2. <<>> \in [1 .. 0 -> {}]
        OBVIOUS
      <4> QED
        BY <4>1, <4>2
    <3>2. IsInjective(<<>>)
      BY DEF IsInjective
    <3>3. SetToSeq(S) = CHOOSE f \in [1 .. 0 -> {}] : IsInjective(f)
      BY <1>3, <2>1 DEF SetToSeq
    <3> QED
      BY <3>1, <3>2, <3>3
  <2>3. Woken(X) = ready
    BY <1>1, <2>2
  <2> QED
    BY <2>3
<1>4. CASE S # {}
  <2>1. PICK x : x \in S
    BY <1>4
  <2>2. S = {x} /\ X = {x} /\ x \in T
    <3>1. x \in X
      BY <2>1
    <3>2. X = {x}
      BY <3>1
    <3>3. S \subseteq X
      OBVIOUS
    <3>4. x \in S
      BY <2>1
    <3> HIDE DEF S
    <3> QED
      BY <3>1, <3>2, <3>3, <3>4
  <2>3. ~OnList(ready, x)
    BY <1>2, <2>1
  <2> HIDE DEF S
  <2>4. Cardinality(S) = 1
    BY <2>2, FS_Singleton
  <2>5. SetToSeq(S) = <<x>>
    <3>1. [1 .. 1 -> {x}] = {<<x>>}
      <4>1. ASSUME NEW f \in [1 .. 1 -> {x}] PROVE f = <<x>>
        OBVIOUS
      <4>2. <<x>> \in [1 .. 1 -> {x}]
        OBVIOUS
      <4> QED
        BY <4>1, <4>2
    <3>2. IsInjective(<<x>>)
      BY DEF IsInjective
    <3>3. SetToSeq(S) = CHOOSE f \in [1 .. 1 -> {x}] : IsInjective(f)
      BY <2>2, <2>4 DEF SetToSeq
    <3> QED
      BY <3>1, <3>2, <3>3
  <2>6. ready \o <<x>> = Append(ready, x)
    BY <2>2, AppendIsConcat
  <2>7. Woken(X) = Append(ready, x)
    BY <1>1, <2>5, <2>6
  <2>8. /\ Append(ready, x) \in Seq(T) /\ NoRepeat(Append(ready, x))
        /\ \A y : OnList(Append(ready, x), y) <=> y = x \/ OnList(ready, y)
    BY <2>2, <2>3, Appended
  <2> QED
    BY <2>2, <2>7, <2>8
<1> QED
    BY <1>3, <1>4

-----------------------------------------------------------------------------
\* The inductive invariant: the kernel's lists hold nothing twice, and the ready
\* list no descriptor that epoll does not watch.
Event == [fd : Fds \cup {server_fd}, of : Clients \cup {NoClient}]

ListsOnce ==
    /\ NoRepeat(queue) /\ NoRepeat(ready)
    /\ \A fd : OnList(ready, fd) => fd \in watched \cup {server_fd}

Inv == TypeOK /\ ListsOnce /\ DescriptorsAgree /\ EventsAreCurrent

LEMMA ContainsIs == \A s, x : Contains(s, x) <=> OnList(s, x)
    BY DEF Contains, OnList

\* DescriptorsAgree, with the queue read as a list.
Agreement ==
    /\ watched = Open
    /\ \A f, g \in Open : owner[f] = owner[g] => f = g
    /\ \A c \in Clients :
          IF peer[c] = "none"
          THEN ~OnList(queue, c) /\ \A fd \in Open : owner[fd] # c
          ELSE OnList(queue, c) <=> \A fd \in Open : owner[fd] # c

LEMMA AgreeIs == DescriptorsAgree <=> Agreement
    BY ContainsIs DEF DescriptorsAgree, Agreement

\* read of fd finds something behind the step.
ReadyLater(fd) ==
    fd \in watched' /\ (owner'[fd] \in unread' \/ peer'[owner'[fd]] \in {"fin", "rst"})

\* What each pending event needs of the state behind the step: the events after
\* the first one, and the first one too unless it has been handled.
Survive ==
    \A k \in DOMAIN events :
        (k # 1 \/ events' = events) /\ events[k].fd # server_fd =>
            LET fd == events[k].fd IN
            owner'[fd] = owner[fd] /\ ReadyLater(fd)

LEMMA EventsStay ==
    ASSUME TypeOK, EventsAreCurrent, Survive,
           events' = events \/ (events # <<>> /\ events' = Tail(events))
    PROVE  events' \in Seq(Event) /\ Len(events') <= MAX_EVENTS /\ EventsAreCurrent'
<1>1. events \in Seq(Event) /\ Len(events) <= MAX_EVENTS
    BY DEF TypeOK, Event
<1>3. CASE events' = events
  <2>1. ASSUME NEW k \in DOMAIN events, events[k].fd # server_fd
        PROVE  LET fd == events[k].fd
               IN  owner'[fd] = owner[fd] /\ ReadyLater(fd)
    BY <1>3, <2>1 DEF Survive
  <2>2. EventsAreCurrent'
    BY <1>3, <2>1 DEF EventsAreCurrent, IsReady, ReadyLater
  <2> QED
    BY <1>1, <1>3, <2>2
<1>4. CASE events # <<>> /\ events' = Tail(events)
  <2>1. /\ Tail(events) \in Seq(Event) /\ Len(Tail(events)) = Len(events) - 1
        /\ \A i \in DOMAIN Tail(events) :
              i + 1 \in DOMAIN events /\ i + 1 # 1 /\ Tail(events)[i] = events[i + 1]
    BY <1>1, <1>4, TailKeeps
  <2>2. DOMAIN Tail(events) \subseteq Nat
    BY <2>1
  <2>3. ASSUME NEW k \in DOMAIN Tail(events), Tail(events)[k].fd # server_fd
        PROVE  LET e == Tail(events)[k]
               IN  /\ owner'[e.fd] = e.of /\ ReadyLater(e.fd)
                   /\ \A j \in DOMAIN Tail(events) : Tail(events)[j].fd = e.fd => j = k
    <3>1. /\ k + 1 \in DOMAIN events /\ k + 1 # 1 /\ events[k + 1].fd # server_fd
          /\ Tail(events)[k] = events[k + 1]
      BY <2>1, <2>3
    <3>2. /\ owner'[events[k + 1].fd] = owner[events[k + 1].fd]
          /\ ReadyLater(events[k + 1].fd)
      BY <3>1 DEF Survive
    <3>3. owner[events[k + 1].fd] = events[k + 1].of
      BY <3>1 DEF EventsAreCurrent
    <3>4. ASSUME NEW j \in DOMAIN Tail(events), Tail(events)[j].fd = events[k + 1].fd
          PROVE  j = k
      <4>1. j + 1 \in DOMAIN events /\ events[j + 1].fd = events[k + 1].fd
        BY <2>1, <3>4
      <4>2. j + 1 = k + 1
        BY <3>1, <4>1 DEF EventsAreCurrent
      <4> QED
        BY <2>2, <4>2
    <3> QED
      BY <2>1, <3>1, <3>2, <3>3, <3>4
  <2>4. EventsAreCurrent'
    BY <1>4, <2>3 DEF EventsAreCurrent, IsReady, ReadyLater
  <2>5. Len(events) - 1 <= MAX_EVENTS
    <3>1. Len(events) \in Nat
      BY <1>1
    <3> QED
      BY <1>1, <3>1, LimitsAssumption
  <2> QED
    BY <1>4, <2>1, <2>4, <2>5
<1> QED
    BY <1>3, <1>4

-----------------------------------------------------------------------------
LEMMA InitInv == Init => Inv
<1> SUFFICES ASSUME Init PROVE Inv
    OBVIOUS
<1>1. DOMAIN <<>> = {} /\ Len(<<>>) = 0 /\ \A T : <<>> \in Seq(T)
    OBVIOUS
<1>2. queue = <<>> /\ ready = <<>> /\ events = <<>> /\ Open = {}
    BY DEF Init, Open
<1>3. TypeOK
  <2>1. /\ queue \in Seq(Clients) /\ Len(queue) <= Backlog
        /\ ready \in Seq(Fds \cup {server_fd})
        /\ events \in Seq(Event) /\ Len(events) <= MAX_EVENTS
    BY <1>1, <1>2, LimitsAssumption
  <2> QED
    BY <2>1 DEF Init, TypeOK, Event
<1>4. ListsOnce
    BY <1>1, <1>2 DEF ListsOnce, NoRepeat, OnList
<1>5. ~OnList(queue, NoClient) /\ \A c : ~OnList(queue, c)
    BY <1>1, <1>2 DEF OnList
<1>6. DescriptorsAgree
    BY <1>2, <1>5, AgreeIs DEF Init, Agreement
<1>7. EventsAreCurrent
    BY <1>1, <1>2 DEF EventsAreCurrent
<1> QED
    BY <1>3, <1>4, <1>6, <1>7 DEF Inv

-----------------------------------------------------------------------------
\* The clients' steps.
ClientFrame == UNCHANGED <<program, events, dead>>

LEMMA FdsOfOne ==
    ASSUME Inv, NEW c \in Clients
    PROVE  FdsOf(c) \in SUBSET (Fds \cup {server_fd}) /\ FdsOf(c) \subseteq watched
           /\ \A x, y \in FdsOf(c) : x = y
    BY AgreeIs DEF Inv, TypeOK, FdsOf, Agreement

\* The ready list behind a step that wakes some descriptors.
LEMMA WakeKeeps ==
    ASSUME Inv, NEW X, X \subseteq watched \cup {server_fd}, \A x, y \in X : x = y,
           ready' = Woken(X), watched' = watched
    PROVE  /\ ready' \in Seq(Fds \cup {server_fd}) /\ NoRepeat(ready')
           /\ \A fd : OnList(ready', fd) => fd \in watched' \cup {server_fd}
<1>1. ready \in Seq(Fds \cup {server_fd}) /\ NoRepeat(ready) /\ X \in SUBSET (Fds \cup {server_fd})
    BY DEF Inv, TypeOK, ListsOnce
<1>2. /\ Woken(X) \in Seq(Fds \cup {server_fd}) /\ NoRepeat(Woken(X))
      /\ \A y : OnList(Woken(X), y) => OnList(ready, y) \/ y \in X
    BY <1>1, WokenIs
<1> QED
    BY <1>2 DEF Inv, ListsOnce

LEMMA ConnectInv ==
    ASSUME Inv, NEW c \in Clients, Connect(c), ClientFrame
    PROVE  Inv'
<1>1. /\ peer[c] = "none" /\ Len(queue) < Backlog
      /\ peer' = [peer EXCEPT ![c] = "open"] /\ queue' = Append(queue, c)
      /\ ready' = Woken({server_fd})
      /\ unread' = unread /\ owner' = owner /\ watched' = watched
      /\ program' = program /\ events' = events /\ dead' = dead
    BY DEF Connect, ClientFrame
<1>2. /\ ready' \in Seq(Fds \cup {server_fd}) /\ NoRepeat(ready')
      /\ \A fd : OnList(ready', fd) => fd \in watched' \cup {server_fd}
    BY <1>1, WakeKeeps
<1>3. ~OnList(queue, c) /\ \A fd \in Open : owner[fd] # c
    BY <1>1, AgreeIs DEF Inv, Agreement
<1>4. queue \in Seq(Clients) /\ NoRepeat(queue)
    BY DEF Inv, TypeOK, ListsOnce
<1>5. /\ queue' \in Seq(Clients) /\ Len(queue') = Len(queue) + 1 /\ NoRepeat(queue')
      /\ \A y : OnList(queue', y) <=> y = c \/ OnList(queue, y)
  <2>1. /\ Append(queue, c) \in Seq(Clients) /\ Len(Append(queue, c)) = Len(queue) + 1
        /\ NoRepeat(Append(queue, c))
        /\ \A y : OnList(Append(queue, c), y) <=> y = c \/ OnList(queue, y)
    BY <1>3, <1>4, Appended
  <2> QED
    BY <1>1, <2>1
<1>6. Len(queue') <= Backlog
  <2>1. Len(queue) \in Nat
    BY <1>4
  <2> QED
    BY <1>1, <1>5, <2>1, LimitsAssumption
<1>7. peer \in [Clients -> {"none", "open", "fin", "rst"}]
    BY DEF Inv, TypeOK
<1>8. Open' = Open
    BY <1>1 DEF Open
<1>9. Survive
    BY <1>1, <1>7, <1>3 DEF Inv, EventsAreCurrent, Survive, IsReady, ReadyLater, TypeOK
<1>10. events' \in Seq(Event) /\ Len(events') <= MAX_EVENTS /\ EventsAreCurrent'
    BY <1>1, <1>9, EventsStay DEF Inv
<1>11. TypeOK'
    BY <1>1, <1>2, <1>5, <1>6, <1>7, <1>10 DEF Inv, TypeOK, Event
<1>12. DescriptorsAgree'
  <2>1. ASSUME NEW d \in Clients
        PROVE  IF peer'[d] = "none"
               THEN ~OnList(queue', d) /\ \A fd \in Open' : owner'[fd] # d
               ELSE OnList(queue', d) <=> \A fd \in Open' : owner'[fd] # d
    <3>1. CASE d = c
      BY <1>1, <1>3, <1>5, <1>7, <1>8, <3>1
    <3>2. CASE d # c
      <4>1. peer'[d] = peer[d] /\ (OnList(queue', d) <=> OnList(queue, d))
        BY <1>1, <1>5, <1>7, <3>2
      <4> QED
        BY <1>1, <1>8, <4>1, AgreeIs DEF Inv, Agreement
    <3> QED
      BY <3>1, <3>2
  <2>2. watched' = Open' /\ \A f, g \in Open' : owner'[f] = owner'[g] => f = g
    BY <1>1, <1>8, AgreeIs DEF Inv, Agreement
  <2>3. DescriptorsAgree' <=> Agreement'
    BY AgreeIs, PTL
  <2> QED
    BY <2>1, <2>2, <2>3 DEF Agreement
<1> QED
    BY <1>2, <1>5, <1>10, <1>11, <1>12 DEF Inv, ListsOnce

\* Steps that move no connection between the queue and the descriptors.
LEMMA AgreeStays ==
    ASSUME DescriptorsAgree, queue' = queue, owner' = owner, watched' = watched,
           \A c \in Clients : peer'[c] = "none" <=> peer[c] = "none"
    PROVE  DescriptorsAgree'
<1>1. Open' = Open
    BY DEF Open
<1>2. Agreement
    BY AgreeIs
<1>3. Agreement'
    BY <1>1, <1>2 DEF Agreement
<1>4. DescriptorsAgree' <=> Agreement'
    BY AgreeIs, PTL
<1> QED
    BY <1>3, <1>4

LEMMA SendInv ==
    ASSUME Inv, NEW c \in Clients, Send(c), ClientFrame
    PROVE  Inv'
<1>1. /\ unread' = unread \cup {c} /\ ready' = Woken(FdsOf(c))
      /\ peer' = peer /\ queue' = queue /\ owner' = owner /\ watched' = watched
      /\ program' = program /\ events' = events /\ dead' = dead
    BY DEF Send, ClientFrame
<1>2. /\ ready' \in Seq(Fds \cup {server_fd}) /\ NoRepeat(ready')
      /\ \A fd : OnList(ready', fd) => fd \in watched' \cup {server_fd}
  <2>1. FdsOf(c) \subseteq watched \cup {server_fd} /\ \A x, y \in FdsOf(c) : x = y
    BY FdsOfOne
  <2> QED
    BY <1>1, <2>1, WakeKeeps
<1>3. DescriptorsAgree'
    BY <1>1, AgreeStays DEF Inv
<1>4. Survive
    BY <1>1 DEF Inv, EventsAreCurrent, Survive, IsReady, ReadyLater
<1>5. events' \in Seq(Event) /\ Len(events') <= MAX_EVENTS /\ EventsAreCurrent'
    BY <1>1, <1>4, EventsStay DEF Inv
<1>6. TypeOK'
    BY <1>1, <1>2, <1>5 DEF Inv, TypeOK, Event
<1> QED
    BY <1>1, <1>2, <1>3, <1>5, <1>6 DEF Inv, ListsOnce

LEMMA LeaveInv ==
    ASSUME Inv, NEW c \in Clients, Leave(c), ClientFrame
    PROVE  Inv'
<1>1. /\ \/ peer[c] = "open" /\ peer' = [peer EXCEPT ![c] = "fin"]
         \/ peer[c] \in {"open", "fin"} /\ peer' = [peer EXCEPT ![c] = "rst"]
      /\ ready' = Woken(FdsOf(c))
      /\ unread' = unread /\ queue' = queue /\ owner' = owner /\ watched' = watched
      /\ program' = program /\ events' = events /\ dead' = dead
    BY DEF Leave, ClientFrame
<1>2. /\ ready' \in Seq(Fds \cup {server_fd}) /\ NoRepeat(ready')
      /\ \A fd : OnList(ready', fd) => fd \in watched' \cup {server_fd}
  <2>1. FdsOf(c) \subseteq watched \cup {server_fd} /\ \A x, y \in FdsOf(c) : x = y
    BY FdsOfOne
  <2> QED
    BY <1>1, <2>1, WakeKeeps
<1>3. peer \in [Clients -> {"none", "open", "fin", "rst"}]
    BY DEF Inv, TypeOK
<1>4. /\ peer' \in [Clients -> {"none", "open", "fin", "rst"}]
      /\ \A d \in Clients : peer'[d] = "none" <=> peer[d] = "none"
      /\ \A d \in Clients : peer[d] \in {"fin", "rst"} => peer'[d] \in {"fin", "rst"}
    BY <1>1, <1>3
<1>5. DescriptorsAgree'
    BY <1>1, <1>4, AgreeStays DEF Inv
<1>6. Survive
  <2>1. ASSUME NEW fd \in watched PROVE owner[fd] \in Clients
    BY AgreeIs DEF Inv, Agreement, Open, TypeOK
  <2> QED
    BY <1>1, <1>4, <2>1 DEF Inv, EventsAreCurrent, Survive, IsReady, ReadyLater
<1>7. events' \in Seq(Event) /\ Len(events') <= MAX_EVENTS /\ EventsAreCurrent'
    BY <1>1, <1>6, EventsStay DEF Inv
<1>8. TypeOK'
    BY <1>1, <1>2, <1>4, <1>7 DEF Inv, TypeOK, Event
<1> QED
    BY <1>1, <1>2, <1>5, <1>7, <1>8 DEF Inv, ListsOnce

-----------------------------------------------------------------------------
\* The server's steps.
LEMMA WaitInv ==
    ASSUME Inv, epoll_wait, program' = program
    PROVE  Inv'
<1> DEFINE T == Fds \cup {server_fd}
           S == {fd \in watched \cup {server_fd} : IsReady(fd)}
           up == Those(ready, S)
           n == IF Len(up) < MAX_EVENTS THEN Len(up) ELSE MAX_EVENTS
<1>1. /\ events' = [k \in 1 .. n |->
             [fd |-> up[k], of |-> IF up[k] = server_fd THEN NoClient ELSE owner[up[k]]]]
      /\ ready' = SubSeq(up, n + 1, Len(up)) \o SubSeq(up, 1, n)
      /\ peer' = peer /\ unread' = unread /\ queue' = queue /\ owner' = owner
      /\ watched' = watched /\ dead' = dead /\ program' = program
    BY DEF epoll_wait, maxevents
<1>2. ready \in Seq(T) /\ NoRepeat(ready)
    BY DEF Inv, TypeOK, ListsOnce
<1>3. /\ up \in Seq(T) /\ NoRepeat(up)
      /\ \A y : OnList(up, y) => y \in S /\ OnList(ready, y)
    BY <1>2, ThoseKeeps
<1>4. /\ \A fd \in S : fd \in watched \cup {server_fd} /\ IsReady(fd)
      /\ S \subseteq T
    BY DEF Inv, TypeOK
<1> HIDE DEF up, S
<1>5. n \in 0 .. Len(up) /\ n <= MAX_EVENTS /\ n \in Nat /\ \A k \in 1 .. n : k \in DOMAIN up
  <2> DEFINE m == Len(up)
  <2>0. m \in Nat
    BY <1>3
  <2>1. DOMAIN up = 1 .. m
    BY <1>3
  <2> HIDE DEF m
  <2>2. (IF m < MAX_EVENTS THEN m ELSE MAX_EVENTS) \in 0 .. m
        /\ (IF m < MAX_EVENTS THEN m ELSE MAX_EVENTS) <= MAX_EVENTS
    BY <2>0, LimitsAssumption
  <2>3. \A j \in 0 .. m : j \in Nat /\ \A k \in 1 .. j : k \in 1 .. m
    BY <2>0
  <2> QED
    BY <2>1, <2>2, <2>3 DEF m
<1> HIDE DEF n
<1>6. /\ ready' \in Seq(T) /\ NoRepeat(ready')
      /\ \A fd : OnList(ready', fd) => fd \in watched' \cup {server_fd}
  <2> DEFINE t == SubSeq(up, n + 1, Len(up)) \o SubSeq(up, 1, n)
  <2>1. t \in Seq(T) /\ NoRepeat(t) /\ \A y : OnList(t, y) => OnList(up, y)
    BY <1>3, <1>5, Rotated
  <2>2. ready' = t
    BY <1>1
  <2> HIDE DEF t
  <2> QED
    BY <1>1, <1>3, <1>4, <2>1, <2>2
<1>7. ASSUME NEW k \in 1 .. n
      PROVE  /\ up[k] \in S /\ up[k] \in T
             /\ \A j \in 1 .. n : up[j] = up[k] => j = k
    BY <1>3, <1>4, <1>5 DEF NoRepeat, OnList
<1>8. owner \in [Fds -> Clients \cup {NoClient}]
    BY DEF Inv, TypeOK
<1>9. events' \in Seq(Event) /\ Len(events') <= MAX_EVENTS /\ DOMAIN events' = 1 .. n
  <2> DEFINE ev == [k \in 1 .. n |->
             [fd |-> up[k], of |-> IF up[k] = server_fd THEN NoClient ELSE owner[up[k]]]]
  <2>1. ev \in [1 .. n -> Event]
    BY <1>7, <1>8 DEF Event
  <2>2. ev \in Seq(Event) /\ Len(ev) = n
    BY <1>5, <2>1
  <2>3. events' = ev /\ DOMAIN ev = 1 .. n
    BY <1>1
  <2> HIDE DEF ev
  <2> QED
    BY <1>5, <2>2, <2>3
<1>10. EventsAreCurrent'
  <2>1. ASSUME NEW k \in 1 .. n
        PROVE  /\ events'[k].fd = up[k]
               /\ up[k] # server_fd => events'[k].of = owner[up[k]]
    BY <1>1
  <2>2. ASSUME NEW k \in 1 .. n, up[k] # server_fd
        PROVE  /\ up[k] \in watched' /\ owner'[up[k]] = owner[up[k]]
               /\ owner'[up[k]] \in unread' \/ peer'[owner'[up[k]]] \in {"fin", "rst"}
    BY <1>1, <1>4, <1>7, <2>2 DEF IsReady
  <2> QED
    BY <1>7, <1>9, <2>1, <2>2 DEF EventsAreCurrent, IsReady
<1>11. DescriptorsAgree'
    BY <1>1, AgreeStays DEF Inv
<1>12. TypeOK'
    BY <1>1, <1>6, <1>9 DEF Inv, TypeOK, Event
<1> QED
    BY <1>1, <1>6, <1>10, <1>11, <1>12 DEF Inv, ListsOnce

\* The first connection of the accept queue is taken off it.
LEMMA Queued ==
    ASSUME Inv, queue # <<>>
    PROVE  /\ Head(queue) \in Clients /\ OnList(queue, Head(queue))
           /\ peer[Head(queue)] # "none" /\ \A fd \in Open : owner[fd] # Head(queue)
           /\ Tail(queue) \in Seq(Clients) /\ Len(Tail(queue)) <= Backlog
           /\ NoRepeat(Tail(queue))
           /\ \A y : OnList(Tail(queue), y) <=> y # Head(queue) /\ OnList(queue, y)
<1>1. queue \in Seq(Clients) /\ Len(queue) <= Backlog /\ NoRepeat(queue)
    BY DEF Inv, TypeOK, ListsOnce
<1>2. /\ Tail(queue) \in Seq(Clients) /\ Len(Tail(queue)) = Len(queue) - 1
      /\ Head(queue) = queue[1] /\ 1 \in DOMAIN queue /\ Head(queue) \in Clients
    BY <1>1, TailKeeps
<1>3. /\ NoRepeat(Tail(queue))
      /\ \A y : OnList(Tail(queue), y) <=> y # Head(queue) /\ OnList(queue, y)
    BY <1>1, TailOnce
<1>4. OnList(queue, Head(queue))
    BY <1>2 DEF OnList
<1>5. Len(Tail(queue)) <= Backlog
  <2> DEFINE n == Len(queue)
  <2>1. n \in Nat /\ n <= Backlog
    BY <1>1
  <2>2. Len(Tail(queue)) = n - 1
    BY <1>2
  <2> HIDE DEF n
  <2>3. n - 1 <= Backlog
    BY <2>1, LimitsAssumption
  <2> QED
    BY <2>2, <2>3
<1>6. peer[Head(queue)] # "none" /\ \A fd \in Open : owner[fd] # Head(queue)
    BY <1>2, <1>4, AgreeIs DEF Inv, Agreement
<1> QED
    BY <1>2, <1>3, <1>4, <1>5, <1>6

LEMMA AfterAcceptIs ==
    ASSUME NEW fd, Accepted(fd)
    PROVE  /\ events # <<>> /\ queue # <<>> /\ queue' = Tail(queue) /\ dead' = dead
           /\ Current = server_fd /\ fd \in Fds \ Open
           /\ events' = events \/ events' = Tail(events)
    BY DEF Accepted, AfterAccept, Handled, NewFd

LEMMA AcceptInv ==
    ASSUME Inv, NEW fd \in Fds, Accepted(fd), Watched(fd), program' = program
    PROVE  Inv'
<1> DEFINE c == Head(queue)
<1>1. /\ events # <<>> /\ queue # <<>> /\ queue' = Tail(queue) /\ dead' = dead
      /\ fd \in Fds \ Open /\ (events' = events \/ events' = Tail(events))
    BY AfterAcceptIs
<1>2. /\ owner' = [owner EXCEPT ![fd] = c] /\ watched' = watched \cup {fd}
      /\ ready' = (IF c \in unread \/ peer[c] # "open" THEN Append(ready, fd) ELSE ready)
      /\ peer' = peer /\ unread' = unread
    BY DEF Watched
<1>3. /\ c \in Clients /\ OnList(queue, c) /\ peer[c] # "none"
      /\ \A f \in Open : owner[f] # c
      /\ queue' \in Seq(Clients) /\ Len(queue') <= Backlog /\ NoRepeat(queue')
      /\ \A y : OnList(queue', y) <=> y # c /\ OnList(queue, y)
    BY <1>1, Queued
<1> HIDE DEF c
<1>4. owner \in [Fds -> Clients \cup {NoClient}] /\ watched = Open
    BY AgreeIs DEF Inv, TypeOK, Agreement
<1>5. /\ owner' \in [Fds -> Clients \cup {NoClient}] /\ owner'[fd] = c
      /\ \A f \in Open : f # fd /\ owner'[f] = owner[f]
      /\ Open' = Open \cup {fd}
    BY <1>1, <1>2, <1>3, <1>4, ClientsAssumption DEF Open
<1>6. /\ ready' \in Seq(Fds \cup {server_fd}) /\ NoRepeat(ready')
      /\ \A f : OnList(ready', f) => f \in watched' \cup {server_fd}
  <2>1. /\ ready \in Seq(Fds \cup {server_fd}) /\ NoRepeat(ready)
        /\ \A f : OnList(ready, f) => f \in watched \cup {server_fd}
    BY DEF Inv, TypeOK, ListsOnce
  <2>2. ~OnList(ready, fd)
    BY <1>1, <1>4, <2>1, FdsAssumption
  <2>3. /\ Append(ready, fd) \in Seq(Fds \cup {server_fd}) /\ NoRepeat(Append(ready, fd))
        /\ \A y : OnList(Append(ready, fd), y) <=> y = fd \/ OnList(ready, y)
    BY <2>1, <2>2, Appended
  <2> QED
    BY <1>2, <2>1, <2>3
<1>7. Survive
    BY <1>2, <1>4, <1>5 DEF Inv, EventsAreCurrent, Survive, IsReady, ReadyLater
<1>8. events' \in Seq(Event) /\ Len(events') <= MAX_EVENTS /\ EventsAreCurrent'
    BY <1>1, <1>7, EventsStay DEF Inv
<1>9. DescriptorsAgree'
  <2>1. Agreement
    BY AgreeIs DEF Inv
  <2>2. watched' = Open'
    BY <1>2, <1>4, <1>5
  <2>3. \A f, g \in Open' : owner'[f] = owner'[g] => f = g
    BY <1>3, <1>5, <2>1 DEF Agreement
  <2>4. ASSUME NEW d \in Clients
        PROVE  IF peer'[d] = "none"
               THEN ~OnList(queue', d) /\ \A f \in Open' : owner'[f] # d
               ELSE OnList(queue', d) <=> \A f \in Open' : owner'[f] # d
    <3>1. CASE d = c
      <4>1. ~OnList(queue', d) /\ peer'[d] # "none" /\ fd \in Open' /\ owner'[fd] = d
        BY <1>2, <1>3, <1>5, <3>1
      <4> QED
        BY <4>1
    <3>2. CASE d # c
      <4>1. /\ OnList(queue', d) <=> OnList(queue, d)
            /\ (\A f \in Open' : owner'[f] # d) <=> (\A f \in Open : owner[f] # d)
        BY <1>3, <1>5, <3>2
      <4> QED
        BY <1>2, <2>1, <4>1 DEF Agreement
    <3> QED
      BY <3>1, <3>2
  <2>5. DescriptorsAgree' <=> Agreement'
    BY AgreeIs, PTL
  <2> QED
    BY <2>2, <2>3, <2>4, <2>5 DEF Agreement
<1>10. TypeOK'
    BY <1>1, <1>2, <1>3, <1>5, <1>6, <1>8 DEF Inv, TypeOK, Event
<1> QED
    BY <1>3, <1>6, <1>8, <1>9, <1>10 DEF Inv, ListsOnce

LEMMA RefusedInv ==
    ASSUME Inv, NEW fd \in Fds, Accepted(fd), Refused(fd), program' = program
    PROVE  Inv'
<1> DEFINE c == Head(queue)
<1>1. /\ events # <<>> /\ queue # <<>> /\ queue' = Tail(queue) /\ dead' = dead
      /\ (events' = events \/ events' = Tail(events))
    BY AfterAcceptIs
<1>2. /\ peer' = [peer EXCEPT ![c] = "none"] /\ unread' = unread \ {c}
      /\ owner' = owner /\ watched' = watched /\ ready' = ready
    BY DEF Refused
<1>3. /\ c \in Clients /\ OnList(queue, c) /\ peer[c] # "none"
      /\ \A f \in Open : owner[f] # c
      /\ queue' \in Seq(Clients) /\ Len(queue') <= Backlog /\ NoRepeat(queue')
      /\ \A y : OnList(queue', y) <=> y # c /\ OnList(queue, y)
    BY <1>1, Queued
<1> HIDE DEF c
<1>4. peer \in [Clients -> {"none", "open", "fin", "rst"}] /\ watched = Open /\ Open' = Open
    BY <1>2, AgreeIs DEF Inv, TypeOK, Agreement, Open
<1>5. /\ peer' \in [Clients -> {"none", "open", "fin", "rst"}] /\ peer'[c] = "none"
      /\ \A d \in Clients : d # c => peer'[d] = peer[d]
    BY <1>2, <1>3, <1>4
<1>6. Survive
  <2>1. ASSUME NEW f \in watched PROVE owner[f] \in Clients /\ owner[f] # c
    BY <1>3, <1>4 DEF Open, Inv, TypeOK
  <2> QED
    BY <1>2, <1>5, <2>1 DEF Inv, EventsAreCurrent, Survive, IsReady, ReadyLater
<1>7. events' \in Seq(Event) /\ Len(events') <= MAX_EVENTS /\ EventsAreCurrent'
    BY <1>1, <1>6, EventsStay DEF Inv
<1>8. DescriptorsAgree'
  <2>1. Agreement
    BY AgreeIs DEF Inv
  <2>2. ASSUME NEW d \in Clients
        PROVE  IF peer'[d] = "none"
               THEN ~OnList(queue', d) /\ \A f \in Open' : owner'[f] # d
               ELSE OnList(queue', d) <=> \A f \in Open' : owner'[f] # d
    <3>1. CASE d = c
      BY <1>2, <1>3, <1>4, <1>5, <3>1
    <3>2. CASE d # c
      BY <1>2, <1>3, <1>4, <1>5, <2>1, <3>2 DEF Agreement
    <3> QED
      BY <3>1, <3>2
  <2>3. DescriptorsAgree' <=> Agreement'
    BY AgreeIs, PTL
  <2> QED
    BY <1>2, <1>4, <2>1, <2>2, <2>3 DEF Agreement
<1>9. TypeOK'
    BY <1>1, <1>2, <1>3, <1>5, <1>7 DEF Inv, TypeOK, Event
<1> QED
    BY <1>2, <1>3, <1>7, <1>8, <1>9 DEF Inv, ListsOnce

LEMMA AcceptFailsInv ==
    ASSUME Inv, AcceptFails, program' = program
    PROVE  Inv'
<1>1. /\ events # <<>> /\ events' = Tail(events) /\ dead' = dead
      /\ peer' = peer /\ unread' = unread /\ queue' = queue /\ owner' = owner
      /\ watched' = watched /\ ready' = ready
    BY DEF AcceptFails, Handled, kernel
<1>2. Survive
    BY <1>1 DEF Inv, EventsAreCurrent, Survive, IsReady, ReadyLater
<1>3. events' \in Seq(Event) /\ Len(events') <= MAX_EVENTS /\ EventsAreCurrent'
    BY <1>1, <1>2, EventsStay DEF Inv
<1>4. DescriptorsAgree'
    BY <1>1, AgreeStays DEF Inv
<1>5. TypeOK'
    BY <1>1, <1>3 DEF Inv, TypeOK, Event
<1> QED
    BY <1>1, <1>3, <1>4, <1>5 DEF Inv, ListsOnce

\* A client's descriptor is closed while its event is handled: no other event of
\* the batch is about it or about its client.
LEMMA ClosedInv ==
    ASSUME Inv, events # <<>>, Current \in watched, Closed(Current), Handled,
           program' = program, dead' \in BOOLEAN
    PROVE  Inv'
<1> DEFINE fd == Current
           c == owner[fd]
<1>1. /\ events' = Tail(events) /\ owner' = [owner EXCEPT ![fd] = NoClient]
      /\ peer' = [peer EXCEPT ![c] = "none"] /\ unread' = unread \ {c}
      /\ watched' = watched \ {fd} /\ ready' = RemoveFirst(ready, fd) /\ queue' = queue
    BY DEF Closed, Handled
<1>2. fd = events[1].fd /\ 1 \in DOMAIN events
  <2>1. events \in Seq(Event)
    BY DEF Inv, TypeOK, Event
  <2> QED
    BY <2>1, TailKeeps DEF Current
<1>3. fd \in watched
    OBVIOUS
<1> HIDE DEF fd
<1>4. /\ peer \in [Clients -> {"none", "open", "fin", "rst"}]
      /\ owner \in [Fds -> Clients \cup {NoClient}]
      /\ watched = Open /\ watched \subseteq Fds
    BY AgreeIs DEF Inv, TypeOK, Agreement
<1>5. c \in Clients /\ fd \in Fds /\ \A f \in Open : owner[f] \in Clients /\ (f # fd => owner[f] # c)
  <2>1. Agreement
    BY AgreeIs DEF Inv
  <2> QED
    BY <1>3, <1>4, <2>1 DEF Agreement, Open
<1> HIDE DEF c
<1>6. /\ peer' \in [Clients -> {"none", "open", "fin", "rst"}] /\ peer'[c] = "none"
      /\ \A d \in Clients : d # c => peer'[d] = peer[d]
    BY <1>1, <1>4, <1>5
<1>7. /\ owner' \in [Fds -> Clients \cup {NoClient}]
      /\ \A f \in Fds : f # fd => owner'[f] = owner[f]
      /\ Open' = Open \ {fd}
    BY <1>1, <1>4, <1>5 DEF Open
<1>8. /\ ready' \in Seq(Fds \cup {server_fd}) /\ NoRepeat(ready')
      /\ \A f : OnList(ready', f) => f \in watched' \cup {server_fd}
  <2>1. /\ ready \in Seq(Fds \cup {server_fd}) /\ NoRepeat(ready)
        /\ \A f : OnList(ready, f) => f \in watched \cup {server_fd}
    BY DEF Inv, TypeOK, ListsOnce
  <2> DEFINE t == RemoveFirst(ready, fd)
  <2>2. /\ t \in Seq(Fds \cup {server_fd}) /\ NoRepeat(t)
        /\ \A y : OnList(t, y) <=> y # fd /\ OnList(ready, y)
    BY <2>1, TakenOff
  <2>3. ready' = t
    BY <1>1
  <2> HIDE DEF t
  <2> QED
    BY <1>1, <2>1, <2>2, <2>3
<1>9. Survive
  <2>1. events' # events
    <3> DEFINE n == Len(events)
    <3>1. events \in Seq(Event) /\ n \in Nat
      BY DEF Inv, TypeOK, Event
    <3>2. Len(Tail(events)) = n - 1
      BY <3>1, TailKeeps
    <3> HIDE DEF n
    <3>3. n - 1 # n
      BY <3>1
    <3> QED
      BY <1>1, <3>2, <3>3 DEF n
  <2>2. ASSUME NEW k \in DOMAIN events, k # 1, events[k].fd # server_fd
        PROVE  owner'[events[k].fd] = owner[events[k].fd] /\ ReadyLater(events[k].fd)
    <3> DEFINE f == events[k].fd
    <3>1. /\ f \in watched /\ f # fd
          /\ owner[f] \in unread \/ peer[owner[f]] \in {"fin", "rst"}
      BY <1>2, <2>2 DEF Inv, EventsAreCurrent, IsReady
    <3> HIDE DEF f
    <3>2. f \in Open /\ f \in Fds /\ owner[f] \in Clients /\ owner[f] # c
      BY <1>4, <1>5, <3>1
    <3>3. owner'[f] = owner[f] /\ ReadyLater(f)
      BY <1>1, <1>6, <1>7, <3>1, <3>2 DEF ReadyLater
    <3> QED
      BY <3>3 DEF f
  <2> QED
    BY <2>1, <2>2 DEF Survive
<1>10. events' \in Seq(Event) /\ Len(events') <= MAX_EVENTS /\ EventsAreCurrent'
    BY <1>1, <1>9, EventsStay DEF Inv
<1>11. DescriptorsAgree'
  <2>1. Agreement
    BY AgreeIs DEF Inv
  <2>2. watched' = Open' /\ \A f, g \in Open' : owner'[f] = owner'[g] => f = g
    BY <1>1, <1>4, <1>7, <2>1 DEF Agreement
  <2>3. fd \in Open /\ owner[fd] = c /\ Open \subseteq Fds
    BY <1>3, <1>4 DEF c
  <2>4. ~OnList(queue, c) /\ peer[c] # "none"
    BY <1>5, <2>1, <2>3 DEF Agreement
  <2>5. ASSUME NEW d \in Clients
        PROVE  IF peer'[d] = "none"
               THEN ~OnList(queue', d) /\ \A f \in Open' : owner'[f] # d
               ELSE OnList(queue', d) <=> \A f \in Open' : owner'[f] # d
    <3>1. CASE d = c
      BY <1>1, <1>5, <1>6, <1>7, <2>3, <2>4, <3>1
    <3>2. CASE d # c
      <4>1. (\A f \in Open' : owner'[f] # d) <=> (\A f \in Open : owner[f] # d)
        BY <1>7, <2>3, <3>2
      <4> QED
        BY <1>1, <1>6, <2>1, <3>2, <4>1 DEF Agreement
    <3> QED
      BY <3>1, <3>2
  <2>6. DescriptorsAgree' <=> Agreement'
    BY AgreeIs, PTL
  <2> QED
    BY <2>2, <2>5, <2>6 DEF Agreement
<1>12. TypeOK'
    BY <1>1, <1>4, <1>6, <1>7, <1>8, <1>10 DEF Inv, TypeOK, Event
<1> QED
    BY <1>1, <1>8, <1>10, <1>11, <1>12 DEF Inv, ListsOnce

LEMMA AnswerInv ==
    ASSUME Inv, Answer, program' = program
    PROVE  Inv'
<1>1. /\ events # <<>> /\ Current # server_fd /\ Closed(Current) /\ Handled
      /\ dead' \in BOOLEAN
    BY DEF Answer
<1>2. Current \in watched
  <2>1. events \in Seq(Event)
    BY DEF Inv, TypeOK, Event
  <2>2. Current = events[1].fd /\ 1 \in DOMAIN events
    BY <1>1, <2>1, TailKeeps DEF Current
  <2> QED
    BY <1>1, <2>2 DEF Inv, EventsAreCurrent
<1> QED
    BY <1>1, <1>2, ClosedInv

LEMMA ReadFailsInv ==
    ASSUME Inv, ReadFails, program' = program
    PROVE  Inv'
<1>1. /\ events # <<>> /\ Current \in Open /\ Closed(Current) /\ Handled
      /\ dead' = dead
    BY DEF ReadFails, HungUp, LeavesLoop
<1>2. Current \in watched /\ dead' \in BOOLEAN
    BY <1>1, AgreeIs DEF Inv, Agreement, TypeOK
<1> QED
    BY <1>1, <1>2, ClosedInv

LEMMA StutterInv ==
    ASSUME Inv, UNCHANGED vars
    PROVE  Inv'
<1>1. /\ program' = program /\ events' = events /\ dead' = dead
      /\ peer' = peer /\ unread' = unread /\ queue' = queue /\ owner' = owner
      /\ watched' = watched /\ ready' = ready
    BY DEF vars, kernel
<1>2. Open' = Open
    BY <1>1 DEF Open
<1>3. DescriptorsAgree'
    BY <1>1, AgreeStays DEF Inv
<1>4. Survive
    BY <1>1 DEF Inv, EventsAreCurrent, Survive, IsReady, ReadyLater
<1>5. EventsAreCurrent'
    BY <1>1, <1>4, EventsStay DEF Inv
<1> QED
    BY <1>1, <1>3, <1>5 DEF Inv, TypeOK, ListsOnce

-----------------------------------------------------------------------------
LEMMA Inductive == Inv /\ [Next]_vars => Inv'
<1> SUFFICES ASSUME Inv, [Next]_vars PROVE Inv'
    OBVIOUS
<1>1. CASE UNCHANGED vars
    BY <1>1, StutterInv
<1>2. CASE Server
  <2>1. program' = program
    BY <1>2 DEF Server
  <2>2. CASE epoll_wait
    BY <2>1, <2>2, WaitInv
  <2>3. CASE Accept
    BY <2>1, <2>3, AcceptInv DEF Accept
  <2>4. CASE AcceptRefused
    BY <2>1, <2>4, RefusedInv DEF AcceptRefused
  <2>5. CASE AcceptFails
    BY <2>1, <2>5, AcceptFailsInv
  <2>6. CASE Answer
    BY <2>1, <2>6, AnswerInv
  <2>7. CASE ReadFails
    BY <2>1, <2>7, ReadFailsInv
  <2> QED
    BY <1>2, <2>2, <2>3, <2>4, <2>5, <2>6, <2>7 DEF Server
<1>3. ASSUME NEW c \in Clients, Client(c) PROVE Inv'
  <2>1. (Connect(c) \/ Send(c) \/ Leave(c)) /\ ClientFrame
    BY <1>3 DEF Client, ClientFrame
  <2> QED
    BY <2>1, ConnectInv, SendInv, LeaveInv
<1> QED
    BY <1>1, <1>2, <1>3 DEF Next

LEMMA Always == Spec => []Inv
<1> QED
    BY InitInv, Inductive, PTL DEF Spec

\* The variables hold what the C types allow, and the accept queue and a batch of
\* events no more than listen and epoll_wait were told.
THEOREM TypeCorrect == Spec => []TypeOK
<1>1. Inv => TypeOK
    BY DEF Inv
<1> QED
    BY <1>1, Always, PTL

\* An event still to be handled belongs to the connection it was reported for,
\* although descriptors are closed, and their numbers used again, while the batch
\* is handled; and read finds something there.
THEOREM NoStaleEvent == Spec => []EventsAreCurrent
<1>1. Inv => EventsAreCurrent
    BY DEF Inv
<1> QED
    BY <1>1, Always, PTL

\* No path through either server leaves a descriptor open and unwatched, two for
\* one client, or a live connection in neither place or in both.
THEOREM NoneLeaked == Spec => []DescriptorsAgree
<1>1. Inv => DescriptorsAgree
    BY DEF Inv
<1> QED
    BY <1>1, Always, PTL
==============================================================================
