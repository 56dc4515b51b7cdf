--------------------------- MODULE StartupProofs ----------------------------
(***************************************************************************)
(* First the lookup alone: find_backend returns the longest match, for     *)
(* every table and every path.  The inductive invariant is ScanInv: what   *)
(* is known of best_match halfway through the loop.  Nothing is assumed of *)
(* strncmp beyond its being a relation between a route and a path: Matches *)
(* is never expanded.                                                      *)
(*                                                                         *)
(* Then the proxy from its start, for every file: after n chunks the table *)
(* holds the routes among the first n chunks, in their order (LoadInv).    *)
(* RoutesAmong and FlattenSeq are recursive functions; what they return    *)
(* for one text or one line more is proved from their existence            *)
(* (Recursion) and from an induction over 0 .. n (Reaches).                *)
(***************************************************************************)
EXTENDS Startup, WellFoundedInduction, TLAPS

-----------------------------------------------------------------------------
(* find_backend alone *)
IInv == TypeOK /\ ScanInv

LEMMA RouteTypes ==
    ASSUME routes \in Tables, NEW j \in DOMAIN routes
    PROVE  /\ Len(routes) \in Nat /\ DOMAIN routes = 1 .. Len(routes)
           /\ routes[j].prefix \in Seq(STRING)
           /\ Len(routes[j].prefix) \in Nat
           /\ Len(routes[j].prefix) = 0 <=> routes[j].prefix = <<>>
<1>1. routes \in Seq(Routes)
    BY TablesAssumption
<1>2. Len(routes) \in Nat /\ DOMAIN routes = 1 .. Len(routes)
    BY <1>1
<1>3. routes[j] \in Routes
    BY <1>1, <1>2
<1>4. routes[j].prefix \in Seq(STRING)
    BY <1>3 DEF Routes
<1> QED
    BY <1>2, <1>4

LEMMA TableLength ==
    ASSUME routes \in Tables
    PROVE  Len(routes) \in Nat /\ DOMAIN routes = 1 .. Len(routes)
<1>1. routes \in Seq(Routes)
    BY TablesAssumption
<1> QED
    BY <1>1

LEMMA InitIInv == Init => IInv
<1> SUFFICES ASSUME Init PROVE IInv
    OBVIOUS
<1>1. TypeOK
    BY TableLength DEF Init, TypeOK, NoBackend
<1>2. {j \in Candidates(routes, path) : j < i} = {}
    BY TableLength DEF Init, Candidates
<1>3. ScanInv
    BY <1>2 DEF Init, ScanInv, NoBackend
<1> QED
    BY <1>1, <1>3 DEF IInv

\* One iteration: what was seen before i + 1 is what was seen before i, and i
\* itself when it is a candidate.
LEMMA SeenAfter ==
    ASSUME routes \in Tables, i \in DOMAIN routes
    PROVE  {j \in Candidates(routes, path) : j < i + 1} =
               {j \in Candidates(routes, path) : j < i}
               \cup (IF i \in Candidates(routes, path) THEN {i} ELSE {})
<1>1. \A j \in Candidates(routes, path) : j \in Int
    BY TableLength DEF Candidates
<1>2. i \in Int
    BY TableLength
<1> QED
    BY <1>1, <1>2

LEMMA NextIInv == IInv /\ [Next]_vars => IInv'
<1> SUFFICES ASSUME IInv, [Next]_vars PROVE IInv'
    OBVIOUS
<1>0. /\ routes \in Tables /\ path \in Paths
      /\ Len(routes) \in Nat /\ DOMAIN routes = 1 .. Len(routes)
      /\ i \in 1 .. Len(routes) + 1 /\ best_match \in 0 .. Len(routes)
      /\ best_match_len \in Nat
    BY TableLength DEF IInv, TypeOK
<1> DEFINE seen == {j \in Candidates(routes, path) : j < i}
<1>1. CASE RefuseArguments
    BY <1>0, <1>1 DEF RefuseArguments, IInv, TypeOK, ScanInv
<1>2. CASE StartScan
    BY <1>0, <1>2 DEF StartScan, IInv, TypeOK, ScanInv
<1>3. CASE TakeRoute
  <2>1. i \in DOMAIN routes /\ i < i' /\ i' = i + 1 /\ pc' = pc /\ pc = "scan"
        /\ routes' = routes /\ path' = path /\ best_match' = i
        /\ best_match_len' = Len(routes[i].prefix)
        /\ Matches(routes[i], path) /\ Len(routes[i].prefix) > best_match_len
    BY <1>0, <1>3 DEF TakeRoute, NextRoute, IsBetter
  <2>2. Len(routes[i].prefix) \in Nat /\ routes[i].prefix # <<>>
    BY <1>0, <2>1, RouteTypes
  <2>3. i \in Candidates(routes, path)
    BY <2>1, <2>2 DEF Candidates
  <2>4. {j \in Candidates(routes, path) : j < i + 1} = seen \cup {i}
    BY <1>0, <2>1, <2>3, SeenAfter
  <2>5. TypeOK'
    BY <1>0, <2>1, <2>2 DEF IInv, TypeOK
  <2>6. \A j \in seen : Len(routes[j].prefix) \in Nat
    BY <1>0, RouteTypes DEF Candidates
  <2>7. \A j \in seen : Len(routes[j].prefix) < Len(routes[i].prefix)
    <3> SUFFICES ASSUME NEW j \in seen
                 PROVE  Len(routes[j].prefix) < Len(routes[i].prefix)
        OBVIOUS
    <3>1. \/ Len(routes[j].prefix) < best_match_len
          \/ Len(routes[j].prefix) = best_match_len
        BY DEF IInv, ScanInv
    <3>2. Len(routes[j].prefix) \in Nat /\ best_match_len \in Nat
        BY <1>0, <2>6
    <3> QED
        BY <2>1, <2>2, <3>1, <3>2
  <2>8. ScanInv'
    <3>1. best_match' # NoBackend
        BY <1>0, <2>1 DEF NoBackend
    <3>2. {j \in Candidates(routes', path') : j < i'} = seen \cup {i}
        BY <2>1, <2>4
    <3>3. \A j \in seen \cup {i} :
              \/ Len(routes[j].prefix) < Len(routes[i].prefix)
              \/ Len(routes[j].prefix) = Len(routes[i].prefix) /\ i <= j
        BY <1>0, <2>7
    <3>4. Rooted(path)
        BY <2>1 DEF IInv, ScanInv
    <3> QED
        BY <2>1, <3>1, <3>2, <3>3, <3>4 DEF ScanInv
  <2> QED
    BY <2>5, <2>8 DEF IInv
<1>4. CASE SkipRoute
  <2>1. i \in DOMAIN routes /\ i' = i + 1 /\ pc' = pc /\ pc = "scan"
        /\ routes' = routes /\ path' = path /\ best_match' = best_match
        /\ best_match_len' = best_match_len
        /\ (~Matches(routes[i], path) \/ ~(Len(routes[i].prefix) > best_match_len))
    BY <1>0, <1>4 DEF SkipRoute, NextRoute, IsBetter
  <2>2. Len(routes[i].prefix) \in Nat /\ (Len(routes[i].prefix) = 0 <=> routes[i].prefix = <<>>)
    BY <1>0, <2>1, RouteTypes
  <2>3. TypeOK'
    BY <1>0, <2>1 DEF IInv, TypeOK
  <2>4. {j \in Candidates(routes, path) : j < i + 1} =
            seen \cup (IF i \in Candidates(routes, path) THEN {i} ELSE {})
    BY <1>0, <2>1, SeenAfter
  <2>5. i \in Candidates(routes, path) =>
            0 < Len(routes[i].prefix) /\ Len(routes[i].prefix) <= best_match_len
    BY <1>0, <2>1, <2>2 DEF Candidates
  <2>6. best_match = NoBackend =>
            best_match_len = 0 /\ {j \in Candidates(routes, path) : j < i + 1} = {}
    BY <1>0, <2>2, <2>4, <2>5 DEF IInv, ScanInv
  <2>7. ASSUME best_match # NoBackend
        PROVE  /\ best_match \in {j \in Candidates(routes, path) : j < i + 1}
               /\ best_match_len = Len(routes[best_match].prefix)
               /\ \A j \in {k \in Candidates(routes, path) : k < i + 1} :
                     \/ Len(routes[j].prefix) < best_match_len
                     \/ Len(routes[j].prefix) = best_match_len /\ best_match <= j
    <3>1. /\ best_match \in seen /\ best_match < i
          /\ best_match_len = Len(routes[best_match].prefix)
          /\ \A j \in seen : \/ Len(routes[j].prefix) < best_match_len
                             \/ Len(routes[j].prefix) = best_match_len /\ best_match <= j
        BY <2>7 DEF IInv, ScanInv
    <3>2. i \in Candidates(routes, path) =>
              \/ Len(routes[i].prefix) < best_match_len
              \/ Len(routes[i].prefix) = best_match_len /\ best_match <= i
        BY <1>0, <2>2, <2>5, <3>1
    <3> QED
        BY <2>4, <3>1, <3>2
  <2>8. ScanInv'
    BY <2>1, <2>6, <2>7 DEF IInv, ScanInv
  <2> QED
    BY <2>3, <2>8 DEF IInv
<1>5. CASE EndScan
    BY <1>0, <1>5 DEF EndScan, IInv, TypeOK, ScanInv
<1>6. CASE UNCHANGED vars
    BY <1>6 DEF vars, IInv, TypeOK, ScanInv
<1> QED
    BY <1>1, <1>2, <1>3, <1>4, <1>5, <1>6 DEF Next

\* The variables of find_backend keep their types: i never runs beyond the table
\* and best_match is NULL or points into it.
THEOREM TypeCorrect == Spec => []TypeOK
<1>1. IInv => TypeOK
    BY DEF IInv
<1> QED
    BY <1>1, InitIInv, NextIInv, PTL DEF Spec

\* At every iteration best_match is the best of the routes looked at so far.
THEOREM ScanCorrect == Spec => []ScanInv
<1>1. IInv => ScanInv
    BY DEF IInv
<1> QED
    BY <1>1, InitIInv, NextIInv, PTL DEF Spec

LEMMA InvResult == IInv => LongestPrefixMatch
<1> SUFFICES ASSUME IInv, pc = "done" PROVE best_match = BestBackend(routes, path)
    BY DEF LongestPrefixMatch
<1>0. /\ routes \in Tables
      /\ Len(routes) \in Nat /\ DOMAIN routes = 1 .. Len(routes)
      /\ \A j \in Candidates(routes, path) : j \in 1 .. Len(routes)
    BY TableLength DEF IInv, TypeOK, Candidates
<1> DEFINE seen == {j \in Candidates(routes, path) : j < i}
<1>1. CASE i = 1 /\ (Len(routes) = 0 \/ ~Rooted(path))
  <2>1. best_match = NoBackend
    BY <1>0, <1>1 DEF IInv, ScanInv
  <2>2. Rooted(path) => Candidates(routes, path) = {}
    BY <1>0, <1>1
  <2> QED
    BY <2>1, <2>2 DEF BestBackend, IsBest
<1>2. CASE i = Len(routes) + 1 /\ Rooted(path)
  <2>1. seen = Candidates(routes, path)
    BY <1>0, <1>2
  <2>2. CASE best_match = NoBackend
    BY <2>1, <2>2 DEF IInv, ScanInv, BestBackend, IsBest
  <2>3. CASE best_match # NoBackend
    <3>1. best_match \in Candidates(routes, path) /\ IsBest(best_match, routes, path)
        BY <2>1, <2>3 DEF IInv, ScanInv, IsBest
    <3>2. \A k \in Candidates(routes, path) : Len(routes[k].prefix) \in Nat
        BY <1>0, RouteTypes
    <3>3. ASSUME NEW k \in DOMAIN routes, IsBest(k, routes, path)
          PROVE  k = best_match
        <4>1. k \in Candidates(routes, path) /\ k \in Nat /\ best_match \in Nat
            BY <1>0, <3>1, <3>3 DEF IsBest
        <4>2. \/ Len(routes[best_match].prefix) < Len(routes[k].prefix)
              \/ Len(routes[best_match].prefix) = Len(routes[k].prefix) /\ k <= best_match
            BY <3>1, <3>3 DEF IsBest
        <4>3. \/ Len(routes[k].prefix) < Len(routes[best_match].prefix)
              \/ Len(routes[k].prefix) = Len(routes[best_match].prefix) /\ best_match <= k
            BY <3>1, <4>1 DEF IsBest
        <4> QED
            BY <3>1, <3>2, <4>1, <4>2, <4>3
    <3>4. best_match \in DOMAIN routes
        BY <1>0, <3>1
    <3>5. best_match = CHOOSE k \in DOMAIN routes : IsBest(k, routes, path)
        BY <3>1, <3>3, <3>4
    <3> QED
        BY <1>2, <3>1, <3>5 DEF BestBackend
  <2> QED
    BY <2>2, <2>3
<1> QED
    BY <1>1, <1>2 DEF IInv, ScanInv

\* find_backend returns the longest match, the first one among equal prefixes,
\* and NULL when nothing matches or the path has no leading '/'.
THEOREM LookupCorrect == Spec => []LongestPrefixMatch
    BY InvResult, InitIInv, NextIInv, PTL DEF Spec

-----------------------------------------------------------------------------
(* Recursive functions over 0 .. n *)
\* Induction up to n, over a set instead of a predicate.
LEMMA Reaches ==
    ASSUME NEW n \in Nat, NEW U, 0 \in U, \A k \in 1 .. n : k - 1 \in U => k \in U
    PROVE  \A k \in 0 .. n : k \in U
<1> DEFINE T == {k \in 0 .. n : k \notin U}
           R == OpToRel(<, Nat)
<1>1. SUFFICES ASSUME T # {} PROVE FALSE
    OBVIOUS
<1>2. \A j, k \in Nat : j < k => <<j, k>> \in R
    BY DEF OpToRel
<1>3. IsWellFoundedOn(R, Nat)
    BY NatLessThanWellFounded
<1> HIDE DEF R
<1>4. PICK m \in T : \A k \in T : ~(<<k, m>> \in R)
  <2>1. T \subseteq Nat
    OBVIOUS
  <2> HIDE DEF T
  <2> QED
    BY <1>1, <1>3, <2>1, WFMin
<1>5. m \in 1 .. n /\ m - 1 \in 0 .. n /\ m - 1 \in Nat /\ m \in Nat /\ m - 1 < m
    OBVIOUS
<1>6. m - 1 \notin T
    BY <1>2, <1>4, <1>5
<1> QED
    BY <1>5, <1>6

\* f is a at 0, and at k what step k of G makes of f[k - 1].
Steps(n, V) == [1 .. n -> [V -> V]]
Iterates(f, n, V, a, G) ==
    f \in [0 .. n -> V] /\ f[0] = a /\ \A k \in 1 .. n : f[k] = G[k][f[k - 1]]

LEMMA Recursion ==
    \A n \in Nat : \A V : \A a \in V : \A G \in Steps(n, V) : \E f : Iterates(f, n, V, a, G)
<1> SUFFICES ASSUME NEW n \in Nat, NEW V, NEW a \in V, NEW G \in Steps(n, V)
             PROVE  \E f : Iterates(f, n, V, a, G)
    OBVIOUS
<1>0. \A k \in 1 .. n : G[k] \in [V -> V]
    BY DEF Steps
<1> DEFINE U == {m \in 0 .. n : \E f \in [0 .. m -> V] :
                    f[0] = a /\ \A k \in 1 .. m : f[k] = G[k][f[k - 1]]}
<1>1. 0 \in U
  <2> DEFINE h == [k \in 0 .. 0 |-> a]
  <2>1. h \in [0 .. 0 -> V] /\ h[0] = a /\ 0 \in 0 .. n /\ \A k \in 1 .. 0 : FALSE
    OBVIOUS
  <2> HIDE DEF h
  <2> QED
    BY <2>1
<1>2. ASSUME NEW m \in 1 .. n, m - 1 \in U PROVE m \in U
  <2>1. PICK g \in [0 .. m - 1 -> V] :
              g[0] = a /\ \A k \in 1 .. m - 1 : g[k] = G[k][g[k - 1]]
    BY <1>2
  <2>2. m \in Nat /\ m \in 0 .. n /\ m - 1 \in 0 .. m - 1 /\ 0 \in 0 .. m - 1 /\ 0 # m
    OBVIOUS
  <2>3. g[m - 1] \in V
    BY <2>2
  <2>4. G[m] \in [V -> V]
    BY <1>0
  <2>5. G[m][g[m - 1]] \in V
    BY <2>3, <2>4
  <2> DEFINE h == [k \in 0 .. m |-> IF k = m THEN G[m][g[m - 1]] ELSE g[k]]
  <2>6. \A k \in 0 .. m : k # m => k \in 0 .. m - 1
    BY <2>2
  <2>7. h \in [0 .. m -> V]
    BY <2>5, <2>6
  <2>8. h[m] = G[m][g[m - 1]] /\ \A k \in 0 .. m - 1 : h[k] = g[k]
    BY <2>2
  <2> HIDE DEF h
  <2>9. ASSUME NEW k \in 1 .. m PROVE h[k] = G[k][h[k - 1]]
    <3>1. k - 1 \in 0 .. m - 1 /\ (k # m => k \in 1 .. m - 1 /\ k \in 0 .. m - 1)
      BY <2>2
    <3>2. CASE k = m
      BY <2>8, <3>1, <3>2
    <3>3. CASE k # m
      <4>1. h[k] = g[k] /\ h[k - 1] = g[k - 1]
        BY <2>8, <3>1, <3>3
      <4>2. g[k] = G[k][g[k - 1]]
        BY <2>1, <3>1, <3>3
      <4> QED
        BY <4>1, <4>2
    <3> QED
      BY <3>2, <3>3
  <2> QED
    BY <2>1, <2>2, <2>7, <2>8, <2>9
<1>3. n \in 0 .. n
    OBVIOUS
<1> HIDE DEF U
<1>4. n \in U
    BY <1>1, <1>2, <1>3, Reaches
<1> QED
    BY <1>4 DEF U, Iterates

-----------------------------------------------------------------------------
\* RoutesAmong is the last value of the function in its definition.
Kept(s, g) == [k \in 0 .. Len(s) |->
        IF k = 0 THEN <<>>
        ELSE IF s[k].kind = "route" THEN Append(g[k - 1], s[k].route) ELSE g[k - 1]]

LEMMA AmongIs ==
    ASSUME NEW T, NEW s \in Seq(T)
    PROVE  \E f \in [0 .. Len(s) -> Seq({x.route : x \in T})] :
              /\ f = Kept(s, f) /\ RoutesAmong(s) = f[Len(s)]
<1> DEFINE n == Len(s)
           V == Seq({x.route : x \in T})
           G == [k \in 1 .. n |-> [r \in V |->
                    IF s[k].kind = "route" THEN Append(r, s[k].route) ELSE r]]
           h == CHOOSE g : g = Kept(s, g)
<1>1. RoutesAmong(s) = h[n]
    BY DEF RoutesAmong, Kept
<1>2. n \in Nat /\ \A k \in 1 .. n : s[k] \in T
    OBVIOUS
<1>3. <<>> \in V
    OBVIOUS
<1>4. G \in [1 .. n -> [V -> V]]
  <2>1. ASSUME NEW k \in 1 .. n, NEW r \in V PROVE Append(r, s[k].route) \in V
    <3>1. s[k].route \in {x.route : x \in T}
      BY <1>2
    <3> QED
      BY <3>1
  <2> HIDE DEF V, n
  <2> QED
    BY <2>1
<1>5. \A k \in 1 .. n, r \in V :
          G[k][r] = IF s[k].kind = "route" THEN Append(r, s[k].route) ELSE r
  <2> HIDE DEF V, n
  <2> QED
    OBVIOUS
<1> HIDE DEF n, V, G
<1>6. PICK f : Iterates(f, n, V, <<>>, G)
  <2>1. n \in Nat /\ G \in Steps(n, V)
    BY <1>2, <1>4 DEF Steps
  <2> QED
    BY <1>3, <2>1, Recursion, Zenon
<1>7. \A k \in 1 .. n : f[k - 1] \in V /\ k \in 0 .. n /\ k # 0 /\ k - 1 \in 0 .. n
    BY <1>2, <1>6 DEF Iterates
<1>8. \A k \in 0 .. n : k = 0 \/ k \in 1 .. n
    BY <1>2
<1>9. f = Kept(s, f)
  <2>1. \A k \in 0 .. n : f[k] = IF k = 0 THEN <<>>
                  ELSE IF s[k].kind = "route" THEN Append(f[k - 1], s[k].route) ELSE f[k - 1]
    BY <1>5, <1>6, <1>7, <1>8 DEF Iterates
  <2> QED
    BY <1>6, <2>1 DEF Kept, Iterates, n
<1>10. h = Kept(s, h)
    BY <1>9
<1> HIDE DEF h
<1> DEFINE U == {k \in 0 .. n : h[k] = f[k]}
<1>11. \A k \in 0 .. n : k \in U
  <2>1. 0 \in U
    BY <1>2, <1>9, <1>10 DEF Kept, n
  <2>2. ASSUME NEW k \in 1 .. n, k - 1 \in U PROVE k \in U
    <3>1. h[k - 1] = f[k - 1]
      BY <2>2
    <3> QED
      BY <1>7, <1>9, <1>10, <3>1 DEF Kept, n
  <2> HIDE DEF U
  <2> QED
    BY <1>2, <2>1, <2>2, Reaches
<1>12. h = f
    BY <1>9, <1>10, <1>11 DEF Kept, n
<1> QED
    BY <1>1, <1>6, <1>9, <1>12 DEF V, n, Iterates

LEMMA AmongType ==
    ASSUME NEW T, NEW s \in Seq(T)
    PROVE  RoutesAmong(s) \in Seq({x.route : x \in T})
<1>1. PICK f \in [0 .. Len(s) -> Seq({x.route : x \in T})] : RoutesAmong(s) = f[Len(s)]
    BY AmongIs
<1>2. Len(s) \in 0 .. Len(s)
    OBVIOUS
<1> QED
    BY <1>1, <1>2

LEMMA AmongEmpty == RoutesAmong(<<>>) = <<>>
<1> DEFINE s == <<>>
<1>1. s \in Seq({}) /\ Len(s) = 0
    OBVIOUS
<1> HIDE DEF s
<1>2. PICK f : f = Kept(s, f) /\ RoutesAmong(s) = f[Len(s)]
    BY <1>1, AmongIs
<1>3. f[0] = <<>>
    BY <1>1, <1>2 DEF Kept
<1> QED
    BY <1>1, <1>2, <1>3 DEF s

\* One text more is one route more, or none.
LEMMA AmongAppend ==
    ASSUME NEW T, NEW s \in Seq(T), NEW x \in T
    PROVE  RoutesAmong(Append(s, x)) =
               IF x.kind = "route" THEN Append(RoutesAmong(s), x.route) ELSE RoutesAmong(s)
<1> DEFINE t == Append(s, x)
           n == Len(s)
<1>1. /\ t \in Seq(T) /\ n \in Nat /\ Len(t) = n + 1 /\ t[n + 1] = x
      /\ \A k \in 1 .. n : t[k] = s[k]
    OBVIOUS
<1> HIDE DEF t
<1>2. PICK f : f = Kept(s, f) /\ RoutesAmong(s) = f[n]
    BY AmongIs
<1>3. PICK g : g = Kept(t, g) /\ RoutesAmong(t) = g[Len(t)]
    BY <1>1, AmongIs
<1> DEFINE U == {k \in 0 .. n : g[k] = f[k]}
<1>4. 0 \in U
  <2>1. 0 \in 0 .. n /\ 0 \in 0 .. Len(t)
    BY <1>1
  <2> QED
    BY <1>2, <1>3, <2>1 DEF Kept
<1>5. ASSUME NEW k \in 1 .. n, k - 1 \in U PROVE k \in U
  <2>1. k \in 0 .. n /\ k \in 0 .. Len(t) /\ k # 0 /\ g[k - 1] = f[k - 1] /\ t[k] = s[k]
    BY <1>1, <1>5
  <2>2. f[k] = IF s[k].kind = "route" THEN Append(f[k - 1], s[k].route) ELSE f[k - 1]
    BY <1>2, <2>1 DEF Kept
  <2>3. g[k] = IF t[k].kind = "route" THEN Append(g[k - 1], t[k].route) ELSE g[k - 1]
    BY <1>3, <2>1 DEF Kept
  <2> QED
    BY <2>1, <2>2, <2>3
<1>6. n \in U
  <2> HIDE DEF U
  <2>1. \A k \in 0 .. n : k \in U
    BY <1>1, <1>4, <1>5, Reaches
  <2> QED
    BY <1>1, <2>1
<1>7. g[n + 1] = IF x.kind = "route" THEN Append(g[n], x.route) ELSE g[n]
  <2>1. n + 1 \in 0 .. Len(t) /\ n + 1 # 0 /\ (n + 1) - 1 = n
    BY <1>1
  <2> QED
    BY <1>1, <1>3, <2>1 DEF Kept
<1> QED
    BY <1>1, <1>2, <1>3, <1>6, <1>7 DEF t

-----------------------------------------------------------------------------
\* FlattenSeq is the last value of the function in its definition.
Joined(seqs, g) ==
    [k \in 1 .. Len(seqs) |-> IF k = 1 THEN seqs[k] ELSE g[k - 1] \o seqs[k]]

LEMMA FlattenIs ==
    ASSUME NEW T, NEW s \in Seq(Seq(T)), Len(s) # 0
    PROVE  \E f \in [1 .. Len(s) -> Seq(T)] : f = Joined(s, f) /\ FlattenSeq(s) = f[Len(s)]
<1> DEFINE n == Len(s)
           V == Seq(T)
           G == [k \in 1 .. n |-> [r \in V |-> IF k = 1 THEN s[k] ELSE r \o s[k]]]
           h == CHOOSE g : g = Joined(s, g)
<1>1. FlattenSeq(s) = h[n]
    BY DEF FlattenSeq, Joined
<1>2. n \in Nat /\ \A k \in 1 .. n : s[k] \in V
    OBVIOUS
<1>3. <<>> \in V /\ \A r, q \in V : r \o q \in V
    OBVIOUS
<1>4. G \in Steps(n, V)
  <2> HIDE DEF V, n
  <2> QED
    BY <1>2, <1>3 DEF Steps
<1>5. \A k \in 1 .. n, r \in V : G[k][r] = IF k = 1 THEN s[k] ELSE r \o s[k]
  <2> HIDE DEF V, n
  <2> QED
    OBVIOUS
<1> HIDE DEF n, V, G
<1>6. PICK e : Iterates(e, n, V, <<>>, G)
    BY <1>2, <1>3, <1>4, Recursion, Zenon
<1> DEFINE f == [k \in 1 .. n |-> e[k]]
<1>7. \A k \in 1 .. n : k \in 0 .. n /\ k - 1 \in 0 .. n /\ k # 0 /\ (k # 1 => k - 1 \in 1 .. n)
    BY <1>2
<1>8. \A k \in 0 .. n : e[k] \in V
    BY <1>6 DEF Iterates
<1>9. f \in [1 .. n -> V]
    BY <1>7, <1>8
<1>10. f = Joined(s, f)
  <2>1. ASSUME NEW k \in 1 .. n
        PROVE  f[k] = IF k = 1 THEN s[k] ELSE f[k - 1] \o s[k]
    <3>1. e[k - 1] \in V
      BY <1>7, <1>8
    <3>2. e[k] = G[k][e[k - 1]]
      BY <1>6 DEF Iterates
    <3>3. e[k] = IF k = 1 THEN s[k] ELSE e[k - 1] \o s[k]
      BY <1>5, <3>1, <3>2
    <3> QED
      BY <1>7, <3>3
  <2>2. f = [k \in 1 .. n |-> IF k = 1 THEN s[k] ELSE f[k - 1] \o s[k]]
    <3>1. f = [k \in 1 .. n |-> f[k]]
      OBVIOUS
    <3> HIDE DEF f
    <3> QED
      BY <2>1, <3>1
  <2> QED
    BY <2>2 DEF Joined, n
<1> HIDE DEF f
<1>11. h = Joined(s, h)
    BY <1>10
<1> HIDE DEF h
<1> DEFINE U == {k \in 0 .. n : k # 0 => h[k] = f[k]}
<1>12. \A k \in 0 .. n : k \in U
  <2>1. 0 \in U
    BY <1>2
  <2>2. ASSUME NEW k \in 1 .. n, k - 1 \in U PROVE k \in U
    <3>1. k # 1 => h[k - 1] = f[k - 1]
      BY <1>7, <2>2
    <3> QED
      BY <1>7, <1>10, <1>11, <3>1, ZenonT(30) DEF Joined, n
  <2> HIDE DEF U
  <2> QED
    BY <1>2, <2>1, <2>2, Reaches
<1>13. h = f
    BY <1>7, <1>10, <1>11, <1>12, ZenonT(30) DEF Joined, n
<1> QED
    BY <1>1, <1>9, <1>10, <1>13 DEF V, n

LEMMA FlattenEmpty == FlattenSeq(<<>>) = <<>>
    BY DEF FlattenSeq

LEMMA FlattenType ==
    ASSUME NEW T, NEW s \in Seq(Seq(T))
    PROVE  FlattenSeq(s) \in Seq(T)
<1>1. CASE Len(s) = 0
  <2>1. s = <<>>
    BY <1>1
  <2> QED
    BY <2>1, FlattenEmpty, <<>> \in Seq(T)
<1>2. CASE Len(s) # 0
  <2>1. PICK f \in [1 .. Len(s) -> Seq(T)] : FlattenSeq(s) = f[Len(s)]
    BY <1>2, FlattenIs
  <2>2. Len(s) \in 1 .. Len(s)
    BY <1>2
  <2> QED
    BY <2>1, <2>2
<1> QED
    BY <1>1, <1>2

LEMMA FlattenAppend ==
    ASSUME NEW T, NEW s \in Seq(Seq(T)), NEW c \in Seq(T)
    PROVE  FlattenSeq(Append(s, c)) = FlattenSeq(s) \o c
<1> DEFINE t == Append(s, c)
           n == Len(s)
<1>1. /\ t \in Seq(Seq(T)) /\ n \in Nat /\ Len(t) = n + 1 /\ Len(t) # 0 /\ t[n + 1] = c
      /\ \A k \in 1 .. n : t[k] = s[k]
    OBVIOUS
<1> HIDE DEF t
<1>2. PICK g : g = Joined(t, g) /\ FlattenSeq(t) = g[Len(t)]
    BY <1>1, FlattenIs
<1>3. CASE n = 0
  <2>1. s = <<>>
    BY <1>3
  <2>2. FlattenSeq(s) = <<>> /\ <<>> \o c = c
    BY <2>1, FlattenEmpty
  <2>3. g[1] = c
    BY <1>1, <1>2, <1>3 DEF Joined
  <2> QED
    BY <1>1, <1>2, <1>3, <2>2, <2>3 DEF t
<1>4. CASE n # 0
  <2>1. PICK f : f = Joined(s, f) /\ FlattenSeq(s) = f[n]
    BY <1>4, FlattenIs
  <2> DEFINE U == {k \in 0 .. n : k # 0 => g[k] = f[k]}
  <2>2. ASSUME NEW k \in 1 .. n, k - 1 \in U PROVE k \in U
    <3>1. /\ k \in 1 .. Len(t) /\ k \in 0 .. n /\ t[k] = s[k]
          /\ k # 1 => g[k - 1] = f[k - 1]
      BY <1>1, <2>2
    <3>2. f[k] = IF k = 1 THEN s[k] ELSE f[k - 1] \o s[k]
      BY <2>1 DEF Joined
    <3>3. g[k] = IF k = 1 THEN t[k] ELSE g[k - 1] \o t[k]
      BY <1>2, <3>1 DEF Joined
    <3> QED
      BY <3>1, <3>2, <3>3
  <2>3. n \in U
    <3>1. 0 \in U
      BY <1>1
    <3> HIDE DEF U
    <3>2. \A k \in 0 .. n : k \in U
      BY <1>1, <2>2, <3>1, Reaches
    <3> QED
      BY <1>1, <3>2
  <2>4. g[n + 1] = g[n] \o c
    <3>1. n + 1 \in 1 .. Len(t) /\ n + 1 # 1 /\ (n + 1) - 1 = n
      BY <1>1, <1>4
    <3> QED
      BY <1>1, <1>2, <3>1 DEF Joined
  <2> QED
    BY <1>1, <1>2, <1>4, <2>1, <2>3, <2>4 DEF t
<1> QED
    BY <1>3, <1>4

-----------------------------------------------------------------------------
(* What was loaded after the first n chunks *)
LEMMA Beginning ==
    ASSUME NEW T, NEW s \in Seq(T), NEW n \in 0 .. Len(s)
    PROVE  /\ SubSeq(s, 1, n) \in Seq(T) /\ Len(SubSeq(s, 1, n)) = n
           /\ n < Len(s) => /\ s[n + 1] \in T
                            /\ SubSeq(s, 1, n + 1) = Append(SubSeq(s, 1, n), s[n + 1])
           /\ SubSeq(s, 1, 0) = <<>> /\ SubSeq(s, 1, Len(s)) = s
<1>1. SubSeq(s, 1, n) \in Seq(T) /\ Len(SubSeq(s, 1, n)) = n
    OBVIOUS
<1>2. ASSUME n < Len(s)
      PROVE  s[n + 1] \in T /\ SubSeq(s, 1, n + 1) = Append(SubSeq(s, 1, n), s[n + 1])
    BY <1>2
<1> QED
    BY <1>1, <1>2

\* r begins the sequence a.
Begins(r, a) == Len(r) <= Len(a) /\ r = SubSeq(a, 1, Len(r))

LEMMA BeginsAppend ==
    ASSUME NEW T, NEW r \in Seq(T), NEW a \in Seq(T), NEW x \in T, Begins(r, a)
    PROVE  Begins(r, Append(a, x))
<1>1. Len(r) \in 0 .. Len(a) /\ Len(Append(a, x)) = Len(a) + 1 /\ Append(a, x) \in Seq(T)
    BY DEF Begins
<1>2. SubSeq(Append(a, x), 1, Len(r)) = SubSeq(a, 1, Len(r))
    BY <1>1
<1> QED
    BY <1>1, <1>2 DEF Begins

\* The routes of the first texts come first.
LEMMA AmongBegins ==
    ASSUME NEW T, NEW s \in Seq(T), NEW n \in 0 .. Len(s)
    PROVE  Begins(RoutesAmong(SubSeq(s, 1, n)), RoutesAmong(s))
<1> DEFINE R(k) == RoutesAmong(SubSeq(s, 1, k))
           V == {x.route : x \in T}
           m == Len(s) - n
           U == {k \in 0 .. m : Begins(R(n), R(n + k))}
<1>1. m \in Nat /\ n + m = Len(s) /\ n \in Nat /\ n + 0 = n
    OBVIOUS
<1>2. \A k \in 0 .. Len(s) : R(k) \in Seq(V)
    BY Beginning, AmongType
<1>3. 0 \in U
  <2>1. R(n) \in Seq(V)
    BY <1>2
  <2>2. Begins(R(n), R(n))
    <3> HIDE DEF R, V
    <3> QED
      BY <2>1 DEF Begins
  <2> QED
    BY <1>1, <2>2
<1>4. ASSUME NEW k \in 1 .. m, k - 1 \in U PROVE k \in U
  <2>1. n + (k - 1) \in 0 .. Len(s) /\ n + (k - 1) < Len(s) /\ (n + (k - 1)) + 1 = n + k
    BY <1>1
  <2> DEFINE q == n + (k - 1)
             x == s[q + 1]
  <2>2. x \in T /\ SubSeq(s, 1, q + 1) = Append(SubSeq(s, 1, q), x) /\ SubSeq(s, 1, q) \in Seq(T)
    BY <2>1, Beginning
  <2>3. R(n + k) = IF x.kind = "route" THEN Append(R(q), x.route) ELSE R(q)
    <3> DEFINE p == SubSeq(s, 1, q)
    <3>1. SubSeq(s, 1, n + k) = Append(p, x)
      BY <2>1, <2>2
    <3> HIDE DEF p, x
    <3>2. RoutesAmong(Append(p, x)) =
              IF x.kind = "route" THEN Append(RoutesAmong(p), x.route) ELSE RoutesAmong(p)
      BY <2>2, AmongAppend DEF p
    <3> QED
      BY <3>1, <3>2 DEF p
  <2>4. Begins(R(n), R(q))
    BY <1>4
  <2>5. R(n) \in Seq(V) /\ R(q) \in Seq(V) /\ x.route \in V
    BY <1>2, <2>1, <2>2
  <2>6. Begins(R(n), Append(R(q), x.route))
    <3> HIDE DEF R, V, q, x
    <3> QED
      BY <2>4, <2>5, BeginsAppend
  <2>7. Begins(R(n), R(n + k))
    BY <2>3, <2>4, <2>6
  <2> QED
    BY <2>7
<1>5. m \in U
  <2> HIDE DEF U
  <2>1. \A k \in 0 .. m : k \in U
    BY <1>1, <1>3, <1>4, Reaches
  <2> QED
    BY <1>1, <2>1
<1>6. SubSeq(s, 1, Len(s)) = s
    OBVIOUS
<1> QED
    BY <1>1, <1>5, <1>6

-----------------------------------------------------------------------------
(* The chunks of a file say what its lines say, when these fit. *)
ChunksOf(f) == [n \in DOMAIN f |-> f[n].chunks]
SaysOf(f) == [n \in DOMAIN f |-> f[n].says]

LEMMA FileTypes ==
    ASSUME NEW f \in Files
    PROVE  /\ f \in Seq(FileLines) /\ Len(f) \in Nat /\ DOMAIN f = 1 .. Len(f)
           /\ ChunksOf(f) \in Seq(Seq(FileTexts)) /\ Len(ChunksOf(f)) = Len(f)
           /\ FlattenSeq(ChunksOf(f)) \in Seq(FileTexts)
<1>1. f \in Seq(FileLines)
    BY FilesAssumption
<1>2. Len(f) \in Nat /\ DOMAIN f = 1 .. Len(f) /\ \A n \in 1 .. Len(f) : f[n] \in FileLines
    BY <1>1
<1>3. \A n \in 1 .. Len(f) : f[n].chunks \in Seq(FileTexts)
    BY <1>2, FilesAssumption
<1>4. ChunksOf(f) \in Seq(Seq(FileTexts)) /\ Len(ChunksOf(f)) = Len(f)
    BY <1>2, <1>3 DEF ChunksOf
<1> QED
    BY <1>1, <1>2, <1>4, FlattenType

LEMMA FittingFile ==
    ASSUME NEW f \in Files, \A n \in DOMAIN f : Fits(f[n])
    PROVE  /\ SaysOf(f) \in Seq(FileTexts)
           /\ RoutesAmong(FlattenSeq(ChunksOf(f))) = RoutesAmong(SaysOf(f))
<1> DEFINE n == Len(f)
           c == ChunksOf(f)
           t == SaysOf(f)
           V == {x.route : x \in FileTexts}
           C(k) == SubSeq(c, 1, k)
           S(k) == SubSeq(t, 1, k)
           U == {k \in 0 .. n : RoutesAmong(FlattenSeq(C(k))) = RoutesAmong(S(k))}
<1>1. /\ n \in Nat /\ DOMAIN f = 1 .. n
      /\ c \in Seq(Seq(FileTexts)) /\ Len(c) = n
    BY FileTypes
<1>2. \A k \in 1 .. n : /\ c[k] \in Seq(FileTexts) /\ t[k] \in FileTexts
                        /\ \/ c[k] = <<t[k]>>
                           \/ /\ c[k] = <<t[k], Text("blank", <<>>)>>
                              /\ Text("blank", <<>>) \in FileTexts
  <2> SUFFICES ASSUME NEW k \in 1 .. n
               PROVE  /\ c[k] \in Seq(FileTexts) /\ t[k] \in FileTexts
                      /\ \/ c[k] = <<t[k]>>
                         \/ /\ c[k] = <<t[k], Text("blank", <<>>)>>
                            /\ Text("blank", <<>>) \in FileTexts
    OBVIOUS
  <2>1. c[k] = f[k].chunks /\ t[k] = f[k].says /\ c[k] \in Seq(FileTexts)
    BY <1>1 DEF ChunksOf, SaysOf
  <2>2. c[k] = <<t[k]>> \/ c[k] = <<t[k], Text("blank", <<>>)>>
    BY <1>1, <2>1 DEF Fits
  <2> HIDE DEF c, t
  <2> DEFINE b == Text("blank", <<>>)
  <2> HIDE DEF b
  <2>3. CASE c[k] = <<t[k]>>
    <3>1. c[k][1] \in FileTexts /\ c[k][1] = t[k]
      BY <2>1, <2>3
    <3> QED
      BY <2>1, <2>3, <3>1
  <2>4. CASE c[k] = <<t[k], b>>
    <3>1. c[k][1] \in FileTexts /\ c[k][1] = t[k] /\ c[k][2] \in FileTexts /\ c[k][2] = b
      BY <2>1, <2>4
    <3> QED
      BY <2>1, <2>4, <3>1 DEF b
  <2> QED
    BY <2>2, <2>3, <2>4 DEF b
<1>3. t \in Seq(FileTexts) /\ Len(t) = n
  <2>1. t = [k \in 1 .. n |-> t[k]]
    BY <1>1 DEF SaysOf
  <2> HIDE DEF t, n
  <2>2. t \in [1 .. n -> FileTexts]
    BY <1>2, <2>1
  <2> QED
    BY <1>1, <2>2
<1> HIDE DEF c, t, n
<1>4. 0 \in U
  <2>1. C(0) = <<>> /\ S(0) = <<>>
    BY <1>1, <1>3
  <2> HIDE DEF C, S
  <2>2. FlattenSeq(C(0)) = S(0)
    BY <2>1, FlattenEmpty
  <2> QED
    BY <1>1, <2>2
<1>5. ASSUME NEW k \in 1 .. n, k - 1 \in U PROVE k \in U
  <2>0. k - 1 \in 0 .. n /\ k - 1 < n /\ (k - 1) + 1 = k /\ k \in 0 .. n
    BY <1>1
  <2>1. /\ C(k) = Append(C(k - 1), c[k]) /\ C(k - 1) \in Seq(Seq(FileTexts))
        /\ S(k) = Append(S(k - 1), t[k]) /\ S(k - 1) \in Seq(FileTexts)
    BY <1>1, <1>3, <2>0, Beginning
  <2> DEFINE F == FlattenSeq(C(k - 1))
  <2>2. F \in Seq(FileTexts) /\ FlattenSeq(C(k)) = F \o c[k]
    BY <1>2, <2>1, FlattenType, FlattenAppend
  <2>3. RoutesAmong(F) = RoutesAmong(S(k - 1))
    BY <1>5
  <2>4. RoutesAmong(S(k)) = IF t[k].kind = "route" THEN Append(RoutesAmong(S(k - 1)), t[k].route)
                            ELSE RoutesAmong(S(k - 1))
    <3> DEFINE p == S(k - 1)
               x == t[k]
    <3>1. p \in Seq(FileTexts) /\ x \in FileTexts /\ S(k) = Append(p, x)
      BY <1>2, <2>1
    <3> HIDE DEF p, x
    <3>2. RoutesAmong(Append(p, x)) =
              IF x.kind = "route" THEN Append(RoutesAmong(p), x.route) ELSE RoutesAmong(p)
      BY <3>1, AmongAppend
    <3> QED
      BY <3>1, <3>2 DEF p, x
  <2> HIDE DEF F, C, S
  <2>5. RoutesAmong(Append(F, t[k])) = RoutesAmong(S(k))
    <3> DEFINE x == t[k]
    <3>1. x \in FileTexts
      BY <1>2
    <3> HIDE DEF x
    <3>2. RoutesAmong(Append(F, x)) =
              IF x.kind = "route" THEN Append(RoutesAmong(F), x.route) ELSE RoutesAmong(F)
      BY <2>2, <3>1, AmongAppend
    <3> QED
      BY <2>3, <2>4, <3>2 DEF x
  <2>6. RoutesAmong(F \o c[k]) = RoutesAmong(S(k))
    <3>1. CASE c[k] = <<t[k]>>
      <4>1. F \o c[k] = Append(F, t[k])
        BY <1>2, <2>2, <3>1
      <4> QED
        BY <2>5, <4>1
    <3>2. CASE c[k] = <<t[k], Text("blank", <<>>)>> /\ Text("blank", <<>>) \in FileTexts
      <4> DEFINE b == Text("blank", <<>>)
      <4>1. b.kind # "route" /\ b \in FileTexts
        BY <3>2 DEF Text
      <4>2. c[k] = <<t[k], b>>
        BY <3>2
      <4> HIDE DEF b
      <4>3. F \o c[k] = Append(Append(F, t[k]), b) /\ Append(F, t[k]) \in Seq(FileTexts)
        BY <1>2, <2>2, <4>1, <4>2
      <4>4. RoutesAmong(Append(Append(F, t[k]), b)) = RoutesAmong(Append(F, t[k]))
        BY <4>1, <4>3, AmongAppend
      <4> QED
        BY <2>5, <4>3, <4>4
    <3> QED
      BY <1>2, <3>1, <3>2
  <2>7. RoutesAmong(FlattenSeq(C(k))) = RoutesAmong(S(k))
    BY <2>2, <2>6
  <2> QED
    BY <2>0, <2>7
<1>6. n \in U
  <2> HIDE DEF U
  <2>1. \A k \in 0 .. n : k \in U
    BY <1>1, <1>4, <1>5, Reaches
  <2> QED
    BY <1>1, <2>1
<1>7. C(n) = c /\ S(n) = t
    BY <1>1, <1>3
<1> QED
    BY <1>3, <1>6, <1>7 DEF c, t

-----------------------------------------------------------------------------
(* The inductive invariant *)
Chunks == FlattenSeq(ChunksOf(file))

\* The routes are those of the first n chunks.
LoadedFrom(n) == routes = RoutesAmong(SubSeq(Chunks, 1, n))

\* find_backend has not been called.
Idle == pc = "enter" /\ i = 1 /\ best_match = NoBackend /\ best_match_len = 0

LoadInv ==
    /\ file \in Files
    /\ phase \in {"setup", "open", "load", "serve", "exited"}
    /\ phase # "serve" => Idle
    /\ phase \in {"setup", "open"} => routes = <<>>
    /\ Len(routes) <= MAX_ROUTES
    /\ phase = "load" =>
          \E n \in 0 .. Len(Chunks) :
             LoadedFrom(n) /\ rest = SubSeq(Chunks, n + 1, Len(Chunks))
    /\ phase = "serve" =>
          \E n \in 0 .. Len(Chunks) :
             LoadedFrom(n) /\ (n = Len(Chunks) \/ Len(routes) = MAX_ROUTES)

StartIInv == IInv /\ LoadInv

LEMMA IdleIInv == routes \in Tables /\ path \in Paths /\ Idle => IInv
<1> SUFFICES ASSUME routes \in Tables, path \in Paths, Idle PROVE IInv
    OBVIOUS
<1>1. Init
    BY DEF Init, Idle
<1> QED
    BY <1>1, InitIInv

LEMMA StartInitInv == StartInit => StartIInv
<1> SUFFICES ASSUME StartInit PROVE StartIInv
    OBVIOUS
<1>1. IInv
    BY InitIInv DEF StartInit
<1>2. LoadInv
    BY FilesAssumption DEF StartInit, Init, Idle, LoadInv
<1> QED
    BY <1>1, <1>2 DEF StartIInv

\* A step of loading leaves find_backend idle.
LEMMA StaysIdle ==
    ASSUME StartIInv, phase # "serve", UNCHANGED <<pc, i, best_match, best_match_len>>,
           routes' \in Tables, path' \in Paths
    PROVE  Idle' /\ IInv'
<1>1. Idle'
    BY DEF StartIInv, LoadInv, Idle, NoBackend
<1>2. Init'
    BY <1>1 DEF Init, Idle
<1> QED
    BY <1>1, <1>2, InitIInv, PTL

LEMMA StartNextInv == StartIInv /\ [StartNext]_<<vars, loadVars>> => StartIInv'
<1> SUFFICES ASSUME StartIInv, [StartNext]_<<vars, loadVars>> PROVE StartIInv'
    OBVIOUS
<1>0. /\ routes \in Tables /\ path \in Paths /\ file \in Files
      /\ Len(routes) \in Nat /\ Len(routes) <= MAX_ROUTES
      /\ routes \in Seq(Routes) /\ MAX_ROUTES \in Nat
      /\ Chunks \in Seq(FileTexts) /\ Len(Chunks) \in Nat
  <2>1. routes \in Tables /\ path \in Paths /\ file \in Files /\ Len(routes) <= MAX_ROUTES
    BY DEF StartIInv, IInv, TypeOK, LoadInv
  <2>2. routes \in Seq(Routes) /\ MAX_ROUTES \in Nat
    BY <2>1, FilesAssumption, TablesAssumption
  <2>3. Chunks \in Seq(FileTexts)
    BY <2>1, FileTypes DEF Chunks
  <2> QED
    BY <2>1, <2>2, <2>3
<1>1. CASE Fails
  <2>1. phase # "serve" /\ phase' = "exited" /\ file' = file /\ routes' = routes
        /\ path' = path /\ UNCHANGED <<pc, i, best_match, best_match_len>>
    BY <1>1 DEF Fails, vars
  <2>2. Idle' /\ IInv'
    BY <1>0, <2>1, StaysIdle
  <2> QED
    BY <1>0, <2>1, <2>2 DEF StartIInv, LoadInv
<1>2. CASE Listen
  <2>1. phase # "serve" /\ phase = "setup" /\ phase' = "open" /\ file' = file /\ routes' = routes
        /\ path' = path /\ UNCHANGED <<pc, i, best_match, best_match_len>>
    BY <1>2 DEF Listen, vars
  <2>2. Idle' /\ IInv'
    BY <1>0, <2>1, StaysIdle
  <2> QED
    BY <1>0, <2>1, <2>2 DEF StartIInv, LoadInv
<1>3. CASE OpenFile
  <2>1. phase # "serve" /\ phase = "open" /\ phase' = "load" /\ file' = file /\ routes' = routes
        /\ path' = path /\ UNCHANGED <<pc, i, best_match, best_match_len>>
        /\ rest' = Chunks
    BY <1>3 DEF OpenFile, vars, Chunks, ChunksOf
  <2>2. Idle' /\ IInv'
    BY <1>0, <2>1, StaysIdle
  <2>3. routes = <<>>
    BY <2>1 DEF StartIInv, LoadInv
  <2>4. SubSeq(Chunks, 1, 0) = <<>> /\ SubSeq(Chunks, 0 + 1, Len(Chunks)) = Chunks
    BY <1>0
  <2>5. Chunks' = Chunks
    BY <2>1 DEF Chunks
  <2>6. LoadedFrom(0)'
    <3>1. routes' = RoutesAmong(SubSeq(Chunks, 1, 0))
      BY <2>1, <2>3, <2>4, AmongEmpty, Zenon
    <3>2. 0 \in 0 .. Len(Chunks)
      BY <1>0
    <3> QED
      BY <2>5, <3>1, <3>2 DEF LoadedFrom
  <2>7. \E n \in 0 .. Len(Chunks') : LoadedFrom(n)' /\ rest' = SubSeq(Chunks', n + 1, Len(Chunks'))
    BY <1>0, <2>1, <2>4, <2>5, <2>6
  <2> QED
    BY <1>0, <2>1, <2>2, <2>7 DEF StartIInv, LoadInv
<1>4. ASSUME phase = "load", rest # <<>>, RoomAfter(Len(routes)), rest' = Tail(rest),
             routes' = IF Head(rest).kind = "route" THEN Append(routes, Head(rest).route)
                       ELSE routes,
             UNCHANGED <<phase, file, pc, path, i, best_match, best_match_len>>
      PROVE  StartIInv'
  <2>1. PICK n \in 0 .. Len(Chunks) : LoadedFrom(n) /\ rest = SubSeq(Chunks, n + 1, Len(Chunks))
    BY <1>4 DEF StartIInv, LoadInv
  <2>2. n \in 0 .. Len(Chunks) /\ n \in Nat
    BY <1>0
  <2>3. n < Len(Chunks)
    BY <1>0, <1>4, <2>1, <2>2
  <2>4. /\ Head(rest) = Chunks[n + 1] /\ Chunks[n + 1] \in FileTexts
        /\ Tail(rest) = SubSeq(Chunks, (n + 1) + 1, Len(Chunks))
    BY <1>0, <2>1, <2>2, <2>3
  <2> DEFINE p == SubSeq(Chunks, 1, n)
             x == Chunks[n + 1]
  <2>5. p \in Seq(FileTexts) /\ SubSeq(Chunks, 1, n + 1) = Append(p, x) /\ x \in FileTexts
    BY <1>0, <2>2, <2>3, <2>4, Beginning
  <2> HIDE DEF p, x
  <2>6. routes' = RoutesAmong(Append(p, x))
    <3>1. routes = RoutesAmong(p)
      BY <2>1 DEF LoadedFrom, p
    <3>2. RoutesAmong(Append(p, x)) =
              IF x.kind = "route" THEN Append(RoutesAmong(p), x.route) ELSE RoutesAmong(p)
      BY <2>5, AmongAppend
    <3> QED
      BY <1>4, <2>4, <3>1, <3>2 DEF x
  <2>7. Len(routes) < MAX_ROUTES
    BY <1>4 DEF RoomAfter
  <2>8. routes' \in Tables /\ Len(routes') <= MAX_ROUTES
    <3>1. CASE x.kind = "route"
      <4>1. Append(routes, x.route) \in Tables
        BY <1>0, <2>5, <2>7, <3>1, RoomAssumption
      <4>2. routes' = Append(routes, x.route)
        BY <1>4, <2>4, <3>1 DEF x
      <4>3. Len(Append(routes, x.route)) = Len(routes) + 1
        BY <1>0
      <4> QED
        BY <1>0, <2>7, <4>1, <4>2, <4>3
    <3>2. CASE x.kind # "route"
      BY <1>0, <1>4, <2>4, <3>2 DEF x
    <3> QED
      BY <3>1, <3>2
  <2>9. Idle' /\ IInv'
    BY <1>0, <1>4, <2>8, StaysIdle
  <2>10. Chunks' = Chunks
    BY <1>4 DEF Chunks
  <2>11. LoadedFrom(n + 1)'
    <3>1. routes' = RoutesAmong(SubSeq(Chunks, 1, n + 1))
      BY <2>5, <2>6, Zenon
    <3>2. n + 1 \in 0 .. Len(Chunks)
      BY <1>0, <2>2, <2>3
    <3> QED
      BY <2>10, <3>1, <3>2 DEF LoadedFrom
  <2>12. \E k \in 0 .. Len(Chunks') : LoadedFrom(k)' /\ rest' = SubSeq(Chunks', k + 1, Len(Chunks'))
    BY <1>0, <1>4, <2>2, <2>3, <2>4, <2>10, <2>11
  <2> QED
    BY <1>0, <1>4, <2>8, <2>9, <2>12 DEF StartIInv, LoadInv
<1>5. CASE SkipChunk
    BY <1>4, <1>5 DEF SkipChunk, vars
<1>6. CASE LoadRoute
    BY <1>4, <1>6 DEF LoadRoute
<1>7. CASE EndLoad
  <2>1. phase = "load" /\ phase' = (IF routes = <<>> THEN "exited" ELSE "serve") /\ file' = file
        /\ routes' = routes /\ path' \in Paths /\ UNCHANGED <<pc, i, best_match, best_match_len>>
        /\ (rest = <<>> \/ ~(Len(routes) < MAX_ROUTES))
    BY <1>7 DEF EndLoad, RoomAfter
  <2>2. Idle' /\ IInv'
    BY <1>0, <2>1, StaysIdle
  <2>3. PICK n \in 0 .. Len(Chunks) : LoadedFrom(n) /\ rest = SubSeq(Chunks, n + 1, Len(Chunks))
    BY <2>1 DEF StartIInv, LoadInv
  <2>4. n \in 0 .. Len(Chunks) /\ n \in Nat
    BY <1>0
  <2>5. rest = <<>> => n = Len(Chunks)
    <3> SUFFICES ASSUME n < Len(Chunks) PROVE rest # <<>>
      BY <1>0, <2>4
    <3>1. Len(rest) = Len(Chunks) - n
      BY <1>0, <2>3, <2>4
    <3> QED
      BY <1>0, <3>1
  <2>6. n = Len(Chunks) \/ Len(routes) = MAX_ROUTES
    BY <1>0, <2>1, <2>5
  <2>7. Chunks' = Chunks /\ LoadedFrom(n)'
    BY <2>1, <2>3 DEF LoadedFrom, Chunks
  <2> QED
    BY <1>0, <2>1, <2>2, <2>6, <2>7 DEF StartIInv, LoadInv
<1>8. ASSUME IInv', phase = "serve", UNCHANGED <<routes, loadVars>> PROVE StartIInv'
  <2>1. phase' = phase /\ file' = file /\ routes' = routes /\ Chunks' = Chunks
    BY <1>8 DEF loadVars, Chunks
  <2>2. \A n : LoadedFrom(n)' <=> LoadedFrom(n)
    BY <2>1 DEF LoadedFrom
  <2> QED
    BY <1>8, <2>1, <2>2 DEF StartIInv, LoadInv
<1>9. CASE Lookup
  <2>1. IInv'
    BY <1>9, NextIInv DEF Lookup, StartIInv
  <2>2. routes' = routes
    BY <1>9 DEF Lookup, Next, RefuseArguments, StartScan, TakeRoute, SkipRoute, EndScan
  <2> QED
    BY <1>8, <1>9, <2>1, <2>2 DEF Lookup
<1>10. CASE NextRequest
  <2>1. routes' = routes /\ path' \in Paths /\ pc' = "enter" /\ i' = 1 /\ best_match' = NoBackend
        /\ best_match_len' = 0 /\ phase = "serve" /\ UNCHANGED loadVars
    BY <1>10 DEF NextRequest
  <2>2. Init'
    BY <1>0, <2>1 DEF Init, NoBackend
  <2>3. IInv'
    BY <2>2, InitIInv, PTL
  <2> QED
    BY <1>8, <2>1, <2>3
<1>11. CASE UNCHANGED <<vars, loadVars>>
  <2>1. IInv'
    BY <1>11, NextIInv DEF StartIInv
  <2>2. phase' = phase /\ file' = file /\ routes' = routes /\ rest' = rest /\ Chunks' = Chunks
        /\ (Idle' <=> Idle)
    BY <1>11 DEF loadVars, vars, Chunks, Idle, NoBackend
  <2>3. \A n : LoadedFrom(n)' <=> LoadedFrom(n)
    BY <2>2 DEF LoadedFrom
  <2> QED
    BY <2>1, <2>2, <2>3 DEF StartIInv, LoadInv
<1> QED
    BY <1>1, <1>2, <1>3, <1>5, <1>6, <1>7, <1>9, <1>10, <1>11 DEF StartNext

LEMMA InvLoaded == StartIInv => LoadedAsWritten
<1> SUFFICES ASSUME StartIInv PROVE LoadedAsWritten
    OBVIOUS
<1>0. /\ file \in Files /\ Len(routes) \in Nat /\ Len(routes) <= MAX_ROUTES /\ MAX_ROUTES \in Nat
      /\ Chunks \in Seq(FileTexts)
    BY TableLength, FileTypes, FilesAssumption DEF StartIInv, IInv, TypeOK, LoadInv, Chunks
<1> SUFFICES ASSUME phase = "serve", \A n \in DOMAIN file : Fits(file[n])
             PROVE  routes = SubSeq(Written, 1, IF Len(Written) < MAX_ROUTES THEN Len(Written)
                                                ELSE MAX_ROUTES)
    BY <1>0 DEF LoadedAsWritten
<1> DEFINE V == {x.route : x \in FileTexts}
<1>1. Written = RoutesAmong(Chunks) /\ Written \in Seq(V)
  <2>1. Written = RoutesAmong(SaysOf(file))
    BY DEF Written, SaysOf
  <2>2. SaysOf(file) \in Seq(FileTexts) /\ RoutesAmong(Chunks) = RoutesAmong(SaysOf(file))
    BY <1>0, FittingFile DEF Chunks
  <2> QED
    BY <2>1, <2>2, AmongType
<1>2. PICK n \in 0 .. Len(Chunks) : LoadedFrom(n) /\ (n = Len(Chunks) \/ Len(routes) = MAX_ROUTES)
    BY DEF StartIInv, LoadInv
<1>3. n \in 0 .. Len(Chunks) /\ routes = RoutesAmong(SubSeq(Chunks, 1, n))
    BY <1>2 DEF LoadedFrom
<1>4. Begins(routes, Written)
    BY <1>0, <1>1, <1>3, AmongBegins
<1>5. CASE n = Len(Chunks)
  <2>1. routes = Written
    <3>1. SubSeq(Chunks, 1, Len(Chunks)) = Chunks
      BY <1>0
    <3> QED
      BY <1>1, <1>3, <1>5, <3>1
  <2>2. SubSeq(Written, 1, Len(Written)) = Written
    BY <1>1
  <2>3. Len(Written) <= MAX_ROUTES /\ Len(Written) \in Nat
    BY <1>0, <2>1
  <2>4. (IF Len(Written) < MAX_ROUTES THEN Len(Written) ELSE MAX_ROUTES) = Len(Written)
    BY <1>0, <2>3
  <2> QED
    BY <2>1, <2>2, <2>4
<1>6. CASE Len(routes) = MAX_ROUTES
    BY <1>0, <1>1, <1>4, <1>6 DEF Begins
<1> QED
    BY <1>2, <1>5, <1>6

\* From the start of main on, the table is one that the configuration allows, and
\* find_backend never leaves it.
THEOREM StartTypeCorrect == StartSpec => []TypeOK
<1>1. StartIInv => TypeOK
    BY DEF StartIInv, IInv
<1> QED
    BY <1>1, StartInitInv, StartNextInv, PTL DEF StartSpec

\* Every lookup in the table that load_routes filled returns the longest match.
THEOREM ServedLookupCorrect == StartSpec => []LongestPrefixMatch
<1>1. StartIInv => LongestPrefixMatch
    BY InvResult DEF StartIInv
<1> QED
    BY <1>1, StartInitInv, StartNextInv, PTL DEF StartSpec

\* load_routes never stores more routes than there is room for, and of a file
\* whose lines all fit it stores the first routes, in their order.
THEOREM RoutesLoaded == StartSpec => []LoadedAsWritten
    BY InvLoaded, StartInitInv, StartNextInv, PTL DEF StartSpec
=============================================================================
