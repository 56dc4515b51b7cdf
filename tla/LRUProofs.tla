------------------------------ MODULE LRUProofs ------------------------------
(***************************************************************************)
(* Both caches of src/lru, for all keys, values, capacities and hash       *)
(* functions: the array is a least-recently-used cache, and the list with  *)
(* its hash table holds the same entries until it crashes.                 *)
(***************************************************************************)
EXTENDS LRUCaches, FiniteSetTheorems, SequenceTheorems, WellFoundedInduction, TLAPS

\* No key is in the array twice.
Distinct == \A i, j \in 0 .. size - 1 : arr[i].key = arr[j].key => i = j
Inv == TypeOK /\ Distinct

\* The scan finds the one place of a key, and -1 for a key that is not there.
LEMMA IndexIs ==
    ASSUME Inv, NEW k
    PROVE  /\ \A i \in 0 .. size - 1 : arr[i].key = k => indexKey(k) = i
           /\ (\A i \in 0 .. size - 1 : arr[i].key # k) => indexKey(k) = -1
           /\ indexKey(k) # -1 => /\ indexKey(k) \in 0 .. size - 1
                                  /\ arr[indexKey(k)].key = k
<1> DEFINE hits == {i \in 0 .. size - 1 : arr[i].key = k}
<1>1. indexKey(k) = IF hits = {} THEN -1 ELSE CHOOSE i \in hits : \A j \in hits : i <= j
    BY DEF indexKey
<1>2. size \in Nat
    BY CapacitiesAssumption DEF Inv, TypeOK
<1>3. ASSUME NEW i \in 0 .. size - 1, arr[i].key = k PROVE hits = {i} /\ indexKey(k) = i
  <2>1. hits = {i}
    BY <1>3 DEF Inv, Distinct
  <2>2. i <= i
    BY <1>2
  <2> HIDE DEF hits
  <2> QED
    BY <1>1, <2>1, <2>2
<1>4. (\A i \in 0 .. size - 1 : arr[i].key # k) => hits = {}
    OBVIOUS
<1>5. hits # {} => \E i \in 0 .. size - 1 : arr[i].key = k
    OBVIOUS
<1> HIDE DEF hits
<1>6. (\A i \in 0 .. size - 1 : arr[i].key # k) => indexKey(k) = -1
    BY <1>1, <1>4
<1>7. indexKey(k) # -1 => \E i \in 0 .. size - 1 : arr[i].key = k
    BY <1>1, <1>5
<1> QED
    BY <1>3, <1>6, <1>7

\* The keys at the first size places without the place last.
Staying(last) == {arr[i].key : i \in (0 .. size - 1) \ {last}}

SizeAfter(last) == IF last = size THEN size + 1 ELSE size

\* What each branch of lruCachePut and getLruCache does to the array: the
\* entries of all places but last stay, in their order, behind the given one.
Use(last, entry) ==
    /\ last \in 0 .. size /\ last < capacity
    /\ entry \in Entries
    /\ \A i \in (0 .. size - 1) \ {last} : arr[i].key # entry.key
    /\ arr' = Shifted(last, entry)
    /\ size' = SizeAfter(last)
    /\ capacity' = capacity

\* Where the entry of place i goes, and where that of place i comes from.
To(last, i) == IF i < last THEN i + 1 ELSE i
Of(last, i) == IF i <= last THEN i - 1 ELSE i

LEMMA PlacesAfterUse ==
    ASSUME Inv, NEW last, NEW entry, Use(last, entry)
    PROVE  /\ size \in Nat /\ capacity \in Nat /\ last \in Nat
           /\ SizeAfter(last) \in Nat /\ SizeAfter(last) >= 1 /\ SizeAfter(last) <= capacity
           /\ arr'[0] = entry
           /\ \A i \in (0 .. size - 1) \ {last} :
                 /\ To(last, i) \in 1 .. SizeAfter(last) - 1
                 /\ arr'[To(last, i)] = arr[i]
           /\ \A i \in 1 .. SizeAfter(last) - 1 :
                 /\ Of(last, i) \in (0 .. size - 1) \ {last}
                 /\ arr'[i] = arr[Of(last, i)]
<1> DEFINE n == SizeAfter(last)
<1>1. size \in Nat /\ size <= capacity /\ capacity \in Nat /\ DOMAIN arr = 0 .. capacity - 1
      /\ last \in Nat /\ last <= size /\ last < capacity
    BY CapacitiesAssumption DEF Inv, TypeOK, Use
<1>2. \A i \in 0 .. capacity - 1 :
        arr'[i] = IF i = 0 THEN entry ELSE IF i <= last THEN arr[i - 1] ELSE arr[i]
    BY <1>1 DEF Use, Shifted
<1>3. n = IF last = size THEN size + 1 ELSE size
    BY DEF SizeAfter
<1> HIDE DEF n
<1>4. n \in Nat /\ n >= 1 /\ n <= capacity
    BY <1>1, <1>3
<1>5. ASSUME NEW i \in (0 .. size - 1) \ {last}
      PROVE  To(last, i) \in 1 .. n - 1 /\ arr'[To(last, i)] = arr[i]
  <2>1. CASE i < last
    <3>1. i + 1 \in 0 .. capacity - 1 /\ i + 1 # 0 /\ i + 1 <= last /\ (i + 1) - 1 = i
          /\ i + 1 \in 1 .. n - 1
      BY <1>1, <1>3, <2>1
    <3> QED
      BY <1>2, <2>1, <3>1 DEF To
  <2>2. CASE ~(i < last)
    <3>1. i \in 0 .. capacity - 1 /\ i # 0 /\ ~(i <= last) /\ i \in 1 .. n - 1
      BY <1>1, <1>3, <2>2
    <3> QED
      BY <1>2, <2>2, <3>1 DEF To
  <2> QED
    BY <2>1, <2>2
<1>6. ASSUME NEW i \in 1 .. n - 1
      PROVE  Of(last, i) \in (0 .. size - 1) \ {last} /\ arr'[i] = arr[Of(last, i)]
  <2>1. i \in 0 .. capacity - 1 /\ i # 0
    BY <1>1, <1>4
  <2>2. CASE i <= last
    <3>1. i - 1 \in (0 .. size - 1) \ {last}
      BY <1>1, <1>3, <2>2
    <3> QED
      BY <1>2, <2>1, <2>2, <3>1 DEF Of
  <2>3. CASE ~(i <= last)
    <3>1. i \in (0 .. size - 1) \ {last}
      BY <1>1, <1>3, <2>3
    <3> QED
      BY <1>2, <2>1, <2>3, <3>1 DEF Of
  <2> QED
    BY <2>2, <2>3
<1>7. arr'[0] = entry
    BY <1>1, <1>2
<1> QED
    BY <1>1, <1>4, <1>5, <1>6, <1>7 DEF n

\* The types and the distinct keys survive a use.
LEMMA UseKeepsInv ==
    ASSUME Inv, NEW last, NEW entry, Use(last, entry)
    PROVE  Inv'
<1> DEFINE n == SizeAfter(last)
<1>0. /\ size \in Nat /\ capacity \in Nat /\ last \in Nat
      /\ n \in Nat /\ n >= 1 /\ n <= capacity /\ arr'[0] = entry
    BY PlacesAfterUse
<1>1. \A i \in 1 .. n - 1 : Of(last, i) \in (0 .. size - 1) \ {last} /\ arr'[i] = arr[Of(last, i)]
    BY PlacesAfterUse
<1>2. size' = n
    BY DEF Use
<1> HIDE DEF n
<1>3. TypeOK'
  <2>1. capacity' \in Capacities /\ n \in 0 .. capacity
    BY <1>0 DEF Inv, TypeOK, Use
  <2>2. arr' \in [0 .. capacity - 1 -> Entries \cup {Unwritten}]
    <3>1. \A i \in 0 .. capacity - 1 : i # 0 => i - 1 \in 0 .. capacity - 1
      BY <1>0
    <3> QED
      BY <3>1 DEF Inv, TypeOK, Use, Shifted
  <2>3. \A i \in 0 .. n - 1 : arr'[i] \in Entries
    <3> TAKE i \in 0 .. n - 1
    <3>1. i = 0 \/ i \in 1 .. n - 1
      BY <1>0
    <3> QED
      BY <1>0, <1>1, <3>1 DEF Inv, TypeOK, Use
  <2>4. capacity' = capacity
    BY DEF Use
  <2> QED
    BY <1>2, <2>1, <2>2, <2>3, <2>4 DEF TypeOK
<1>4. Distinct'
  <2>1. ASSUME NEW i \in 0 .. n - 1, NEW j \in 0 .. n - 1, arr'[i].key = arr'[j].key
        PROVE  i = j
    <3>1. ASSUME NEW m \in 1 .. n - 1 PROVE arr'[m].key # entry.key
      BY <1>1 DEF Use
    <3>2. (i = 0 \/ i \in 1 .. n - 1) /\ (j = 0 \/ j \in 1 .. n - 1)
      BY <1>0
    <3>3. CASE i \in 1 .. n - 1 /\ j \in 1 .. n - 1
      <4>1. Of(last, i) \in 0 .. size - 1 /\ Of(last, j) \in 0 .. size - 1
            /\ arr[Of(last, i)].key = arr[Of(last, j)].key
            /\ Of(last, i) # last /\ Of(last, j) # last
        BY <1>1, <2>1, <3>3
      <4>2. Of(last, i) = Of(last, j)
        BY <4>1 DEF Inv, Distinct
      <4>3. i \in Nat /\ j \in Nat
        BY <3>3
      <4> QED
        BY <1>0, <4>1, <4>2, <4>3 DEF Of
    <3> QED
      BY <1>0, <2>1, <3>1, <3>2, <3>3
  <2> QED
    BY <1>2, <2>1 DEF Distinct
<1> QED
    BY <1>3, <1>4 DEF Inv

-----------------------------------------------------------------------------
\* The array as the abstract cache sees it.
LEMMA SeenIs ==
    ASSUME Inv
    PROVE  /\ Abstract!Cached = {arr[i].key : i \in 0 .. size - 1}
           /\ Abstract!Cached \subseteq Keys
           /\ \A i \in 0 .. size - 1 : Store[arr[i].key] = arr[i].value
           /\ \A k \in Keys \ Abstract!Cached : Store[k] = NoValue
<1>1. \A i \in 0 .. size - 1 : arr[i].key \in Keys /\ arr[i].value \in Values
    BY DEF Inv, TypeOK, Entries
<1>2. \A k \in Keys : Store[k] = IF indexKey(k) = -1 THEN NoValue ELSE arr[indexKey(k)].value
    BY DEF Store
<1>3. ASSUME NEW i \in 0 .. size - 1 PROVE Store[arr[i].key] = arr[i].value
  <2>1. indexKey(arr[i].key) = i
    BY IndexIs
  <2>2. i # -1
    BY DEF Inv, TypeOK
  <2> QED
    BY <1>1, <1>2, <2>1, <2>2
<1>4. ASSUME NEW k \in Keys, \A i \in 0 .. size - 1 : arr[i].key # k PROVE Store[k] = NoValue
    BY <1>2, <1>4, IndexIs
<1>5. Abstract!Cached = {arr[i].key : i \in 0 .. size - 1}
  <2>1. \A k \in Keys : k \in Abstract!Cached <=> Store[k] # NoValue
    BY DEF Abstract!Cached
  <2>2. Abstract!Cached \subseteq Keys
    BY DEF Abstract!Cached
  <2> QED
    BY <1>1, <1>3, <1>4, <2>1, <2>2, ValuesAssumption
<1> QED
    BY <1>1, <1>3, <1>4, <1>5

LEMMA CachedCount == Inv => Cardinality(Abstract!Cached) = size
<1> SUFFICES ASSUME Inv PROVE Cardinality(Abstract!Cached) = size
    OBVIOUS
<1> DEFINE C == Abstract!Cached
           f == [i \in 0 .. size - 1 |-> arr[i].key]
<1>1. C = {arr[i].key : i \in 0 .. size - 1}
    BY SeenIs
<1>2. size \in Nat
    BY CapacitiesAssumption DEF Inv, TypeOK
<1>3. IsFiniteSet(0 .. size - 1) /\ Cardinality(0 .. size - 1) = size
    BY <1>2, FS_Interval
<1> HIDE DEF C
<1>4. f \in Surjection(0 .. size - 1, C)
    BY <1>1 DEF Surjection
<1>5. f \in Injection(0 .. size - 1, C)
    BY <1>1 DEF Injection, IsInjective, Inv, Distinct
<1> HIDE DEF f
<1>6. Cardinality(C) = Cardinality(0 .. size - 1)
    BY <1>3, <1>4, <1>5, FS_Surjection
<1> QED
    BY <1>3, <1>6 DEF C

SeenRight ==
    /\ Abstract!Cached = {arr[i].key : i \in 0 .. size - 1}
    /\ \A i \in 0 .. size - 1 : Store[arr[i].key] = arr[i].value
    /\ \A k \in Keys \ Abstract!Cached : Store[k] = NoValue

LEMMA SeenAlways == Inv => SeenRight
    BY SeenIs DEF SeenRight

LEMMA UseSeen ==
    ASSUME Inv, NEW last, NEW entry, Use(last, entry)
    PROVE  /\ Store' = [k \in Keys |-> IF k = entry.key THEN entry.value
                                       ELSE IF k \in Staying(last) THEN Store[k] ELSE NoValue]
           /\ Newer' = {p \in Newer : p[1] \in Staying(last) /\ p[2] \in Staying(last)}
                            \cup {entry.key} \X Staying(last)
           /\ Staying(last) \subseteq Keys
<1> DEFINE n == SizeAfter(last)
<1>0. SeenRight /\ SeenRight'
  <2>1. Inv'
    BY UseKeepsInv
  <2>2. SeenRight'
    BY <2>1, SeenAlways, PTL
  <2> QED
    BY <2>2, SeenAlways
<1>1. /\ size \in Nat /\ last \in Nat /\ n \in Nat /\ n >= 1 /\ arr'[0] = entry
      /\ \A i \in (0 .. size - 1) \ {last} :
            To(last, i) \in 1 .. n - 1 /\ arr'[To(last, i)] = arr[i]
      /\ \A i \in 1 .. n - 1 :
            Of(last, i) \in (0 .. size - 1) \ {last} /\ arr'[i] = arr[Of(last, i)]
    BY PlacesAfterUse
<1>2. size' = n
    BY DEF Use
<1> HIDE DEF n
<1>3. /\ Abstract!Cached' = {arr'[i].key : i \in 0 .. n - 1}
      /\ \A i \in 0 .. n - 1 : Store'[arr'[i].key] = arr'[i].value
      /\ \A k \in Keys \ Abstract!Cached' : Store'[k] = NoValue
    BY <1>0, <1>2 DEF SeenRight
<1>4. \A i \in (0 .. size - 1) \ {last} : Store[arr[i].key] = arr[i].value
    BY <1>0 DEF SeenRight
<1>5. /\ Staying(last) \subseteq Keys /\ entry.key \in Keys /\ entry.key \notin Staying(last)
    BY DEF Use, Staying, Inv, TypeOK, Entries
<1>6. 0 \in 0 .. n - 1 /\ \A i \in 0 .. n - 1 : i = 0 \/ i \in 1 .. n - 1
    BY <1>1
<1>7. \A i \in 1 .. n - 1 : i \in 0 .. n - 1 /\ arr'[i].key \in Staying(last)
    BY <1>1 DEF Staying
<1>8. Store'[entry.key] = entry.value
    BY <1>1, <1>3, <1>6
<1>9. ASSUME NEW k \in Staying(last) PROVE Store'[k] = Store[k]
  <2>1. PICK i \in (0 .. size - 1) \ {last} : k = arr[i].key
    BY DEF Staying
  <2>2. To(last, i) \in 0 .. n - 1 /\ arr'[To(last, i)] = arr[i]
    BY <1>1, <1>7
  <2> QED
    BY <1>3, <1>4, <2>1, <2>2
<1>10. ASSUME NEW k \in Keys, k # entry.key, k \notin Staying(last) PROVE Store'[k] = NoValue
  <2>1. k \notin Abstract!Cached'
    BY <1>1, <1>3, <1>6, <1>7, <1>10
  <2> QED
    BY <1>3, <2>1
<1>11. Store' = [k \in Keys |-> IF k = entry.key THEN entry.value
                                ELSE IF k \in Staying(last) THEN Store[k] ELSE NoValue]
  <2>1. Store' = [k \in Keys |-> Store'[k]]
    BY DEF Store
  <2> QED
    BY <1>8, <1>9, <1>10, <2>1, Zenon
<1> DEFINE Old == {p \in Newer : p[1] \in Staying(last) /\ p[2] \in Staying(last)}
           New == {entry.key} \X Staying(last)
<1>12. \A a, b : <<a, b>> \in Newer <=> /\ a \in Keys /\ b \in Keys
                                        /\ \E i, j \in 0 .. size - 1 :
                                              i < j /\ arr[i].key = a /\ arr[j].key = b
    BY DEF Newer
<1>13. \A a, b : <<a, b>> \in Newer' <=> /\ a \in Keys /\ b \in Keys
                                         /\ \E i, j \in 0 .. n - 1 :
                                              i < j /\ arr'[i].key = a /\ arr'[j].key = b
    BY <1>2 DEF Newer
<1>14. \A i, j \in 1 .. n - 1 : i < j => Of(last, i) < Of(last, j)
    BY <1>1 DEF Of
<1>15. \A i, j \in (0 .. size - 1) \ {last} : i < j => To(last, i) < To(last, j)
    BY <1>1 DEF To
<1>16. ASSUME NEW a, NEW b, <<a, b>> \in Newer' PROVE <<a, b>> \in Old \cup New
  <2>1. PICK i \in 0 .. n - 1 : \E j \in 0 .. n - 1 :
            i < j /\ arr'[i].key = a /\ arr'[j].key = b
    BY <1>13, <1>16
  <2>2. PICK j \in 0 .. n - 1 : i < j /\ arr'[i].key = a /\ arr'[j].key = b
    BY <2>1
  <2>3. a \in Keys /\ b \in Keys
    BY <1>13, <1>16
  <2>4. j \in 1 .. n - 1
    BY <1>1, <2>2
  <2>5. CASE i = 0
    BY <1>1, <1>7, <2>2, <2>4, <2>5
  <2>6. CASE i \in 1 .. n - 1
    <3>1. Of(last, i) \in 0 .. size - 1 /\ Of(last, j) \in 0 .. size - 1
          /\ Of(last, i) < Of(last, j)
          /\ arr[Of(last, i)].key = a /\ arr[Of(last, j)].key = b
      BY <1>1, <1>14, <2>2, <2>4, <2>6
    <3>2. <<a, b>> \in Newer
      BY <1>12, <2>3, <3>1
    <3>3. a \in Staying(last) /\ b \in Staying(last)
      BY <1>7, <2>2, <2>4, <2>6
    <3> QED
      BY <3>2, <3>3
  <2> QED
    BY <1>6, <2>5, <2>6
<1>17. ASSUME NEW a, NEW b, <<a, b>> \in New PROVE <<a, b>> \in Newer'
  <2>1. a = entry.key /\ b \in Staying(last)
    BY <1>17
  <2>2. PICK j \in (0 .. size - 1) \ {last} : b = arr[j].key
    BY <2>1 DEF Staying
  <2>3. To(last, j) \in 1 .. n - 1 /\ arr'[To(last, j)].key = b
    BY <1>1, <2>2
  <2>4. 0 < To(last, j) /\ To(last, j) \in 0 .. n - 1
    BY <1>1, <2>3
  <2> QED
    BY <1>1, <1>5, <1>6, <1>13, <2>1, <2>3, <2>4
<1>18. ASSUME NEW a, NEW b, <<a, b>> \in Old PROVE <<a, b>> \in Newer'
  <2>1. <<a, b>> \in Newer /\ a \in Staying(last) /\ b \in Staying(last)
    BY <1>18
  <2>2. PICK i \in 0 .. size - 1 : \E j \in 0 .. size - 1 :
            i < j /\ arr[i].key = a /\ arr[j].key = b
    BY <1>12, <2>1
  <2>3. PICK j \in 0 .. size - 1 : i < j /\ arr[i].key = a /\ arr[j].key = b
    BY <2>2
  <2>4. i # last /\ j # last
    <3>1. \A m \in 0 .. size - 1 : arr[m].key \in Staying(last) => m # last
      <4> SUFFICES ASSUME NEW m \in 0 .. size - 1, arr[m].key \in Staying(last)
                   PROVE  m # last
        OBVIOUS
      <4>1. PICK l \in (0 .. size - 1) \ {last} : arr[m].key = arr[l].key
        BY DEF Staying
      <4> QED
        BY <4>1 DEF Inv, Distinct
    <3> QED
      BY <2>1, <2>3, <3>1
  <2>5. /\ To(last, i) \in 0 .. n - 1 /\ To(last, j) \in 0 .. n - 1
        /\ To(last, i) < To(last, j)
        /\ arr'[To(last, i)].key = a /\ arr'[To(last, j)].key = b
    BY <1>1, <1>7, <1>15, <2>3, <2>4
  <2> QED
    BY <1>5, <1>13, <2>1, <2>5
<1>19. Newer' = Old \cup New
  <2>1. Newer' \subseteq Keys \X Keys /\ Old \subseteq Keys \X Keys /\ New \subseteq Keys \X Keys
    BY <1>5 DEF Newer
  <2> HIDE DEF Old, New
  <2> QED
    BY <1>16, <1>17, <1>18, <2>1
<1> QED
    BY <1>5, <1>11, <1>19

-----------------------------------------------------------------------------
\* Each call is a use of the place its loop starts at.
LEMMA CallsUse ==
    ASSUME Inv, NEW key \in Keys, NEW value \in Values
    PROVE  /\ getLruCache(key) =>
                 LET i == indexKey(key)
                 IN  i \in 0 .. size - 1 /\ arr[i].key = key /\ Use(i, arr[i])
           /\ Update(key, value) =>
                 LET i == indexKey(key)
                 IN  i \in 0 .. size - 1 /\ arr[i].key = key
                     /\ Use(i, [key |-> key, value |-> value])
           /\ Insert(key, value) =>
                 size < capacity /\ Use(size, [key |-> key, value |-> value])
           /\ Replace(key, value) =>
                 size = capacity /\ Use(size - 1, [key |-> key, value |-> value])
<1> DEFINE e == [key |-> key, value |-> value]
<1>1. /\ size \in Nat /\ capacity \in Nat /\ capacity >= 1 /\ size <= capacity
      /\ \A i \in 0 .. size - 1 : arr[i] \in Entries
      /\ e \in Entries /\ e.key = key
    BY CapacitiesAssumption DEF Inv, TypeOK, Entries
<1> HIDE DEF e
<1>2. ASSUME indexKey(key) # -1
      PROVE  LET i == indexKey(key)
             IN  /\ i \in 0 .. size - 1 /\ arr[i].key = key
                 /\ i \in 0 .. size /\ i < capacity /\ SizeAfter(i) = size
                 /\ \A j \in (0 .. size - 1) \ {i} : arr[j].key # key
                 /\ [arr[i] EXCEPT !.value = value] = e
  <2> DEFINE i == indexKey(key)
  <2>1. i \in 0 .. size - 1 /\ arr[i].key = key
    BY <1>2, IndexIs
  <2>2. \A j \in (0 .. size - 1) \ {i} : arr[j].key # key
    BY IndexIs
  <2> HIDE DEF i
  <2>3. i \in 0 .. size /\ i < capacity /\ SizeAfter(i) = size
    BY <1>1, <2>1 DEF SizeAfter
  <2>4. [arr[i] EXCEPT !.value = value] = e
    BY <1>1, <2>1 DEF Entries, e
  <2> QED
    BY <2>1, <2>2, <2>3, <2>4 DEF i
<1>3. ASSUME indexKey(key) = -1 PROVE \A j \in 0 .. size - 1 : arr[j].key # key
  <2> SUFFICES ASSUME NEW j \in 0 .. size - 1, arr[j].key = key PROVE FALSE
    OBVIOUS
  <2>1. j = -1
    BY <1>3, IndexIs
  <2> QED
    BY <2>1, <1>1
<1>4. getLruCache(key) => LET i == indexKey(key)
                          IN  i \in 0 .. size - 1 /\ arr[i].key = key /\ Use(i, arr[i])
    BY <1>1, <1>2 DEF getLruCache, changeOrder, Use
<1>5. Update(key, value) => LET i == indexKey(key)
                            IN  i \in 0 .. size - 1 /\ arr[i].key = key /\ Use(i, e)
    BY <1>1, <1>2 DEF Update, changeOrder, Use
<1>6. Insert(key, value) => size < capacity /\ Use(size, e)
  <2> SUFFICES ASSUME Insert(key, value) PROVE size < capacity /\ Use(size, e)
    OBVIOUS
  <2>1. SizeAfter(size) = size + 1 /\ size \in 0 .. size
    BY <1>1 DEF SizeAfter
  <2> QED
    BY <1>1, <1>3, <2>1 DEF Insert, Use, e
<1>7. Replace(key, value) => size = capacity /\ Use(size - 1, e)
  <2> SUFFICES ASSUME Replace(key, value) PROVE size = capacity /\ Use(size - 1, e)
    OBVIOUS
  <2>1. size = capacity
    BY <1>1 DEF Replace
  <2>2. SizeAfter(size - 1) = size /\ size - 1 \in 0 .. size /\ size - 1 < capacity
    BY <1>1, <2>1 DEF SizeAfter
  <2> QED
    BY <1>1, <1>3, <2>1, <2>2 DEF Replace, Use, e
<1> QED
    BY <1>4, <1>5, <1>6, <1>7 DEF e

LEMMA ArrayInductive == Inv /\ [Next]_vars => Inv'
<1> SUFFICES ASSUME Inv, [Next]_vars PROVE Inv'
    OBVIOUS
<1>1. ASSUME NEW key \in Keys, getLruCache(key) PROVE Inv'
  <2>1. Use(indexKey(key), arr[indexKey(key)])
    <3>1. indexKey(key) \in 0 .. size - 1
      BY <1>1, IndexIs DEF getLruCache
    <3>2. arr[indexKey(key)].value \in Values
      BY <3>1 DEF Inv, TypeOK, Entries
    <3> QED
      BY <1>1, <3>2, CallsUse
  <2> QED
    BY <2>1, UseKeepsInv
<1>2. ASSUME NEW key \in Keys, NEW value \in Values, lruCachePut(key, value) PROVE Inv'
    BY <1>2, CallsUse, UseKeepsInv DEF lruCachePut
<1>3. CASE UNCHANGED vars
    BY <1>3 DEF vars, Inv, TypeOK, Distinct
<1> QED
    BY <1>1, <1>2, <1>3 DEF Next

LEMMA ArrayInit == Init => Inv
<1> SUFFICES ASSUME Init PROVE Inv
    OBVIOUS
<1>1. capacity \in Nat /\ size = 0 /\ 0 .. size - 1 = {}
    BY CapacitiesAssumption DEF Init
<1> QED
    BY <1>1 DEF Init, Inv, TypeOK, Distinct

-----------------------------------------------------------------------------
\* Each call is a step of the abstract cache.
LEMMA AbstractInit == Init => Abstract!Init
<1> SUFFICES ASSUME Init PROVE Abstract!Init
    OBVIOUS
<1>1. Inv /\ 0 .. size - 1 = {}
    BY ArrayInit DEF Init
<1>2. Abstract!Cached = {}
    BY <1>1, SeenIs
<1>3. \A k \in Keys : Store[k] = NoValue
    BY <1>1, <1>2, SeenIs
<1>4. Store = [k \in Keys |-> NoValue]
    BY <1>3 DEF Store
<1>5. Newer = {}
    BY <1>1 DEF Newer
<1> QED
    BY <1>4, <1>5 DEF Init, Abstract!Init

\* A use is what the abstract cache calls one: k becomes the newest.
LEMMA UseIsUsed ==
    ASSUME Inv, NEW last, NEW entry, Use(last, entry), NEW stay,
           stay \ {entry.key} = Staying(last)
    PROVE  Newer' = Abstract!UsedAmong(entry.key, stay)
    BY UseSeen DEF Abstract!UsedAmong

LEMMA AbstractStep == Inv /\ [Next]_vars => [Abstract!Next]_(Abstract!vars)
<1> SUFFICES ASSUME Inv, [Next]_vars PROVE [Abstract!Next]_(Abstract!vars)
    OBVIOUS
<1> DEFINE C == Abstract!Cached
<1>1. /\ C = {arr[i].key : i \in 0 .. size - 1} /\ C \subseteq Keys
      /\ \A i \in 0 .. size - 1 : Store[arr[i].key] = arr[i].value
      /\ \A k \in Keys \ C : Store[k] = NoValue
    BY SeenIs
<1>2. Cardinality(C) = size /\ Abstract!Cardinality(C) = size
  <2>1. Abstract!Cardinality(C) = Cardinality(C)
    BY DEF Cardinality, Abstract!Cardinality
  <2> QED
    BY <2>1, CachedCount
<1>3. ASSUME NEW i \in 0 .. size - 1 PROVE C \ {arr[i].key} = Staying(i)
    BY <1>1 DEF Staying, Inv, Distinct
<1>4. ASSUME NEW key \in Keys, getLruCache(key) PROVE Abstract!Next
  <2> DEFINE i == indexKey(key)
  <2>1. i \in 0 .. size - 1 /\ arr[i].key = key
    BY <1>4, IndexIs DEF getLruCache
  <2>2. arr[i].value \in Values
    BY <2>1 DEF Inv, TypeOK, Entries
  <2>3. Use(i, arr[i])
    BY <1>4, <2>2, CallsUse
  <2> HIDE DEF i
  <2>4. Newer' = Abstract!UsedAmong(key, C)
    BY <1>3, <2>1, <2>3, UseIsUsed
  <2>5. Store' = Store
    <3>1. Store' = [k \in Keys |-> IF k = key THEN arr[i].value
                                   ELSE IF k \in Staying(i) THEN Store[k] ELSE NoValue]
      BY <2>1, <2>3, UseSeen
    <3>2. \A k \in Keys : Store[k] = IF k = key THEN arr[i].value
                                   ELSE IF k \in Staying(i) THEN Store[k] ELSE NoValue
      BY <1>1, <1>3, <2>1
    <3>3. Store = [k \in Keys |-> Store[k]]
      BY DEF Store
    <3> HIDE DEF Store
    <3> QED
      BY <3>1, <3>2, <3>3
  <2>6. key \in C /\ capacity' = capacity
    BY <1>1, <2>1, <2>3 DEF Use
  <2> QED
    BY <2>4, <2>5, <2>6 DEF Abstract!Next, Abstract!Get
<1>5. ASSUME NEW key \in Keys, NEW value \in Values, lruCachePut(key, value) PROVE Abstract!Next
  <2> DEFINE e == [key |-> key, value |-> value]
  <2>1. CASE Update(key, value)
    <3> DEFINE i == indexKey(key)
    <3>1. i \in 0 .. size - 1 /\ arr[i].key = key /\ Use(i, e)
      BY <2>1, CallsUse
    <3> HIDE DEF i
    <3>2. Newer' = Abstract!UsedAmong(key, C)
      <4>1. C \ {e.key} = Staying(i)
        BY <1>3, <3>1
      <4> QED
        BY <3>1, <4>1, UseIsUsed
    <3>3. Store' = [Store EXCEPT ![key] = value]
      <4>1. Store' = [k \in Keys |-> IF k = key THEN value
                                   ELSE IF k \in Staying(i) THEN Store[k] ELSE NoValue]
        BY <3>1, UseSeen
      <4>2. \A k \in Keys : k # key => Store[k] = IF k \in Staying(i) THEN Store[k] ELSE NoValue
        BY <1>1, <1>3, <3>1
      <4>3. DOMAIN Store = Keys
        BY DEF Store
      <4> HIDE DEF Store
      <4> QED
        BY <4>1, <4>2, <4>3
    <3>4. key \in C /\ capacity' = capacity
      BY <1>1, <3>1 DEF Use
    <3> QED
      BY <3>2, <3>3, <3>4 DEF Abstract!Next, Abstract!Put
  <2>2. CASE Insert(key, value)
    <3>1. size < capacity /\ Use(size, e)
      BY <2>2, CallsUse
    <3>2. size \in Nat /\ (0 .. size - 1) \ {size} = 0 .. size - 1
      BY CapacitiesAssumption DEF Inv, TypeOK
    <3>3. C = Staying(size) /\ key \notin C
      BY <1>1, <3>1, <3>2 DEF Staying, Use
    <3>4. Newer' = Abstract!UsedAmong(key, C)
      <4>1. C \ {e.key} = Staying(size)
        BY <3>3
      <4> QED
        BY <3>1, <4>1, UseIsUsed
    <3>5. Store' = [Store EXCEPT ![key] = value]
      <4>1. Store' = [k \in Keys |-> IF k = key THEN value
                                   ELSE IF k \in Staying(size) THEN Store[k] ELSE NoValue]
        BY <3>1, UseSeen
      <4>2. \A k \in Keys : k # key => Store[k] = IF k \in Staying(size) THEN Store[k] ELSE NoValue
        BY <1>1, <3>3
      <4>3. DOMAIN Store = Keys
        BY DEF Store
      <4> HIDE DEF Store
      <4> QED
        BY <4>1, <4>2, <4>3
    <3>6. Abstract!Cardinality(C) < capacity /\ capacity' = capacity
      BY <1>2, <3>1 DEF Use
    <3>7. Abstract!Put(key, value)
      BY <3>4, <3>5, <3>6 DEF Abstract!Put
    <3> QED
      BY <3>7 DEF Abstract!Next
  <2>3. CASE Replace(key, value)
    <3> DEFINE last == size - 1
               old == arr[last].key
    <3>1. size = capacity /\ Use(last, e)
      BY <2>3, CallsUse
    <3>2. last \in 0 .. size - 1
      BY <3>1, CapacitiesAssumption DEF Inv, TypeOK
    <3>3. \A i \in 0 .. size - 1 : i # last => i < last
      BY <3>2
    <3> HIDE DEF last
    <3>4. old \in C /\ C \ {old} = Staying(last)
      BY <1>1, <1>3, <3>2
    <3>5. key \notin C
      BY <1>1, <2>3, <3>1, <3>2, IndexIs DEF Replace
    <3>6. Abstract!IsOldest(old)
      <4>1. ASSUME NEW j \in C \ {old} PROVE <<j, old>> \in Newer
        <5>1. PICK i \in 0 .. size - 1 : j = arr[i].key
          BY <1>1
        <5>2. i # last /\ i < last
          BY <3>3, <4>1, <5>1
        <5> QED
          BY <1>1, <3>2, <3>4, <5>1, <5>2 DEF Newer
      <4> QED
        BY <3>4, <4>1 DEF Abstract!IsOldest
    <3> HIDE DEF old
    <3>7. Newer' = Abstract!UsedAmong(key, C \ {old})
      <4>1. (C \ {old}) \ {e.key} = Staying(last)
        BY <3>4, <3>5
      <4> QED
        BY <3>1, <4>1, UseIsUsed
    <3>8. Store' = [Store EXCEPT ![old] = NoValue, ![key] = value]
      <4>1. Store' = [k \in Keys |-> IF k = key THEN value
                                   ELSE IF k \in Staying(last) THEN Store[k] ELSE NoValue]
        BY <3>1, UseSeen
      <4>2. \A k \in Keys : k # key /\ k # old
                => Store[k] = IF k \in Staying(last) THEN Store[k] ELSE NoValue
        BY <1>1, <3>4
      <4>3. DOMAIN Store = Keys
        BY DEF Store
      <4>4. old \notin Staying(last)
        BY <3>4
      <4> HIDE DEF Store
      <4> QED
        BY <4>1, <4>2, <4>3, <4>4
    <3>9. Abstract!Cardinality(C) = capacity /\ capacity' = capacity /\ old \in Keys
      BY <1>1, <1>2, <3>1, <3>4 DEF Use
    <3>10. Abstract!Replace(old, key, value)
      BY <3>5, <3>6, <3>7, <3>8, <3>9 DEF Abstract!Replace
    <3> QED
      BY <3>9, <3>10 DEF Abstract!Next
  <2> QED
    BY <1>5, <2>1, <2>2, <2>3 DEF lruCachePut
<1>6. CASE UNCHANGED vars
  <2>1. \A k : indexKey(k)' = indexKey(k)
    BY <1>6 DEF vars, indexKey
  <2>2. Store' = Store
    BY <1>6, <2>1 DEF vars, Store
  <2>3. Newer' = Newer
    BY <1>6 DEF vars, Newer
  <2> QED
    BY <1>6, <2>2, <2>3 DEF vars, Abstract!vars
<1> QED
    BY <1>4, <1>5, <1>6 DEF Next

-----------------------------------------------------------------------------
\* The array holds size entries with distinct keys, in its first places.
THEOREM ArrayTypeCorrect == Spec => [](TypeOK /\ Distinct)
<1>1. Inv => TypeOK /\ Distinct
    BY DEF Inv
<1> QED
    BY <1>1, ArrayInit, ArrayInductive, PTL DEF Spec

\* The array cache of lru1.c is a least-recently-used cache.
THEOREM ArrayIsLRU == Spec => ImplementsLRU
<1>1. Spec => []Inv
    BY ArrayInit, ArrayInductive, PTL DEF Spec
<1> QED
    BY <1>1, AbstractInit, AbstractStep, PTL DEF Spec, ImplementsLRU, Abstract!Spec

-----------------------------------------------------------------------------
\* The list functions of lru2.c, field by field.
Nodes == [value : Values \cup {NoValue}, prev : Keys \cup {NULL}, next : Keys \cup {NULL}]
Lists == [head : Keys \cup {NULL}, tail : Keys \cup {NULL}, node : [Keys -> Nodes]]

LEMMA RemoveIs ==
    ASSUME NEW l \in Lists, NEW x \in Keys
    PROVE  LET r == ListLRU!removeFromList(l, x)
               b == l.node[x].prev
               a == l.node[x].next
           IN  /\ r \in Lists
               /\ r.head = l.head
               /\ r.tail = IF l.tail = x THEN b ELSE l.tail
               /\ \A k \in Keys :
                     /\ r.node[k].value = l.node[k].value
                     /\ r.node[k].next = IF k = x THEN NULL ELSE IF k = b THEN a ELSE l.node[k].next
                     /\ r.node[k].prev = IF k = x THEN NULL ELSE IF k = a THEN b ELSE l.node[k].prev
<1> DEFINE b == l.node[x].prev
           a == l.node[x].next
           nodes == [k \in Keys |-> [l.node[k] EXCEPT
                        !.next = IF k = x THEN NULL ELSE IF k = b THEN a ELSE @,
                        !.prev = IF k = x THEN NULL ELSE IF k = a THEN b ELSE @]]
           t == IF l.tail = x THEN b ELSE l.tail
           r == ListLRU!removeFromList(l, x)
<1>1. r = [l EXCEPT !.tail = t, !.node = nodes]
    BY DEF ListLRU!removeFromList
<1>2. l.node \in [Keys -> Nodes] /\ b \in Keys \cup {NULL} /\ a \in Keys \cup {NULL}
    BY DEF Lists, Nodes
<1>3. ASSUME NEW k \in Keys
      PROVE  /\ nodes[k] \in Nodes
             /\ nodes[k].value = l.node[k].value
             /\ nodes[k].next = IF k = x THEN NULL ELSE IF k = b THEN a ELSE l.node[k].next
             /\ nodes[k].prev = IF k = x THEN NULL ELSE IF k = a THEN b ELSE l.node[k].prev
  <2>1. l.node[k] \in Nodes
    BY <1>2
  <2> HIDE DEF a, b
  <2> QED
    BY <1>2, <2>1 DEF Nodes
<1>4. nodes \in [Keys -> Nodes]
    BY <1>3
<1>5. t \in Keys \cup {NULL}
    BY <1>2 DEF Lists
<1> HIDE DEF nodes, t
<1>6. r \in Lists /\ r.head = l.head /\ r.tail = t /\ r.node = nodes
    BY <1>1, <1>4, <1>5 DEF Lists
<1> HIDE DEF r
<1> QED
    BY <1>3, <1>6 DEF t, r

LEMMA FrontIs ==
    ASSUME NEW l \in Lists, NEW x \in Keys
    PROVE  LET r == ListLRU!addToFront(l, x)
           IN  /\ r \in Lists
               /\ r.head = x
               /\ r.tail = IF l.head = NULL THEN x ELSE l.tail
               /\ \A k \in Keys :
                     /\ r.node[k].value = l.node[k].value
                     /\ r.node[k].next = IF k = x THEN l.head ELSE l.node[k].next
                     /\ r.node[k].prev = IF k = l.head THEN x ELSE l.node[k].prev
<1> DEFINE nodes == [k \in Keys |-> [l.node[k] EXCEPT
                        !.next = IF k = x THEN l.head ELSE @,
                        !.prev = IF k = l.head THEN x ELSE @]]
           t == IF l.head = NULL THEN x ELSE l.tail
           r == ListLRU!addToFront(l, x)
<1>1. r = [head |-> x, tail |-> t, node |-> nodes]
    BY DEF ListLRU!addToFront
<1>2. ASSUME NEW k \in Keys
      PROVE  /\ nodes[k] \in Nodes
             /\ nodes[k].value = l.node[k].value
             /\ nodes[k].next = IF k = x THEN l.head ELSE l.node[k].next
             /\ nodes[k].prev = IF k = l.head THEN x ELSE l.node[k].prev
  <2>1. l.node[k] \in Nodes /\ l.head \in Keys \cup {NULL}
    BY DEF Lists
  <2> QED
    BY <2>1 DEF Nodes
<1>3. nodes \in [Keys -> Nodes]
    BY <1>2
<1>4. t \in Keys \cup {NULL}
    BY DEF Lists
<1> HIDE DEF nodes, t
<1>5. r \in Lists /\ r.head = x /\ r.tail = t /\ r.node = nodes
    BY <1>1, <1>3, <1>4 DEF Lists
<1> HIDE DEF r
<1> QED
    BY <1>2, <1>5 DEF t, r

\* The nodes of the keys K[m], ..., K[n - 1] are doubly linked in that order and
\* end at the tail, and no other node points to one of them.
From(K, n, m) == {K[i] : i \in m .. n - 1}
Sound(K, n, m, l) ==
    /\ l.tail = IF m = n THEN NULL ELSE K[n - 1]
    /\ \A i \in m .. n - 1 :
          /\ l.node[K[i]].next = IF i = n - 1 THEN NULL ELSE K[i + 1]
          /\ l.node[K[i]].prev = IF i = m THEN NULL ELSE K[i - 1]
    /\ \A k \in Keys : k \notin From(K, n, m) =>
          l.node[k].next \notin From(K, n, m) /\ l.node[k].prev \notin From(K, n, m)

\* Every other node points nowhere.
Clean(K, n, l) == \A k \in Keys : k \notin From(K, n, 0) =>
                      l.node[k].next = NULL /\ l.node[k].prev = NULL

OneToOne(K, n) ==
    /\ \A i \in 0 .. n - 1 : K[i] \in Keys
    /\ \A i, j \in 0 .. n - 1 : K[i] = K[j] => i = j

\* Removing a node links its neighbours.
LEMMA RemoveKeeps ==
    ASSUME NEW n \in Nat, NEW K, OneToOne(K, n), NEW p \in 0 .. n - 1, NEW m \in 0 .. n,
           NEW l \in Lists, Sound(K, n, m, l),
           NEW J, \A i \in 0 .. n - 2 : J[i] = IF i < p THEN K[i] ELSE K[i + 1]
    PROVE  LET r == ListLRU!removeFromList(l, K[p])
           IN  /\ Sound(J, n - 1, IF p < m THEN m - 1 ELSE m, r)
               /\ m = 0 /\ Clean(K, n, l) => Clean(J, n - 1, r)
<1> DEFINE x == K[p]
           r == ListLRU!removeFromList(l, x)
           b == l.node[x].prev
           a == l.node[x].next
           q == IF p < m THEN m - 1 ELSE m
           low == From(K, n, m)
           new == From(J, n - 1, q)
<1>0. x \in Keys /\ NULL \notin Keys
    BY NullAssumption DEF OneToOne
<1>1. /\ r.tail = IF l.tail = x THEN b ELSE l.tail
      /\ \A k \in Keys :
            /\ r.node[k].next = IF k = x THEN NULL ELSE IF k = b THEN a ELSE l.node[k].next
            /\ r.node[k].prev = IF k = x THEN NULL ELSE IF k = a THEN b ELSE l.node[k].prev
    BY <1>0, RemoveIs
<1> HIDE DEF r
<1>2. /\ l.tail = IF m = n THEN NULL ELSE K[n - 1]
      /\ \A i \in m .. n - 1 :
            /\ l.node[K[i]].next = IF i = n - 1 THEN NULL ELSE K[i + 1]
            /\ l.node[K[i]].prev = IF i = m THEN NULL ELSE K[i - 1]
      /\ \A k \in Keys : k \notin low => l.node[k].next \notin low /\ l.node[k].prev \notin low
    BY DEF Sound
<1>3. \A i \in 0 .. n - 1 : K[i] \in Keys
    BY DEF OneToOne
<1>4. \A i, j \in 0 .. n - 1 : K[i] = K[j] => i = j
    BY DEF OneToOne
<1>5. \A i \in m .. n - 1 : K[i] \in low
    BY DEF From
<1>6. \A k \in low : k \in Keys /\ k # NULL
    BY <1>0, <1>3 DEF From
<1>7. new = low \ {x}
  <2>1. ASSUME NEW i \in q .. n - 2 PROVE J[i] \in low /\ J[i] # x
    <3>1. CASE i < p
      <4>1. i \in 0 .. n - 2 /\ i \in m .. n - 1 /\ i # p
        BY <3>1
      <4> QED
        BY <1>4, <1>5, <3>1, <4>1
    <3>2. CASE ~(i < p)
      <4>1. i \in 0 .. n - 2 /\ i + 1 \in m .. n - 1 /\ i + 1 # p
        BY <3>2
      <4> QED
        BY <1>4, <1>5, <3>2, <4>1
    <3> QED
      BY <3>1, <3>2
  <2>2. ASSUME NEW i \in m .. n - 1, K[i] # x PROVE \E j \in q .. n - 2 : K[i] = J[j]
    <3>1. CASE i < p
      <4>1. i \in q .. n - 2
        BY <3>1
      <4> QED
        BY <3>1, <4>1
    <3>2. CASE i > p
      <4>1. i - 1 \in q .. n - 2 /\ ~(i - 1 < p) /\ (i - 1) + 1 = i /\ i - 1 \in 0 .. n - 2
        BY <3>2
      <4> QED
        BY <4>1
    <3>3. i # p
      BY <2>2
    <3> QED
      BY <3>1, <3>2, <3>3
  <2>3. (n - 1) - 1 = n - 2
    OBVIOUS
  <2>4. new = {J[j] : j \in q .. n - 2}
    BY <2>3 DEF From
  <2> HIDE DEF q, x
  <2> QED
    BY <2>1, <2>2, <2>4 DEF From
<1>8. ASSUME p >= m
      PROVE  /\ a = IF p = n - 1 THEN NULL ELSE K[p + 1]
             /\ b = IF p = m THEN NULL ELSE K[p - 1]
    BY <1>2, <1>8
<1>9. ASSUME p < m PROVE x \notin low /\ a \notin low /\ b \notin low
  <2>1. \A i \in m .. n - 1 : K[i] # x
    BY <1>4, <1>9
  <2>2. x \notin low
    BY <2>1 DEF From
  <2> HIDE DEF low, x
  <2> QED
    BY <1>0, <1>2, <2>2
<1> HIDE DEF a, b, low, new
<1>10. r.tail = IF q = n - 1 THEN NULL ELSE J[n - 2]
  <2>1. CASE m = n
    BY <1>0, <1>1, <1>2, <2>1
  <2>2. CASE m < n /\ p = n - 1
    <3>1. r.tail = IF p = m THEN NULL ELSE K[p - 1]
      BY <1>1, <1>2, <1>8, <2>2
    <3>2. m # p => n - 2 \in 0 .. n - 2 /\ n - 2 < p /\ p - 1 = n - 2
      BY <2>2
    <3> HIDE DEF x
    <3> QED
      BY <2>2, <3>1, <3>2
  <2>3. CASE m < n /\ p # n - 1
    <3>1. q # n - 1 /\ n - 2 \in 0 .. n - 2 /\ ~(n - 2 < p) /\ (n - 2) + 1 = n - 1
          /\ n - 1 \in 0 .. n - 1
      BY <2>3
    <3>2. K[n - 1] # x
      BY <1>4, <2>3, <3>1
    <3> HIDE DEF x, q
    <3> QED
      BY <1>1, <1>2, <2>3, <3>1, <3>2
  <2> QED
    BY <2>1, <2>2, <2>3
<1>11. ASSUME NEW i \in q .. n - 2
       PROVE  /\ r.node[J[i]].next = IF i = n - 2 THEN NULL ELSE J[i + 1]
              /\ r.node[J[i]].prev = IF i = q THEN NULL ELSE J[i - 1]
  <2>1. CASE p < m
    <3>1. /\ q = m - 1 /\ i \in 0 .. n - 2 /\ ~(i < p) /\ i + 1 \in m .. n - 1
          /\ (i = n - 2 <=> i + 1 = n - 1) /\ (i + 1) + 1 = i + 2 /\ (i + 1) - 1 = i
          /\ (i = q <=> i + 1 = m) /\ i + 1 \in 0 .. n - 1
          /\ (i # n - 2 => i + 1 \in 0 .. n - 2 /\ ~(i + 1 < p))
          /\ (i # q => i - 1 \in 0 .. n - 2 /\ ~(i - 1 < p) /\ (i - 1) + 1 = i)
      BY <2>1
    <3>2. J[i] = K[i + 1] /\ J[i] \in low /\ J[i] \in Keys
      BY <1>3, <1>5, <3>1
    <3>3. r.node[J[i]].next = l.node[J[i]].next /\ r.node[J[i]].prev = l.node[J[i]].prev
      BY <1>1, <1>9, <2>1, <3>2
    <3>4. i # n - 2 => J[i + 1] = K[i + 2]
      BY <3>1
    <3>5. i # q => J[i - 1] = K[i]
      BY <3>1
    <3> HIDE DEF q, x
    <3> QED
      BY <1>2, <3>1, <3>2, <3>3, <3>4, <3>5
  <2>2. CASE p >= m /\ i < p
    <3>1. /\ q = m /\ i \in 0 .. n - 2 /\ i \in m .. n - 1 /\ i \in 0 .. n - 1 /\ i # n - 1
          /\ (i # m => i - 1 \in 0 .. n - 2 /\ i - 1 < p)
          /\ (i = p - 1 => p # m /\ (i = n - 2 <=> p = n - 1) /\ i + 1 = p
                           /\ (i # n - 2 => p \in 0 .. n - 2 /\ ~(p < p)))
          /\ (i # p - 1 => i # n - 2 /\ i + 1 \in 0 .. n - 2 /\ i + 1 < p)
          /\ (p # n - 1 => p + 1 \in 0 .. n - 1 /\ p + 1 # i)
          /\ (p # m => p - 1 \in 0 .. n - 1)
      BY <2>2
    <3>2. J[i] = K[i] /\ J[i] \in low /\ J[i] \in Keys /\ J[i] # x
      BY <1>3, <1>4, <1>5, <2>2, <3>1
    <3>3. J[i] # a
      BY <1>0, <1>3, <1>4, <1>8, <2>2, <3>1, <3>2
    <3>4. J[i] = b <=> i = p - 1
      <4>1. CASE p = m
        BY <1>0, <1>8, <2>2, <3>1, <3>2, <4>1
      <4>2. CASE p # m
        <5>1. b = K[p - 1] /\ p - 1 \in 0 .. n - 1
          BY <1>8, <2>2, <3>1, <4>2
        <5>2. K[i] = K[p - 1] => i = p - 1
          BY <1>4, <3>1, <5>1
        <5> QED
          BY <3>2, <5>1, <5>2
      <4> QED
        BY <4>1, <4>2
    <3>5. r.node[J[i]].prev = IF i = q THEN NULL ELSE J[i - 1]
      <4>1. i # m => J[i - 1] = K[i - 1]
        BY <3>1
      <4> HIDE DEF q, x
      <4> QED
        BY <1>1, <1>2, <3>1, <3>2, <3>3, <4>1
    <3>6. CASE i = p - 1
      <4>1. r.node[J[i]].next = a
        BY <1>1, <3>2, <3>4, <3>6
      <4>2. i # n - 2 => J[i + 1] = K[p + 1]
        BY <3>1, <3>6
      <4>3. a = IF i = n - 2 THEN NULL ELSE K[p + 1]
        BY <1>8, <2>2, <3>1, <3>6
      <4> HIDE DEF q, x
      <4> QED
        BY <3>5, <4>1, <4>2, <4>3
    <3>7. CASE i # p - 1
      <4>1. r.node[J[i]].next = l.node[K[i]].next
        BY <1>1, <3>2, <3>4, <3>7
      <4>2. J[i + 1] = K[i + 1] /\ i # n - 2
        BY <3>1, <3>7
      <4> HIDE DEF q, x
      <4> QED
        BY <1>2, <3>1, <3>5, <4>1, <4>2
    <3> QED
      BY <3>6, <3>7
  <2>3. CASE p >= m /\ ~(i < p)
    <3>1. /\ q = m /\ i \in 0 .. n - 2 /\ i + 1 \in m .. n - 1 /\ i + 1 \in 0 .. n - 1
          /\ i + 1 # p /\ i + 1 # m /\ (i + 1) - 1 = i /\ (i + 1) + 1 = i + 2
          /\ (i = n - 2 <=> i + 1 = n - 1)
          /\ (i # n - 2 => i + 1 \in 0 .. n - 2 /\ ~(i + 1 < p))
          /\ (i = p => p # n - 1 /\ (i # m => i - 1 \in 0 .. n - 2 /\ i - 1 < p))
          /\ (i # p => i # m /\ i - 1 \in 0 .. n - 2 /\ ~(i - 1 < p) /\ (i - 1) + 1 = i)
          /\ (p # n - 1 => p + 1 \in 0 .. n - 1)
          /\ (p # m => p - 1 \in 0 .. n - 1 /\ p - 1 # i + 1)
      BY <2>3
    <3>2. J[i] = K[i + 1] /\ J[i] \in low /\ J[i] \in Keys /\ J[i] # x
      BY <1>3, <1>4, <1>5, <2>3, <3>1
    <3>3. J[i] # b
      BY <1>0, <1>3, <1>4, <1>8, <2>3, <3>1, <3>2
    <3>4. J[i] = a <=> i = p
      <4>1. CASE p = n - 1
        BY <1>0, <1>8, <2>3, <3>1, <3>2, <4>1
      <4>2. CASE p # n - 1
        <5>1. a = K[p + 1] /\ p + 1 \in 0 .. n - 1
          BY <1>8, <2>3, <3>1, <4>2
        <5>2. K[i + 1] = K[p + 1] => i = p
          BY <1>4, <3>1, <5>1
        <5> QED
          BY <3>2, <5>1, <5>2
      <4> QED
        BY <4>1, <4>2
    <3>5. r.node[J[i]].next = IF i = n - 2 THEN NULL ELSE J[i + 1]
      <4>1. i # n - 2 => J[i + 1] = K[i + 2]
        BY <3>1
      <4> HIDE DEF q, x
      <4> QED
        BY <1>1, <1>2, <3>1, <3>2, <3>3, <4>1
    <3>6. CASE i = p
      <4>1. r.node[J[i]].prev = b
        BY <1>1, <3>2, <3>4, <3>6
      <4>2. i # m => J[i - 1] = K[p - 1]
        BY <3>1, <3>6
      <4>3. b = IF i = m THEN NULL ELSE K[p - 1]
        BY <1>8, <2>3, <3>6
      <4> HIDE DEF x
      <4> QED
        BY <3>1, <3>5, <4>1, <4>2, <4>3
    <3>7. CASE i # p
      <4>1. r.node[J[i]].prev = l.node[K[i + 1]].prev
        BY <1>1, <3>2, <3>4, <3>7
      <4>2. J[i - 1] = K[i] /\ i # m
        BY <3>1, <3>7
      <4> HIDE DEF x
      <4> QED
        BY <1>2, <3>1, <3>5, <4>1, <4>2
    <3> QED
      BY <3>6, <3>7
  <2> QED
    BY <2>1, <2>2, <2>3
<1>12. ASSUME NEW k \in Keys, k \notin new
       PROVE  /\ r.node[k].next \notin new /\ r.node[k].prev \notin new
              /\ p >= m => \/ r.node[k].next = NULL /\ r.node[k].prev = NULL
                           \/ /\ k \notin low
                              /\ r.node[k].next = l.node[k].next
                              /\ r.node[k].prev = l.node[k].prev
  <2>1. NULL \notin new /\ x \notin new
    BY <1>6, <1>7
  <2>2. CASE k = x
    BY <1>1, <2>1, <2>2
  <2>3. CASE k # x
    <3>1. k \notin low /\ l.node[k].next \notin low /\ l.node[k].prev \notin low
      BY <1>2, <1>7, <1>12, <2>3
    <3>2. CASE p < m
      BY <1>1, <1>7, <1>9, <2>3, <3>1, <3>2
    <3>3. CASE p >= m
      <4>1. p # n - 1 => p + 1 \in m .. n - 1
        BY <3>3
      <4>2. p # m => p - 1 \in m .. n - 1
        BY <3>3
      <4>3. k # a /\ k # b
        BY <1>0, <1>5, <1>8, <3>1, <3>3, <4>1, <4>2
      <4> QED
        BY <1>1, <1>7, <2>3, <3>1, <4>3
    <3> QED
      BY <3>2, <3>3
  <2> QED
    BY <2>2, <2>3
<1>13. (n - 1) - 1 = n - 2
    OBVIOUS
<1> HIDE DEF q, x
<1>14. Sound(J, n - 1, q, r)
    BY <1>10, <1>11, <1>12, <1>13 DEF Sound, new
<1>15. ASSUME m = 0, Clean(K, n, l) PROVE Clean(J, n - 1, r)
  <2>1. q = 0 /\ p >= m
    BY <1>15 DEF q
  <2>2. low = From(K, n, 0) /\ new = From(J, n - 1, 0)
    BY <1>15, <2>1 DEF low, new
  <2> QED
    BY <1>12, <1>15, <2>1, <2>2 DEF Clean
<1> QED
    BY <1>14, <1>15 DEF q, x, r

\* A node that is put in front of the list is linked to the nodes behind it when
\* the list was whole; else the nodes that were in order stay so.
LEMMA FrontKeeps ==
    ASSUME NEW n \in Nat, NEW K, OneToOne(K, n), NEW m \in 0 .. n,
           NEW l \in Lists, Sound(K, n, m, l),
           NEW x \in Keys, \A i \in 0 .. n - 1 : K[i] # x, l.node[x].prev = NULL,
           NEW J, J[0] = x, \A i \in 1 .. n : J[i] = K[i - 1],
           NEW q, \/ /\ q = 0 /\ m = 0 /\ Clean(K, n, l)
                     /\ l.head = IF n = 0 THEN NULL ELSE K[0]
                  \/ q = m + 1 /\ l.head # NULL /\ l.head \notin From(K, n, m)
    PROVE  LET r == ListLRU!addToFront(l, x)
           IN  Sound(J, n + 1, q, r) /\ (q = 0 => Clean(J, n + 1, r))
<1> DEFINE r == ListLRU!addToFront(l, x)
           low == From(K, n, m)
           new == From(J, n + 1, q)
<1>0. NULL \notin Keys
    BY NullAssumption
<1>1. /\ r.tail = IF l.head = NULL THEN x ELSE l.tail
      /\ \A k \in Keys :
            /\ r.node[k].next = IF k = x THEN l.head ELSE l.node[k].next
            /\ r.node[k].prev = IF k = l.head THEN x ELSE l.node[k].prev
    BY FrontIs
<1> HIDE DEF r
<1>2. /\ l.tail = IF m = n THEN NULL ELSE K[n - 1]
      /\ \A i \in m .. n - 1 :
            /\ l.node[K[i]].next = IF i = n - 1 THEN NULL ELSE K[i + 1]
            /\ l.node[K[i]].prev = IF i = m THEN NULL ELSE K[i - 1]
      /\ \A k \in Keys : k \notin low => l.node[k].next \notin low /\ l.node[k].prev \notin low
    BY DEF Sound
<1>3. \A i \in 0 .. n - 1 : K[i] \in Keys /\ K[i] # NULL
    BY <1>0 DEF OneToOne
<1>4. \A i, j \in 0 .. n - 1 : K[i] = K[j] => i = j
    BY DEF OneToOne
<1>5. \A i \in m .. n - 1 : K[i] \in low
    BY DEF From
<1>6. x \notin low
    BY DEF From
<1>7. (n + 1) - 1 = n
    OBVIOUS
<1>8. new = {J[j] : j \in q .. n}
    BY <1>7 DEF From
<1>9. low \subseteq Keys
    BY <1>3 DEF From
<1>10. ASSUME NEW i \in m + 1 .. n
       PROVE  /\ J[i] = K[i - 1] /\ J[i] \in low /\ J[i] \in Keys /\ J[i] # x
              /\ r.node[J[i]].next = IF i = n THEN NULL ELSE J[i + 1]
              /\ i - 1 \in 0 .. n - 1
              /\ i # m + 1 => J[i - 1] = K[i - 2] /\ i - 2 \in 0 .. n - 1
              /\ l.node[J[i]].prev = IF i = m + 1 THEN NULL ELSE K[i - 2]
  <2>1. /\ i \in 1 .. n /\ i - 1 \in m .. n - 1 /\ i - 1 \in 0 .. n - 1
        /\ (i = n <=> i - 1 = n - 1) /\ (i - 1) + 1 = i /\ (i - 1) - 1 = i - 2
        /\ (i = m + 1 <=> i - 1 = m)
        /\ (i # n => i + 1 \in 1 .. n /\ (i + 1) - 1 = i)
        /\ (i # m + 1 => i - 1 \in 1 .. n /\ i - 2 \in 0 .. n - 1)
    OBVIOUS
  <2>2. J[i] = K[i - 1] /\ J[i] \in low /\ J[i] \in Keys /\ J[i] # x
    BY <1>3, <1>5, <2>1
  <2>3. i # n => J[i + 1] = K[i]
    BY <2>1
  <2>4. i # m + 1 => J[i - 1] = K[i - 2]
    BY <2>1
  <2>5. l.node[J[i]].next = IF i = n THEN NULL ELSE K[i]
    BY <1>2, <2>1, <2>2
  <2>6. l.node[J[i]].prev = IF i = m + 1 THEN NULL ELSE K[i - 2]
    BY <1>2, <2>1, <2>2
  <2> QED
    BY <1>1, <2>1, <2>2, <2>3, <2>4, <2>5, <2>6
<1> HIDE DEF low, new
<1>11. CASE q = m + 1 /\ l.head # NULL /\ l.head \notin low
  <2>1. new = low
    <3>1. \A i \in m .. n - 1 : i + 1 \in q .. n /\ i + 1 \in m + 1 .. n /\ (i + 1) - 1 = i
      BY <1>11
    <3>2. \A i \in m .. n - 1 : K[i] \in new
      BY <1>8, <1>10, <3>1
    <3>3. \A i \in q .. n : J[i] \in low
      BY <1>10, <1>11
    <3> QED
      BY <1>8, <3>2, <3>3 DEF low, From
  <2>2. r.tail = IF q = n + 1 THEN NULL ELSE J[n]
    <3>1. r.tail = l.tail
      BY <1>1, <1>11
    <3>2. (q = n + 1 <=> m = n) /\ (m # n => n \in m + 1 .. n)
      BY <1>11
    <3> QED
      BY <1>2, <1>10, <3>1, <3>2
  <2>3. ASSUME NEW i \in q .. n
        PROVE  /\ r.node[J[i]].next = IF i = n THEN NULL ELSE J[i + 1]
               /\ r.node[J[i]].prev = IF i = q THEN NULL ELSE J[i - 1]
    <3>1. i \in m + 1 .. n
      BY <1>11
    <3>2. J[i] # l.head
      BY <1>10, <1>11, <3>1
    <3> QED
      BY <1>1, <1>10, <1>11, <3>1, <3>2
  <2>4. ASSUME NEW k \in Keys, k \notin new
        PROVE  r.node[k].next \notin new /\ r.node[k].prev \notin new
    BY <1>1, <1>2, <1>6, <1>11, <2>1, <2>4
  <2>5. q # 0
    BY <1>11
  <2> QED
    BY <1>7, <2>2, <2>3, <2>4, <2>5 DEF Sound, new, r
<1>12. CASE q = 0 /\ m = 0 /\ Clean(K, n, l) /\ l.head = IF n = 0 THEN NULL ELSE K[0]
  <2>1. new = low \cup {x}
    <3>1. 0 \in q .. n /\ \A i \in q .. n : i = 0 \/ i \in m + 1 .. n
      BY <1>12
    <3>2. \A i \in m .. n - 1 : i + 1 \in q .. n /\ i + 1 \in m + 1 .. n /\ (i + 1) - 1 = i
      BY <1>12
    <3>3. \A i \in m .. n - 1 : K[i] \in new
      BY <1>8, <1>10, <3>2
    <3>4. \A i \in q .. n : J[i] \in low \cup {x}
      BY <1>10, <3>1
    <3>5. x \in new
      BY <1>8, <3>1
    <3> QED
      BY <1>8, <3>3, <3>4, <3>5 DEF low, From
  <2>2. l.head # x /\ (l.head = NULL \/ l.head \in low)
    <3>1. n # 0 => 0 \in m .. n - 1 /\ 0 \in 0 .. n - 1
      BY <1>12
    <3> QED
      BY <1>0, <1>5, <1>6, <1>12, <3>1
  <2>3. r.tail = IF q = n + 1 THEN NULL ELSE J[n]
    <3>1. CASE n = 0
      BY <1>1, <1>12, <3>1
    <3>2. CASE n # 0
      <4>1. n \in m + 1 .. n /\ 0 \in 0 .. n - 1 /\ q # n + 1 /\ m # n
        BY <1>12, <3>2
      <4>2. l.head # NULL
        BY <1>3, <1>12, <3>2, <4>1
      <4> QED
        BY <1>1, <1>2, <1>10, <4>1, <4>2
    <3> QED
      BY <3>1, <3>2
  <2>4. ASSUME NEW i \in q .. n
        PROVE  /\ r.node[J[i]].next = IF i = n THEN NULL ELSE J[i + 1]
               /\ r.node[J[i]].prev = IF i = q THEN NULL ELSE J[i - 1]
    <3>1. CASE i = 0
      <4>1. n # 0 => 1 \in 1 .. n /\ 0 + 1 = 1 /\ 1 - 1 = 0
        OBVIOUS
      <4>2. n # 0 => J[0 + 1] = K[0]
        BY <4>1
      <4> QED
        BY <1>1, <1>12, <2>2, <3>1, <4>2
    <3>2. CASE i = 1
      <4>1. i \in m + 1 .. n /\ i - 1 = 0 /\ n # 0 /\ i # q
        BY <1>12, <3>2
      <4>2. J[i] = l.head
        BY <1>10, <1>12, <4>1
      <4> QED
        BY <1>1, <1>10, <4>1, <4>2
    <3>3. CASE i # 0 /\ i # 1
      <4>1. i \in m + 1 .. n /\ i # m + 1 /\ i # q /\ i - 1 # 0 /\ 0 \in 0 .. n - 1 /\ n # 0
        BY <1>12, <3>3
      <4>2. J[i] # l.head
        BY <1>4, <1>10, <1>12, <4>1
      <4> QED
        BY <1>1, <1>10, <4>1, <4>2
    <3> QED
      BY <3>1, <3>2, <3>3
  <2>5. ASSUME NEW k \in Keys, k \notin new
        PROVE  r.node[k].next = NULL /\ r.node[k].prev = NULL
    <3>1. l.node[k].next = NULL /\ l.node[k].prev = NULL
      BY <1>12, <2>1, <2>5 DEF Clean, low
    <3> QED
      BY <1>0, <1>1, <2>1, <2>2, <2>5, <3>1
  <2>6. NULL \notin new
    BY <1>0, <1>9, <2>1
  <2>7. Sound(J, n + 1, q, r)
    BY <1>7, <2>3, <2>4, <2>5, <2>6 DEF Sound, new
  <2>8. Clean(J, n + 1, r)
    BY <1>12, <2>5 DEF Clean, new
  <2> QED
    BY <2>7, <2>8 DEF r
<1> QED
    BY <1>11, <1>12 DEF low

\* What matters of a list: its head is the newest entry, and from some place on
\* the nodes are in order; lost says that this place is not the first one.
Linked(K, n, l, lost) ==
    /\ l.head = IF n = 0 THEN NULL ELSE K[0]
    /\ \E m \in 0 .. n : /\ Sound(K, n, m, l)
                         /\ m = 0 => Clean(K, n, l)
                         /\ lost <=> m > 0

\* A list that differs in values, or in what an unlisted node held.
LEMMA SameLinks ==
    ASSUME NEW n \in Nat, NEW K, OneToOne(K, n), NEW l, NEW r, NEW lost, Linked(K, n, l, lost),
           r.head = l.head, r.tail = l.tail,
           \A k \in Keys : \/ /\ r.node[k].next = l.node[k].next
                              /\ r.node[k].prev = l.node[k].prev
                           \/ /\ k \notin From(K, n, 0)
                              /\ r.node[k].next = NULL /\ r.node[k].prev = NULL
    PROVE  Linked(K, n, r, lost)
<1>1. PICK m \in 0 .. n : Sound(K, n, m, l) /\ (m = 0 => Clean(K, n, l)) /\ (lost <=> m > 0)
    BY DEF Linked
<1>2. \A i \in m .. n - 1 : K[i] \in From(K, n, m) /\ K[i] \in From(K, n, 0) /\ K[i] \in Keys
  <2>1. \A i \in m .. n - 1 : i \in 0 .. n - 1
    OBVIOUS
  <2> QED
    BY <2>1 DEF From, OneToOne
<1>3. NULL \notin From(K, n, m)
  <2>1. \A i \in m .. n - 1 : K[i] # NULL
    BY <1>2, NullAssumption
  <2> QED
    BY <2>1 DEF From
<1>4. From(K, n, m) \subseteq From(K, n, 0)
    BY <1>2 DEF From
<1>5. Sound(K, n, m, r)
  <2>1. r.tail = IF m = n THEN NULL ELSE K[n - 1]
    BY <1>1 DEF Sound
  <2>2. ASSUME NEW i \in m .. n - 1
        PROVE  /\ r.node[K[i]].next = IF i = n - 1 THEN NULL ELSE K[i + 1]
               /\ r.node[K[i]].prev = IF i = m THEN NULL ELSE K[i - 1]
    <3>1. r.node[K[i]].next = l.node[K[i]].next /\ r.node[K[i]].prev = l.node[K[i]].prev
      BY <1>2
    <3> QED
      BY <1>1, <3>1 DEF Sound
  <2>3. ASSUME NEW k \in Keys, k \notin From(K, n, m)
        PROVE  r.node[k].next \notin From(K, n, m) /\ r.node[k].prev \notin From(K, n, m)
    <3>1. l.node[k].next \notin From(K, n, m) /\ l.node[k].prev \notin From(K, n, m)
      BY <1>1, <2>3 DEF Sound
    <3> QED
      BY <1>3, <3>1
  <2> QED
    BY <2>1, <2>2, <2>3 DEF Sound
<1>6. m = 0 => Clean(K, n, r)
    BY <1>1 DEF Clean
<1> QED
    BY <1>1, <1>5, <1>6 DEF Linked

\* The list with the node of place p taken out and put in front again.
LEMMA MoveKeeps ==
    ASSUME NEW n \in Nat, NEW K, OneToOne(K, n), NEW p \in 0 .. n - 1,
           NEW l \in Lists, NEW lost, Linked(K, n, l, lost),
           NEW J, \A i \in 0 .. n - 1 :
                      J[i] = IF i = 0 THEN K[p] ELSE IF i <= p THEN K[i - 1] ELSE K[i]
    PROVE  LET r == ListLRU!addToFront(ListLRU!removeFromList(l, K[p]), K[p])
           IN  Linked(J, n, r, lost \/ l.head = K[p])
<1> DEFINE x == K[p]
           s == ListLRU!removeFromList(l, x)
           r == ListLRU!addToFront(s, x)
           I == [i \in 0 .. n - 2 |-> IF i < p THEN K[i] ELSE K[i + 1]]
<1>1. PICK m \in 0 .. n : Sound(K, n, m, l) /\ (m = 0 => Clean(K, n, l)) /\ (lost <=> m > 0)
    BY DEF Linked
<1>2. /\ \A i \in 0 .. n - 1 : K[i] \in Keys /\ K[i] # NULL
      /\ \A i, j \in 0 .. n - 1 : K[i] = K[j] => i = j
    BY NullAssumption DEF OneToOne
<1>3. /\ n - 1 \in Nat /\ n # 0 /\ 0 \in 0 .. n - 1 /\ p \in Nat
      /\ (n - 1) - 1 = n - 2 /\ (n - 1) + 1 = n
    OBVIOUS
<1>4. l.head = K[0] /\ l.head # NULL /\ x \in Keys
    BY <1>2, <1>3 DEF Linked
<1>5. \A i \in 0 .. n - 2 : /\ I[i] = IF i < p THEN K[i] ELSE K[i + 1]
                            /\ i \in 0 .. n - 1 /\ i + 1 \in 0 .. n - 1
    OBVIOUS
<1> HIDE DEF I
<1> DEFINE m1 == IF p < m THEN m - 1 ELSE m
<1>6. Sound(I, n - 1, m1, s) /\ (m = 0 => Clean(I, n - 1, s))
    BY <1>1, <1>5, RemoveKeeps
<1>7. s \in Lists /\ s.head = l.head /\ s.node[x].prev = NULL
    BY <1>4, RemoveIs
<1>8. OneToOne(I, n - 1)
  <2>1. \A i \in 0 .. n - 2 : I[i] \in Keys
    BY <1>2, <1>5
  <2>2. ASSUME NEW i \in 0 .. n - 2, NEW j \in 0 .. n - 2, I[i] = I[j] PROVE i = j
    <3>1. (IF i < p THEN i ELSE i + 1) = (IF j < p THEN j ELSE j + 1)
      BY <1>2, <1>5, <2>2
    <3> QED
      BY <1>3, <3>1
  <2> QED
    BY <1>3, <2>1, <2>2 DEF OneToOne
<1>9. ASSUME NEW i \in 0 .. (n - 1) - 1 PROVE I[i] # x
  <2>1. i \in 0 .. n - 2
    BY <1>3
  <2>2. (IF i < p THEN i ELSE i + 1) # p
    BY <1>3
  <2> QED
    BY <1>2, <1>5, <2>1, <2>2
<1>10. J[0] = x
    BY <1>3
<1>11. ASSUME NEW i \in 1 .. n - 1 PROVE J[i] = I[i - 1]
  <2>1. i \in 0 .. n - 1 /\ i # 0 /\ i - 1 \in 0 .. n - 2 /\ (i - 1) + 1 = i
        /\ (i <= p <=> i - 1 < p)
    BY <1>3
  <2> QED
    BY <1>5, <2>1
<1> HIDE DEF s, x
<1> DEFINE q == IF m = 0 /\ p # 0 THEN 0 ELSE m1 + 1
<1>12. \/ /\ q = 0 /\ m1 = 0 /\ Clean(I, n - 1, s)
          /\ s.head = IF n - 1 = 0 THEN NULL ELSE I[0]
       \/ q = m1 + 1 /\ s.head # NULL /\ s.head \notin From(I, n - 1, m1)
  <2>1. CASE m = 0 /\ p # 0
    <3>1. n - 1 # 0 /\ 0 \in 0 .. n - 2 /\ 0 < p /\ ~(p < m)
      BY <1>3, <2>1
    <3> QED
      BY <1>4, <1>5, <1>6, <1>7, <2>1, <3>1
  <2>2. CASE ~(m = 0 /\ p # 0)
    <3>1. ASSUME NEW i \in m1 .. n - 2 PROVE I[i] # K[0]
      <4>1. i \in 0 .. n - 2 /\ (IF i < p THEN i ELSE i + 1) # 0
        BY <1>3, <2>2
      <4> QED
        BY <1>2, <1>3, <1>5, <4>1
    <3> QED
      BY <1>3, <1>4, <1>7, <2>2, <3>1 DEF From
  <2> QED
    BY <2>1, <2>2
<1>13. m1 \in 0 .. n - 1 /\ q \in 0 .. n
    BY <1>3
<1>14. Sound(J, (n - 1) + 1, q, r) /\ (q = 0 => Clean(J, (n - 1) + 1, r))
  <2>1. x \in Keys /\ s \in Lists /\ s.node[x].prev = NULL
    BY <1>4, <1>7
  <2> HIDE DEF q, m1
  <2> QED
    BY <1>3, <1>6, <1>8, <1>9, <1>10, <1>11, <1>12, <1>13, <2>1, FrontKeeps
<1>15. r.head = x
    BY <1>4, <1>7, FrontIs
<1>16. lost \/ l.head = x <=> q > 0
  <2>1. l.head = x <=> p = 0
    BY <1>2, <1>3, <1>4 DEF x
  <2> QED
    BY <1>1, <1>3, <2>1
<1> HIDE DEF r, q
<1>17. Linked(J, n, r, lost \/ l.head = x)
    BY <1>3, <1>10, <1>13, <1>14, <1>15, <1>16 DEF Linked
<1> QED
    BY <1>17 DEF r, s, x

-----------------------------------------------------------------------------
\* The hash chains.
OnChain(s, k) == \E i \in DOMAIN s : s[i] = k
NoRepeat(s) == \A i, j \in DOMAIN s : s[i] = s[j] => i = j

\* createNode puts a new key in front of its chain.
LEMMA Prepended ==
    ASSUME NEW s \in Seq(Keys), NoRepeat(s), NEW e \in Keys, ~OnChain(s, e)
    PROVE  /\ <<e>> \o s \in Seq(Keys) /\ NoRepeat(<<e>> \o s)
           /\ \A k : OnChain(<<e>> \o s, k) <=> k = e \/ OnChain(s, k)
<1> DEFINE t == <<e>> \o s
           n == Len(s)
<1>1. n \in Nat /\ DOMAIN s = 1 .. n
    OBVIOUS
<1>2. t \in Seq(Keys) /\ DOMAIN t = 1 .. n + 1
      /\ \A i \in 1 .. n + 1 : t[i] = IF i = 1 THEN e ELSE s[i - 1]
  <2>1. t \in Seq(Keys) /\ Len(t) = 1 + n
        /\ \A i \in 1 .. 1 + n : t[i] = IF i <= 1 THEN <<e>>[i] ELSE s[i - 1]
    BY <1>1, ConcatProperties
  <2> HIDE DEF t
  <2>2. DOMAIN t = 1 .. n + 1
    BY <1>1, <2>1
  <2>3. \A i \in 1 .. n + 1 : i \in 1 .. 1 + n /\ (i <= 1 <=> i = 1)
    BY <1>1
  <2> QED
    BY <2>1, <2>2, <2>3
<1> HIDE DEF n, t
<1>3. \A i \in 1 .. n + 1 : i = 1 \/ (i - 1 \in 1 .. n /\ i # 1)
    BY <1>1
<1>4. \A i \in 1 .. n : i + 1 \in 1 .. n + 1 /\ i + 1 # 1 /\ (i + 1) - 1 = i
    BY <1>1
<1>5. \A i \in 1 .. n : t[i + 1] = s[i]
    BY <1>2, <1>4
<1>6. 1 \in 1 .. n + 1
    BY <1>1
<1>7. NoRepeat(t)
  <2>1. ASSUME NEW i \in 1 .. n + 1, NEW j \in 1 .. n + 1, t[i] = t[j] PROVE i = j
    <3>1. CASE i = 1 \/ j = 1
      BY <1>1, <1>2, <1>3, <2>1, <3>1 DEF OnChain
    <3>2. CASE i # 1 /\ j # 1
      <4>1. i - 1 \in DOMAIN s /\ j - 1 \in DOMAIN s /\ s[i - 1] = s[j - 1]
        BY <1>1, <1>2, <1>3, <2>1, <3>2
      <4>2. i - 1 = j - 1
        BY <4>1 DEF NoRepeat
      <4> QED
        BY <1>1, <4>2
    <3> QED
      BY <3>1, <3>2
  <2> QED
    BY <1>2, <2>1 DEF NoRepeat
<1>8. ASSUME NEW k PROVE OnChain(t, k) <=> k = e \/ OnChain(s, k)
  <2>1. ASSUME NEW i \in 1 .. n + 1, t[i] = k PROVE k = e \/ OnChain(s, k)
    BY <1>1, <1>2, <1>3, <2>1 DEF OnChain
  <2>2. OnChain(s, k) => OnChain(t, k)
    <3> SUFFICES ASSUME NEW i \in 1 .. n, s[i] = k PROVE OnChain(t, k)
      BY <1>1 DEF OnChain
    <3> QED
      BY <1>2, <1>4, <1>5 DEF OnChain
  <2>3. OnChain(t, e)
    BY <1>2, <1>6 DEF OnChain
  <2> QED
    BY <1>2, <2>1, <2>2, <2>3 DEF OnChain
<1> QED
    BY <1>2, <1>7, <1>8 DEF t

\* removeFromHashTable takes one key off its chain.
LEMMA TakenOff ==
    ASSUME NEW s \in Seq(Keys), NoRepeat(s), NEW e \in Keys, OnChain(s, e)
    PROVE  LET t == ListLRU!RemoveFirst(s, e)
           IN  /\ t \in Seq(Keys) /\ NoRepeat(t)
               /\ \A k : OnChain(t, k) <=> k # e /\ OnChain(s, k)
<1> DEFINE n == Len(s)
           t == ListLRU!RemoveFirst(s, e)
<1>1. n \in Nat /\ DOMAIN s = 1 .. n
    OBVIOUS
<1>2. PICK p \in 1 .. n : s[p] = e
    BY <1>1 DEF OnChain
<1>3. t = ListLRU!RemoveAt(s, p)
  <2>1. {i \in 1 .. n : s[i] = e} = {p}
    BY <1>1, <1>2 DEF NoRepeat
  <2>2. ListLRU!SelectInSeq(s, LAMBDA v : v = e) = p
    <3>1. ListLRU!SelectInSeq(s, LAMBDA v : v = e)
              = IF {i \in 1 .. n : s[i] = e} # {} THEN ListLRU!Min({i \in 1 .. n : s[i] = e}) ELSE 0
      BY DEF ListLRU!SelectInSeq
    <3>2. ListLRU!Min({p}) = p
      BY <1>2 DEF ListLRU!Min
    <3> QED
      BY <2>1, <3>1, <3>2
  <2> QED
    BY <1>2, <2>2 DEF ListLRU!RemoveFirst
<1> DEFINE a == SubSeq(s, 1, p - 1)
           b == SubSeq(s, p + 1, n)
<1>4. t = a \o b
    BY <1>3 DEF ListLRU!RemoveAt
<1>5. /\ a \in Seq(Keys) /\ Len(a) = p - 1
      /\ b \in Seq(Keys) /\ Len(b) = n - p
      /\ \A i \in 1 .. p - 1 : a[i] = s[i]
      /\ \A i \in 1 .. n - p : b[i] = s[i + p]
  <2>1. a \in Seq(Keys) /\ Len(a) = p - 1
    BY <1>1
  <2>2. \A i \in 1 .. p - 1 : a[i] = s[i]
    BY <1>1
  <2>3. b \in Seq(Keys) /\ Len(b) = n - p
    <3>1. p + 1 \in Int /\ n \in Int /\ (p + 1 <= n => n - (p + 1) + 1 = n - p) /\ (~(p + 1 <= n) => n - p = 0)
      <4>1. n \in Nat
        BY <1>1
      <4> HIDE DEF n
      <4> QED
        BY <4>1
    <3>2. \A i \in p + 1 .. n : s[i] \in Keys
      BY <1>1
    <3>3. b \in Seq(Keys) /\ Len(b) = IF p + 1 <= n THEN n - (p + 1) + 1 ELSE 0
      BY <3>1, <3>2, SubSeqProperties
    <3> QED
      BY <3>1, <3>3
  <2>4. \A i \in 1 .. n - p : b[i] = s[i + p]
    <3>1. ASSUME NEW i \in p + 1 .. n PROVE s[i] \in Keys
      BY <1>1
    <3>2. \A i \in 1 .. n - (p + 1) + 1 : b[i] = s[(p + 1) + i - 1]
      BY <1>1, <3>1, SubSeqProperties
    <3>3. n - (p + 1) + 1 = n - p /\ \A i \in 1 .. n - p : (p + 1) + i - 1 = i + p
      BY <1>1
    <3> HIDE DEF b
    <3> QED
      BY <3>2, <3>3
  <2> QED
    BY <2>1, <2>2, <2>3, <2>4
<1> HIDE DEF n, t, a, b
<1>6. t \in Seq(Keys) /\ DOMAIN t = 1 .. n - 1
      /\ \A i \in 1 .. n - 1 : t[i] = IF i < p THEN s[i] ELSE s[i + 1]
  <2>1. /\ a \o b \in Seq(Keys) /\ Len(a \o b) = Len(a) + Len(b)
        /\ \A i \in 1 .. Len(a) + Len(b) : (a \o b)[i] = IF i <= Len(a) THEN a[i] ELSE b[i - Len(a)]
    BY <1>5, ConcatProperties
  <2>2. Len(a) + Len(b) = n - 1
    BY <1>1, <1>2, <1>5
  <2>3. DOMAIN t = 1 .. n - 1
    BY <1>4, <2>1, <2>2
  <2>4. ASSUME NEW i \in 1 .. n - 1 PROVE t[i] = IF i < p THEN s[i] ELSE s[i + 1]
    <3>1. t[i] = IF i <= p - 1 THEN a[i] ELSE b[i - (p - 1)]
      BY <1>4, <1>5, <2>1, <2>2
    <3>2. CASE i < p
      <4>1. i <= p - 1 /\ i \in 1 .. p - 1
        BY <1>1, <3>2
      <4> QED
        BY <1>5, <3>1, <3>2, <4>1
    <3>3. CASE ~(i < p)
      <4>1. ~(i <= p - 1) /\ i - (p - 1) \in 1 .. n - p /\ (i - (p - 1)) + p = i + 1
        BY <1>1, <3>3
      <4> QED
        BY <1>5, <3>1, <3>3, <4>1
    <3> QED
      BY <3>2, <3>3
  <2> QED
    BY <1>4, <2>1, <2>3, <2>4
<1> DEFINE at(i) == IF i < p THEN i ELSE i + 1
<1>7. \A i \in 1 .. n - 1 : at(i) \in 1 .. n /\ at(i) # p /\ t[i] = s[at(i)]
    BY <1>1, <1>6
<1>8. \A i, j \in 1 .. n - 1 : at(i) = at(j) => i = j
    BY <1>1
<1>9. \A j \in 1 .. n : j # p => \E i \in 1 .. n - 1 : at(i) = j
  <2> TAKE j \in 1 .. n
  <2> HAVE j # p
  <2>1. CASE j < p
    <3>1. j \in 1 .. n - 1 /\ at(j) = j
      BY <1>1, <2>1
    <3> QED
      BY <3>1
  <2>2. CASE j > p
    <3>1. j - 1 \in 1 .. n - 1 /\ ~(j - 1 < p) /\ (j - 1) + 1 = j
      BY <1>1, <2>2
    <3> QED
      BY <3>1
  <2>3. j < p \/ j > p
    OBVIOUS
  <2> QED
    BY <2>1, <2>2, <2>3
<1> HIDE DEF at
<1>10. NoRepeat(t)
    BY <1>1, <1>6, <1>7, <1>8 DEF NoRepeat
<1>11. ASSUME NEW k PROVE OnChain(t, k) <=> k # e /\ OnChain(s, k)
  <2>1. ASSUME NEW i \in 1 .. n - 1, t[i] = k PROVE k # e /\ OnChain(s, k)
    BY <1>1, <1>2, <1>7, <2>1 DEF OnChain, NoRepeat
  <2>2. ASSUME NEW j \in 1 .. n, s[j] = k, k # e PROVE \E i \in 1 .. n - 1 : t[i] = k
    <3>1. PICK i \in 1 .. n - 1 : at(i) = j
      BY <1>2, <1>9, <2>2
    <3> QED
      BY <1>7, <2>2, <3>1
  <2> QED
    BY <1>1, <1>6, <2>1, <2>2 DEF OnChain
<1> QED
    BY <1>6, <1>10, <1>11 DEF t

\* The tail is the oldest entry, unless the list has lost every node of the order.
LEMMA TailIs ==
    ASSUME NEW n \in Nat, NEW K, OneToOne(K, n), NEW l, NEW lost, Linked(K, n, l, lost)
    PROVE  /\ l.tail # NULL => n # 0 /\ l.tail = K[n - 1]
           /\ l.tail = NULL /\ n # 0 => lost
<1>1. PICK m \in 0 .. n : Sound(K, n, m, l) /\ (lost <=> m > 0)
    BY DEF Linked
<1>2. l.tail = IF m = n THEN NULL ELSE K[n - 1]
    BY <1>1 DEF Sound
<1>3. m # n => n # 0 /\ n - 1 \in 0 .. n - 1
    OBVIOUS
<1>4. m # n => K[n - 1] # NULL
    BY <1>3, NullAssumption DEF OneToOne
<1>5. m = n /\ n # 0 => m > 0
    OBVIOUS
<1> QED
    BY <1>1, <1>2, <1>3, <1>4, <1>5

\* The list with a node in front that was not in it.
LEMMA InsertKeeps ==
    ASSUME NEW n \in Nat, NEW K, OneToOne(K, n),
           NEW l \in Lists, NEW lost, Linked(K, n, l, lost),
           NEW x \in Keys, \A i \in 0 .. n - 1 : K[i] # x, l.node[x].prev = NULL,
           NEW J, J[0] = x, \A i \in 1 .. n : J[i] = K[i - 1]
    PROVE  Linked(J, n + 1, ListLRU!addToFront(l, x), lost)
<1> DEFINE r == ListLRU!addToFront(l, x)
<1>1. PICK m \in 0 .. n : Sound(K, n, m, l) /\ (m = 0 => Clean(K, n, l)) /\ (lost <=> m > 0)
    BY DEF Linked
<1>2. l.head = IF n = 0 THEN NULL ELSE K[0]
    BY DEF Linked
<1> DEFINE q == IF m = 0 THEN 0 ELSE m + 1
<1>3. \/ q = 0 /\ m = 0 /\ Clean(K, n, l) /\ l.head = IF n = 0 THEN NULL ELSE K[0]
      \/ q = m + 1 /\ l.head # NULL /\ l.head \notin From(K, n, m)
  <2>1. CASE m = 0
    BY <1>1, <1>2, <2>1
  <2>2. CASE m # 0
    <3>1. 0 \in 0 .. n - 1 /\ n # 0 /\ \A i \in m .. n - 1 : i \in 0 .. n - 1 /\ i # 0
      BY <2>2
    <3>2. K[0] \in Keys /\ \A i \in m .. n - 1 : K[i] # K[0]
      BY <3>1 DEF OneToOne
    <3> QED
      BY <1>2, <2>2, <3>1, <3>2, NullAssumption DEF From
  <2> QED
    BY <2>1, <2>2
<1>4. q \in 0 .. n + 1 /\ (q = 0 <=> m = 0) /\ (q > 0 <=> m > 0) /\ n + 1 # 0
    BY <1>1
<1> HIDE DEF q
<1>5. Sound(J, n + 1, q, r) /\ (q = 0 => Clean(J, n + 1, r))
    BY <1>1, <1>3, FrontKeeps
<1>6. r.head = J[0]
    BY FrontIs
<1> HIDE DEF r
<1> QED
    BY <1>1, <1>4, <1>5, <1>6 DEF Linked, r

\* The list with its last node taken out and another one put in front.
LEMMA ReplaceKeeps ==
    ASSUME NEW n \in Nat \ {0}, NEW K, OneToOne(K, n),
           NEW l \in Lists, NEW lost, Linked(K, n, l, lost), l.tail # NULL,
           NEW x \in Keys, \A i \in 0 .. n - 1 : K[i] # x,
           NEW s \in Lists,
           s.head = l.head, s.tail = ListLRU!removeFromList(l, l.tail).tail,
           s.node[x].prev = NULL, s.node[x].next = NULL,
           \A k \in Keys \ {x} :
              /\ s.node[k].next = ListLRU!removeFromList(l, l.tail).node[k].next
              /\ s.node[k].prev = ListLRU!removeFromList(l, l.tail).node[k].prev,
           NEW J, J[0] = x, \A i \in 1 .. n - 1 : J[i] = K[i - 1]
    PROVE  Linked(J, n, ListLRU!addToFront(s, x), lost \/ l.head = l.tail)
<1> DEFINE r == ListLRU!addToFront(s, x)
           t == ListLRU!removeFromList(l, l.tail)
<1>1. PICK m \in 0 .. n : Sound(K, n, m, l) /\ (m = 0 => Clean(K, n, l)) /\ (lost <=> m > 0)
    BY DEF Linked
<1>2. l.tail = K[n - 1] /\ m # n
    BY <1>1 DEF Sound
<1>3. /\ n - 1 \in Nat /\ n - 1 \in 0 .. n - 1 /\ 0 \in 0 .. n - 1 /\ ~(n - 1 < m)
      /\ (n - 1) + 1 = n /\ m \in 0 .. n - 1
    BY <1>2
<1>4. K[0] \in Keys /\ K[n - 1] \in Keys /\ l.head = K[0] /\ l.head # NULL
    BY <1>3, NullAssumption DEF Linked, OneToOne
<1>5. \A i \in 0 .. n - 2 : i < n - 1 /\ i \in 0 .. n - 1
    OBVIOUS
<1>6. Sound(K, n - 1, m, t) /\ (m = 0 => Clean(K, n - 1, t))
  <2>1. Sound(K, n - 1, IF n - 1 < m THEN m - 1 ELSE m, t)
        /\ (m = 0 /\ Clean(K, n, l) => Clean(K, n - 1, t))
    <3>1. \A i \in 0 .. n - 2 : K[i] = IF i < n - 1 THEN K[i] ELSE K[i + 1]
      BY <1>5
    <3> QED
      BY <1>1, <1>2, <1>3, <3>1, RemoveKeeps
  <2> QED
    BY <1>1, <1>3, <2>1
<1>7. OneToOne(K, n - 1) /\ \A i \in 0 .. (n - 1) - 1 : K[i] # x
  <2>1. \A i \in 0 .. (n - 1) - 1 : i \in 0 .. n - 1
    OBVIOUS
  <2> QED
    BY <2>1 DEF OneToOne
<1>9. Sound(K, n - 1, m, s) /\ (m = 0 => Clean(K, n - 1, s))
  <2>1. x \notin From(K, n - 1, 0)
    BY <1>7 DEF From
  <2>2. \A i \in m .. (n - 1) - 1 : K[i] \in Keys \ {x} /\ K[i] \in From(K, n - 1, m)
    <3>1. \A i \in m .. (n - 1) - 1 : i \in 0 .. (n - 1) - 1
      OBVIOUS
    <3> QED
      BY <1>7, <3>1 DEF From, OneToOne
  <2>3. NULL \notin From(K, n - 1, m)
    BY <2>2, NullAssumption DEF From
  <2> HIDE DEF t
  <2>4. \A k \in Keys \ {x} : s.node[k].next = t.node[k].next /\ s.node[k].prev = t.node[k].prev
    BY DEF t
  <2>5. s.tail = t.tail
    BY DEF t
  <2>6. Sound(K, n - 1, m, s)
    <3>1. s.tail = IF m = n - 1 THEN NULL ELSE K[(n - 1) - 1]
      BY <1>6, <2>5 DEF Sound
    <3>2. \A i \in m .. (n - 1) - 1 :
             /\ s.node[K[i]].next = IF i = (n - 1) - 1 THEN NULL ELSE K[i + 1]
             /\ s.node[K[i]].prev = IF i = m THEN NULL ELSE K[i - 1]
      BY <1>6, <2>2, <2>4 DEF Sound
    <3>3. \A k \in Keys : k \notin From(K, n - 1, m) =>
              s.node[k].next \notin From(K, n - 1, m) /\ s.node[k].prev \notin From(K, n - 1, m)
      BY <1>6, <2>3, <2>4 DEF Sound
    <3> QED
      BY <3>1, <3>2, <3>3 DEF Sound
  <2>7. m = 0 => Clean(K, n - 1, s)
    BY <1>6, <2>4 DEF Clean
  <2> QED
    BY <2>6, <2>7
<1> DEFINE q == IF m = 0 /\ n # 1 THEN 0 ELSE m + 1
<1>10. \/ q = 0 /\ m = 0 /\ Clean(K, n - 1, s) /\ s.head = IF n - 1 = 0 THEN NULL ELSE K[0]
       \/ q = m + 1 /\ s.head # NULL /\ s.head \notin From(K, n - 1, m)
  <2>1. CASE m = 0 /\ n # 1
    <3>1. n - 1 # 0
      BY <2>1
    <3> QED
      BY <1>4, <1>9, <2>1, <3>1
  <2>2. CASE ~(m = 0 /\ n # 1)
    <3>1. \A i \in m .. (n - 1) - 1 : i \in 0 .. n - 1 /\ i # 0
      BY <2>2
    <3>2. \A i \in m .. (n - 1) - 1 : K[i] # K[0]
      BY <1>3, <3>1 DEF OneToOne
    <3> QED
      BY <1>4, <2>2, <3>2 DEF From
  <2> QED
    BY <2>1, <2>2
<1>11. q \in 0 .. n /\ (q > 0 <=> m > 0 \/ n = 1)
    BY <1>1, <1>3
<1>12. Sound(J, (n - 1) + 1, q, r) /\ (q = 0 => Clean(J, (n - 1) + 1, r))
  <2> HIDE DEF q
  <2>1. q \in {q}
    OBVIOUS
  <2> QED
    BY <1>3, <1>7, <1>9, <1>10, FrontKeeps
<1>13. r.head = x
    BY FrontIs
<1>14. lost \/ l.head = l.tail <=> q > 0
  <2>1. K[0] = K[n - 1] => 0 = n - 1
    BY <1>3 DEF OneToOne
  <2>2. l.head = l.tail <=> n = 1
    BY <1>2, <1>4, <2>1
  <2> QED
    BY <1>1, <1>11, <2>2
<1> HIDE DEF r, q
<1> QED
    BY <1>2, <1>3, <1>11, <1>12, <1>13, <1>14 DEF Linked, r

-----------------------------------------------------------------------------
\* Both caches together.
Order == [i \in 0 .. size - 1 |-> arr[i].key]

ListTypes ==
    /\ listSize \in 0 .. capacity
    /\ ListLRU!List \in Lists
    /\ table \in [ListLRU!Buckets -> Seq(Keys)]
    /\ crashed \in BOOLEAN /\ headRemoved \in BOOLEAN

\* What the list and the chains hold is what the array holds.
SameContents ==
    /\ listSize = size
    /\ \A b \in ListLRU!Buckets : NoRepeat(table[b])
    /\ \A k \in Keys : OnChain(table[hashFunction[k]], k) <=> k \in Abstract!Cached
    /\ \A k \in Abstract!Cached : node[k].value = Store[k]

BothInv ==
    /\ Inv
    /\ ListTypes
    /\ crashed => headRemoved
    /\ ~crashed => SameContents /\ Linked(Order, size, ListLRU!List, headRemoved)

LEMMA OrderIs ==
    ASSUME Inv
    PROVE  /\ size \in Nat /\ size <= capacity /\ capacity \in Nat \ {0}
           /\ OneToOne(Order, size)
           /\ \A i \in 0 .. size - 1 : Order[i] = arr[i].key
           /\ \A k : k \in Abstract!Cached <=> \E i \in 0 .. size - 1 : Order[i] = k
<1>1. size \in Nat /\ size <= capacity /\ capacity \in Nat \ {0}
    BY CapacitiesAssumption DEF Inv, TypeOK
<1>2. \A i \in 0 .. size - 1 : Order[i] = arr[i].key
    BY DEF Order
<1>3. \A i \in 0 .. size - 1 : arr[i].key \in Keys
    BY DEF Inv, TypeOK, Entries
<1>4. OneToOne(Order, size)
    BY <1>2, <1>3 DEF OneToOne, Inv, Distinct
<1>5. Abstract!Cached = {arr[i].key : i \in 0 .. size - 1}
    BY SeenIs
<1> HIDE DEF Order
<1> QED
    BY <1>1, <1>2, <1>4, <1>5

\* The order after a use.
OrderAfter(last, key) ==
    [i \in 0 .. SizeAfter(last) - 1 |->
        IF i = 0 THEN key ELSE IF i <= last THEN Order[i - 1] ELSE Order[i]]

\* A fresh node of the key may be put in front of list.
TakesFront(list, last, key, lost) ==
    \A s \in Lists :
       /\ s.head = list.head /\ s.tail = list.tail
       /\ s.node[key].next = NULL /\ s.node[key].prev = NULL
       /\ \A k \in Keys \ {key} : /\ s.node[k].next = list.node[k].next
                                  /\ s.node[k].prev = list.node[k].prev
       => Linked(OrderAfter(last, key), SizeAfter(last), ListLRU!addToFront(s, key), lost)

\* The order and the contents after a use.
LEMMA AfterUse ==
    ASSUME Inv, NEW last, NEW entry, Use(last, entry)
    PROVE  /\ Order' = OrderAfter(last, entry.key)
           /\ Abstract!Cached' = Staying(last) \cup {entry.key}
           /\ Staying(last) = Abstract!Cached \ {arr[last].key} \/ last = size
           /\ last = size => Staying(last) = Abstract!Cached
           /\ entry.key \notin Staying(last)
           /\ Store'[entry.key] = entry.value
           /\ \A k \in Staying(last) : Store'[k] = Store[k]
           /\ size' = SizeAfter(last) /\ capacity' = capacity
<1> DEFINE n == SizeAfter(last)
<1>1. /\ size \in Nat /\ last \in Nat /\ n \in Nat /\ n >= 1 /\ arr'[0] = entry
      /\ \A i \in 1 .. n - 1 :
            Of(last, i) \in (0 .. size - 1) \ {last} /\ arr'[i] = arr[Of(last, i)]
    BY PlacesAfterUse
<1>2. size' = n /\ capacity' = capacity
    BY DEF Use
<1>3. \A i \in 0 .. size - 1 : Order[i] = arr[i].key
    BY DEF Order
<1>4. Order' = [i \in 0 .. n - 1 |-> arr'[i].key]
    BY <1>2 DEF Order
<1> HIDE DEF n, Order
<1>5. ASSUME NEW i \in 0 .. n - 1
      PROVE  arr'[i].key = IF i = 0 THEN entry.key
                           ELSE IF i <= last THEN Order[i - 1] ELSE Order[i]
  <2>1. CASE i = 0
    BY <1>1, <2>1
  <2>2. CASE i # 0
    <3>1. i \in 1 .. n - 1
      BY <1>1, <2>2
    <3>2. arr'[i].key = Order[Of(last, i)]
      BY <1>1, <1>3, <3>1
    <3> QED
      BY <2>2, <3>2 DEF Of
  <2> QED
    BY <2>1, <2>2
<1>6. Order' = OrderAfter(last, entry.key)
    BY <1>4, <1>5 DEF OrderAfter, n
<1>7. /\ Abstract!Cached = {arr[i].key : i \in 0 .. size - 1}
      /\ \A i \in 0 .. size - 1 : Store[arr[i].key] = arr[i].value
      /\ \A k \in Keys \ Abstract!Cached : Store[k] = NoValue
    BY SeenIs
<1>8. /\ entry.key \in Keys /\ entry.value \in Values /\ entry.value # NoValue
      /\ \A i \in (0 .. size - 1) \ {last} : arr[i].key # entry.key
    BY ValuesAssumption DEF Use, Entries
<1>9. entry.key \notin Staying(last) /\ Staying(last) \subseteq Abstract!Cached
    BY <1>7, <1>8 DEF Staying
<1>10. Store' = [k \in Keys |-> IF k = entry.key THEN entry.value
                                ELSE IF k \in Staying(last) THEN Store[k] ELSE NoValue]
       /\ Staying(last) \subseteq Keys
    BY UseSeen
<1>11. \A k \in Abstract!Cached : Store[k] # NoValue
    BY DEF Abstract!Cached
<1>12. Abstract!Cached' = {k \in Keys : Store'[k] # NoValue}
    BY DEF Abstract!Cached
<1> HIDE DEF Store
<1>13. Store'[entry.key] = entry.value /\ \A k \in Staying(last) : Store'[k] = Store[k]
    BY <1>8, <1>9, <1>10
<1>14. Abstract!Cached' = Staying(last) \cup {entry.key}
    BY <1>8, <1>9, <1>10, <1>11, <1>12
<1>15. last # size => Staying(last) = Abstract!Cached \ {arr[last].key}
  <2> SUFFICES ASSUME last # size PROVE Staying(last) = Abstract!Cached \ {arr[last].key}
    OBVIOUS
  <2>1. last \in 0 .. size - 1
    BY <1>1 DEF Use
  <2> QED
    BY <1>7, <2>1 DEF Staying, Inv, Distinct
<1>16. last = size => Staying(last) = Abstract!Cached
  <2>1. size \notin 0 .. size - 1
    BY <1>1
  <2> QED
    BY <1>7, <2>1 DEF Staying
<1> QED
    BY <1>2, <1>6, <1>9, <1>13, <1>14, <1>15, <1>16 DEF n

\* Moving the node of a cached key, with the value its entry gets.
LEMMA MoveKeepsBoth ==
    ASSUME BothInv, ~crashed, NEW p \in 0 .. size - 1, NEW entry, Use(p, entry),
           entry.key = arr[p].key,
           NEW l \in Lists, l.head = head, l.tail = tail,
           \A k \in Keys : /\ l.node[k].next = node[k].next /\ l.node[k].prev = node[k].prev
                           /\ l.node[k].value = IF k = entry.key THEN entry.value
                                                ELSE node[k].value,
           ListLRU!MoveToFront(l, entry.key),
           UNCHANGED <<listSize, table, crashed>>
    PROVE  BothInv'
<1> DEFINE n == size
           x == entry.key
           s == ListLRU!removeFromList(l, x)
           r == ListLRU!addToFront(s, x)
           J == OrderAfter(p, x)
<1>1. /\ n \in Nat /\ OneToOne(Order, n) /\ Order[p] = x /\ n <= capacity /\ x \in Keys
      /\ x \in Abstract!Cached
  <2>1. Inv
    BY DEF BothInv
  <2>2. \A k : k \in Abstract!Cached <=> \E i \in 0 .. size - 1 : Order[i] = k
    BY <2>1, OrderIs
  <2>3. Order[p] = x /\ x \in Keys
    BY <2>1, OrderIs DEF OneToOne
  <2> QED
    BY <2>1, <2>2, <2>3, OrderIs
<1>2. SizeAfter(p) = n
    BY <1>1 DEF SizeAfter
<1>3. /\ Order' = J
      /\ Abstract!Cached' = Abstract!Cached
      /\ Store'[x] = entry.value
      /\ \A k \in Abstract!Cached \ {x} : Store'[k] = Store[k]
      /\ size' = n /\ capacity' = capacity
  <2>1. p # size
    BY <1>1
  <2>2. Inv
    BY DEF BothInv
  <2>3. Order' = J /\ size' = n /\ capacity' = capacity
    BY <1>2, <2>2, AfterUse
  <2>4. /\ Abstract!Cached' = Staying(p) \cup {x}
        /\ Staying(p) = Abstract!Cached \ {x}
        /\ Store'[x] = entry.value
        /\ \A k \in Staying(p) : Store'[k] = Store[k]
    BY <2>1, <2>2, AfterUse
  <2> HIDE DEF J, x, n
  <2> QED
    BY <1>1, <2>3, <2>4
<1>4. SameContents /\ Linked(Order, n, ListLRU!List, headRemoved) /\ headRemoved \in BOOLEAN
    BY DEF BothInv, ListTypes
<1>5. ListLRU!List.head = head /\ ListLRU!List.tail = tail /\ ListLRU!List.node = node
    BY DEF ListLRU!List
<1>6. Linked(Order, n, l, headRemoved)
  <2> HIDE DEF n
  <2> QED
    BY <1>1, <1>4, <1>5, SameLinks
<1>7. Linked(J, n, r, headRemoved \/ l.head = x)
  <2>1. \A i \in 0 .. n - 1 :
            J[i] = IF i = 0 THEN Order[p] ELSE IF i <= p THEN Order[i - 1] ELSE Order[i]
    BY <1>1, <1>2 DEF OrderAfter
  <2>2. p \in 0 .. n - 1
    OBVIOUS
  <2> HIDE DEF n, J
  <2> QED
    BY <1>1, <1>6, <2>1, <2>2, MoveKeeps
<1>8. /\ s \in Lists /\ r \in Lists
      /\ \A k \in Keys : r.node[k].value = l.node[k].value
  <2>1. s \in Lists /\ \A k \in Keys : s.node[k].value = l.node[k].value
    BY <1>1, RemoveIs
  <2> HIDE DEF s
  <2> QED
    BY <1>1, <2>1, FrontIs
<1>9. /\ head' = r.head /\ tail' = r.tail /\ node' = r.node
      /\ headRemoved' = (headRemoved \/ head = x)
      /\ listSize' = listSize /\ table' = table /\ crashed' = crashed
    BY DEF ListLRU!MoveToFront, ListLRU!Becomes
<1> HIDE DEF s, r, x, J
<1>10. ListLRU!List' = r
  <2>1. ListLRU!List' = [head |-> r.head, tail |-> r.tail, node |-> r.node]
    BY <1>9 DEF ListLRU!List
  <2> QED
    BY <1>8, <2>1 DEF Lists
<1>11. headRemoved' \in BOOLEAN /\ headRemoved' = (headRemoved \/ l.head = x)
    BY <1>9
<1>12. Linked(Order', size', ListLRU!List', headRemoved')
    BY <1>3, <1>7, <1>10, <1>11
<1>13. ListTypes'
  <2>1. listSize \in 0 .. capacity /\ table \in [ListLRU!Buckets -> Seq(Keys)] /\ crashed \in BOOLEAN
    BY DEF BothInv, ListTypes
  <2> QED
    BY <1>3, <1>8, <1>9, <1>10, <1>11, <2>1 DEF ListTypes, ListLRU!Buckets
<1>14. SameContents'
  <2>1. listSize' = size'
    BY <1>3, <1>4, <1>9 DEF SameContents
  <2>2. \A k \in Abstract!Cached' : node'[k].value = Store'[k]
    <3>1. Abstract!Cached \subseteq Keys
      BY DEF Abstract!Cached
    <3> QED
      BY <1>3, <1>4, <1>8, <1>9, <3>1 DEF SameContents, x
  <2>3. /\ \A b \in ListLRU!Buckets : NoRepeat(table'[b])
        /\ \A k \in Keys : OnChain(table'[hashFunction[k]], k) <=> k \in Abstract!Cached'
    BY <1>3, <1>4, <1>9 DEF SameContents
  <2> QED
    BY <2>1, <2>2, <2>3 DEF SameContents, ListLRU!Buckets
<1>15. Inv'
    BY UseKeepsInv DEF BothInv
<1> QED
    BY <1>9, <1>12, <1>13, <1>14, <1>15 DEF BothInv

\* A new node, behind which the list and the chains hold what the array keeps.
LEMMA NewKeepsBoth ==
    ASSUME BothInv, ~crashed, NEW last, NEW entry, Use(last, entry),
           NEW key \in Keys, NEW value \in Values, entry = [key |-> key, value |-> value],
           key \notin Abstract!Cached,
           NEW l \in Lists, NEW chains \in [ListLRU!Buckets -> Seq(Keys)],
           ListLRU!NewNode(l, chains, key, value),
           NEW lost \in BOOLEAN, headRemoved' = lost,
           TakesFront(l, last, key, lost),
           \A k \in Staying(last) : l.node[k].value = node[k].value,
           \A b \in ListLRU!Buckets : NoRepeat(chains[b]),
           \A k \in Keys : OnChain(chains[hashFunction[k]], k) <=> k \in Staying(last),
           listSize' \in Nat, listSize' = SizeAfter(last),
           UNCHANGED crashed
    PROVE  BothInv'
<1> DEFINE v == [value |-> value, prev |-> NULL, next |-> NULL]
           s == [l EXCEPT !.node[key] = v]
           r == ListLRU!addToFront(s, key)
           t == [chains EXCEPT ![hashFunction[key]] = <<key>> \o @]
           n == SizeAfter(last)
           J == OrderAfter(last, key)
<1>1. /\ s \in Lists /\ s.head = l.head /\ s.tail = l.tail
      /\ s.node[key] = [value |-> value, prev |-> NULL, next |-> NULL]
      /\ \A k \in Keys \ {key} : s.node[k] = l.node[k]
  <2>1. v \in Nodes /\ l.node \in [Keys -> Nodes]
    BY DEF Nodes, Lists
  <2> HIDE DEF v
  <2>2. s \in Lists
    BY <2>1 DEF Lists
  <2>3. s.head = l.head
    BY DEF Lists
  <2>4. s.tail = l.tail
    BY DEF Lists
  <2>5. s.node = [l.node EXCEPT ![key] = v]
    BY DEF Lists
  <2> HIDE DEF s
  <2>6. s.node[key] = v /\ \A k \in Keys \ {key} : s.node[k] = l.node[k]
    BY <2>1, <2>5
  <2> QED
    BY <2>2, <2>3, <2>4, <2>6 DEF v
<1>2. table' = t /\ head' = r.head /\ tail' = r.tail /\ node' = r.node
    BY DEF ListLRU!NewNode, ListLRU!Becomes
<1> HIDE DEF s
<1>3. Linked(J, n, r, lost)
    BY <1>1 DEF TakesFront
<1>4. r \in Lists /\ \A k \in Keys : r.node[k].value = s.node[k].value
    BY <1>1, FrontIs
<1>5. /\ t \in [ListLRU!Buckets -> Seq(Keys)]
      /\ \A b \in ListLRU!Buckets : NoRepeat(t[b])
      /\ \A k \in Keys : OnChain(t[hashFunction[k]], k) <=> k = key \/ k \in Staying(last)
  <2> DEFINE c == chains[hashFunction[key]]
  <2>1. \A k \in Keys : hashFunction[k] \in ListLRU!Buckets
    BY DEF ListLRU!Buckets
  <2>2. ~OnChain(c, key)
    <3>1. key \notin Staying(last)
      BY AfterUse DEF BothInv
    <3> QED
      BY <3>1
  <2>3. c \in Seq(Keys) /\ NoRepeat(c)
    BY <2>1
  <2>4. /\ <<key>> \o c \in Seq(Keys) /\ NoRepeat(<<key>> \o c)
        /\ \A k : OnChain(<<key>> \o c, k) <=> k = key \/ OnChain(c, k)
    BY <2>2, <2>3, Prepended
  <2>5. \A b \in ListLRU!Buckets : t[b] = IF b = hashFunction[key] THEN <<key>> \o c ELSE chains[b]
    BY <2>1
  <2>6. t \in [ListLRU!Buckets -> Seq(Keys)]
    BY <2>1, <2>4
  <2> HIDE DEF t
  <2>7. \A b \in ListLRU!Buckets : NoRepeat(t[b])
    BY <2>4, <2>5
  <2>8. ASSUME NEW k \in Keys
        PROVE  OnChain(t[hashFunction[k]], k) <=> k = key \/ k \in Staying(last)
    <3>1. OnChain(chains[hashFunction[k]], k) <=> k \in Staying(last)
      OBVIOUS
    <3>2. CASE hashFunction[k] = hashFunction[key]
      BY <2>1, <2>4, <2>5, <3>1, <3>2
    <3>3. CASE hashFunction[k] # hashFunction[key]
      BY <2>1, <2>5, <3>1, <3>3
    <3> QED
      BY <3>2, <3>3
  <2> QED
    BY <2>6, <2>7, <2>8
<1> HIDE DEF t, r
<1>6. /\ Order' = J
      /\ Abstract!Cached' = Staying(last) \cup {key}
      /\ Store'[key] = value
      /\ \A k \in Staying(last) : Store'[k] = Store[k]
      /\ size' = n /\ capacity' = capacity
      /\ key \notin Staying(last)
      /\ Staying(last) \subseteq Abstract!Cached
  <2>1. Inv /\ entry.key = key /\ entry.value = value
    BY DEF BothInv
  <2>2. /\ Staying(last) = Abstract!Cached \ {arr[last].key} \/ last = size
        /\ last = size => Staying(last) = Abstract!Cached
    BY <2>1, AfterUse
  <2>3. Order' = J
    BY <2>1, AfterUse
  <2>4. /\ Abstract!Cached' = Staying(last) \cup {key}
        /\ Store'[key] = value
        /\ \A k \in Staying(last) : Store'[k] = Store[k]
        /\ size' = n /\ capacity' = capacity
        /\ key \notin Staying(last)
    BY <2>1, AfterUse
  <2> QED
    BY <2>2, <2>3, <2>4
<1>7. n \in Nat /\ n <= capacity /\ capacity \in Nat
    BY PlacesAfterUse DEF BothInv
<1> HIDE DEF n, J
<1>8. ListLRU!List' = r
  <2>1. ListLRU!List' = [head |-> r.head, tail |-> r.tail, node |-> r.node]
    BY <1>2 DEF ListLRU!List
  <2> QED
    BY <1>4, <2>1 DEF Lists
<1>9. Linked(Order', size', ListLRU!List', headRemoved')
    BY <1>3, <1>6, <1>8
<1>10. listSize' = n
    BY DEF n
<1>11. ListTypes'
  <2>1. n \in 0 .. capacity
    BY <1>7
  <2>2. crashed \in BOOLEAN
    BY DEF BothInv, ListTypes
  <2> QED
    BY <1>2, <1>4, <1>5, <1>6, <1>8, <1>10, <2>1, <2>2 DEF ListTypes, ListLRU!Buckets
<1>12. SameContents'
  <2>1. \A k \in Abstract!Cached : k \in Keys /\ node[k].value = Store[k]
    BY DEF BothInv, SameContents, Abstract!Cached
  <2>2. \A k \in Abstract!Cached' : node'[k].value = Store'[k]
    BY <1>1, <1>2, <1>4, <1>6, <2>1
  <2>3. \A k \in Keys : OnChain(table'[hashFunction[k]], k) <=> k \in Abstract!Cached'
    BY <1>2, <1>5, <1>6
  <2>4. \A b \in ListLRU!Buckets : NoRepeat(table'[b])
    BY <1>2, <1>5
  <2> QED
    BY <1>6, <1>10, <2>2, <2>3, <2>4 DEF SameContents, ListLRU!Buckets
<1>13. Inv'
    BY UseKeepsInv DEF BothInv
<1> QED
    BY <1>9, <1>11, <1>12, <1>13 DEF BothInv

LEMMA BothStart == BothInit => BothInv
<1> SUFFICES ASSUME BothInit PROVE BothInv
    OBVIOUS
<1>1. Inv /\ size = 0 /\ 0 .. size - 1 = {} /\ 0 .. 0 - 1 = {} /\ capacity \in Nat \ {0}
    BY ArrayInit, OrderIs DEF BothInit, Init
<1>2. Abstract!Cached = {}
    BY <1>1, SeenIs
<1>3. /\ listSize = 0 /\ head = NULL /\ tail = NULL
      /\ node = [k \in Keys |-> [value |-> NoValue, prev |-> NULL, next |-> NULL]]
      /\ table = [b \in ListLRU!Buckets |-> <<>>]
      /\ crashed = FALSE /\ headRemoved = FALSE
    BY DEF BothInit, ListLRU!Init
<1>4. ListLRU!List.head = NULL /\ ListLRU!List.tail = NULL /\ ListLRU!List.node = node
    BY <1>3 DEF ListLRU!List
<1>5. ListTypes
  <2>1. node \in [Keys -> Nodes]
    BY <1>3 DEF Nodes
  <2>2. ListLRU!List \in Lists
    BY <1>3, <2>1 DEF ListLRU!List, Lists
  <2>3. table \in [ListLRU!Buckets -> Seq(Keys)]
    BY <1>3
  <2>4. listSize \in 0 .. capacity
    BY <1>1, <1>3
  <2> QED
    BY <1>3, <2>2, <2>3, <2>4 DEF ListTypes
<1>6. SameContents
  <2>1. \A k \in Keys : hashFunction[k] \in ListLRU!Buckets
    BY DEF ListLRU!Buckets
  <2>2. \A b \in ListLRU!Buckets : table[b] = <<>> /\ DOMAIN table[b] = {}
    BY <1>3
  <2> QED
    BY <1>1, <1>2, <1>3, <2>1, <2>2 DEF SameContents, NoRepeat, OnChain
<1>7. Linked(Order, size, ListLRU!List, headRemoved)
  <2>1. From(Order, 0, 0) = {}
    BY <1>1 DEF From
  <2>2. \A k \in Keys : node[k].next = NULL /\ node[k].prev = NULL
    BY <1>3
  <2>3. Sound(Order, 0, 0, ListLRU!List) /\ Clean(Order, 0, ListLRU!List)
    BY <1>1, <1>4, <2>1, <2>2 DEF Sound, Clean
  <2>4. 0 \in 0 .. 0 /\ ~(0 > 0)
    OBVIOUS
  <2> QED
    BY <1>1, <1>3, <1>4, <2>3, <2>4 DEF Linked
<1> QED
    BY <1>1, <1>3, <1>5, <1>6, <1>7 DEF BothInv

\* What the guards of the two caches see is the same.
LEMMA Agree ==
    ASSUME BothInv, ~crashed, NEW key \in Keys
    PROVE  /\ indexKey(key) # -1 <=> key \in Abstract!Cached
           /\ ListLRU!Listed(key) <=> key \in Abstract!Cached
           /\ listSize = size
<1>1. Inv /\ SameContents
    BY DEF BothInv
<1>2. Abstract!Cached = {arr[i].key : i \in 0 .. size - 1}
    BY <1>1, SeenIs
<1>3. ~(-1 \in 0 .. size - 1)
    OBVIOUS
<1>4. indexKey(key) # -1 <=> key \in Abstract!Cached
    BY <1>1, <1>2, <1>3, IndexIs
<1>5. ListLRU!Listed(key) <=> OnChain(table[hashFunction[key]], key)
    BY DEF ListLRU!Listed, ListLRU!Chain, OnChain
<1> QED
    BY <1>1, <1>4, <1>5 DEF SameContents

LEMMA GetKeeps ==
    ASSUME BothInv, NEW key \in Keys, Get(key)
    PROVE  BothInv'
<1> DEFINE p == indexKey(key)
           entry == arr[p]
<1>1. Inv /\ ~crashed
    BY DEF BothInv, Get, ListLRU!lruCacheGet
<1>2. p \in 0 .. size - 1 /\ arr[p].key = key
    BY <1>1, IndexIs DEF Get, getLruCache
<1>3. arr[p].value \in Values
    BY <1>1, <1>2 DEF Inv, TypeOK, Entries
<1>4. Use(p, entry)
    BY <1>1, <1>3, CallsUse DEF Get
<1>5. node[key].value = entry.value
  <2>1. key \in Abstract!Cached /\ Store[key] = entry.value
    BY <1>1, <1>2, SeenIs
  <2> QED
    BY <1>1, <2>1 DEF BothInv, SameContents
<1>6. ListLRU!MoveToFront(ListLRU!List, key) /\ UNCHANGED <<listSize, table, crashed>>
    BY DEF Get, ListLRU!lruCacheGet
<1>7. /\ ListLRU!List \in Lists
      /\ ListLRU!List.head = head /\ ListLRU!List.tail = tail /\ ListLRU!List.node = node
    BY DEF BothInv, ListTypes, ListLRU!List
<1> HIDE DEF p
<1> QED
    BY <1>1, <1>2, <1>4, <1>5, <1>6, <1>7, MoveKeepsBoth

LEMMA UpdateKeeps ==
    ASSUME BothInv, NEW key \in Keys, NEW value \in Values,
           Update(key, value), ListLRU!Update(key, value)
    PROVE  BothInv'
<1> DEFINE p == indexKey(key)
           entry == [key |-> key, value |-> value]
           l == [ListLRU!List EXCEPT !.node[key].value = value]
<1>1. Inv /\ ~crashed
    BY DEF BothInv, ListLRU!Update
<1>2. p \in 0 .. size - 1 /\ arr[p].key = key /\ Use(p, entry)
    BY <1>1, CallsUse
<1>3. /\ ListLRU!List \in Lists
      /\ ListLRU!List.head = head /\ ListLRU!List.tail = tail /\ ListLRU!List.node = node
    BY DEF BothInv, ListTypes, ListLRU!List
<1>4. /\ l \in Lists /\ l.head = head /\ l.tail = tail
      /\ \A k \in Keys : /\ l.node[k].next = node[k].next /\ l.node[k].prev = node[k].prev
                         /\ l.node[k].value = IF k = key THEN value ELSE node[k].value
  <2> DEFINE v == [node[key] EXCEPT !.value = value]
  <2>1. node \in [Keys -> Nodes] /\ node[key] \in Nodes
    BY <1>3 DEF Lists
  <2>2. v \in Nodes /\ v.next = node[key].next /\ v.prev = node[key].prev /\ v.value = value
    BY <2>1 DEF Nodes
  <2>3. l = [head |-> head, tail |-> tail, node |-> [node EXCEPT ![key] = v]]
    BY <1>3 DEF ListLRU!List
  <2> HIDE DEF l, v
  <2>4. [node EXCEPT ![key] = v] \in [Keys -> Nodes]
    BY <2>1, <2>2
  <2>5. l \in Lists
    BY <1>3, <2>3, <2>4 DEF Lists
  <2>6. \A k \in Keys : l.node[k] = IF k = key THEN v ELSE node[k]
    BY <2>1, <2>3
  <2> QED
    BY <2>2, <2>3, <2>5, <2>6
<1>5. ListLRU!MoveToFront(l, key) /\ UNCHANGED <<listSize, table, crashed>>
    BY DEF ListLRU!Update
<1>6. entry.key = key /\ entry.value = value
    OBVIOUS
<1> HIDE DEF p, l, entry
<1> QED
    BY <1>1, <1>2, <1>4, <1>5, <1>6, MoveKeepsBoth

LEMMA InsertKeepsBoth ==
    ASSUME BothInv, NEW key \in Keys, NEW value \in Values,
           Insert(key, value), ListLRU!Insert(key, value)
    PROVE  BothInv'
<1> DEFINE entry == [key |-> key, value |-> value]
           n == size
           l == ListLRU!List
           J == OrderAfter(size, key)
<1>1. Inv /\ ~crashed /\ ListTypes /\ SameContents /\ Linked(Order, n, l, headRemoved)
    BY DEF BothInv, ListLRU!Insert
<1>2. Use(size, entry) /\ key \notin Abstract!Cached
    BY <1>1, CallsUse, Agree DEF Insert
<1>3. /\ n \in Nat /\ OneToOne(Order, n) /\ SizeAfter(size) = n + 1
      /\ \A i \in 0 .. n - 1 : Order[i] # key
    BY <1>1, <1>2, OrderIs DEF SizeAfter
<1>4. ASSUME NEW s \in Lists, s.head = l.head, s.tail = l.tail,
             s.node[key].next = NULL, s.node[key].prev = NULL,
             \A k \in Keys \ {key} : /\ s.node[k].next = l.node[k].next
                                     /\ s.node[k].prev = l.node[k].prev
      PROVE  Linked(J, SizeAfter(size), ListLRU!addToFront(s, key), headRemoved)
  <2>1. key \notin From(Order, n, 0)
    BY <1>3 DEF From
  <2> HIDE DEF l, n
  <2>2. Linked(Order, n, s, headRemoved)
    BY <1>1, <1>3, <1>4, <2>1, SameLinks
  <2>3. J[0] = key /\ \A i \in 1 .. n : J[i] = Order[i - 1]
    <3>1. 0 \in 0 .. SizeAfter(size) - 1
      BY <1>3
    <3>2. \A i \in 1 .. n : i \in 0 .. SizeAfter(size) - 1 /\ i # 0 /\ i <= n
      BY <1>3
    <3> QED
      BY <3>1, <3>2 DEF n, OrderAfter
  <2> HIDE DEF J
  <2> QED
    BY <1>3, <1>4, <2>2, <2>3, InsertKeeps
<1>5. l \in Lists /\ l.node = node /\ table \in [ListLRU!Buckets -> Seq(Keys)]
      /\ headRemoved \in BOOLEAN
    BY <1>1 DEF ListTypes, ListLRU!List
<1>6. /\ ListLRU!NewNode(l, table, key, value)
      /\ listSize' = n + 1 /\ headRemoved' = headRemoved /\ UNCHANGED crashed
    BY <1>1 DEF ListLRU!Insert, SameContents
<1>7. Staying(size) = Abstract!Cached
    BY <1>1, <1>2, AfterUse
<1>8. listSize' \in Nat /\ listSize' = SizeAfter(size)
    BY <1>3, <1>6
<1>9. \A k \in Keys : OnChain(table[hashFunction[k]], k) <=> k \in Staying(size)
    BY <1>1, <1>7 DEF SameContents
<1>10. \A b \in ListLRU!Buckets : NoRepeat(table[b])
    BY <1>1 DEF SameContents
<1>11. \A k \in Staying(size) : l.node[k].value = node[k].value
    BY <1>5
<1>12. TakesFront(l, size, key, headRemoved)
  <2> HIDE DEF l
  <2> QED
    BY <1>4 DEF TakesFront
<1>13. entry = [key |-> key, value |-> value]
    OBVIOUS
<1> HIDE DEF entry, l, n
<1> QED
    BY <1>1, <1>2, <1>5, <1>6, <1>8, <1>9, <1>10, <1>11, <1>12, <1>13, NewKeepsBoth

LEMMA ReplaceKeepsBoth ==
    ASSUME BothInv, NEW key \in Keys, NEW value \in Values,
           Replace(key, value), ListLRU!Replace(key, value)
    PROVE  BothInv'
<1> DEFINE entry == [key |-> key, value |-> value]
           n == size
           last == size - 1
           rest == ListLRU!removeFromList(ListLRU!List, tail)
           l == [rest EXCEPT !.node[tail].value = NoValue]
           chains == ListLRU!WithoutKey(tail)
           lost == (headRemoved \/ head = tail)
           J == OrderAfter(last, key)
<1>1. /\ Inv /\ ~crashed /\ ListTypes /\ SameContents
      /\ Linked(Order, n, ListLRU!List, headRemoved)
    BY DEF BothInv, ListLRU!Replace
<1>2. Use(last, entry) /\ key \notin Abstract!Cached /\ tail # NULL /\ size = capacity
    BY <1>1, CallsUse, Agree DEF Replace, ListLRU!Replace
<1>3. /\ n \in Nat \ {0} /\ OneToOne(Order, n) /\ last \in 0 .. n - 1
      /\ SizeAfter(last) = n /\ \A i \in 0 .. n - 1 : Order[i] # key
      /\ last # size
  <2>1. n \in Nat \ {0} /\ OneToOne(Order, n) /\ \A i \in 0 .. n - 1 : Order[i] # key
    BY <1>1, <1>2, OrderIs
  <2>2. last \in 0 .. n - 1 /\ last # size
    BY <2>1
  <2> QED
    BY <2>1, <2>2 DEF SizeAfter
<1>4. /\ ListLRU!List \in Lists
      /\ ListLRU!List.head = head /\ ListLRU!List.tail = tail /\ ListLRU!List.node = node
      /\ table \in [ListLRU!Buckets -> Seq(Keys)] /\ headRemoved \in BOOLEAN
    BY <1>1 DEF ListTypes, ListLRU!List
<1>5. tail = arr[last].key /\ tail = Order[last] /\ tail \in Keys /\ tail \in Abstract!Cached
  <2>1. ListLRU!List.tail # NULL
    BY <1>2, <1>4
  <2>2. tail = Order[n - 1]
    BY <1>1, <1>3, <1>4, <2>1, TailIs
  <2>3. Order[last] = arr[last].key
    BY <1>3 DEF Order
  <2>4. Order[last] \in Keys /\ Order[last] \in Abstract!Cached
    BY <1>1, <1>3, OrderIs DEF OneToOne
  <2> QED
    BY <2>2, <2>3, <2>4
<1>6. /\ rest \in Lists /\ rest.head = head
      /\ \A k \in Keys : rest.node[k].value = node[k].value
    BY <1>4, <1>5, RemoveIs, SMTT(30)
<1> HIDE DEF rest
<1>7. /\ l \in Lists /\ l.head = head /\ l.tail = rest.tail
      /\ \A k \in Keys : /\ l.node[k].next = rest.node[k].next
                         /\ l.node[k].prev = rest.node[k].prev
                         /\ k # tail => l.node[k].value = node[k].value
  <2> DEFINE v == [rest.node[tail] EXCEPT !.value = NoValue]
  <2>1. rest.node \in [Keys -> Nodes] /\ rest.node[tail] \in Nodes
        /\ rest = [head |-> rest.head, tail |-> rest.tail, node |-> rest.node]
    BY <1>5, <1>6 DEF Lists
  <2>2. v \in Nodes /\ v.next = rest.node[tail].next /\ v.prev = rest.node[tail].prev
    BY <2>1 DEF Nodes
  <2>3. l = [head |-> rest.head, tail |-> rest.tail, node |-> [rest.node EXCEPT ![tail] = v]]
    BY <2>1
  <2> HIDE DEF l, v
  <2>4. [rest.node EXCEPT ![tail] = v] \in [Keys -> Nodes]
    BY <2>1, <2>2
  <2>5. l \in Lists
    BY <1>6, <2>3, <2>4 DEF Lists
  <2>6. \A k \in Keys : l.node[k] = IF k = tail THEN v ELSE rest.node[k]
    BY <2>1, <2>3
  <2> QED
    BY <1>6, <2>2, <2>3, <2>5, <2>6
<1> HIDE DEF l
<1>8. ASSUME NEW s \in Lists, s.head = l.head, s.tail = l.tail,
             s.node[key].next = NULL, s.node[key].prev = NULL,
             \A k \in Keys \ {key} : /\ s.node[k].next = l.node[k].next
                                     /\ s.node[k].prev = l.node[k].prev
      PROVE  Linked(J, SizeAfter(last), ListLRU!addToFront(s, key), lost)
  <2>1. J[0] = key /\ \A i \in 1 .. n - 1 : J[i] = Order[i - 1]
    <3>1. 0 \in 0 .. SizeAfter(last) - 1
      BY <1>3
    <3>2. \A i \in 1 .. n - 1 : i \in 0 .. SizeAfter(last) - 1 /\ i # 0 /\ i <= last
      BY <1>3
    <3> QED
      BY <3>1, <3>2 DEF OrderAfter
  <2> DEFINE a == ListLRU!List
  <2>2. /\ a \in Lists /\ Linked(Order, n, a, headRemoved) /\ a.tail # NULL
        /\ a.head = head /\ a.tail = tail
    BY <1>1, <1>2, <1>4
  <2>3. rest = ListLRU!removeFromList(a, a.tail)
    BY <2>2 DEF rest
  <2>4. \A k \in Keys \ {key} : s.node[k].next = rest.node[k].next /\ s.node[k].prev = rest.node[k].prev
    BY <1>7, <1>8
  <2>5. s.head = a.head /\ s.tail = rest.tail
    BY <1>7, <1>8, <2>2
  <2> HIDE DEF J, a, n
  <2>6. Linked(J, n, ListLRU!addToFront(s, key), headRemoved \/ a.head = a.tail)
    BY <1>3, <1>8, <2>1, <2>2, <2>3, <2>4, <2>5, ReplaceKeeps
  <2> QED
    BY <1>3, <2>2, <2>6
<1>9. TakesFront(l, last, key, lost)
  <2> HIDE DEF J, lost
  <2> QED
    BY <1>8 DEF TakesFront, J
<1>10. Staying(last) = Abstract!Cached \ {tail}
    BY <1>1, <1>2, <1>3, <1>5, AfterUse
<1>11. \A k \in Staying(last) : l.node[k].value = node[k].value
    BY <1>7, <1>10 DEF Abstract!Cached
<1>12. /\ chains \in [ListLRU!Buckets -> Seq(Keys)]
       /\ \A b \in ListLRU!Buckets : NoRepeat(chains[b])
       /\ \A k \in Keys : OnChain(chains[hashFunction[k]], k) <=> k \in Staying(last)
  <2> DEFINE c == table[hashFunction[tail]]
             d == ListLRU!RemoveFirst(c, tail)
  <2>1. \A k \in Keys : hashFunction[k] \in ListLRU!Buckets
    BY DEF ListLRU!Buckets
  <2>2. c \in Seq(Keys) /\ NoRepeat(c) /\ OnChain(c, tail)
    BY <1>1, <1>4, <1>5, <2>1 DEF SameContents
  <2>3. d \in Seq(Keys) /\ NoRepeat(d) /\ \A k : OnChain(d, k) <=> k # tail /\ OnChain(c, k)
    BY <1>5, <2>2, TakenOff
  <2>4. chains = [table EXCEPT ![hashFunction[tail]] = d]
    BY DEF ListLRU!WithoutKey
  <2> HIDE DEF chains, d
  <2>5. \A b \in ListLRU!Buckets : chains[b] = IF b = hashFunction[tail] THEN d ELSE table[b]
    BY <1>4, <2>4
  <2>6. chains \in [ListLRU!Buckets -> Seq(Keys)]
    BY <1>4, <2>3, <2>4
  <2>7. \A b \in ListLRU!Buckets : NoRepeat(chains[b])
    BY <1>1, <2>3, <2>5 DEF SameContents
  <2>8. ASSUME NEW k \in Keys
        PROVE  OnChain(chains[hashFunction[k]], k) <=> k \in Staying(last)
    <3>1. OnChain(table[hashFunction[k]], k) <=> k \in Abstract!Cached
      BY <1>1 DEF SameContents
    <3>2. CASE hashFunction[k] = hashFunction[tail]
      BY <1>5, <1>10, <2>1, <2>3, <2>5, <3>1, <3>2
    <3>3. CASE hashFunction[k] # hashFunction[tail]
      BY <1>5, <1>10, <2>1, <2>5, <3>1, <3>3
    <3> QED
      BY <3>2, <3>3
  <2> QED
    BY <2>6, <2>7, <2>8
<1>13. ListLRU!NewNode(l, chains, key, value)
    BY DEF ListLRU!Replace, l, rest
<1> HIDE DEF chains
<1>14. /\ headRemoved' = lost /\ lost \in BOOLEAN /\ UNCHANGED crashed /\ listSize' = listSize
    BY DEF ListLRU!Replace
<1>15. listSize' \in Nat /\ listSize' = SizeAfter(last)
    BY <1>1, <1>3, <1>14 DEF SameContents
<1>16. entry = [key |-> key, value |-> value]
    OBVIOUS
<1> HIDE DEF entry, n, last, lost
<1> QED
    BY <1>1, <1>2, <1>7, <1>9, <1>11, <1>12, <1>13, <1>14, <1>15, <1>16, NewKeepsBoth

LEMMA CrashKeeps ==
    ASSUME BothInv, NEW key \in Keys, NEW value \in Values,
           lruCachePut(key, value), ListLRU!Crash(key)
    PROVE  BothInv'
<1>1. Inv /\ ~crashed /\ ListTypes /\ Linked(Order, size, ListLRU!List, headRemoved)
      /\ listSize = capacity /\ listSize = size /\ tail = NULL
    BY Agree DEF BothInv, ListLRU!Crash
<1>2. headRemoved
  <2>1. size \in Nat /\ size # 0 /\ OneToOne(Order, size) /\ ListLRU!List.tail = NULL
    BY <1>1, OrderIs DEF ListLRU!List
  <2> QED
    BY <1>1, <2>1, TailIs
<1>3. Inv'
  <2>1. [Next]_vars
    BY DEF Next
  <2> QED
    BY <1>1, <2>1, ArrayInductive
<1>4. capacity' = capacity
    BY DEF ListLRU!Crash
<1>5. /\ crashed' = TRUE /\ headRemoved' = headRemoved /\ listSize' = listSize /\ table' = table
      /\ ListLRU!List' = ListLRU!List
    BY DEF ListLRU!Crash, ListLRU!List
<1>6. ListTypes'
    BY <1>1, <1>4, <1>5 DEF ListTypes, ListLRU!Buckets
<1> QED
    BY <1>2, <1>3, <1>5, <1>6 DEF BothInv

LEMMA BothInductive == BothInv /\ [BothNext]_<<vars, listVars>> => BothInv'
<1> SUFFICES ASSUME BothInv, [BothNext]_<<vars, listVars>> PROVE BothInv'
    OBVIOUS
<1>1. ASSUME NEW key \in Keys, Get(key) PROVE BothInv'
    BY <1>1, GetKeeps
<1>2. ASSUME NEW key \in Keys, NEW value \in Values, Put(key, value) PROVE BothInv'
  <2>1. ~crashed
    BY <1>2 DEF Put, ListLRU!lruCachePut, ListLRU!Update, ListLRU!Insert, ListLRU!Replace, ListLRU!Crash
  <2>2. /\ indexKey(key) # -1 <=> ListLRU!Listed(key)
        /\ listSize = size /\ size <= capacity /\ size \in Nat /\ capacity \in Nat
    BY <2>1, Agree, OrderIs DEF BothInv
  <2>3. \/ Update(key, value) /\ ListLRU!Update(key, value)
        \/ Insert(key, value) /\ ListLRU!Insert(key, value)
        \/ Replace(key, value) /\ ListLRU!Replace(key, value)
        \/ lruCachePut(key, value) /\ ListLRU!Crash(key)
    <3>1. Update(key, value) => ListLRU!Listed(key)
      BY <2>2 DEF Update
    <3>2. Insert(key, value) => ~ListLRU!Listed(key) /\ listSize # capacity
      BY <2>2 DEF Insert
    <3>3. Replace(key, value) => ~ListLRU!Listed(key) /\ listSize = capacity
      BY <2>2 DEF Replace
    <3>4. /\ ListLRU!Update(key, value) => ListLRU!Listed(key)
          /\ ListLRU!Insert(key, value) => ~ListLRU!Listed(key) /\ listSize # capacity
          /\ ListLRU!Replace(key, value) => ~ListLRU!Listed(key) /\ listSize = capacity
          /\ ListLRU!Crash(key) => ~ListLRU!Listed(key) /\ listSize = capacity
      BY DEF ListLRU!Update, ListLRU!Insert, ListLRU!Replace, ListLRU!Crash
    <3> QED
      BY <1>2, <3>1, <3>2, <3>3, <3>4 DEF Put, lruCachePut, ListLRU!lruCachePut
  <2> QED
    BY <2>3, UpdateKeeps, InsertKeepsBoth, ReplaceKeepsBoth, CrashKeeps
<1>3. CASE UNCHANGED <<vars, listVars>>
  <2>1. Inv'
    BY <1>3, ArrayInductive DEF BothInv
  <2>2. \A k : indexKey(k)' = indexKey(k)
    BY <1>3 DEF vars, indexKey
  <2>3. Store' = Store
    BY <1>3, <2>2 DEF vars, Store
  <2>4. Abstract!Cached' = Abstract!Cached
    BY <2>3 DEF Abstract!Cached
  <2>5. Order' = Order /\ ListLRU!List' = ListLRU!List
    BY <1>3 DEF vars, listVars, Order, ListLRU!List
  <2> QED
    BY <1>3, <2>1, <2>3, <2>4, <2>5
       DEF vars, listVars, BothInv, ListTypes, SameContents, ListLRU!Buckets
<1> QED
    BY <1>1, <1>2, <1>3 DEF BothNext

\* Two walks that start at the same node and never part are the same.
LEMMA SameWalk ==
    ASSUME NEW n \in Nat, NEW F, NEW G, F[0] = G[0],
           \A i \in 1 .. n : F[i - 1] = G[i - 1] => F[i] = G[i]
    PROVE  \A i \in 0 .. n : F[i] = G[i]
<1> DEFINE T == {i \in 0 .. n : F[i] # G[i]}
           R == OpToRel(<, Nat)
<1>1. SUFFICES ASSUME T # {} PROVE FALSE
    OBVIOUS
<1>2. \A i, j \in Nat : i < j => <<i, j>> \in R
    BY DEF OpToRel
<1>3. IsWellFoundedOn(R, Nat)
    BY NatLessThanWellFounded
<1> HIDE DEF R
<1>4. PICK m \in T : \A k \in T : ~(<<k, m>> \in R)
  <2>1. T \subseteq Nat
    OBVIOUS
  <2> HIDE DEF T
  <2> QED
    BY <1>1, <1>3, <2>1, WFMin
<1>5. m \in 1 .. n /\ m - 1 \in 0 .. n /\ m - 1 \in Nat /\ m \in Nat /\ m - 1 < m
    OBVIOUS
<1>6. m - 1 \notin T
    BY <1>2, <1>4, <1>5
<1> QED
    BY <1>5, <1>6

\* The key after place i, and the walk over a list of n keys: every place in
\* turn, then the null pointer.
Following(K, n, i) == IF i = n - 1 THEN NULL ELSE K[i + 1]
Walk(K, n, c) == [i \in 0 .. c |-> IF i < n THEN K[i] ELSE NULL]

LEMMA WalkGoes ==
    ASSUME NEW c \in Nat, NEW n \in 0 .. c, NEW K
    PROVE  LET F == Walk(K, n, c)
           IN  /\ F[0] = IF n = 0 THEN NULL ELSE K[0]
               /\ \A i \in 0 .. n - 1 : F[i] = K[i]
               /\ F[n] = NULL
               /\ \A i \in 1 .. c : \/ F[i - 1] = NULL /\ F[i] = NULL
                                    \/ \E j \in 0 .. n - 1 : F[i - 1] = K[j] /\ F[i] = Following(K, n, j)
<1> DEFINE F == Walk(K, n, c)
<1>1. \A i \in 0 .. c : F[i] = IF i < n THEN K[i] ELSE NULL
    BY DEF Walk
<1> HIDE DEF F
<1>2. 0 \in 0 .. c /\ (0 < n <=> n # 0) /\ n \in 0 .. c /\ ~(n < n)
    OBVIOUS
<1>3. \A i \in 0 .. n - 1 : i \in 0 .. c /\ i < n
    OBVIOUS
<1>4. ASSUME NEW i \in 1 .. c
      PROVE  \/ F[i - 1] = NULL /\ F[i] = NULL
             \/ \E j \in 0 .. n - 1 : F[i - 1] = K[j] /\ F[i] = Following(K, n, j)
  <2>1. /\ i \in 0 .. c /\ i - 1 \in 0 .. c /\ (i - 1) + 1 = i
        /\ (i - 1 < n => i - 1 \in 0 .. n - 1 /\ (i - 1 = n - 1 <=> ~(i < n)))
        /\ (~(i - 1 < n) => ~(i < n))
    OBVIOUS
  <2>2. CASE i - 1 < n
    <3>1. F[i - 1] = K[i - 1] /\ F[i] = Following(K, n, i - 1)
      BY <1>1, <2>1, <2>2 DEF Following
    <3> QED
      BY <2>1, <2>2, <3>1
  <2>3. CASE ~(i - 1 < n)
    BY <1>1, <2>1, <2>3
  <2> QED
    BY <2>2, <2>3
<1> QED
    BY <1>1, <1>2, <1>3, <1>4 DEF F

\* Whatever goes on like this walk is this walk.
Walks(K, n, c, at) ==
    /\ at[0] = IF n = 0 THEN NULL ELSE K[0]
    /\ \A i \in 1 .. c : at[i - 1] = NULL => at[i] = NULL
    /\ \A i \in 1 .. c : \A j \in 0 .. n - 1 : at[i - 1] = K[j] => at[i] = Following(K, n, j)

LEMMA WalkIs ==
    ASSUME NEW c \in Nat, NEW n \in 0 .. c, NEW K, NEW at, Walks(K, n, c, at)
    PROVE  (\A i \in 0 .. n - 1 : at[i] = K[i]) /\ at[n] = NULL
<1> DEFINE F == Walk(K, n, c)
<1>1. /\ F[0] = IF n = 0 THEN NULL ELSE K[0]
      /\ \A i \in 0 .. n - 1 : F[i] = K[i]
      /\ F[n] = NULL
      /\ \A i \in 1 .. c : \/ F[i - 1] = NULL /\ F[i] = NULL
                           \/ \E j \in 0 .. n - 1 : F[i - 1] = K[j] /\ F[i] = Following(K, n, j)
    BY WalkGoes
<1> HIDE DEF F
<1>2. ASSUME NEW i \in 1 .. c, at[i - 1] = F[i - 1] PROVE at[i] = F[i]
    BY <1>1, <1>2 DEF Walks
<1>3. at[0] = F[0]
    BY <1>1 DEF Walks
<1>4. \A i \in 0 .. c : at[i] = F[i]
    BY <1>2, <1>3, SameWalk
<1>5. n \in 0 .. c /\ \A i \in 0 .. n - 1 : i \in 0 .. c
    OBVIOUS
<1> QED
    BY <1>1, <1>4, <1>5

LEMMA InOrder == BothInv => ListInOrder
<1> SUFFICES ASSUME BothInv, ~headRemoved
             PROVE  /\ ~crashed
                    /\ \A i \in 0 .. size - 1 :
                          /\ ListLRU!Forward[i] = arr[i].key
                          /\ ListLRU!Backward[i] = arr[size - 1 - i].key
                    /\ ListLRU!Forward[size] = NULL /\ ListLRU!Backward[size] = NULL
    BY DEF ListInOrder
<1> DEFINE n == size
           l == ListLRU!List
           Reversed == [i \in 0 .. n - 1 |-> Order[n - 1 - i]]
<1>1. ~crashed /\ Inv /\ Linked(Order, n, l, headRemoved)
    BY DEF BothInv
<1>2. /\ n \in Nat /\ capacity \in Nat /\ n \in 0 .. capacity /\ OneToOne(Order, n)
      /\ \A i \in 0 .. n - 1 : Order[i] = arr[i].key
    BY <1>1, OrderIs
<1>3. l.head = head /\ l.tail = tail /\ l.node = node
    BY DEF ListLRU!List
<1>4. PICK m \in 0 .. n : Sound(Order, n, m, l) /\ (headRemoved <=> m > 0)
    BY <1>1 DEF Linked
<1>5. m = 0
    BY <1>4
<1>6. /\ head = IF n = 0 THEN NULL ELSE Order[0]
      /\ tail = IF n = 0 THEN NULL ELSE Order[n - 1]
      /\ \A i \in 0 .. n - 1 :
            /\ node[Order[i]].next = IF i = n - 1 THEN NULL ELSE Order[i + 1]
            /\ node[Order[i]].prev = IF i = 0 THEN NULL ELSE Order[i - 1]
    BY <1>1, <1>3, <1>4, <1>5 DEF Sound, Linked
<1>7. \A i \in 0 .. n - 1 : Order[i] \in Keys /\ Order[i] # NULL
    BY <1>2, NullAssumption DEF OneToOne
<1> HIDE DEF n, l
<1>8. \A i \in 0 .. n - 1 : node[Order[i]].next = Following(Order, n, i)
    BY <1>6 DEF Following
<1>9. /\ \A i \in 0 .. n - 1 : Reversed[i] = Order[n - 1 - i]
      /\ tail = IF n = 0 THEN NULL ELSE Reversed[0]
  <2>1. n # 0 => 0 \in 0 .. n - 1 /\ n - 1 - 0 = n - 1
    BY <1>2
  <2> QED
    BY <1>6, <2>1
<1>10. ASSUME NEW i \in 0 .. n - 1
       PROVE  Reversed[i] # NULL /\ node[Reversed[i]].prev = Following(Reversed, n, i)
  <2>1. /\ n - 1 - i \in 0 .. n - 1 /\ (n - 1 - i = 0 <=> i = n - 1)
        /\ (i # n - 1 => i + 1 \in 0 .. n - 1 /\ n - 1 - (i + 1) = (n - 1 - i) - 1)
    BY <1>2
  <2>2. node[Order[n - 1 - i]].prev = IF i = n - 1 THEN NULL ELSE Order[(n - 1 - i) - 1]
    BY <1>6, <2>1
  <2> HIDE DEF Reversed
  <2> QED
    BY <1>7, <1>9, <2>1, <2>2 DEF Following
<1> HIDE DEF Reversed
<1> DEFINE StepF(g) == [i \in 0 .. capacity |->
                           IF i = 0 THEN head
                           ELSE IF g[i - 1] = NULL THEN NULL ELSE node[g[i - 1]].next]
           StepB(g) == [i \in 0 .. capacity |->
                           IF i = 0 THEN tail
                           ELSE IF g[i - 1] = NULL THEN NULL ELSE node[g[i - 1]].prev]
           f == CHOOSE g : g = StepF(g)
           b == CHOOSE g : g = StepB(g)
<1>11. ListLRU!Forward = f /\ ListLRU!Backward = b
    BY DEF ListLRU!Forward, ListLRU!Backward
<1>12. 0 \in 0 .. capacity /\ \A i \in 1 .. capacity : i \in 0 .. capacity /\ i # 0
    BY <1>2
<1>13. (\A i \in 0 .. n - 1 : f[i] = Order[i]) /\ f[n] = NULL
  <2> DEFINE F == Walk(Order, n, capacity)
  <2>1. /\ F[0] = head
        /\ \A i \in 1 .. capacity :
               \/ F[i - 1] = NULL /\ F[i] = NULL
               \/ \E j \in 0 .. n - 1 : F[i - 1] = Order[j] /\ F[i] = Following(Order, n, j)
    <3>1. /\ F[0] = IF n = 0 THEN NULL ELSE Order[0]
          /\ \A i \in 1 .. capacity :
                 \/ F[i - 1] = NULL /\ F[i] = NULL
                 \/ \E j \in 0 .. n - 1 : F[i - 1] = Order[j] /\ F[i] = Following(Order, n, j)
      <4>1. capacity \in Nat /\ n \in 0 .. capacity
        BY <1>2
      <4> QED
        BY <4>1, WalkGoes
    <3> HIDE DEF F
    <3> QED
      BY <1>6, <3>1
  <2>2. F = [i \in 0 .. capacity |-> F[i]]
    BY DEF Walk
  <2> HIDE DEF F
  <2>3. ASSUME NEW i \in 0 .. capacity
        PROVE  F[i] = IF i = 0 THEN head ELSE IF F[i - 1] = NULL THEN NULL ELSE node[F[i - 1]].next
    <3>1. i # 0 => i \in 1 .. capacity
      BY <1>2
    <3> QED
      BY <1>7, <1>8, <2>1, <3>1
  <2>4. F = StepF(F)
    BY <2>2, <2>3
  <2> HIDE DEF StepF
  <2>5. f = StepF(f)
    BY <2>4
  <2> HIDE DEF f
  <2>6. f[0] = head
    BY <1>12, <2>5 DEF StepF
  <2>7. \A i \in 1 .. capacity : f[i] = IF f[i - 1] = NULL THEN NULL ELSE node[f[i - 1]].next
    BY <1>12, <2>5 DEF StepF
  <2>8. \A i \in 1 .. capacity : \A j \in 0 .. n - 1 :
            f[i - 1] = Order[j] => f[i] = Following(Order, n, j)
    BY <1>7, <1>8, <2>7
  <2>9. \A i \in 1 .. capacity : f[i - 1] = NULL => f[i] = NULL
    BY <2>7
  <2>10. f[0] = IF n = 0 THEN NULL ELSE Order[0]
    BY <1>6, <2>6
  <2>11. Walks(Order, n, capacity, f)
    BY <2>8, <2>9, <2>10 DEF Walks
  <2> QED
    BY <1>2, <2>11, WalkIs
<1>14. (\A i \in 0 .. n - 1 : b[i] = Reversed[i]) /\ b[n] = NULL
  <2> DEFINE F == Walk(Reversed, n, capacity)
  <2>1. /\ F[0] = tail
        /\ \A i \in 1 .. capacity :
               \/ F[i - 1] = NULL /\ F[i] = NULL
               \/ \E j \in 0 .. n - 1 : F[i - 1] = Reversed[j] /\ F[i] = Following(Reversed, n, j)
    <3>1. /\ F[0] = IF n = 0 THEN NULL ELSE Reversed[0]
          /\ \A i \in 1 .. capacity :
                 \/ F[i - 1] = NULL /\ F[i] = NULL
                 \/ \E j \in 0 .. n - 1 : F[i - 1] = Reversed[j] /\ F[i] = Following(Reversed, n, j)
      <4>1. capacity \in Nat /\ n \in 0 .. capacity
        BY <1>2
      <4> QED
        BY <4>1, WalkGoes
    <3> HIDE DEF F
    <3> QED
      BY <1>9, <3>1
  <2>2. F = [i \in 0 .. capacity |-> F[i]]
    BY DEF Walk
  <2> HIDE DEF F
  <2>3. ASSUME NEW i \in 0 .. capacity
        PROVE  F[i] = IF i = 0 THEN tail ELSE IF F[i - 1] = NULL THEN NULL ELSE node[F[i - 1]].prev
    <3>1. i # 0 => i \in 1 .. capacity
      BY <1>2
    <3> QED
      BY <1>10, <2>1, <3>1
  <2>4. F = StepB(F)
    BY <2>2, <2>3
  <2> HIDE DEF StepB
  <2>5. b = StepB(b)
    BY <2>4
  <2> HIDE DEF b
  <2>6. b[0] = tail
    BY <1>12, <2>5 DEF StepB
  <2>7. \A i \in 1 .. capacity : b[i] = IF b[i - 1] = NULL THEN NULL ELSE node[b[i - 1]].prev
    BY <1>12, <2>5 DEF StepB
  <2>8. \A i \in 1 .. capacity : \A j \in 0 .. n - 1 :
            b[i - 1] = Reversed[j] => b[i] = Following(Reversed, n, j)
    BY <1>10, <2>7
  <2>9. \A i \in 1 .. capacity : b[i - 1] = NULL => b[i] = NULL
    BY <2>7
  <2>10. b[0] = IF n = 0 THEN NULL ELSE Reversed[0]
    BY <1>9, <2>6
  <2>11. Walks(Reversed, n, capacity, b)
    BY <2>8, <2>9, <2>10 DEF Walks
  <2> QED
    BY <1>2, <2>11, WalkIs
<1>15. \A i \in 0 .. n - 1 : Reversed[i] = arr[n - 1 - i].key
  <2>1. \A i \in 0 .. n - 1 : n - 1 - i \in 0 .. n - 1
    BY <1>2
  <2> QED
    BY <1>2, <1>9, <2>1
<1> HIDE DEF f, b
<1> QED
    BY <1>1, <1>2, <1>11, <1>13, <1>14, <1>15 DEF n

-----------------------------------------------------------------------------
LEMMA BothAlways == BothSpec => []BothInv
    BY BothStart, BothInductive, PTL DEF BothSpec

\* TypeOK of both caches.
THEOREM BothTypeCorrect == BothSpec => []BothTypeOK
<1>1. BothInv => BothTypeOK
  <2> SUFFICES ASSUME BothInv PROVE BothTypeOK
    OBVIOUS
  <2>1. TypeOK
    BY DEF BothInv, Inv
  <2>2. node = ListLRU!List.node /\ head = ListLRU!List.head /\ tail = ListLRU!List.tail
    BY DEF ListLRU!List
  <2>3. /\ head \in Keys \cup {NULL} /\ tail \in Keys \cup {NULL}
        /\ node \in [Keys -> [value : Values \cup {NoValue}, prev : Keys \cup {NULL}, next : Keys \cup {NULL}]]
    BY <2>2 DEF BothInv, ListTypes, Lists, Nodes
  <2> QED
    BY <2>1, <2>3 DEF BothTypeOK, BothInv, ListTypes, ListLRU!TypeOK, ListLRU!Pointers, TypeOK
<1> QED
    BY <1>1, BothAlways, PTL

\* The hash table finds exactly the entries the array holds, until the crash.
THEOREM CachesAgree == BothSpec => []SameEntries
<1>1. BothInv => SameEntries
  <2> SUFFICES ASSUME BothInv, ~crashed PROVE ListLRU!Store = Store /\ listSize = size
    BY DEF SameEntries
  <2>1. Inv /\ SameContents
    BY DEF BothInv
  <2>2. \A k \in Keys \ Abstract!Cached : Store[k] = NoValue
    BY <2>1, SeenIs
  <2>3. \A k \in Keys : (IF ListLRU!Listed(k) THEN node[k].value ELSE NoValue) = Store[k]
    BY <2>1, <2>2, Agree DEF SameContents
  <2>4. Store = [k \in Keys |-> Store[k]]
    BY DEF Store
  <2> HIDE DEF Store
  <2> QED
    BY <2>1, <2>3, <2>4 DEF ListLRU!Store, SameContents
<1> QED
    BY <1>1, BothAlways, PTL

\* The doubly linked list keeps the order of use as long as its head was never
\* taken out.
THEOREM OrderKept == BothSpec => []ListInOrder
    BY InOrder, BothAlways, PTL

\* The array cache is the same in the joint specification.
THEOREM BothAreLRU == BothSpec => ImplementsLRU
<1>1. [BothNext]_<<vars, listVars>> => [Next]_vars
    BY DEF BothNext, Get, Put, Next, vars
<1>2. BothInit => Init
    BY DEF BothInit
<1> QED
    BY <1>1, <1>2, ArrayIsLRU, PTL DEF BothSpec, Spec
=============================================================================
