------------------------------ MODULE ArrayLRU ------------------------------
(***************************************************************************)
(* The cache of src/lru/lru1.c: an array kept in order of use, the newest  *)
(* entry first.  One action per call.                                      *)
(***************************************************************************)
EXTENDS Integers, FiniteSets

CONSTANTS
    Keys, Values,
    NoValue,      \* not a value
    Capacities    \* the arguments lruCacheCreate is called with

ASSUME CapacitiesAssumption == Capacities \subseteq Nat \ {0}
ASSUME ValuesAssumption == NoValue \notin Values

VARIABLES capacity, size, arr

vars == <<capacity, size, arr>>

Entries == [key : Keys, value : Values]
Unwritten == [key |-> NoValue, value |-> NoValue]   \* malloc clears nothing

\* lruCacheCreate
Init ==
    /\ capacity \in Capacities
    /\ size = 0
    /\ arr = [i \in 0 .. capacity - 1 |-> Unwritten]

\* The first element with this key, or -1.
indexKey(key) ==
    LET hits == {i \in 0 .. size - 1 : arr[i].key = key}
    IN  IF hits = {} THEN -1 ELSE CHOOSE i \in hits : \A j \in hits : i <= j

\* Faulty variant: the loop that makes room stops one element early.
ShiftedShort(last, entry) ==
    [i \in DOMAIN arr |-> IF i = 0 THEN entry
                          ELSE IF i < last THEN arr[i - 1] ELSE arr[i]]

\* Every loop that makes room: elements 0 .. last - 1 move up by one, what was
\* at last is overwritten, and entry comes first.
Shifted(last, entry) ==
    [i \in DOMAIN arr |-> IF i = 0 THEN entry
                          ELSE IF i <= last THEN arr[i - 1] ELSE arr[i]]

\* Faulty variant: the entry would change places with the first one.
swapWithFirst(key, entry) ==
    arr' = [arr EXCEPT ![indexKey(key)] = arr[0], ![0] = entry]

changeOrder(key, entry) == arr' = Shifted(indexKey(key), entry)

getLruCache(key) ==
    /\ indexKey(key) # -1
    /\ changeOrder(key, arr[indexKey(key)])
    /\ UNCHANGED <<capacity, size>>

\* lruCachePut, a key that is in the array
Update(key, value) ==
    /\ indexKey(key) # -1
    /\ changeOrder(key, [arr[indexKey(key)] EXCEPT !.value = value])
    /\ UNCHANGED <<capacity, size>>

\* lruCachePut, a new key and room for it
Insert(key, value) ==
    /\ indexKey(key) = -1 /\ size < capacity
    /\ arr' = Shifted(size, [key |-> key, value |-> value])
    /\ size' = size + 1
    /\ UNCHANGED capacity

\* lruCachePut, a new key and a full array: the last entry is shifted out
Replace(key, value) ==
    /\ indexKey(key) = -1 /\ size >= capacity
    /\ arr' = Shifted(capacity - 1, [key |-> key, value |-> value])
    /\ UNCHANGED <<capacity, size>>

lruCachePut(key, value) ==
    Update(key, value) \/ Insert(key, value) \/ Replace(key, value)

Next == \E key \in Keys :
            getLruCache(key) \/ \E value \in Values : lruCachePut(key, value)

Spec == Init /\ [][Next]_vars

-----------------------------------------------------------------------------
TypeOK ==
    /\ capacity \in Capacities
    /\ size \in 0 .. capacity
    /\ arr \in [0 .. capacity - 1 -> Entries \cup {Unwritten}]
    /\ \A i \in 0 .. size - 1 : arr[i] \in Entries

\* What a get of each key prints, and which entry lies before which.
Store == [k \in Keys |->
            IF indexKey(k) = -1 THEN NoValue ELSE arr[indexKey(k)].value]
Newer == {p \in Keys \X Keys : \E i, j \in 0 .. size - 1 :
            i < j /\ arr[i].key = p[1] /\ arr[j].key = p[2]}

Abstract == INSTANCE LRU WITH store <- Store, newer <- Newer

\* The array is a least-recently-used cache: the scan finds what was put last,
\* and what a full array shifts out is the entry not used for longest, after
\* any sequence of the calls of src/lru/lru1.c.
ImplementsLRU == Abstract!Spec
=============================================================================
