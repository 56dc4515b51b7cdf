----------------------------- MODULE LRUCaches ------------------------------
(***************************************************************************)
(* One caller makes the same calls to both caches of src/lru, until the    *)
(* list cache crashes.                                                     *)
(***************************************************************************)
EXTENDS ArrayLRU

CONSTANTS NULL, hashFunction

ASSUME NullAssumption == NULL \notin Keys   \* no node lies at the null pointer

VARIABLES listSize, head, tail, node, table, crashed, headRemoved

ListLRU == INSTANCE ListLRU WITH size <- listSize

listVars == <<listSize, head, tail, node, table, crashed, headRemoved>>

BothInit == Init /\ ListLRU!Init

Get(key) == getLruCache(key) /\ ListLRU!lruCacheGet(key)

Put(key, value) == lruCachePut(key, value) /\ ListLRU!lruCachePut(key, value)

BothNext == \E key \in Keys : Get(key) \/ \E value \in Values : Put(key, value)

BothSpec == BothInit /\ [][BothNext]_<<vars, listVars>>

-----------------------------------------------------------------------------
BothTypeOK == TypeOK /\ ListLRU!TypeOK

\* removeFromHashTable and the chains of lru2.c: after any calls, until it
\* crashes, the hash table finds exactly what the array cache holds.  So also
\* the entry it drops is the least recently used one, even when the list has
\* lost its order because the head was accessed (src/lru/lru2.c:68).
SameEntries == ~crashed => ListLRU!Store = Store /\ listSize = size

\* As long as removeFromList was never called for the head, the list is sound:
\* next from the head gives the array's order, prev from the tail the reverse,
\* both walks end, and no null pointer was followed.
ListInOrder ==
    ~headRemoved =>
        /\ ~crashed
        /\ \A i \in 0 .. size - 1 :
              /\ ListLRU!Forward[i] = arr[i].key
              /\ ListLRU!Backward[i] = arr[size - 1 - i].key
        /\ ListLRU!Forward[size] = NULL /\ ListLRU!Backward[size] = NULL
=============================================================================
