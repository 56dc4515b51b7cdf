------------------------------- MODULE ListLRU ------------------------------
(***************************************************************************)
(* The cache of src/lru/lru2.c: a doubly linked list in order of use and a *)
(* hash table with chains.  A node is named by its key: a key has one node *)
(* at a time, and no pointer to an evicted node is left when its key is    *)
(* put again.  A hash chain is the sequence of the keys on it.             *)
(***************************************************************************)
EXTENDS Integers, Sequences, SequencesExt

CONSTANTS
    Keys, Values, NoValue, Capacities,
    NULL,
    hashFunction     \* from keys to buckets

VARIABLES
    capacity, size,
    head, tail,
    node,            \* value, prev and next of each key's node
    table,           \* the chain of each bucket
    crashed,         \* a null pointer was dereferenced
    headRemoved      \* history: removeFromList was called for the head

vars == <<capacity, size, head, tail, node, table, crashed, headRemoved>>

Buckets == {hashFunction[k] : k \in Keys}
Pointers == Keys \cup {NULL}
Chain(key) == table[hashFunction[key]]
Listed(key) == \E i \in DOMAIN Chain(key) : Chain(key)[i] = key

\* lruCacaheCreate
Init ==
    /\ capacity \in Capacities
    /\ size = 0
    /\ head = NULL /\ tail = NULL
    /\ node = [k \in Keys |-> [value |-> NoValue, prev |-> NULL, next |-> NULL]]
    /\ table = [b \in Buckets |-> <<>>]
    /\ crashed = FALSE /\ headRemoved = FALSE

\* The list as the functions below are given it, and what they leave.
List == [head |-> head, tail |-> tail, node |-> node]
Becomes(list) ==
    /\ head' = list.head
    /\ tail' = list.tail
    /\ node' = list.node

\* Faulty variant: the node behind the removed one keeps its prev.
removeForwardOnly(list, n) ==
    LET before == list.node[n].prev
        after  == list.node[n].next
    IN  [list EXCEPT
            !.tail = IF @ = n THEN before ELSE @,
            !.node = [k \in Keys |-> [list.node[k] EXCEPT
                        !.next = IF k = n THEN NULL ELSE IF k = before THEN after ELSE @,
                        !.prev = IF k = n THEN NULL ELSE @]]]

\* cache->head->next = node->next stores what is there already: the head stays.
removeFromList(list, n) ==
    LET before == list.node[n].prev
        after  == list.node[n].next
    IN  [list EXCEPT
            !.tail = IF @ = n THEN before ELSE @,
            !.node = [k \in Keys |-> [list.node[k] EXCEPT
                        !.next = IF k = n THEN NULL ELSE IF k = before THEN after ELSE @,
                        !.prev = IF k = n THEN NULL ELSE IF k = after THEN before ELSE @]]]

\* node->next, then head->prev: when n is still the head, both point to n.
addToFront(list, n) ==
    [head |-> n,
     tail |-> IF list.head = NULL THEN n ELSE list.tail,
     node |-> [k \in Keys |-> [list.node[k] EXCEPT
                 !.next = IF k = n THEN list.head ELSE @,
                 !.prev = IF k = list.head THEN n ELSE @]]]

MoveToFront(list, key) ==
    /\ Becomes(addToFront(removeFromList(list, key), key))
    /\ headRemoved' = (headRemoved \/ head = key)

lruCacheGet(key) ==
    /\ ~crashed /\ Listed(key)
    /\ MoveToFront(List, key)
    /\ UNCHANGED <<capacity, size, table, crashed>>

\* lruCachePut, a key that is on its chain
Update(key, value) ==
    /\ ~crashed /\ Listed(key)
    /\ MoveToFront([List EXCEPT !.node[key].value = value], key)
    /\ UNCHANGED <<capacity, size, table, crashed>>

\* createNode, the chain's new first element and the list's new head
NewNode(list, chains, key, value) ==
    /\ table' = [chains EXCEPT ![hashFunction[key]] = <<key>> \o @]
    /\ Becomes(addToFront([list EXCEPT !.node[key] =
                    [value |-> value, prev |-> NULL, next |-> NULL]], key))

\* lruCachePut, a new key and room for it
Insert(key, value) ==
    /\ ~crashed /\ ~Listed(key) /\ size # capacity
    /\ NewNode(List, table, key, value)
    /\ size' = size + 1
    /\ UNCHANGED <<capacity, crashed, headRemoved>>

\* Faulty variant: the chain would lose its first node, whatever its key.
WithoutFirst(key) == [table EXCEPT ![hashFunction[key]] = Tail(@)]

\* removeFromHashTable
WithoutKey(key) == [table EXCEPT ![hashFunction[key]] = RemoveFirst(@, key)]

\* lruCachePut, a new key and a full cache: the tail goes; size is reduced and
\* increased again.  Nothing frees the node and no chain leads to its value.
Replace(key, value) ==
    /\ ~crashed /\ ~Listed(key) /\ size = capacity /\ tail # NULL
    /\ NewNode([removeFromList(List, tail) EXCEPT !.node[tail].value = NoValue],
               WithoutKey(tail), key, value)
    /\ headRemoved' = (headRemoved \/ head = tail)
    /\ UNCHANGED <<capacity, size, crashed>>

\* removeFromList(cache, NULL)
Crash(key) ==
    /\ ~crashed /\ ~Listed(key) /\ size = capacity /\ tail = NULL
    /\ crashed' = TRUE
    /\ UNCHANGED <<capacity, size, head, tail, node, table, headRemoved>>

lruCachePut(key, value) ==
    Update(key, value) \/ Insert(key, value) \/ Replace(key, value) \/ Crash(key)

TypeOK ==
    /\ capacity \in Capacities /\ size \in 0 .. capacity
    /\ head \in Pointers /\ tail \in Pointers
    /\ node \in [Keys -> [value : Values \cup {NoValue}, prev : Pointers, next : Pointers]]
    /\ table \in [Buckets -> Seq(Keys)]
    /\ crashed \in BOOLEAN /\ headRemoved \in BOOLEAN

\* What lruCacheGet prints for each key.
Store == [k \in Keys |-> IF Listed(k) THEN node[k].value ELSE NoValue]

\* The walks over n nodes: lruCachePrintList from the head, and back from the tail.
Forward == LET at[i \in 0 .. capacity] ==
                 IF i = 0 THEN head ELSE IF at[i - 1] = NULL THEN NULL ELSE node[at[i - 1]].next
           IN  at
Backward == LET at[i \in 0 .. capacity] ==
                 IF i = 0 THEN tail ELSE IF at[i - 1] = NULL THEN NULL ELSE node[at[i - 1]].prev
            IN  at
=============================================================================
