----------------------------- MODULE HashTable ------------------------------
(***************************************************************************)
(* The table of src/lru/hashTable.c: open addressing, linear probing and a *)
(* delete that looks at one slot.  One action per call; search changes     *)
(* nothing and is an operator.                                             *)
(***************************************************************************)
EXTENDS Integers

CONSTANTS
    TABLE_SIZE,
    Keys, Values

EMPTY == -1

ASSUME SizeAssumption == TABLE_SIZE \in Nat \ {0}
ASSUME KeysAssumption == Keys \subseteq Nat    \* as main's: % of a negative is negative
ASSUME ValuesAssumption == Values \subseteq Nat

VARIABLES
    HashTable,   \* the slots
    held,        \* what was inserted last and not deleted since, for each key
    sound        \* history: every delete so far was harmless

vars == <<HashTable, held, sound>>

Slots == 0 .. TABLE_SIZE - 1
hashFunction(key) == key % TABLE_SIZE

\* initTable: the values of the global array are zero.
Init ==
    /\ HashTable = [i \in Slots |-> [key |-> EMPTY, value |-> 0]]
    /\ held = [k \in Keys |-> EMPTY]
    /\ sound = TRUE

\* The slot that the loops of insert and search look at after d steps.
Probe(key, d) == (hashFunction(key) + d) % TABLE_SIZE

\* The loops leave at a free slot or at the key; back at the start they fail.
Stops(key, d) == HashTable[Probe(key, d)].key \in {EMPTY, key}
FirstStop(key, d) == Stops(key, d) /\ \A e \in 0 .. d - 1 : ~Stops(key, e)

\* Faulty variant: only a free slot would end the loop of insert.
insertAtEmpty(key, value) ==
    \E d \in Slots :
        /\ HashTable[Probe(key, d)].key = EMPTY
        /\ \A e \in 0 .. d - 1 : HashTable[Probe(key, e)].key # EMPTY
        /\ HashTable' = [HashTable EXCEPT ![Probe(key, d)] =
                            [key |-> key, value |-> value]]
        /\ held' = [held EXCEPT ![key] = value]
        /\ UNCHANGED sound

\* A table without a stop for the key is full, and insert only says so.
insert(key, value) ==
    \E d \in Slots :
        /\ FirstStop(key, d)
        /\ HashTable' = [HashTable EXCEPT ![Probe(key, d)] =
                            [key |-> key, value |-> value]]
        /\ held' = [held EXCEPT ![key] = value]
        /\ UNCHANGED sound

search(key) ==
    IF \E d \in Slots : FirstStop(key, d)
    THEN LET slot == HashTable[Probe(key, CHOOSE d \in Slots : FirstStop(key, d))]
         IN  IF slot.key = key THEN slot.value ELSE EMPTY
    ELSE EMPTY

\* Nobody behind the key's home slot was displaced over it, and the key itself
\* is in its home slot or nowhere.
Harmless(key) ==
    \A k \in Keys : \A d \in Slots :
        HashTable[Probe(k, d)].key = k =>
            IF k = key THEN d = 0
            ELSE \A e \in 0 .. d - 1 : Probe(k, e) # hashFunction(key)

Emptied == [key |-> EMPTY, value |-> EMPTY]

\* Faulty variant: the value of a deleted key stays in its slot.
KeyCleared(slots, i, key) ==
    IF slots[i].key = key THEN [slots EXCEPT ![i].key = EMPTY] ELSE slots

\* Faulty variant: whatever is in the home slot is deleted.
ClearedAny(slots, i, key) == [slots EXCEPT ![i] = Emptied]

\* while (HashTable[index].key == key): the body runs once at most.
Cleared(slots, i, key) ==
    IF slots[i].key = key THEN [slots EXCEPT ![i] = Emptied] ELSE slots

delete(key) ==
    /\ HashTable' = Cleared(HashTable, hashFunction(key), key)
    /\ held' = [held EXCEPT ![key] = EMPTY]
    /\ sound' = (sound /\ Harmless(key))

Next == \E key \in Keys : delete(key) \/ \E value \in Values : insert(key, value)

Spec == Init /\ [][Next]_vars

-----------------------------------------------------------------------------
\* The slots, and what a slot without a key may hold: nothing but the zero of
\* the global array or what delete wrote.
TypeOK ==
    /\ HashTable \in [Slots -> [key : Keys \cup {EMPTY}, value : Values \cup {0, EMPTY}]]
    /\ \A i \in Slots : IF HashTable[i].key = EMPTY
                        THEN HashTable[i].value \in {0, EMPTY}
                        ELSE HashTable[i].value \in Values
    /\ held \in [Keys -> Values \cup {EMPTY}]
    /\ sound \in BOOLEAN

\* Until a delete opens a hole in front of a displaced key, or misses a key
\* that is displaced itself (src/lru/hashTable.c:92), every search returns what
\* was inserted last and not deleted, whatever the collisions and the order.
SearchIsFaithful == sound => \A k \in Keys : search(k) = held[k]

\* Also in a table with holes and stale duplicates, a key just inserted is
\* found with its new value: insert and search stop at the same slot.
InsertedIsFound ==
    [][\A k \in Keys, v \in Values : insert(k, v) => search(k)' = v]_vars
=============================================================================
