-------------------------- MODULE HashTableProofs ---------------------------
(***************************************************************************)
(* Searches of hashTable.c are faithful, for every size of the table and   *)
(* every set of keys, until a delete is harmful.  The inductive invariant  *)
(* says where a key is: where its probe sequence first stops.              *)
(***************************************************************************)
EXTENDS HashTable, TLAPS

At(k, d) == HashTable[Probe(k, d)].key = k

\* A key lies where the loops stop for it; one that is held is in the table with
\* its value, and one that is not is nowhere on its probe sequence.
PlaceInv ==
    sound =>
        /\ \A k \in Keys, d \in Slots : At(k, d) => FirstStop(k, d)
        /\ \A k \in Keys :
              held[k] # EMPTY =>
                  \E d \in Slots : At(k, d) /\ HashTable[Probe(k, d)].value = held[k]
        /\ \A k \in Keys : held[k] = EMPTY => \A d \in Slots : ~At(k, d)

IInv == TypeOK /\ PlaceInv

-----------------------------------------------------------------------------
(* Probe sequences *)
LEMMA Remainder ==
    ASSUME NEW s \in Nat
    PROVE  /\ s % TABLE_SIZE \in Slots
           /\ s < TABLE_SIZE => s % TABLE_SIZE = s
           /\ s >= TABLE_SIZE /\ s < 2 * TABLE_SIZE => s % TABLE_SIZE = s - TABLE_SIZE
<1>1. s % TABLE_SIZE \in Slots
    BY SizeAssumption DEF Slots
<1>2. ASSUME s < TABLE_SIZE PROVE s % TABLE_SIZE = s
    BY <1>2, SizeAssumption
<1>3. ASSUME s >= TABLE_SIZE, s < 2 * TABLE_SIZE PROVE s % TABLE_SIZE = s - TABLE_SIZE
    BY <1>3, SizeAssumption
<1> QED
    BY <1>1, <1>2, <1>3

\* A probe sequence begins at the home slot and meets no slot twice.
LEMMA ProbeSequence ==
    ASSUME NEW k \in Keys, NEW d \in Slots, NEW e \in Slots
    PROVE  /\ hashFunction(k) \in Slots
           /\ Probe(k, d) \in Slots
           /\ Probe(k, 0) = hashFunction(k)
           /\ Probe(k, d) = Probe(k, e) => d = e
<1> DEFINE h == hashFunction(k)
<1>1. h \in Slots
    BY Remainder, KeysAssumption DEF hashFunction
<1>2. TABLE_SIZE \in Nat \ {0} /\ h \in Nat /\ d \in Nat /\ e \in Nat
      /\ h < TABLE_SIZE /\ d < TABLE_SIZE /\ e < TABLE_SIZE
    BY <1>1, SizeAssumption DEF Slots
<1>3. (h + d) \in Nat /\ (h + e) \in Nat /\ h + 0 = h
      /\ h + d < 2 * TABLE_SIZE /\ h + e < 2 * TABLE_SIZE
    BY <1>2
<1> HIDE DEF h
<1>4. (h + d) % TABLE_SIZE \in Slots
    BY <1>3, Remainder
<1>5. (h + 0) % TABLE_SIZE = h
    BY <1>2, <1>3, Remainder
<1>6. ASSUME (h + d) % TABLE_SIZE = (h + e) % TABLE_SIZE PROVE d = e
  <2>1. (h + d) % TABLE_SIZE = IF h + d < TABLE_SIZE THEN h + d ELSE h + d - TABLE_SIZE
      BY <1>2, <1>3, Remainder
  <2>2. (h + e) % TABLE_SIZE = IF h + e < TABLE_SIZE THEN h + e ELSE h + e - TABLE_SIZE
      BY <1>2, <1>3, Remainder
  <2> QED
      BY <2>1, <2>2, <1>6, <1>2
<1> QED
    BY <1>1, <1>4, <1>5, <1>6 DEF h, Probe

LEMMA NotEmpty == EMPTY \notin Keys /\ EMPTY \notin Values
BY KeysAssumption, ValuesAssumption DEF EMPTY

\* The loops stop at one place only.
LEMMA OneFirstStop ==
    ASSUME NEW k \in Keys, NEW d \in Slots, NEW e \in Slots,
           FirstStop(k, d), FirstStop(k, e)
    PROVE  d = e
<1>1. d \in Int /\ e \in Int /\ 0 <= d /\ 0 <= e
    BY SizeAssumption DEF Slots
<1>2. ~(d < e) /\ ~(e < d)
    BY <1>1 DEF FirstStop
<1> QED
    BY <1>1, <1>2

-----------------------------------------------------------------------------
LEMMA InitIInv == Init => IInv
<1> SUFFICES ASSUME Init PROVE IInv
    OBVIOUS
<1>1. TypeOK
    BY DEF Init, TypeOK, EMPTY
<1>2. \A k \in Keys, d \in Slots : ~At(k, d)
    BY ProbeSequence, NotEmpty DEF Init, At
<1> QED
    BY <1>1, <1>2 DEF Init, IInv, PlaceInv

LEMMA InsertIInv ==
    ASSUME IInv, NEW key \in Keys, NEW value \in Values, insert(key, value)
    PROVE  IInv'
<1>0. PICK d \in Slots :
          /\ FirstStop(key, d)
          /\ HashTable' = [HashTable EXCEPT ![Probe(key, d)] =
                              [key |-> key, value |-> value]]
          /\ held' = [held EXCEPT ![key] = value]
          /\ sound' = sound
    BY DEF insert
<1> DEFINE p == Probe(key, d)
<1>1. /\ HashTable \in [Slots -> [key : Keys \cup {EMPTY}, value : Values \cup {0, EMPTY}]]
      /\ held \in [Keys -> Values \cup {EMPTY}] /\ p \in Slots
    BY ProbeSequence DEF IInv, TypeOK
<1>2. TypeOK'
    BY <1>0, <1>1, NotEmpty DEF IInv, TypeOK
<1>3. SUFFICES ASSUME sound PROVE PlaceInv'
    BY <1>0, <1>2 DEF IInv, PlaceInv
<1>4. /\ \A k \in Keys, e \in Slots : At(k, e) => FirstStop(k, e)
      /\ \A k \in Keys : held[k] # EMPTY =>
            \E e \in Slots : At(k, e) /\ HashTable[Probe(k, e)].value = held[k]
      /\ \A k \in Keys : held[k] = EMPTY => \A e \in Slots : ~At(k, e)
    BY <1>3 DEF IInv, PlaceInv
<1>5. HashTable[p].key \in {EMPTY, key}
    BY <1>0 DEF FirstStop, Stops
<1>6. \A k \in Keys, e \in Slots :
          HashTable'[Probe(k, e)] = IF Probe(k, e) = p THEN [key |-> key, value |-> value]
                                                       ELSE HashTable[Probe(k, e)]
    BY <1>0, <1>1, ProbeSequence
<1>7. ASSUME NEW k \in Keys, NEW e \in Slots, At(k, e)'
      PROVE  FirstStop(k, e)'
  <2>1. CASE k = key
    <3>1. e = d
        BY <2>1, <1>0, <1>4, <1>6, <1>7, ProbeSequence, OneFirstStop DEF At
    <3>2. \A f \in 0 .. d - 1 : f \in Slots /\ Probe(key, f) # p /\ ~Stops(key, f)
        BY <1>0, ProbeSequence, SizeAssumption DEF FirstStop, Slots
    <3> QED
        BY <3>1, <3>2, <2>1, <1>6, <1>7 DEF FirstStop, Stops, At
  <2>2. CASE k # key
    <3>1. Probe(k, e) # p /\ At(k, e)
        BY <2>2, <1>6, <1>7 DEF At
    <3>2. \A f \in 0 .. e - 1 : f \in Slots /\ ~Stops(k, f)
        BY <3>1, <1>4, SizeAssumption DEF FirstStop, Slots
    <3>3. \A f \in 0 .. e - 1 : ~Stops(k, f)'
        BY <3>2, <2>2, <1>6, NotEmpty DEF Stops
    <3> QED
        BY <3>3, <1>7 DEF FirstStop, Stops, At
  <2> QED
      BY <2>1, <2>2
<1>8. ASSUME NEW k \in Keys, held'[k] # EMPTY
      PROVE  \E e \in Slots : At(k, e)' /\ HashTable'[Probe(k, e)].value = held'[k]
  <2>1. CASE k = key
      BY <2>1, <1>0, <1>1, <1>6 DEF At
  <2>2. CASE k # key
    <3>1. held'[k] = held[k]
        BY <2>2, <1>0, <1>1
    <3>2. PICK e \in Slots : At(k, e) /\ HashTable[Probe(k, e)].value = held[k]
        BY <3>1, <1>4, <1>8
    <3>3. Probe(k, e) # p
        BY <3>2, <2>2, <1>5, NotEmpty DEF At
    <3> QED
        BY <3>1, <3>2, <3>3, <1>6 DEF At
  <2> QED
      BY <2>1, <2>2
<1>9. ASSUME NEW k \in Keys, held'[k] = EMPTY, NEW e \in Slots
      PROVE  ~At(k, e)'
  <2>1. k # key /\ held'[k] = held[k]
      BY <1>0, <1>1, <1>9, NotEmpty
  <2>2. HashTable[Probe(k, e)].key # k
      BY <2>1, <1>4, <1>9 DEF At
  <2>3. HashTable'[Probe(k, e)].key # k
      BY <2>1, <2>2, <1>6
  <2> QED
      BY <2>3 DEF At
<1> QED
    BY <1>7, <1>8, <1>9 DEF PlaceInv, At

LEMMA DeleteIInv ==
    ASSUME IInv, NEW key \in Keys, delete(key)
    PROVE  IInv'
<1> DEFINE h == hashFunction(key)
<1>1. /\ HashTable \in [Slots -> [key : Keys \cup {EMPTY}, value : Values \cup {0, EMPTY}]]
      /\ held \in [Keys -> Values \cup {EMPTY}] /\ h \in Slots
      /\ held' = [held EXCEPT ![key] = EMPTY]
      /\ sound' = (sound /\ Harmless(key))
      /\ HashTable' = IF HashTable[h].key = key THEN [HashTable EXCEPT ![h] = Emptied]
                                                ELSE HashTable
  <2>1. 0 \in Slots
      BY SizeAssumption DEF Slots
  <2> QED
      BY <2>1, ProbeSequence DEF IInv, TypeOK, delete, Cleared
<1>2. TypeOK'
    BY <1>1, NotEmpty DEF IInv, TypeOK, Emptied
<1>3. SUFFICES ASSUME sound, Harmless(key) PROVE PlaceInv'
    BY <1>1, <1>2 DEF IInv, PlaceInv
<1>4. /\ \A k \in Keys, e \in Slots : At(k, e) => FirstStop(k, e)
      /\ \A k \in Keys : held[k] # EMPTY =>
            \E e \in Slots : At(k, e) /\ HashTable[Probe(k, e)].value = held[k]
      /\ \A k \in Keys : held[k] = EMPTY => \A e \in Slots : ~At(k, e)
    BY <1>3 DEF IInv, PlaceInv
<1>5. \A k \in Keys, e \in Slots :
          /\ Probe(k, e) # h => HashTable'[Probe(k, e)] = HashTable[Probe(k, e)]
          /\ Probe(k, e) = h =>
                IF HashTable[h].key = key THEN HashTable'[Probe(k, e)] = Emptied
                                          ELSE HashTable'[Probe(k, e)] = HashTable[h]
    BY <1>1, ProbeSequence
<1>6. \A k \in Keys, e \in Slots :
          At(k, e)' => At(k, e) /\ HashTable'[Probe(k, e)] = HashTable[Probe(k, e)]
    BY <1>5, NotEmpty DEF At, Emptied
<1>7. ASSUME NEW k \in Keys, NEW e \in Slots, At(k, e)'
      PROVE  FirstStop(k, e)'
  <2>1. At(k, e) /\ FirstStop(k, e)
      BY <1>4, <1>6, <1>7
  <2>2. \A f \in 0 .. e - 1 : f \in Slots /\ Probe(k, f) # h /\ ~Stops(k, f)
    <3>1. \A f \in 0 .. e - 1 : f \in Slots /\ ~Stops(k, f)
        BY <2>1, SizeAssumption DEF FirstStop, Slots
    <3>2. IF k = key THEN e = 0 ELSE \A f \in 0 .. e - 1 : Probe(k, f) # h
        BY <2>1, <1>3 DEF Harmless, At
    <3> QED
        BY <3>1, <3>2
  <2> QED
      BY <2>2, <1>5, <1>7 DEF FirstStop, Stops, At
<1>8. ASSUME NEW k \in Keys, held'[k] # EMPTY
      PROVE  \E e \in Slots : At(k, e)' /\ HashTable'[Probe(k, e)].value = held'[k]
  <2>1. k # key /\ held'[k] = held[k]
      BY <1>1, <1>8
  <2>2. PICK e \in Slots : At(k, e) /\ HashTable[Probe(k, e)].value = held[k]
      BY <2>1, <1>4, <1>8
  <2>3. HashTable'[Probe(k, e)] = HashTable[Probe(k, e)]
      BY <2>1, <2>2, <1>5 DEF At
  <2> QED
      BY <2>1, <2>2, <2>3 DEF At
<1>9. ASSUME NEW k \in Keys, held'[k] = EMPTY, NEW e \in Slots, At(k, e)'
      PROVE  FALSE
  <2>1. CASE k = key
    <3>1. At(key, e)
        BY <2>1, <1>6, <1>9
    <3>2. e = 0
        BY <3>1, <1>3 DEF Harmless, At
    <3> QED
        BY <3>1, <3>2, <2>1, <1>5, <1>9, ProbeSequence, NotEmpty DEF At, Emptied
  <2>2. CASE k # key
      BY <2>2, <1>1, <1>4, <1>6, <1>9
  <2> QED
      BY <2>1, <2>2
<1> QED
    BY <1>7, <1>8, <1>9 DEF PlaceInv, At

LEMMA NextIInv == IInv /\ [Next]_vars => IInv'
<1> SUFFICES ASSUME IInv, [Next]_vars PROVE IInv'
    OBVIOUS
<1>1. CASE Next
    BY <1>1, InsertIInv, DeleteIInv DEF Next
<1>2. CASE UNCHANGED vars
    BY <1>2 DEF IInv, TypeOK, PlaceInv, At, FirstStop, Stops, vars
<1> QED
    BY <1>1, <1>2

LEMMA IInvSearch == IInv => SearchIsFaithful
<1> SUFFICES ASSUME IInv, sound, NEW k \in Keys PROVE search(k) = held[k]
    BY DEF SearchIsFaithful
<1>0. held[k] \in Values \cup {EMPTY}
    BY DEF IInv, TypeOK
<1>1. CASE held[k] # EMPTY
  <2>1. PICK d \in Slots : At(k, d) /\ HashTable[Probe(k, d)].value = held[k]
      BY <1>1 DEF IInv, PlaceInv
  <2>2. FirstStop(k, d)
      BY <2>1 DEF IInv, PlaceInv
  <2>3. (CHOOSE e \in Slots : FirstStop(k, e)) = d
      BY <2>2, OneFirstStop
  <2> QED
      BY <2>1, <2>2, <2>3 DEF search, At
<1>2. CASE held[k] = EMPTY
  <2>1. \A d \in Slots : ~At(k, d)
      BY <1>2 DEF IInv, PlaceInv
  <2>2. ASSUME \E d \in Slots : FirstStop(k, d) PROVE search(k) = EMPTY
    <3> DEFINE e == CHOOSE d \in Slots : FirstStop(k, d)
    <3>1. e \in Slots /\ FirstStop(k, e)
        BY <2>2
    <3>2. HashTable[Probe(k, e)].key # k
        BY <3>1, <2>1 DEF At
    <3> QED
        BY <3>2, <2>2 DEF search
  <2> QED
      BY <2>2, <1>2 DEF search
<1> QED
    BY <1>0, <1>1, <1>2

\* Types, and what a slot without a key may hold, for every size of the table.
THEOREM TypeCorrect == Spec => []TypeOK
<1>1. IInv => TypeOK
    BY DEF IInv
<1> QED
    BY InitIInv, NextIInv, <1>1, PTL DEF Spec

\* search returns what was inserted last and not deleted, for every size of the
\* table, all keys and all sequences of calls of which no delete was harmful.
THEOREM SearchCorrect == Spec => []SearchIsFaithful
BY InitIInv, NextIInv, IInvSearch, PTL DEF Spec

\* What a call of insert stored is found afterwards: the slots that the loops
\* passed are not the one that was written, and they still do not stop them.
LEMMA InsertFinds ==
    ASSUME TypeOK, NEW k \in Keys, NEW v \in Values, insert(k, v)
    PROVE  search(k)' = v
<1>1. PICK d \in Slots :
          /\ FirstStop(k, d)
          /\ HashTable' = [HashTable EXCEPT ![Probe(k, d)] = [key |-> k, value |-> v]]
    BY DEF insert
<1>2. \A e \in Slots :
          HashTable'[Probe(k, e)] = IF e = d THEN [key |-> k, value |-> v]
                                             ELSE HashTable[Probe(k, e)]
    BY <1>1, ProbeSequence DEF TypeOK
<1>3. \A e \in 0 .. d - 1 : e \in Slots /\ e # d
    BY SizeAssumption DEF Slots
<1>4. FirstStop(k, d)'
    BY <1>1, <1>2, <1>3 DEF FirstStop, Stops
<1>5. ASSUME NEW e \in Slots, FirstStop(k, e)' PROVE e = d
  <2>1. d \in Int /\ e \in Int /\ 0 <= d /\ 0 <= e
      BY SizeAssumption DEF Slots
  <2>2. ~(d < e) /\ ~(e < d)
      BY <2>1, <1>4, <1>5 DEF FirstStop
  <2> QED
      BY <2>1, <2>2
<1> DEFINE F(e) == FirstStop(k, e)'
<1>6. (CHOOSE e \in Slots : F(e)) = d /\ \E e \in Slots : F(e)
    BY <1>4, <1>5
<1>7. HashTable'[Probe(k, d)].key = k /\ HashTable'[Probe(k, d)].value = v
    BY <1>2
<1>8. search(k)' = IF \E e \in Slots : F(e)
                   THEN LET slot == HashTable'[Probe(k, CHOOSE e \in Slots : F(e))]
                        IN  IF slot.key = k THEN slot.value ELSE EMPTY
                   ELSE EMPTY
    BY DEF search, F, Slots, Probe, hashFunction
<1> HIDE DEF F
<1> QED
    BY <1>6, <1>7, <1>8

\* An item just inserted is found with its new value, also in a table with holes
\* and stale duplicates, for every size of the table.
THEOREM InsertedFound == Spec => InsertedIsFound
<1>1. IInv /\ [Next]_vars =>
          [\A k \in Keys, v \in Values : insert(k, v) => search(k)' = v]_vars
    BY InsertFinds DEF IInv
<1> QED
    BY InitIInv, NextIInv, <1>1, PTL DEF Spec, InsertedIsFound
=============================================================================
