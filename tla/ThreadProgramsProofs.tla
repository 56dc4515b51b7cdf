-------------------------- MODULE ThreadProgramsProofs -----------------------
(***************************************************************************)
(* Proofs about the programs of thread-in-c: the bounded buffer with its   *)
(* three semaphores, the stack with a condition variable, and the two      *)
(* programs whose threads count.                                           *)
(***************************************************************************)
EXTENDS ThreadPrograms, FiniteSetTheorems, TLAPS

-----------------------------------------------------------------------------
(* prod-cons-semaphore.c: each semaphore equals what it stands for, less   *)
(* the threads that hold a unit of it.                                     *)
Waiting == {"wait2", "access", "count"}      \* has taken a unit, not yet counted
Posting == {"post1", "post2"}                \* has counted, not yet given it back
AtArray == {"access", "count", "post1"}

UnitsInv ==
    /\ sem["empty"] + At(Producers, Waiting) + At(Consumers, Posting) + count = buffer_size
    /\ sem["full"] + At(Consumers, Waiting) + At(Producers, Posting) = count
    /\ sem["allow"] + At(Threads, AtArray) = 1

\* A thread that is in its loop has an iteration left; before, it has done none.
LoopInv ==
    \A t \in Threads :
        /\ pc[t] \notin {"absent", "done"} => round[t] < Rounds
        /\ pc[t] = "absent" => round[t] = 0

IInv == TypeOK /\ UnitsInv /\ LoopInv

\* The items that are in the array: one more than count while a producer has yet
\* to count its item, one less while a consumer has yet to uncount the one it took.
Top ==
    IF \E p \in Producers : pc[p] = "count" THEN count + 1
    ELSE IF \E c \in Consumers : pc[c] = "count" THEN count - 1 ELSE count
InArray(i) == \E k \in 0 .. Top - 1 : buffer[k] = i
Written(i) ==
    i[2] <= round[i[1]] + (IF pc[i[1]] \in {"count", "post1", "post2"} THEN 1 ELSE 0)

\* An item is in the array or consumed if it was written, and once.
ItemsInv ==
    /\ \A k \in 0 .. Top - 1 : buffer[k] \in Items
    /\ \A j, k \in 0 .. Top - 1 : buffer[j] = buffer[k] => j = k
    /\ \A i \in Items : consumed[i] = IF Written(i) /\ ~InArray(i) THEN 1 ELSE 0
    /\ \A i \in Items : InArray(i) => Written(i)

-----------------------------------------------------------------------------
LEMMA FiniteThreads ==
    /\ IsFiniteSet(Producers) /\ IsFiniteSet(Consumers) /\ IsFiniteSet(Threads)
    /\ \A t \in Producers : t \in Threads /\ t \notin Consumers
    /\ \A t \in Consumers : t \in Threads /\ t \notin Producers
BY ThreadsAssumption, FS_Union DEF Threads

LEMMA AtIsNat ==
    ASSUME NEW T, IsFiniteSet(T), NEW L
    PROVE  At(T, L) \in Nat
<1>1. IsFiniteSet({t \in T : pc[t] \in L})
    BY FS_Subset
<1> QED
    BY <1>1, FS_CardinalityType DEF At

\* The number of threads at some labels, after one thread has moved.
LEMMA Moved ==
    ASSUME TypeOK, NEW t \in Threads, NEW l, Goto(t, l),
           NEW T \in SUBSET Threads, IsFiniteSet(T), NEW L
    PROVE  /\ At(T, L) \in Nat /\ At(T, L)' \in Nat
           /\ t \in T /\ pc[t] \notin L /\ l \in L => At(T, L)' = At(T, L) + 1
           /\ t \in T /\ pc[t] \in L /\ l \notin L => At(T, L)' = At(T, L) - 1
           /\ t \notin T \/ (pc[t] \in L <=> l \in L) => At(T, L)' = At(T, L)
<1> DEFINE S == {u \in T : pc[u] \in L}
           S1 == {u \in T : pc'[u] \in L}
<1>1. IsFiniteSet(S) /\ IsFiniteSet(S1) /\ Cardinality(S) \in Nat /\ Cardinality(S1) \in Nat
    BY FS_Subset, FS_CardinalityType
<1>2. \A u \in T : pc'[u] = IF u = t THEN l ELSE pc[u]
    BY DEF TypeOK, Goto
<1>3. At(T, L) = Cardinality(S) /\ At(T, L)' = Cardinality(S1)
    BY DEF At
<1>4. ASSUME t \in T, pc[t] \notin L, l \in L PROVE Cardinality(S1) = Cardinality(S) + 1
  <2>1. S1 = S \cup {t} /\ t \notin S
      BY <1>2, <1>4
  <2> QED
      BY <2>1, <1>1, FS_AddElement
<1>5. ASSUME t \in T, pc[t] \in L, l \notin L PROVE Cardinality(S1) = Cardinality(S) - 1
  <2>1. S1 = S \ {t} /\ t \in S
      BY <1>2, <1>5
  <2> HIDE DEF S, S1
  <2> QED
      BY <2>1, <1>1, FS_RemoveElement
<1>6. ASSUME t \notin T \/ (pc[t] \in L <=> l \in L) PROVE S1 = S
    BY <1>2, <1>6
<1> QED
    BY <1>1, <1>3, <1>4, <1>5, <1>6

\* What a producer's or a consumer's step changes of them.
Change(t, l, T, L) ==
    IF t \notin T \/ (pc[t] \in L <=> l \in L) THEN 0 ELSE IF l \in L THEN 1 ELSE -1

LEMMA NumbersMove ==
    ASSUME TypeOK, NEW t \in Threads, NEW l, Goto(t, l)
    PROVE  /\ At(Producers, Waiting)' = At(Producers, Waiting) + Change(t, l, Producers, Waiting)
           /\ At(Producers, Posting)' = At(Producers, Posting) + Change(t, l, Producers, Posting)
           /\ At(Consumers, Waiting)' = At(Consumers, Waiting) + Change(t, l, Consumers, Waiting)
           /\ At(Consumers, Posting)' = At(Consumers, Posting) + Change(t, l, Consumers, Posting)
           /\ At(Threads, AtArray)' = At(Threads, AtArray) + Change(t, l, Threads, AtArray)
<1>1. ASSUME NEW T \in SUBSET Threads, IsFiniteSet(T), NEW L
      PROVE  At(T, L)' = At(T, L) + Change(t, l, T, L)
    BY <1>1, Moved DEF Change
<1>2. Producers \in SUBSET Threads /\ Consumers \in SUBSET Threads
    BY DEF Threads
<1> QED
    BY <1>1, <1>2, FiniteThreads

\* An index is inside the array whenever a thread is about to use or change it.
LEMMA CountInRange ==
    ASSUME TypeOK, UnitsInv, NEW t \in Threads
    PROVE  /\ t \in Producers /\ pc[t] \in Waiting => count < buffer_size
           /\ t \in Consumers /\ pc[t] \in Waiting => count > 0
<1>1. \A T, L : IsFiniteSet(T) => At(T, L) \in Nat
    BY AtIsNat
<1>2. ASSUME NEW T, IsFiniteSet(T), t \in T, NEW L, pc[t] \in L PROVE At(T, L) > 0
  <2>1. IsFiniteSet({u \in T : pc[u] \in L}) /\ {u \in T : pc[u] \in L} # {}
      BY <1>2, FS_Subset
  <2> QED
      BY <2>1, <1>1, <1>2, FS_EmptySet, FS_CardinalityType DEF At
<1>3. sem["empty"] \in Nat /\ sem["full"] \in Nat /\ count \in Nat /\ buffer_size \in Nat
    BY SizesAssumption DEF TypeOK, Semaphores
<1>4. ASSUME t \in Producers, pc[t] \in Waiting PROVE count < buffer_size
  <2>1. At(Producers, Waiting) > 0 /\ At(Producers, Waiting) \in Nat
        /\ At(Consumers, Posting) \in Nat
      BY <1>1, <1>2, <1>4, FiniteThreads
  <2> QED
      BY <2>1, <1>3 DEF UnitsInv
<1>5. ASSUME t \in Consumers, pc[t] \in Waiting PROVE count > 0
  <2>1. At(Consumers, Waiting) > 0 /\ At(Consumers, Waiting) \in Nat
        /\ At(Producers, Posting) \in Nat
      BY <1>1, <1>2, <1>5, FiniteThreads
  <2> QED
      BY <2>1, <1>3 DEF UnitsInv
<1> QED
    BY <1>4, <1>5

-----------------------------------------------------------------------------
LEMMA InitIInv == Init => IInv
<1> SUFFICES ASSUME Init PROVE IInv
    OBVIOUS
<1>1. TypeOK
    BY SizesAssumption DEF Init, TypeOK, InitialValue, Semaphores
<1>2. ASSUME NEW T \in SUBSET Threads, NEW L, "absent" \notin L PROVE At(T, L) = 0
  <2>1. {t \in T : pc[t] \in L} = {}
      BY <1>2 DEF Init
  <2> QED
      BY <2>1, FS_EmptySet DEF At
<1>3. /\ At(Producers, Waiting) = 0 /\ At(Producers, Posting) = 0
      /\ At(Consumers, Waiting) = 0 /\ At(Consumers, Posting) = 0
      /\ At(Threads, AtArray) = 0
    BY <1>2 DEF Threads, Waiting, Posting, AtArray
<1>4. UnitsInv
    BY <1>3, SizesAssumption DEF Init, UnitsInv, InitialValue, Semaphores
<1>5. LoopInv
    BY DEF Init, LoopInv
<1> QED
    BY <1>1, <1>4, <1>5 DEF IInv

LEMMA StepType ==
    ASSUME IInv, NEW t \in Threads, Create(t) \/ Step(t)
    PROVE  TypeOK' /\ LoopInv'
<1> USE DEF IInv, TypeOK, Goto
<1>1. CASE Create(t)
    BY <1>1 DEF Create, LoopHead, LoopInv
<1>2. CASE WaitForSlot(t)
    BY <1>2 DEF WaitForSlot, sem_wait, LoopInv, Semaphores, Waits
<1>3. CASE WaitForMutex(t)
    BY <1>3 DEF WaitForMutex, sem_wait, LoopInv, Semaphores, Waits
<1>4. CASE t \in Producers /\ Produce(t)
  <2>1. <<t, round[t] + 1>> \in Items
    <3>1. round[t] \in Nat /\ round[t] < Rounds /\ Rounds \in Nat
        BY <1>4, SizesAssumption, SMTT(30) DEF Produce, LoopInv
    <3>2. round[t] + 1 \in 1 .. Rounds
        BY <3>1
    <3> QED
        BY <1>4, <3>2 DEF Items
  <2> QED
      BY <2>1, <1>4 DEF Produce, LoopInv
<1>5. CASE t \in Consumers /\ Consume(t)
  <2> DEFINE i == buffer[count - 1]
  <2>1. consumed' = [consumed EXCEPT ![i] = @ + 1]
      BY <1>5 DEF Consume
  <2> HIDE DEF i
  <2>2. consumed' \in [Items -> Nat]
    <3>1. CASE i \in Items
      <4>1. consumed[i] + 1 \in Nat
          BY <3>1
      <4> QED
          BY <2>1, <3>1, <4>1
    <3>2. CASE i \notin Items
      <4>1. consumed' = consumed
          BY <2>1, <3>2
      <4> QED
          BY <4>1
    <3> QED
        BY <3>1, <3>2
  <2> QED
      BY <2>2, <1>5 DEF Consume, LoopInv
<1>6. CASE Recount(t)
  <2>1. /\ t \in Producers => count < buffer_size
        /\ t \in Consumers => count > 0
      BY <1>6, CountInRange DEF Recount, Waiting
  <2>2. count' \in 0 .. buffer_size
      BY <2>1, <1>6, SizesAssumption DEF Recount, Threads
  <2> QED
      BY <2>2, <1>6 DEF Recount, LoopInv
<1>7. CASE PostMutex(t)
    BY <1>7 DEF PostMutex, LoopInv, Semaphores, Posts
<1>8. CASE PostSlot(t)
  <2>1. round[t] \in Nat /\ round[t] < Rounds
    <3>1. round[t] \in 0 .. Rounds /\ Rounds \in Nat
        BY SizesAssumption
    <3>2. round[t] < Rounds
        BY <1>8 DEF PostSlot, LoopInv
    <3> QED
        BY <3>1, <3>2
  <2>2. round' \in [Threads -> 0 .. Rounds] /\ sem' \in [Semaphores -> Nat]
      BY <2>1, <1>8, SizesAssumption DEF PostSlot, Semaphores, Posts
  <2> QED
      BY <2>1, <2>2, <1>8 DEF PostSlot, LoopInv, LoopHead
<1> QED
    BY <1>1, <1>2, <1>3, <1>4, <1>5, <1>6, <1>7, <1>8 DEF Step

LEMMA StepUnits ==
    ASSUME IInv, NEW t \in Threads, Create(t) \/ Step(t)
    PROVE  UnitsInv'
<1>0. /\ TypeOK /\ UnitsInv /\ sem \in [Semaphores -> Nat] /\ count \in Nat
      /\ buffer_size \in Nat
      /\ \/ t \in Producers /\ t \notin Consumers
         \/ t \in Consumers /\ t \notin Producers
      /\ At(Producers, Waiting) \in Nat /\ At(Producers, Posting) \in Nat
      /\ At(Consumers, Waiting) \in Nat /\ At(Consumers, Posting) \in Nat
      /\ At(Threads, AtArray) \in Nat
    BY SizesAssumption, FiniteThreads, AtIsNat DEF IInv, TypeOK, Threads
<1> DEFINE Moves(l) ==
        /\ At(Producers, Waiting)' = At(Producers, Waiting) + Change(t, l, Producers, Waiting)
        /\ At(Producers, Posting)' = At(Producers, Posting) + Change(t, l, Producers, Posting)
        /\ At(Consumers, Waiting)' = At(Consumers, Waiting) + Change(t, l, Consumers, Waiting)
        /\ At(Consumers, Posting)' = At(Consumers, Posting) + Change(t, l, Consumers, Posting)
        /\ At(Threads, AtArray)' = At(Threads, AtArray) + Change(t, l, Threads, AtArray)
<1>m. ASSUME NEW l, Goto(t, l) PROVE Moves(l)
    BY <1>0, <1>m, NumbersMove
<1> HIDE DEF Moves
<1> USE <1>0 DEF UnitsInv, Moves, Change, Waiting, Posting, AtArray, Semaphores
<1>1. CASE Create(t)
  <2>1. Moves(LoopHead(0)) /\ LoopHead(0) \in {"wait1", "done"}
      BY <1>1, <1>m DEF Create, LoopHead
  <2> QED
      BY <2>1, <1>1 DEF Create
<1>2. CASE WaitForSlot(t)
  <2>1. Moves("wait2")
      BY <1>2, <1>m DEF WaitForSlot, sem_wait
  <2> QED
      BY <2>1, <1>2 DEF WaitForSlot, sem_wait, Waits
<1>3. CASE WaitForMutex(t)
  <2>1. Moves("access")
      BY <1>3, <1>m DEF WaitForMutex, sem_wait
  <2> QED
      BY <2>1, <1>3 DEF WaitForMutex, sem_wait, Waits
<1>4. CASE Produce(t) \/ Consume(t)
  <2>1. Moves("count")
      BY <1>4, <1>m DEF Produce, Consume
  <2> QED
      BY <2>1, <1>4 DEF Produce, Consume
<1>5. CASE Recount(t)
  <2>1. Moves("post1")
      BY <1>5, <1>m DEF Recount
  <2> QED
      BY <2>1, <1>5 DEF Recount
<1>6. CASE PostMutex(t)
  <2>1. Moves("post2")
      BY <1>6, <1>m DEF PostMutex
  <2> QED
      BY <2>1, <1>6 DEF PostMutex, Posts
<1>7. CASE PostSlot(t)
  <2> DEFINE l == LoopHead(round[t] + 1)
  <2>1. Moves(l) /\ l \in {"wait1", "done"}
      BY <1>7, <1>m DEF PostSlot, LoopHead
  <2> HIDE DEF l
  <2> QED
      BY <2>1, <1>7 DEF PostSlot, Posts
<1> QED
    BY <1>1, <1>2, <1>3, <1>4, <1>5, <1>6, <1>7 DEF Step

LEMMA NextIInv == IInv /\ [Next]_vars => IInv'
<1> SUFFICES ASSUME IInv, [Next]_vars PROVE IInv'
    OBVIOUS
<1>1. ASSUME NEW t \in Threads, Create(t) \/ Step(t) PROVE IInv'
    BY <1>1, StepType, StepUnits DEF IInv
<1>2. CASE CreateFails \/ AllCreated \/ UNCHANGED vars
    BY <1>2 DEF CreateFails, AllCreated, vars, IInv, TypeOK, UnitsInv, LoopInv, At
<1> QED
    BY <1>1, <1>2 DEF Next

LEMMA IInvAccess == IInv => AccessInBounds
<1> SUFFICES ASSUME IInv PROVE AccessInBounds
    OBVIOUS
<1>1. At(Threads, AtArray) \in Nat /\ sem["allow"] \in Nat
    BY FiniteThreads, AtIsNat DEF IInv, TypeOK, Semaphores
<1>2. Cardinality(Inside) <= 1
    BY <1>1 DEF IInv, UnitsInv, Inside, At, AtArray
<1>3. ASSUME NEW t \in Threads, pc[t] = "access"
      PROVE  IF t \in Producers THEN count < buffer_size ELSE count > 0
    BY <1>3, CountInRange DEF IInv, Waiting, Threads
<1> QED
    BY <1>2, <1>3 DEF AccessInBounds

LEMMA IInvAgree == IInv => SemaphoresAgree
<1> SUFFICES ASSUME IInv, Inside = {}
             PROVE  /\ sem["full"] + At(Producers, {"post2"}) + At(Consumers, {"wait2"}) = count
                    /\ sem["empty"] + At(Producers, {"wait2"}) + At(Consumers, {"post2"})
                           = buffer_size - count
    BY DEF SemaphoresAgree
<1>1. ASSUME NEW T \in SUBSET Threads
      PROVE  At(T, Waiting) = At(T, {"wait2"}) /\ At(T, Posting) = At(T, {"post2"})
  <2>1. /\ {t \in T : pc[t] \in Waiting} = {t \in T : pc[t] \in {"wait2"}}
        /\ {t \in T : pc[t] \in Posting} = {t \in T : pc[t] \in {"post2"}}
      BY DEF Inside, Waiting, Posting
  <2> QED
      BY <2>1 DEF At
<1>2. /\ At(Producers, Waiting) = At(Producers, {"wait2"})
      /\ At(Producers, Posting) = At(Producers, {"post2"})
      /\ At(Consumers, Waiting) = At(Consumers, {"wait2"})
      /\ At(Consumers, Posting) = At(Consumers, {"post2"})
    BY <1>1 DEF Threads
<1>3. /\ sem["empty"] \in Nat /\ sem["full"] \in Nat /\ count \in Nat /\ buffer_size \in Nat
      /\ At(Producers, Waiting) \in Nat /\ At(Producers, Posting) \in Nat
      /\ At(Consumers, Waiting) \in Nat /\ At(Consumers, Posting) \in Nat
    BY SizesAssumption, FiniteThreads, AtIsNat DEF IInv, TypeOK, Semaphores
<1> QED
    BY <1>2, <1>3 DEF IInv, UnitsInv

-----------------------------------------------------------------------------
\* Nobody else is at the array.
LEMMA Alone ==
    ASSUME IInv, NEW t \in Threads, pc[t] \in AtArray, NEW u \in Threads, pc[u] \in AtArray
    PROVE  u = t
<1>1. IsFiniteSet(Inside) /\ t \in Inside /\ u \in Inside
    BY FiniteThreads, FS_Subset DEF Inside, AtArray
<1>2. IsFiniteSet({t, u}) /\ {t, u} \subseteq Inside
    BY <1>1, FS_Subset
<1>3. Cardinality({t, u}) <= Cardinality(Inside) /\ Cardinality(Inside) <= 1
    BY <1>1, <1>2, FS_Subset, IInvAccess DEF AccessInBounds
<1>4. Cardinality(Inside) \in Nat /\ Cardinality({t, u}) \in Nat
    BY <1>1, <1>2, FS_CardinalityType
<1>5. ASSUME u # t PROVE Cardinality({t, u}) = 2
  <2>1. {t, u} = {t} \cup {u} /\ u \notin {t}
      BY <1>5
  <2>2. IsFiniteSet({t}) /\ Cardinality({t}) = 1
      BY FS_Singleton
  <2>3. Cardinality({t} \cup {u}) = Cardinality({t}) + 1
      BY <2>1, <2>2, FS_AddElement
  <2> QED
      BY <2>1, <2>2, <2>3
<1> QED
    BY <1>3, <1>4, <1>5

\* A step that leaves the array, and what is written and counted, alone.
LEMMA SameItems ==
    ASSUME ItemsInv, Top' = Top, UNCHANGED <<buffer, consumed>>,
           \A i \in Items : Written(i)' <=> Written(i)
    PROVE  ItemsInv'
<1>1. \A i : InArray(i)' <=> InArray(i)
    BY DEF InArray
<1> QED
    BY <1>1 DEF ItemsInv

LEMMA InitItems == Init => ItemsInv
<1> SUFFICES ASSUME Init PROVE ItemsInv
    OBVIOUS
<1>1. Top = 0
    BY FiniteThreads DEF Init, Top
<1>2. \A i \in Items : ~Written(i) /\ consumed[i] = 0
    BY FiniteThreads, SizesAssumption DEF Init, Written, Items
<1> QED
    BY <1>1, <1>2 DEF ItemsInv, InArray

\* The steps away from the array.
LEMMA AwayItems ==
    ASSUME IInv, ItemsInv, NEW t \in Threads,
           Create(t) \/ WaitForSlot(t) \/ WaitForMutex(t) \/ Recount(t)
           \/ PostMutex(t) \/ PostSlot(t)
    PROVE  ItemsInv'
<1>0. UNCHANGED <<buffer, consumed>>
    BY DEF Create, WaitForSlot, WaitForMutex, sem_wait, Recount, PostMutex, PostSlot
<1>1. /\ pc \in [Threads -> {"absent", "wait1", "wait2", "access", "count", "post1",
                              "post2", "done"}]
      /\ round \in [Threads -> 0 .. Rounds] /\ Rounds \in Nat /\ count \in Nat
    BY SizesAssumption DEF IInv, TypeOK
<1>2. Top' = Top
  <2>1. CASE Recount(t)
    <3>1. \A u \in Threads : /\ pc[u] = "count" <=> u = t
                             /\ pc'[u] # "count"
        BY <1>1, <2>1, Alone DEF Recount, Goto, AtArray
    <3> QED
        BY <3>1, <2>1, FiniteThreads DEF Recount, Top, Threads
  <2>2. CASE ~Recount(t)
    <3>1. pc[t] # "count" /\ pc'[t] # "count" /\ count' = count
          /\ \A u \in Threads : u # t => pc'[u] = pc[u]
        BY <1>1, <2>2 DEF Create, WaitForSlot, WaitForMutex, sem_wait, PostMutex, PostSlot,
                          Goto, LoopHead
    <3> QED
        BY <3>1, FiniteThreads DEF Top
  <2> QED
      BY <2>1, <2>2
<1>3. ASSUME NEW i \in Items PROVE Written(i)' <=> Written(i)
  <2>1. i[1] \in Threads /\ i[2] \in Nat /\ round[i[1]] \in Nat
      BY <1>1, FiniteThreads, SizesAssumption DEF Items
  <2>2. CASE PostSlot(t)
    <3>1. /\ pc[t] = "post2" /\ pc'[t] \in {"wait1", "done"} /\ round'[t] = round[t] + 1
          /\ \A u \in Threads : u # t => pc'[u] = pc[u] /\ round'[u] = round[u]
        BY <1>1, <2>2 DEF PostSlot, Goto, LoopHead
    <3> QED
        BY <3>1, <2>1 DEF Written
  <2>3. CASE ~PostSlot(t)
    <3>1. /\ round' = round /\ \A u \in Threads : u # t => pc'[u] = pc[u]
          /\ pc[t] \in {"count", "post1", "post2"} <=> pc'[t] \in {"count", "post1", "post2"}
        BY <1>1, <2>3 DEF Create, WaitForSlot, WaitForMutex, sem_wait, Recount, PostMutex,
                          Goto, LoopHead
    <3> QED
        BY <3>1, <2>1 DEF Written
  <2> QED
      BY <2>2, <2>3
<1> QED
    BY <1>0, <1>2, <1>3, SameItems

LEMMA ProduceItems ==
    ASSUME IInv, ItemsInv, NEW t \in Producers, Produce(t)
    PROVE  ItemsInv'
<1> DEFINE new == <<t, round[t] + 1>>
<1>1. /\ pc \in [Threads -> {"absent", "wait1", "wait2", "access", "count", "post1",
                              "post2", "done"}]
      /\ round \in [Threads -> 0 .. Rounds] /\ Rounds \in Nat /\ count \in Nat
      /\ buffer \in [0 .. buffer_size - 1 -> Items \cup {NoItem}] /\ buffer_size \in Nat
      /\ t \in Threads
    BY SizesAssumption, FiniteThreads DEF IInv, TypeOK
<1>2. count < buffer_size /\ round[t] \in Nat /\ round[t] < Rounds
  <2>1. round[t] < Rounds
      BY <1>1 DEF Produce, IInv, LoopInv
  <2> QED
      BY <1>1, <2>1, CountInRange DEF Produce, IInv, Waiting
<1>3. Top = count /\ Top' = count + 1
  <2>1. \A u \in Threads : pc[u] # "count" /\ (pc'[u] = "count" <=> u = t)
      BY <1>1, Alone DEF Produce, Goto, AtArray
  <2> QED
      BY <2>1, <1>1, FiniteThreads DEF Produce, Top
<1>4. new \in Items
  <2>1. round[t] + 1 \in 1 .. Rounds
      BY <1>1, <1>2
  <2> QED
      BY <2>1 DEF Items
<1>5. ASSUME NEW i \in Items PROVE Written(i)' <=> Written(i) \/ i = new
  <2>1. i = <<i[1], i[2]>> /\ i[1] \in Threads /\ i[2] \in Nat /\ round[i[1]] \in Nat
      BY <1>1, FiniteThreads, SizesAssumption DEF Items
  <2>2. /\ pc[t] = "access" /\ pc'[t] = "count" /\ round' = round
        /\ \A u \in Threads : u # t => pc'[u] = pc[u]
      BY <1>1 DEF Produce, Goto
  <2>3. CASE i[1] = t
      BY <2>1, <2>2, <2>3, <1>2 DEF Written
  <2>4. CASE i[1] # t
      BY <2>1, <2>2, <2>4 DEF Written
  <2> QED
      BY <2>3, <2>4
<1>6. ~Written(new)
    BY <1>1, <1>2 DEF Produce, Written
<1>7. \A k \in 0 .. count : /\ buffer'[k] = IF k = count THEN new ELSE buffer[k]
                            /\ k = count \/ k \in 0 .. count - 1
    BY <1>1, <1>2 DEF Produce
<1> HIDE DEF new
<1>8. \A i : InArray(i)' <=> InArray(i) \/ i = new
  <2>1. 0 .. Top' - 1 = 0 .. count /\ 0 .. Top - 1 = 0 .. count - 1
        /\ 0 .. count - 1 \subseteq 0 .. count /\ count \in 0 .. count
        /\ count \notin 0 .. count - 1
      BY <1>3, <1>1
  <2> QED
      BY <2>1, <1>7 DEF InArray
<1>9. \A k \in 0 .. count - 1 : buffer[k] # new
    BY <1>3, <1>4, <1>6 DEF ItemsInv, InArray
<1>10. consumed' = consumed
    BY DEF Produce
<1>11. /\ \A k \in 0 .. count : buffer'[k] \in Items
       /\ \A j, k \in 0 .. count : buffer'[j] = buffer'[k] => j = k
    BY <1>3, <1>4, <1>7, <1>9 DEF ItemsInv
<1>12. \A i \in Items : consumed'[i] = IF Written(i)' /\ ~InArray(i)' THEN 1 ELSE 0
    BY <1>4, <1>5, <1>6, <1>8, <1>10 DEF ItemsInv
<1>13. \A i \in Items : InArray(i)' => Written(i)'
    BY <1>5, <1>8 DEF ItemsInv
<1>14. 0 .. Top' - 1 = 0 .. count
    BY <1>3, <1>1
<1> QED
    BY <1>11, <1>12, <1>13, <1>14 DEF ItemsInv

LEMMA ConsumeItems ==
    ASSUME IInv, ItemsInv, NEW t \in Consumers, Consume(t)
    PROVE  ItemsInv'
<1> DEFINE old == buffer[count - 1]
<1>1. /\ pc \in [Threads -> {"absent", "wait1", "wait2", "access", "count", "post1",
                              "post2", "done"}]
      /\ count \in Nat /\ t \in Threads /\ consumed \in [Items -> Nat]
    BY SizesAssumption, FiniteThreads DEF IInv, TypeOK
<1>2. count > 0
    BY <1>1, CountInRange DEF Consume, IInv, Waiting
<1>3. Top = count /\ Top' = count - 1
  <2>1. \A u \in Threads : pc[u] # "count" /\ (pc'[u] = "count" <=> u = t)
      BY <1>1, Alone DEF Consume, Goto, AtArray
  <2> QED
      BY <2>1, <1>1, FiniteThreads DEF Consume, Top
<1>4. /\ 0 .. Top - 1 = 0 .. count - 1 /\ 0 .. Top' - 1 = 0 .. count - 2
      /\ 0 .. count - 1 = (0 .. count - 2) \cup {count - 1} /\ count - 1 \notin 0 .. count - 2
    BY <1>1, <1>2, <1>3
<1>5. /\ old \in Items /\ InArray(old) /\ \A k \in 0 .. count - 2 : buffer[k] # old
    BY <1>4 DEF ItemsInv, InArray
<1>6. consumed' = [consumed EXCEPT ![old] = @ + 1] /\ buffer' = buffer
    BY DEF Consume
<1>7. \A i : InArray(i)' <=> InArray(i) /\ i # old
    BY <1>4, <1>5, <1>6 DEF InArray
<1>8. ASSUME NEW i \in Items PROVE Written(i)' <=> Written(i)
  <2>1. i[1] \in Threads /\ i[1] # t
      BY FiniteThreads DEF Items
  <2> QED
      BY <2>1, <1>1 DEF Consume, Goto, Written
<1> HIDE DEF old
<1>9. \A i \in Items : consumed'[i] = IF i = old THEN consumed[i] + 1 ELSE consumed[i]
    BY <1>1, <1>6
<1>10. consumed[old] = 0 /\ Written(old)
    BY <1>5 DEF ItemsInv
<1>11. \A i \in Items : consumed'[i] = IF Written(i)' /\ ~InArray(i)' THEN 1 ELSE 0
    BY <1>7, <1>8, <1>9, <1>10 DEF ItemsInv
<1>12. \A i \in Items : InArray(i)' => Written(i)'
    BY <1>7, <1>8 DEF ItemsInv
<1>13. /\ \A k \in 0 .. Top' - 1 : buffer'[k] \in Items
       /\ \A j, k \in 0 .. Top' - 1 : buffer'[j] = buffer'[k] => j = k
    BY <1>4, <1>6 DEF ItemsInv
<1> QED
    BY <1>11, <1>12, <1>13 DEF ItemsInv

LEMMA NextItems == IInv /\ ItemsInv /\ [Next]_vars => ItemsInv'
<1> SUFFICES ASSUME IInv, ItemsInv, [Next]_vars PROVE ItemsInv'
    OBVIOUS
<1>1. ASSUME NEW t \in Threads, Create(t) \/ Step(t) PROVE ItemsInv'
    BY <1>1, AwayItems, ProduceItems, ConsumeItems DEF Step
<1>2. CASE CreateFails \/ AllCreated \/ UNCHANGED vars
  <2>1. UNCHANGED <<pc, round, buffer, count, consumed>>
      BY <1>2 DEF CreateFails, AllCreated, vars
  <2> QED
      BY <2>1, SameItems DEF Top, Written
<1> QED
    BY <1>1, <1>2 DEF Next

LEMMA ItemsOnce == IInv /\ ItemsInv => ConsumedOnce
<1> SUFFICES ASSUME IInv, ItemsInv, Inside = {}, NEW i \in Items
             PROVE  Cardinality({k \in 0 .. count - 1 : buffer[k] = i}) + consumed[i]
                        = IF Stored(i) THEN 1 ELSE 0
    BY DEF ConsumedOnce
<1> DEFINE Places == {k \in 0 .. count - 1 : buffer[k] = i}
<1>1. count \in Nat /\ i[1] \in Threads
    BY FiniteThreads, SizesAssumption DEF IInv, TypeOK, Items
<1>2. Top = count /\ (Stored(i) <=> Written(i))
    BY <1>1, FiniteThreads DEF Inside, Top, Stored, Written
<1>3. CASE InArray(i)
  <2>1. PICK k \in 0 .. count - 1 : buffer[k] = i
      BY <1>3, <1>2 DEF InArray
  <2>2. Places = {k}
      BY <2>1, <1>2 DEF ItemsInv
  <2>3. Cardinality(Places) = 1
      BY <2>2, FS_Singleton
  <2>4. Written(i) /\ consumed[i] = 0
      BY <1>3 DEF ItemsInv
  <2> QED
      BY <2>3, <2>4, <1>2
<1>4. CASE ~InArray(i)
  <2>1. Places = {}
      BY <1>4, <1>2 DEF InArray
  <2>2. Cardinality(Places) = 0
      BY <2>1, FS_EmptySet
  <2>3. consumed[i] = IF Written(i) THEN 1 ELSE 0
      BY <1>4 DEF ItemsInv
  <2> QED
      BY <2>2, <2>3, <1>2
<1> QED
    BY <1>3, <1>4

-----------------------------------------------------------------------------
\* Types, the bounds of the array's index among them, for any number of threads.
THEOREM TypeCorrect == Spec => []TypeOK
<1>1. IInv => TypeOK
    BY DEF IInv
<1> QED
    BY InitIInv, NextIInv, <1>1, PTL DEF Spec

\* No two threads are at the array, and an access is inside it, for any number of
\* threads, slots and rounds.
THEOREM AccessCorrect == Spec => []AccessInBounds
BY InitIInv, NextIInv, IInvAccess, PTL DEF Spec

\* The semaphores agree with the array, for any number of threads and slots.
THEOREM SemaphoresCorrect == Spec => []SemaphoresAgree
BY InitIInv, NextIInv, IInvAgree, PTL DEF Spec

\* No item is lost, overwritten or consumed twice, for any number of threads,
\* slots and rounds.
THEOREM ItemsCorrect == Spec => []ConsumedOnce
<1>1. Init => IInv /\ ItemsInv
    BY InitIInv, InitItems
<1>2. (IInv /\ ItemsInv) /\ [Next]_vars => (IInv /\ ItemsInv)'
    BY NextIInv, NextItems
<1> QED
    BY <1>1, <1>2, ItemsOnce, PTL DEF Spec

-----------------------------------------------------------------------------
\* An instance brings its own copy of the operators of the standard modules.
LEMMA OneCardinality ==
    \A S : CB!Cardinality(S) = Cardinality(S) /\ SC!Cardinality(S) = Cardinality(S)
    BY DEF CB!Cardinality, SC!Cardinality, Cardinality,
           CB!IsFiniteSet, SC!IsFiniteSet, IsFiniteSet

-----------------------------------------------------------------------------
(* conditionVar.c *)
\* What the array holds.
InStack == {condBuffer[k] : k \in 0 .. condCount - 1}

\* Every number below the producer's round was produced: it is in the array, at
\* one place, or was consumed.
StackInv ==
    /\ taken \cup InStack = 0 .. condRound["producer"] - 1 /\ taken \cap InStack = {}
    /\ \A j, k \in 0 .. condCount - 1 : condBuffer[j] = condBuffer[k] => j = k
    /\ Cardinality(taken) = condRound["consumer"] /\ Cardinality(InStack) = condCount
    /\ IsFiniteSet(taken) /\ IsFiniteSet(InStack)

\* A thread in its loop has an iteration left; and unless the consumer was woken
\* without a signal, it finds an item behind its wait.
CondLoops ==
    /\ \A t \in CB!Threads :
          /\ condPc[t] \in {"lock", "waiting", "woken"} => condRound[t] < Rounds
          /\ condPc[t] = "absent" => condRound[t] = 0
    /\ ~surprised => condMain # "undefined" /\ (condPc["consumer"] = "woken" => condCount > 0)

CondInv == CB!TypeOK /\ StackInv /\ CondLoops

LEMMA CondInit == CB!Init => CondInv
<1> SUFFICES ASSUME CB!Init PROVE CondInv
    OBVIOUS
<1>0. bufferSize \in Nat /\ Rounds \in Nat
    BY CountersAssumption, SizesAssumption
<1>1. CB!TypeOK
  <2>1. 0 \in 0 .. Rounds /\ 0 \in 0 .. bufferSize
    BY <1>0
  <2>2. /\ condRound \in [CB!Threads -> 0 .. Rounds] /\ condCount \in 0 .. bufferSize
        /\ condBuffer \in [0 .. bufferSize - 1 -> Nat]
    BY <2>1 DEF CB!Init
  <2> QED
    BY <2>2 DEF CB!Init, CB!TypeOK
<1>2. 0 .. -1 = {} /\ condCount - 1 = -1 /\ condRound["producer"] - 1 = -1
    BY DEF CB!Init, CB!Threads
<1>3. InStack = {} /\ taken = {}
    BY <1>2 DEF InStack, CB!Init
<1>4. StackInv
    BY <1>2, <1>3, FS_EmptySet DEF StackInv, CB!Init, CB!Threads
<1>5. CondLoops
    BY DEF CondLoops, CB!Init, CB!Threads
<1> QED
    BY <1>1, <1>4, <1>5 DEF CondInv

\* The steps that leave the array alone.
LEMMA CondAside ==
    ASSUME CondInv, UNCHANGED <<condRound, condBuffer, condCount, taken>>,
           CB!TypeOK', CondLoops'
    PROVE  CondInv'
<1>1. InStack' = InStack
    BY DEF InStack
<1> QED
    BY <1>1 DEF CondInv, StackInv

LEMMA CondAsideSteps ==
    ASSUME CondInv,
           \/ CB!CreateFails
           \/ \E t \in CB!Threads : CB!Create(t) \/ CB!SpuriousWakeup(t)
           \/ \E t \in CB!Threads : CB!Running(t) /\ CB!Wait(t)
           \/ CB!MustWait = FALSE /\ CB!Consume /\ condMain' = "undefined"
           \/ UNCHANGED condVars
    PROVE  CondInv'
<1>0. /\ condPc \in [CB!Threads -> {"absent", "lock", "waiting", "woken", "done"}]
      /\ condRound \in [CB!Threads -> 0 .. Rounds] /\ Rounds \in Nat
      /\ "consumer" \in CB!Threads /\ "producer" \in CB!Threads
    BY SizesAssumption DEF CondInv, CB!TypeOK, CB!Threads
<1>1. CASE CB!CreateFails
  <2>1. CB!TypeOK' /\ CondLoops'
    BY <1>1 DEF CondInv, CB!TypeOK, CondLoops, CB!CreateFails
  <2> QED
    BY <1>1, <2>1, CondAside DEF CB!CreateFails
<1>2. ASSUME NEW t \in CB!Threads, CB!Create(t) PROVE CondInv'
  <2>1. CB!LoopHead(0) \in {"lock", "done"} /\ (CB!LoopHead(0) = "lock" => 0 < Rounds)
    BY DEF CB!LoopHead
  <2>2. CB!TypeOK' /\ CondLoops'
    BY <1>0, <1>2, <2>1 DEF CondInv, CB!TypeOK, CondLoops, CB!Create
  <2> QED
    BY <1>2, <2>2, CondAside DEF CB!Create
<1>3. ASSUME NEW t \in CB!Threads, CB!SpuriousWakeup(t) PROVE CondInv'
  <2>1. CB!TypeOK' /\ CondLoops'
    BY <1>0, <1>3 DEF CondInv, CB!TypeOK, CondLoops, CB!SpuriousWakeup, CB!Threads
  <2> QED
    BY <1>3, <2>1, CondAside DEF CB!SpuriousWakeup
<1>4. ASSUME NEW t \in CB!Threads, CB!Running(t), CB!Wait(t) PROVE CondInv'
  <2>1. CB!TypeOK' /\ CondLoops'
    BY <1>0, <1>4 DEF CondInv, CB!TypeOK, CondLoops, CB!Wait, CB!Running
  <2> QED
    BY <1>4, <2>1, CondAside DEF CB!Wait
<1>5. CASE CB!MustWait = FALSE /\ CB!Consume /\ condMain' = "undefined"
  <2>1. condCount \in 0 .. bufferSize /\ condMain # "undefined"
    BY <1>5 DEF CondInv, CB!TypeOK, CB!Consume, CB!Running
  <2>2. /\ condCount = 0 /\ condPc' = condPc /\ surprised' = surprised
        /\ UNCHANGED <<condRound, condBuffer, condCount, taken>>
    BY <1>5, <2>1 DEF CB!Consume
  <2>3. condPc["consumer"] = "woken"
    BY <1>5, <2>2 DEF CB!Consume, CB!Running, CB!MustWait
  <2>4. surprised
    BY <2>2, <2>3 DEF CondInv, CondLoops
  <2>5. CB!TypeOK' /\ CondLoops'
    BY <1>5, <2>2, <2>4 DEF CondInv, CB!TypeOK, CondLoops
  <2> QED
    BY <2>2, <2>5, CondAside
<1>6. CASE UNCHANGED condVars
  <2>1. CB!TypeOK' /\ CondLoops'
    BY <1>6 DEF CondInv, CB!TypeOK, CondLoops, condVars
  <2> QED
    BY <1>6, <2>1, CondAside DEF condVars
<1> QED
    BY <1>1, <1>2, <1>3, <1>4, <1>5, <1>6

\* The end of an iteration of t: what it and the thread it signals do.
LEMMA CondFinish ==
    ASSUME CB!TypeOK, NEW t \in CB!Threads, NEW u \in CB!Threads, u # t,
           condRound[t] < Rounds, CB!Finish(t, u)
    PROVE  /\ condRound' \in [CB!Threads -> 0 .. Rounds] /\ condRound'[t] = condRound[t] + 1
           /\ condRound'[u] = condRound[u]
           /\ condPc' \in [CB!Threads -> {"absent", "lock", "waiting", "woken", "done"}]
           /\ condPc'[t] \in {"lock", "done"}
           /\ condPc'[t] = "lock" => condRound'[t] < Rounds
           /\ condPc'[u] = IF condPc[u] = "waiting" THEN "woken" ELSE condPc[u]
<1>0. /\ condPc \in [CB!Threads -> {"absent", "lock", "waiting", "woken", "done"}]
      /\ condRound \in [CB!Threads -> 0 .. Rounds] /\ Rounds \in Nat
    BY SizesAssumption DEF CB!TypeOK
<1>1. condRound[t] + 1 \in 0 .. Rounds
    BY <1>0
<1> DEFINE l == CB!LoopHead(condRound[t] + 1)
<1>2. l \in {"lock", "done"} /\ (l = "lock" => condRound[t] + 1 < Rounds)
    BY DEF CB!LoopHead
<1>3. /\ condRound' = [condRound EXCEPT ![t] = @ + 1]
      /\ condPc' = [condPc EXCEPT ![t] = l, ![u] = IF @ = "waiting" THEN "woken" ELSE @]
    BY DEF CB!Finish
<1> HIDE DEF l
<1> QED
    BY <1>0, <1>1, <1>2, <1>3

LEMMA ProducePuts ==
    ASSUME CondInv, CB!Produce, condCount # bufferSize
    PROVE  CondInv'
<1> DEFINE n == condRound["producer"]
<1>0. /\ condRound \in [CB!Threads -> 0 .. Rounds] /\ Rounds \in Nat /\ n \in 0 .. Rounds
      /\ condBuffer \in [0 .. bufferSize - 1 -> Nat] /\ condCount \in 0 .. bufferSize
      /\ bufferSize \in Nat /\ "consumer" \in CB!Threads /\ "producer" \in CB!Threads
    BY SizesAssumption, CountersAssumption DEF CondInv, CB!TypeOK, CB!Threads
<1>1. /\ condMain \in {"creating", "joining"} /\ condPc["producer"] \in {"lock", "woken"}
      /\ condBuffer' = [condBuffer EXCEPT ![condCount] = n]
      /\ condCount' = condCount + 1
      /\ CB!Finish("producer", "consumer")
      /\ taken' = taken /\ surprised' = surprised /\ condMain' = condMain
    BY DEF CB!Produce, CB!Running
<1>2. n < Rounds
    BY <1>0, <1>1 DEF CondInv, CondLoops
<1>3. /\ condRound' \in [CB!Threads -> 0 .. Rounds] /\ condRound'["producer"] = n + 1
      /\ condRound'["consumer"] = condRound["consumer"]
      /\ condPc' \in [CB!Threads -> {"absent", "lock", "waiting", "woken", "done"}]
      /\ condPc'["producer"] \in {"lock", "done"}
      /\ condPc'["producer"] = "lock" => condRound'["producer"] < Rounds
      /\ condPc'["consumer"] = IF condPc["consumer"] = "waiting" THEN "woken" ELSE condPc["consumer"]
    BY <1>0, <1>1, <1>2, CondFinish DEF CondInv
<1> HIDE DEF n
<1>4. /\ condCount \in 0 .. bufferSize - 1 /\ condCount + 1 \in 0 .. bufferSize
      /\ 0 .. condCount' - 1 = (0 .. condCount - 1) \cup {condCount}
      /\ condCount \notin 0 .. condCount - 1 /\ 0 .. condCount - 1 \subseteq 0 .. bufferSize - 1
    BY <1>0, <1>1
<1>5. /\ condBuffer' \in [0 .. bufferSize - 1 -> Nat] /\ condBuffer'[condCount] = n
      /\ \A k \in 0 .. condCount - 1 : condBuffer'[k] = condBuffer[k]
    BY <1>0, <1>1, <1>4
<1>6. CB!TypeOK'
    BY <1>1, <1>3, <1>4, <1>5 DEF CondInv, CB!TypeOK
<1>7. StackInv'
  <2>1. StackInv
    BY DEF CondInv
  <2>2. InStack' = InStack \cup {n}
    BY <1>4, <1>5 DEF InStack
  <2>3. n \notin 0 .. n - 1 /\ 0 .. (n + 1) - 1 = (0 .. n - 1) \cup {n}
    BY <1>0
  <2>4. n \notin InStack /\ n \notin taken
    BY <2>1, <2>3 DEF StackInv, n
  <2>5. Cardinality(InStack \cup {n}) = condCount + 1 /\ IsFiniteSet(InStack \cup {n})
    BY <2>1, <2>4, FS_AddElement DEF StackInv
  <2>6. taken' \cup InStack' = 0 .. condRound'["producer"] - 1 /\ taken' \cap InStack' = {}
    BY <1>1, <1>3, <2>1, <2>2, <2>3, <2>4 DEF StackInv, n
  <2>7. \A j, k \in 0 .. condCount' - 1 : condBuffer'[j] = condBuffer'[k] => j = k
    <3>1. \A k \in 0 .. condCount - 1 : condBuffer[k] # n
      BY <2>4 DEF InStack
    <3> QED
      BY <1>4, <1>5, <2>1, <3>1 DEF StackInv
  <2> QED
    BY <1>1, <1>3, <2>1, <2>2, <2>5, <2>6, <2>7 DEF StackInv
<1>8. CondLoops'
  <2>1. condCount' > 0
    BY <1>0, <1>1
  <2> QED
    BY <1>1, <1>3, <2>1 DEF CondInv, CondLoops, CB!Threads
<1> QED
    BY <1>6, <1>7, <1>8 DEF CondInv

LEMMA ConsumeTakes ==
    ASSUME CondInv, CB!Consume, ~CB!MustWait, condCount > 0
    PROVE  CondInv'
<1> DEFINE m == condRound["consumer"]
           e == condBuffer[condCount - 1]
<1>0. /\ condRound \in [CB!Threads -> 0 .. Rounds] /\ Rounds \in Nat /\ m \in 0 .. Rounds
      /\ condRound["producer"] \in 0 .. Rounds
      /\ condBuffer \in [0 .. bufferSize - 1 -> Nat] /\ condCount \in 0 .. bufferSize
      /\ bufferSize \in Nat /\ "consumer" \in CB!Threads /\ "producer" \in CB!Threads
    BY SizesAssumption, CountersAssumption DEF CondInv, CB!TypeOK, CB!Threads
<1>1. /\ condMain \in {"creating", "joining"} /\ condPc["consumer"] \in {"lock", "woken"}
      /\ taken' = taken \cup {e}
      /\ condCount' = condCount - 1
      /\ CB!Finish("consumer", "producer")
      /\ condBuffer' = condBuffer /\ surprised' = surprised /\ condMain' = condMain
    BY <1>0 DEF CB!Consume, CB!Running
<1>2. m < Rounds
    BY <1>0, <1>1 DEF CondInv, CondLoops
<1>3. /\ condRound' \in [CB!Threads -> 0 .. Rounds] /\ condRound'["consumer"] = m + 1
      /\ condRound'["producer"] = condRound["producer"]
      /\ condPc' \in [CB!Threads -> {"absent", "lock", "waiting", "woken", "done"}]
      /\ condPc'["consumer"] \in {"lock", "done"}
      /\ condPc'["consumer"] = "lock" => condRound'["consumer"] < Rounds
      /\ condPc'["producer"] = IF condPc["producer"] = "waiting" THEN "woken" ELSE condPc["producer"]
    BY <1>0, <1>1, <1>2, CondFinish DEF CondInv
<1>4. /\ condCount - 1 \in 0 .. bufferSize /\ condCount - 1 \in 0 .. condCount - 1
      /\ 0 .. condCount - 1 = (0 .. condCount' - 1) \cup {condCount - 1}
      /\ condCount - 1 \notin 0 .. condCount' - 1
    BY <1>0, <1>1, SMTT(30)
<1> HIDE DEF m, e
<1>5. StackInv
    BY DEF CondInv
<1>6. e \in InStack /\ e \notin taken
  <2>1. e \in InStack
    BY <1>4 DEF InStack, e
  <2> QED
    BY <1>5, <2>1 DEF StackInv
<1>7. InStack' = InStack \ {e}
  <2>1. \A k \in 0 .. condCount' - 1 : condBuffer[k] # e
    BY <1>4, <1>5 DEF StackInv, e
  <2> QED
    BY <1>1, <1>4, <2>1 DEF InStack, e
<1>8. CB!TypeOK'
  <2>1. e \in CB!Items
    <3>1. e \in 0 .. condRound["producer"] - 1
      BY <1>5, <1>6 DEF StackInv
    <3>2. 0 .. condRound["producer"] - 1 \subseteq 0 .. Rounds - 1
      BY <1>0
    <3> QED
      BY <3>1, <3>2 DEF CB!Items
  <2> QED
    BY <1>1, <1>3, <1>4, <2>1 DEF CondInv, CB!TypeOK
<1>9. StackInv'
  <2>1. /\ Cardinality(taken \cup {e}) = m + 1 /\ IsFiniteSet(taken \cup {e})
    BY <1>5, <1>6, FS_AddElement DEF StackInv, m
  <2>2. /\ Cardinality(InStack \ {e}) = condCount - 1 /\ IsFiniteSet(InStack \ {e})
    BY <1>5, <1>6, FS_RemoveElement DEF StackInv
  <2>3. taken' \cup InStack' = 0 .. condRound'["producer"] - 1 /\ taken' \cap InStack' = {}
    BY <1>1, <1>3, <1>5, <1>6, <1>7 DEF StackInv
  <2>4. \A j, k \in 0 .. condCount' - 1 : condBuffer'[j] = condBuffer'[k] => j = k
    BY <1>1, <1>4, <1>5 DEF StackInv
  <2> QED
    BY <1>1, <1>3, <1>7, <2>1, <2>2, <2>3, <2>4 DEF StackInv
<1>10. CondLoops'
    BY <1>1, <1>3 DEF CondInv, CondLoops, CB!Threads
<1> QED
    BY <1>8, <1>9, <1>10 DEF CondInv

LEMMA CondNext == CondInv /\ (CB!Next \/ UNCHANGED condVars) => CondInv'
<1> SUFFICES ASSUME CondInv, CB!Next \/ UNCHANGED condVars PROVE CondInv'
    OBVIOUS
<1>1. condCount \in 0 .. bufferSize /\ bufferSize \in Nat
    BY CountersAssumption DEF CondInv, CB!TypeOK
<1>2. "consumer" \in CB!Threads /\ "producer" \in CB!Threads
    BY DEF CB!Threads
<1>3. CASE CB!Produce
  <2>1. CASE condCount = bufferSize
    <3>1. CB!Running("producer") /\ CB!Wait("producer")
      BY <1>3, <2>1 DEF CB!Produce
    <3> QED
      BY <1>2, <3>1, CondAsideSteps
  <2> QED
    BY <1>3, <2>1, ProducePuts
<1>4. CASE CB!Consume
  <2>1. CASE CB!MustWait
    BY <1>2, <1>4, <2>1, CondAsideSteps DEF CB!Consume
  <2>2. CASE ~CB!MustWait /\ condCount > 0
    BY <1>4, <2>2, ConsumeTakes
  <2>3. CASE ~CB!MustWait /\ ~(condCount > 0)
    <3>1. condMain' = "undefined" /\ CB!MustWait = FALSE
      BY <1>1, <1>4, <2>3 DEF CB!Consume, CB!MustWait
    <3> QED
      BY <1>4, <3>1, CondAsideSteps
  <2> QED
    BY <2>1, <2>2, <2>3
<1> QED
    BY <1>3, <1>4, CondAsideSteps DEF CB!Next

LEMMA CondFinds == CondInv => CB!ConsumerFindsItem
<1> SUFFICES ASSUME CondInv PROVE CB!ConsumerFindsItem
    OBVIOUS
<1>1. {condBuffer[k] : k \in 0 .. condCount - 1} = InStack
    BY DEF InStack
<1>2. condMain = "undefined" => surprised
    BY DEF CondInv, CondLoops, CB!TypeOK
<1>3. /\ taken \cup InStack = 0 .. condRound["producer"] - 1
      /\ Cardinality(taken) = condRound["consumer"] /\ Cardinality(InStack) = condCount
    BY DEF CondInv, StackInv
<1> HIDE DEF InStack
<1> QED
    BY <1>1, <1>2, <1>3, OneCardinality DEF CB!ConsumerFindsItem

-----------------------------------------------------------------------------
(* semaphore.c and thread.c *)
\* The threads at some steps.
Standing(P) == {t \in Routines : at[t] \in P}
Number(P) == Cardinality(Standing(P))

\* Where a thread holds a permit, where it has stored, where it has reported.
Inner == IF program = "thread.c" THEN {2, 3, 4} ELSE {2, 3, 4, 5}
After == {4, 5, 6}
Told == IF program = "thread.c" THEN {6} ELSE {5, 6}

N == Cardinality(Routines)

CountTypes ==
    /\ permits \in Nat /\ program \in Programs
    /\ at \in [Routines -> 0 .. 6]
    /\ counted \in Nat
    /\ copy \in [Routines -> Nat] /\ result \in [Routines -> Nat]
    /\ countMain \in {"creating", "joining", "end", "exit"}

\* Nothing is counted that was not stored, and the first store is never lost.
Bounded ==
    /\ permits + Number(Inner) = SC!Permits
    /\ counted <= Number(After) /\ (Standing(After) # {} => counted >= 1)
    /\ \A t \in Routines : at[t] = 3 => copy[t] <= Number(After)
    /\ \A t \in Routines : IF at[t] \in Told THEN result[t] \in 1 .. N ELSE result[t] = 0
    /\ countMain = "end" => Routines # {} /\ \A t \in Routines : at[t] = 6
    /\ countMain # "creating" => countMain = "exit" \/ Routines # {}

\* Behind the mutex nothing is lost, and k threads at most have returned k or less.
Exact ==
    program = "thread.c" =>
        /\ counted = Number(After)
        /\ \A t \in Routines : at[t] = 3 => copy[t] = counted
        /\ \A k \in Nat : Cardinality({t \in Standing(Told) : result[t] <= k}) <= k

CountInv == CountTypes /\ Bounded /\ Exact

LEMMA StepsAre ==
    ASSUME CountTypes, NEW t \in Routines
    PROVE  /\ SC!Is(t, "enter") <=> at[t] = 1
           /\ SC!Is(t, "load") <=> at[t] = 2
           /\ SC!Is(t, "store") <=> at[t] = 3
           /\ SC!Is(t, "leave") <=> at[t] = IF program = "thread.c" THEN 4 ELSE 5
           /\ SC!Is(t, "report") <=> at[t] = IF program = "thread.c" THEN 5 ELSE 4
           /\ SC!Is(t, "done") <=> at[t] = 6
<1>1. at[t] \in {0, 1, 2, 3, 4, 5, 6}
    BY DEF CountTypes
<1>2. CASE program = "thread.c"
    BY <1>1, <1>2 DEF SC!Is, SC!Steps
<1>3. CASE program # "thread.c"
    BY <1>1, <1>3 DEF SC!Is, SC!Steps
<1> QED
    BY <1>2, <1>3

LEMMA LenSteps == SC!Len(SC!Steps) = 6
    BY DEF SC!Steps

LEMMA FiniteStanding ==
    \A P : /\ IsFiniteSet(Standing(P)) /\ Number(P) \in Nat
           /\ Number(P) <= N /\ (Standing(P) = {} <=> Number(P) = 0)
<1>1. IsFiniteSet(Routines)
    BY CountersAssumption
<1>2. ASSUME NEW P
      PROVE  /\ IsFiniteSet(Standing(P)) /\ Number(P) \in Nat
             /\ Number(P) <= N /\ (Standing(P) = {} <=> Number(P) = 0)
  <2>1. Standing(P) \subseteq Routines
    BY DEF Standing
  <2>2. IsFiniteSet(Standing(P)) /\ Cardinality(Standing(P)) <= Cardinality(Routines)
    BY <1>1, <2>1, FS_Subset
  <2>3. Cardinality(Standing(P)) \in Nat /\ (Standing(P) = {} <=> Cardinality(Standing(P)) = 0)
    BY <2>2, FS_CardinalityType, FS_EmptySet
  <2> QED
    BY <2>2, <2>3 DEF Number, N
<1> QED
    BY <1>2

\* A thread that goes on by one step, and what that does to the number of threads
\* in a part P of the program.
LEMMA GoesOn ==
    ASSUME CountTypes, NEW t \in Routines, NEW j \in 0 .. 6, at' = [at EXCEPT ![t] = j], NEW P
    PROVE  /\ at[t] \notin P /\ j \in P =>
                  /\ Number(P)' = Number(P) + 1 /\ t \notin Standing(P)
                  /\ Standing(P)' = Standing(P) \cup {t}
           /\ at[t] \in P /\ j \notin P => Number(P)' = Number(P) - 1
           /\ (at[t] \in P <=> j \in P) => Number(P)' = Number(P) /\ Standing(P)' = Standing(P)
<1> DEFINE A == Standing(P)
           B == {u \in Routines : at'[u] \in P}
<1>1. IsFiniteSet(A) /\ Number(P) = Cardinality(A) /\ Number(P)' = Cardinality(B)
      /\ Standing(P)' = B
    BY FiniteStanding DEF Number, Standing
<1>2. at'[t] = j /\ \A u \in Routines : u # t => at'[u] = at[u]
    BY DEF CountTypes
<1>3. ASSUME at[t] \notin P, j \in P PROVE B = A \cup {t} /\ t \notin A
    BY <1>2, <1>3 DEF Standing
<1>4. ASSUME at[t] \in P, j \notin P PROVE B = A \ {t} /\ t \in A
    BY <1>2, <1>4 DEF Standing
<1>5. ASSUME at[t] \in P <=> j \in P PROVE A = B
    BY <1>2, <1>5 DEF Standing
<1> HIDE DEF A, B
<1>6. ASSUME at[t] \notin P, j \in P
      PROVE  Number(P)' = Number(P) + 1 /\ t \notin A /\ B = A \cup {t}
    BY <1>1, <1>3, <1>6, FS_AddElement
<1>7. ASSUME at[t] \in P, j \notin P PROVE Number(P)' = Number(P) - 1
    BY <1>1, <1>4, <1>7, FS_RemoveElement
<1>8. ASSUME at[t] \in P <=> j \in P PROVE Number(P)' = Number(P) /\ B = A
    BY <1>1, <1>5, <1>8
<1> QED
    BY <1>1, <1>6, <1>7, <1>8 DEF A

LEMMA CountInit == SC!Init /\ program \in Programs => CountInv
<1> SUFFICES ASSUME SC!Init, program \in Programs PROVE CountInv
    OBVIOUS
<1>1. /\ permits = SC!Permits /\ counted = 0 /\ countMain = "creating"
      /\ \A t \in Routines : at[t] = 0 /\ result[t] = 0
    BY DEF SC!Init
<1>2. ASSUME NEW P, 0 \notin P PROVE Standing(P) = {} /\ Number(P) = 0
  <2>1. Standing(P) = {}
    BY <1>1, <1>2 DEF Standing
  <2> QED
    BY <2>1, FiniteStanding
<1>3. 0 \notin Inner /\ 0 \notin After /\ 0 \notin Told
    BY DEF Inner, After, Told
<1>4. CountTypes
    BY <1>1, CountersAssumption DEF CountTypes, SC!Init, SC!Permits
<1>5. SC!Permits \in Nat
    BY CountersAssumption DEF SC!Permits
<1>6. /\ Standing(After) = {} /\ Number(After) = 0 /\ Number(Inner) = 0 /\ Standing(Told) = {}
    BY <1>2, <1>3
<1>7. Bounded
    BY <1>1, <1>3, <1>5, <1>6 DEF Bounded
<1>8. Exact
  <2>1. \A k \in Nat : {t \in Standing(Told) : result[t] <= k} = {}
    BY <1>6
  <2>2. \A k \in Nat : Cardinality({t \in Standing(Told) : result[t] <= k}) <= k
    BY <2>1, FS_EmptySet
  <2> QED
    BY <1>1, <1>6, <2>2 DEF Exact
<1> QED
    BY <1>4, <1>7, <1>8 DEF CountInv

\* One thread at a time is between lock and unlock.
LEMMA OneInside ==
    ASSUME CountInv, program = "thread.c",
           NEW t \in Standing({2, 3, 4}), NEW u \in Standing({2, 3, 4})
    PROVE  t = u
<1>1. permits \in Nat /\ permits + Number({2, 3, 4}) = 1
    BY DEF CountInv, CountTypes, Bounded, Inner, SC!Permits
<1>2. Number({2, 3, 4}) \in Nat /\ IsFiniteSet(Standing({2, 3, 4}))
    BY FiniteStanding
<1>3. Cardinality(Standing({2, 3, 4})) <= 1
    BY <1>1, <1>2 DEF Number
<1>4. IsFiniteSet({t, u}) /\ Cardinality({t, u}) <= Cardinality(Standing({2, 3, 4}))
    BY <1>2, FS_Subset
<1>5. Cardinality({t, u}) \in Nat
    BY <1>4, FS_CardinalityType
<1>6. ASSUME t # u PROVE Cardinality({t, u}) = 2
  <2>1. {t, u} = {t} \cup {u} /\ u \notin {t}
      BY <1>6
  <2>2. IsFiniteSet({t}) /\ Cardinality({t}) = 1
      BY FS_Singleton
  <2>3. Cardinality({t} \cup {u}) = Cardinality({t}) + 1
      BY <2>1, <2>2, FS_AddElement
  <2> QED
      BY <2>1, <2>2, <2>3
<1>7. Cardinality(Standing({2, 3, 4})) \in Nat
    BY <1>2, FS_CardinalityType
<1> QED
    BY <1>3, <1>4, <1>5, <1>6, <1>7

\* main's steps other than Create.
LEMMA CountMain ==
    ASSUME CountInv, SC!CreateFails \/ SC!Join \/ UNCHANGED <<program, countVars>>
    PROVE  CountInv'
<1>1. UNCHANGED <<program, permits, at, counted, copy, result>>
    BY DEF SC!CreateFails, SC!Join, countVars
<1>2. \A P : Number(P)' = Number(P) /\ Standing(P)' = Standing(P)
    BY <1>1 DEF Number, Standing
<1>3. Inner' = Inner /\ Told' = Told /\ SC!Permits' = SC!Permits /\ After' = After
    BY <1>1 DEF Inner, Told, SC!Permits, After
<1>4. /\ countMain' \in {"creating", "joining", "end", "exit"}
      /\ countMain' = "end" => Routines # {} /\ \A t \in Routines : at[t] = 6
      /\ countMain' # "creating" => countMain' = "exit" \/ Routines # {}
  <2>1. CountTypes /\ Bounded
    BY DEF CountInv
  <2>2. CASE SC!CreateFails
    BY <2>2 DEF SC!CreateFails
  <2>3. CASE SC!Join
    BY <2>1, <2>3, StepsAre DEF SC!Join, Bounded
  <2>4. CASE UNCHANGED <<program, countVars>>
    BY <2>1, <2>4 DEF countVars, CountTypes, Bounded
  <2> QED
    BY <2>2, <2>3, <2>4
<1>5. PICK I, T : I = Inner /\ T = Told
    OBVIOUS
<1>6. /\ Number(Inner)' = Number(Inner) /\ Number(After)' = Number(After)
      /\ Standing(After)' = Standing(After) /\ Standing(Told)' = Standing(Told)
  <2>1. Number(I)' = Number(I) /\ Standing(T)' = Standing(T)
        /\ Standing(After)' = Standing(After) /\ Number(After)' = Number(After)
    BY <1>2
  <2>2. Number(Inner)' = Number(I)' /\ Standing(Told)' = Standing(T)'
    BY <1>3, <1>5 DEF Number, Standing
  <2> QED
    BY <1>5, <2>1, <2>2
<1>7. CountTypes'
    BY <1>1, <1>4 DEF CountInv, CountTypes
<1>8. Bounded'
    BY <1>1, <1>3, <1>4, <1>6 DEF CountInv, Bounded
<1>9. Exact'
    BY <1>1, <1>6 DEF CountInv, Exact
<1> QED
    BY <1>7, <1>8, <1>9 DEF CountInv

\* What t's step from i to j changes of the numbers of threads.
Shift(P, i, j) == IF i \in P <=> j \in P THEN 0 ELSE IF j \in P THEN 1 ELSE -1

LEMMA StepShifts ==
    ASSUME CountInv, NEW t \in Routines, NEW i, at[t] = i, NEW j \in 0 .. 6,
           at' = [at EXCEPT ![t] = j], program' = program
    PROVE  /\ at' \in [Routines -> 0 .. 6] /\ at'[t] = j
           /\ \A u \in Routines : u # t => at'[u] = at[u]
           /\ Inner' = Inner /\ Told' = Told /\ SC!Permits' = SC!Permits
           /\ Number(Inner)' = Number(Inner) + Shift(Inner, i, j)
           /\ Number(After)' = Number(After) + Shift(After, i, j)
           /\ (i \in After => j \in After) =>
                 Standing(After)' = IF j \in After THEN Standing(After) \cup {t} ELSE Standing(After)
           /\ (i \in Told <=> j \in Told) => Standing(Told)' = Standing(Told)
           /\ i \notin Told /\ j \in Told =>
                 Standing(Told)' = Standing(Told) \cup {t} /\ t \notin Standing(Told)
<1>1. Inner' = Inner /\ Told' = Told /\ SC!Permits' = SC!Permits
    BY DEF Inner, Told, SC!Permits
<1>2. CountTypes
    BY DEF CountInv
<1>3. ASSUME NEW P
      PROVE  /\ Number(P)' = Number(P) + Shift(P, i, j)
             /\ (i \in P <=> j \in P) => Standing(P)' = Standing(P)
             /\ i \notin P /\ j \in P =>
                   Standing(P)' = Standing(P) \cup {t} /\ t \notin Standing(P)
  <2>1. Number(P) \in Nat
    BY FiniteStanding
  <2>2. /\ at[t] \notin P /\ j \in P =>
                  /\ Number(P)' = Number(P) + 1 /\ t \notin Standing(P)
                  /\ Standing(P)' = Standing(P) \cup {t}
        /\ at[t] \in P /\ j \notin P => Number(P)' = Number(P) - 1
        /\ (at[t] \in P <=> j \in P) => Number(P)' = Number(P) /\ Standing(P)' = Standing(P)
    BY <1>2, GoesOn
  <2> QED
    BY <2>1, <2>2 DEF Shift
<1>4. PICK I, T, A : I = Inner /\ T = Told /\ A = After
    OBVIOUS
<1>5. /\ Number(Inner)' = Number(I)' /\ Standing(Told)' = Standing(T)'
      /\ Number(After)' = Number(A)' /\ Standing(After)' = Standing(A)'
    BY <1>1, <1>4 DEF Number, Standing, After
<1>6. at' \in [Routines -> 0 .. 6] /\ at'[t] = j /\ \A u \in Routines : u # t => at'[u] = at[u]
    BY <1>2 DEF CountTypes
<1>7. j \in After /\ i \in After => Standing(After) = Standing(After) \cup {t}
    BY DEF Standing
<1> QED
    BY <1>1, <1>3, <1>4, <1>5, <1>6, <1>7

\* Create, Enter, Load and Leave store and report nothing.
LEMMA CountAside ==
    ASSUME CountInv, NEW t \in Routines,
           SC!Create(t) \/ SC!Enter(t) \/ SC!Load(t) \/ SC!Leave(t)
    PROVE  CountInv'
<1>0. CountTypes /\ Bounded /\ Exact
    BY DEF CountInv
<1>1. /\ SC!Create(t) => at[t] = 0
      /\ SC!Enter(t) => at[t] = 1
      /\ SC!Load(t) => at[t] = 2
      /\ SC!Leave(t) => at[t] = IF program = "thread.c" THEN 4 ELSE 5
    BY <1>0, StepsAre DEF SC!Create, SC!Enter, SC!Load, SC!Leave, SC!Step
<1>2. PICK i, j : i = at[t] /\ j = i + 1
    OBVIOUS
<1>3. /\ \/ i \in {0, 1, 2} /\ j = i + 1
         \/ i = 4 /\ j = 5 /\ program = "thread.c"
         \/ i = 5 /\ j = 6 /\ program # "thread.c"
      /\ at[t] = i /\ at' = [at EXCEPT ![t] = j] /\ program' = program
      /\ counted' = counted /\ result' = result
      /\ i = 2 => copy' = [copy EXCEPT ![t] = counted]
      /\ i # 2 => copy' = copy
      /\ i = 1 => permits > 0 /\ permits' = permits - 1
      /\ i \in {4, 5} => permits' = permits + 1
      /\ i \notin {1, 4, 5} => permits' = permits
      /\ i = 0 => countMain = "creating" /\ countMain' \in {"creating", "joining"}
      /\ i # 0 => countMain' = countMain /\ countMain # "end"
  <2>1. CASE SC!Create(t)
    <3>1. i = 0 /\ j = 1
      BY <1>1, <1>2, <2>1
    <3>2. /\ at' = [at EXCEPT ![t] = 1] /\ countMain = "creating"
          /\ countMain' \in {"creating", "joining"}
          /\ UNCHANGED <<program, permits, counted, copy, result>>
      BY <2>1 DEF SC!Create
    <3> QED
      BY <1>2, <3>1, <3>2
  <2>2. CASE SC!Enter(t)
    <3>1. i = 1 /\ j = 2
      BY <1>1, <1>2, <2>2
    <3>2. /\ at' = [at EXCEPT ![t] = j] /\ countMain # "end" /\ permits > 0 /\ permits' = permits - 1
          /\ UNCHANGED <<program, counted, copy, result, countMain>>
      BY <1>2, <2>2 DEF SC!Enter, SC!Step
    <3> QED
      BY <1>2, <3>1, <3>2
  <2>3. CASE SC!Load(t)
    <3>1. i = 2 /\ j = 3
      BY <1>1, <1>2, <2>3
    <3> QED
      BY <1>2, <2>3, <3>1 DEF SC!Load, SC!Step
  <2>4. CASE SC!Leave(t)
    <3>1. \/ i = 4 /\ j = 5 /\ program = "thread.c"
          \/ i = 5 /\ j = 6 /\ program # "thread.c"
      <4>1. at[t] = IF program = "thread.c" THEN 4 ELSE 5
        BY <1>1, <2>4
      <4>2. CASE program = "thread.c"
        BY <1>2, <4>1, <4>2
      <4>3. CASE program # "thread.c"
        BY <1>2, <4>1, <4>3
      <4> QED
        BY <4>2, <4>3
    <3> QED
      BY <1>2, <2>4, <3>1 DEF SC!Leave, SC!Step
  <2> QED
    BY <2>1, <2>2, <2>3, <2>4
<1>4. i \in {0, 1, 2, 4, 5} /\ j \in 0 .. 6 /\ j \in {1, 2, 3, 5, 6} /\ (j = 3 <=> i = 2)
    BY <1>3
<1>5. /\ at' \in [Routines -> 0 .. 6] /\ at'[t] = j
      /\ \A u \in Routines : u # t => at'[u] = at[u]
      /\ Inner' = Inner /\ Told' = Told /\ SC!Permits' = SC!Permits
      /\ Number(Inner)' = Number(Inner) + Shift(Inner, i, j)
      /\ Number(After)' = Number(After) + Shift(After, i, j)
      /\ (i \in After => j \in After) =>
            Standing(After)' = IF j \in After THEN Standing(After) \cup {t} ELSE Standing(After)
      /\ (i \in Told <=> j \in Told) => Standing(Told)' = Standing(Told)
    BY <1>3, <1>4, StepShifts
<1>6. /\ Shift(After, i, j) = 0 /\ (i \in After <=> j \in After)
      /\ (i \in Told <=> j \in Told)
      /\ Shift(Inner, i, j) = IF i = 1 THEN 1 ELSE IF i \in {4, 5} THEN -1 ELSE 0
    BY <1>3 DEF Shift, After, Told, Inner
<1>7. /\ Number(After) \in Nat /\ Number(Inner) \in Nat
      /\ (i \in After => Standing(After) = Standing(After) \cup {t})
    BY <1>3, FiniteStanding DEF Standing
<1>8. /\ Number(After)' = Number(After) /\ Standing(After)' = Standing(After)
      /\ Standing(Told)' = Standing(Told)
    BY <1>5, <1>6, <1>7
<1>9. permits' + Number(Inner)' = SC!Permits' /\ permits' \in Nat
  <2>1. permits \in Nat /\ permits + Number(Inner) = SC!Permits
    BY <1>0 DEF CountTypes, Bounded
  <2>2. PICK q, n : q = permits' /\ n = Number(Inner)'
    OBVIOUS
  <2>3. CASE i = 1
    <3>1. q = permits - 1 /\ n = Number(Inner) + 1 /\ permits > 0
      BY <1>3, <1>4, <1>5, <1>6, <2>2, <2>3
    <3> QED
      BY <1>5, <1>7, <2>1, <2>2, <3>1
  <2>4. CASE i \in {4, 5}
    <3>1. q = permits + 1 /\ n = Number(Inner) - 1
      BY <1>3, <1>4, <1>5, <1>6, <1>7, <2>2, <2>4
    <3> QED
      BY <1>5, <1>7, <2>1, <2>2, <3>1
  <2>5. CASE i \notin {1, 4, 5}
    <3>1. q = permits /\ n = Number(Inner)
      BY <1>3, <1>4, <1>5, <1>6, <1>7, <2>2, <2>5
    <3> QED
      BY <1>5, <2>1, <2>2, <3>1
  <2> QED
    BY <2>3, <2>4, <2>5
<1>10. CountTypes'
    BY <1>0, <1>3, <1>4, <1>5, <1>9 DEF CountTypes
<1>11. Bounded'
  <2>1. \A u \in Routines : at'[u] = 3 => copy'[u] <= Number(After)'
    <3>1. \A u \in Routines : at'[u] = 3 =>
              IF u = t THEN i = 2 /\ copy'[u] = counted ELSE at[u] = 3 /\ copy'[u] = copy[u]
      BY <1>0, <1>3, <1>4, <1>5 DEF CountTypes
    <3> QED
      BY <1>0, <1>8, <3>1 DEF Bounded
  <2>2. \A u \in Routines : IF at'[u] \in Told' THEN result'[u] \in 1 .. N ELSE result'[u] = 0
    BY <1>0, <1>2, <1>3, <1>4, <1>5, <1>6 DEF Bounded
  <2> QED
    BY <1>0, <1>3, <1>4, <1>8, <1>9, <2>1, <2>2 DEF Bounded
<1>12. Exact'
  <2>1. ASSUME program = "thread.c", NEW u \in Routines, at'[u] = 3
        PROVE  copy'[u] = counted
    <3>1. IF u = t THEN i = 2 /\ copy'[u] = counted ELSE at[u] = 3 /\ copy'[u] = copy[u]
      BY <1>0, <1>3, <1>4, <1>5, <2>1 DEF CountTypes
    <3> QED
      BY <1>0, <2>1, <3>1 DEF Exact
  <2> QED
    BY <1>0, <1>3, <1>4, <1>8, <2>1 DEF Exact
<1> QED
    BY <1>10, <1>11, <1>12 DEF CountInv

LEMMA CountStore ==
    ASSUME CountInv, NEW t \in Routines, SC!Store(t)
    PROVE  CountInv'
<1>0. CountTypes /\ Bounded /\ Exact
    BY DEF CountInv
<1>1. at[t] = 3
    BY <1>0, StepsAre DEF SC!Store, SC!Step
<1>2. /\ at' = [at EXCEPT ![t] = 4] /\ program' = program /\ counted' = copy[t] + 1
      /\ permits' = permits /\ copy' = copy /\ result' = result
      /\ countMain' = countMain /\ countMain # "end"
    BY <1>1 DEF SC!Store, SC!Step
<1>3. /\ at' \in [Routines -> 0 .. 6] /\ at'[t] = 4
      /\ \A u \in Routines : u # t => at'[u] = at[u]
      /\ Inner' = Inner /\ Told' = Told /\ SC!Permits' = SC!Permits
      /\ Number(Inner)' = Number(Inner) + Shift(Inner, 3, 4)
      /\ Number(After)' = Number(After) + Shift(After, 3, 4)
      /\ (3 \in Told <=> 4 \in Told) => Standing(Told)' = Standing(Told)
  <2>1. PICK i, j : i = 3 /\ j = 4
    OBVIOUS
  <2>2. at[t] = i /\ j \in 0 .. 6 /\ at' = [at EXCEPT ![t] = j] /\ program' = program
    BY <1>1, <1>2, <2>1
  <2>3. /\ at' \in [Routines -> 0 .. 6] /\ at'[t] = j
        /\ \A u \in Routines : u # t => at'[u] = at[u]
        /\ Inner' = Inner /\ Told' = Told /\ SC!Permits' = SC!Permits
        /\ Number(Inner)' = Number(Inner) + Shift(Inner, i, j)
        /\ Number(After)' = Number(After) + Shift(After, i, j)
        /\ (i \in Told <=> j \in Told) => Standing(Told)' = Standing(Told)
    BY <2>2, StepShifts
  <2> QED
    BY <2>1, <2>3
<1>4. /\ Shift(Inner, 3, 4) = 0 /\ Shift(After, 3, 4) = 1
      /\ 3 \notin Told /\ 4 \notin Told
    BY DEF Shift, Inner, After, Told
<1>5. /\ Number(After) \in Nat /\ Number(Inner) \in Nat /\ copy[t] \in Nat /\ counted \in Nat
    BY <1>0, FiniteStanding DEF CountTypes
<1>6. PICK a : a = Number(After)' /\ a = Number(After) + 1
    BY <1>3, <1>4
<1>7. Number(Inner)' = Number(Inner) /\ Standing(Told)' = Standing(Told)
    BY <1>3, <1>4, <1>5
<1>8. CountTypes'
    BY <1>0, <1>2, <1>3, <1>5 DEF CountTypes
<1>9. Bounded'
  <2>1. counted' <= a /\ counted' >= 1
    <3>1. copy[t] <= Number(After)
      BY <1>0, <1>1 DEF Bounded
    <3>2. copy[t] + 1 <= a /\ copy[t] + 1 >= 1
      BY <1>5, <1>6, <3>1
    <3> QED
      BY <1>2, <3>2
  <2>2. ASSUME NEW u \in Routines, at'[u] = 3 PROVE copy'[u] <= a
    <3>1. at[u] = 3 /\ copy'[u] = copy[u]
      BY <1>2, <1>3, <2>2
    <3>2. copy[u] <= Number(After) /\ copy[u] \in Nat
      BY <1>0, <3>1 DEF Bounded, CountTypes
    <3> QED
      BY <1>5, <1>6, <3>1, <3>2
  <2>3. \A u \in Routines : IF at'[u] \in Told' THEN result'[u] \in 1 .. N ELSE result'[u] = 0
    BY <1>0, <1>1, <1>2, <1>3, <1>4 DEF Bounded
  <2> QED
    BY <1>0, <1>2, <1>3, <1>6, <1>7, <2>1, <2>2, <2>3 DEF Bounded
<1>10. Exact'
  <2> SUFFICES ASSUME program = "thread.c"
               PROVE  /\ counted' = a
                      /\ \A u \in Routines : at'[u] = 3 => copy'[u] = counted'
                      /\ \A k \in Nat : Cardinality({u \in Standing(Told) : result[u] <= k}) <= k
    BY <1>2, <1>6, <1>7 DEF Exact
  <2>1. copy[t] = Number(After)
    BY <1>0, <1>1 DEF Exact
  <2>2. ASSUME NEW u \in Routines, at'[u] = 3 PROVE FALSE
    <3>1. at[u] = 3 /\ u # t
      BY <1>3, <2>2
    <3>2. t \in Standing({2, 3, 4}) /\ u \in Standing({2, 3, 4})
      BY <1>1, <3>1 DEF Standing
    <3> QED
      BY <3>1, <3>2, OneInside
  <2> QED
    BY <1>0, <1>2, <1>6, <2>1, <2>2 DEF Exact
<1> QED
    BY <1>8, <1>9, <1>10 DEF CountInv

LEMMA CountReport ==
    ASSUME CountInv, NEW t \in Routines, SC!Report(t)
    PROVE  CountInv'
<1>0. CountTypes /\ Bounded /\ Exact
    BY DEF CountInv
<1>1. PICK i, j : i = (IF program = "thread.c" THEN 5 ELSE 4) /\ j = i + 1
    OBVIOUS
<1>2. /\ at[t] = i /\ at' = [at EXCEPT ![t] = j] /\ program' = program
      /\ counted' = counted /\ permits' = permits /\ copy' = copy
      /\ result' = [result EXCEPT ![t] = counted]
      /\ countMain' = countMain /\ countMain # "end"
  <2>1. at[t] = i
    BY <1>0, <1>1, StepsAre DEF SC!Report, SC!Step
  <2> QED
    BY <1>1, <2>1 DEF SC!Report, SC!Step
<1>3. /\ i \in {4, 5} /\ j \in {5, 6} /\ j \in 0 .. 6
      /\ (program = "thread.c" => i = 5 /\ j = 6) /\ (program # "thread.c" => i = 4 /\ j = 5)
    BY <1>1
<1>4. /\ i \in After /\ j \in After /\ (i \in Inner <=> j \in Inner)
      /\ i \notin Told /\ j \in Told
    BY <1>3 DEF After, Inner, Told
<1>5. /\ at' \in [Routines -> 0 .. 6] /\ at'[t] = j
      /\ \A u \in Routines : u # t => at'[u] = at[u]
      /\ Inner' = Inner /\ Told' = Told /\ SC!Permits' = SC!Permits
      /\ Number(Inner)' = Number(Inner) + Shift(Inner, i, j)
      /\ Number(After)' = Number(After) + Shift(After, i, j)
      /\ (i \in After => j \in After) =>
            Standing(After)' = IF j \in After THEN Standing(After) \cup {t} ELSE Standing(After)
      /\ i \notin Told /\ j \in Told =>
            Standing(Told)' = Standing(Told) \cup {t} /\ t \notin Standing(Told)
    BY <1>2, <1>3, StepShifts
<1>6. /\ Number(After) \in Nat /\ Number(Inner) \in Nat /\ Number(After) <= N
      /\ IsFiniteSet(Standing(After))
    BY FiniteStanding
<1>7. t \in Standing(After)
    BY <1>2, <1>4 DEF Standing
<1>8. /\ Number(Inner)' = Number(Inner) /\ Number(After)' = Number(After)
      /\ Standing(After)' = Standing(After)
      /\ Standing(Told)' = Standing(Told) \cup {t} /\ t \notin Standing(Told)
  <2>1. Shift(Inner, i, j) = 0 /\ Shift(After, i, j) = 0
    BY <1>4 DEF Shift
  <2> QED
    BY <1>4, <1>5, <1>6, <1>7, <2>1
<1>9. counted \in Nat /\ counted >= 1 /\ counted <= Number(After) /\ counted \in 1 .. N
  <2>1. counted \in Nat /\ counted >= 1 /\ counted <= Number(After)
    BY <1>0, <1>7 DEF CountTypes, Bounded
  <2>2. N \in Nat
    BY CountersAssumption, FS_CardinalityType DEF N
  <2> QED
    BY <1>6, <2>1, <2>2
<1>10. /\ result' \in [Routines -> Nat] /\ result'[t] = counted
       /\ \A u \in Routines : u # t => result'[u] = result[u]
    BY <1>0, <1>2, <1>9 DEF CountTypes
<1>11. CountTypes'
    BY <1>0, <1>2, <1>5, <1>10 DEF CountTypes
<1>12. Bounded'
  <2>1. \A u \in Routines : at'[u] = 3 => u # t /\ at[u] = 3
    BY <1>3, <1>5
  <2>2. \A u \in Routines : IF at'[u] \in Told' THEN result'[u] \in 1 .. N ELSE result'[u] = 0
    BY <1>0, <1>4, <1>5, <1>9, <1>10 DEF Bounded
  <2> QED
    BY <1>0, <1>2, <1>5, <1>8, <2>1, <2>2 DEF Bounded
<1>13. Exact'
  <2> SUFFICES ASSUME program = "thread.c"
               PROVE  /\ counted = Number(After)
                      /\ \A u \in Routines : at'[u] = 3 => copy[u] = counted
                      /\ \A k \in Nat :
                            Cardinality({u \in Standing(Told)' : result'[u] <= k}) <= k
    BY <1>2, <1>8 DEF Exact
  <2>1. \A u \in Routines : at'[u] = 3 => at[u] = 3
    BY <1>3, <1>5
  <2>2. ASSUME NEW k \in Nat
        PROVE  Cardinality({u \in Standing(Told)' : result'[u] <= k}) <= k
    <3> DEFINE Low == {u \in Standing(Told)' : result'[u] <= k}
    <3>1. CASE counted <= k
      <4>1. Low \subseteq Standing(After)
        <5>1. Standing(Told) \subseteq Standing(After)
          BY <2>1 DEF Standing, Told, After
        <5> QED
          BY <1>7, <1>8, <5>1
      <4>2. IsFiniteSet(Low) /\ Cardinality(Low) <= Number(After)
        BY <1>6, <4>1, FS_Subset DEF Number
      <4>3. Cardinality(Low) \in Nat
        BY <4>2, FS_CardinalityType
      <4>4. counted = Number(After)
        BY <1>0 DEF Exact
      <4> HIDE DEF Low
      <4>5. Cardinality(Low) <= k
        BY <1>6, <3>1, <4>2, <4>3, <4>4
      <4> QED
        BY <4>5 DEF Low
    <3>2. CASE ~(counted <= k)
      <4>1. Low = {u \in Standing(Told) : result[u] <= k}
        <5>1. \A u \in Standing(Told) : u \in Routines /\ u # t
          BY <1>8 DEF Standing
        <5> QED
          BY <1>8, <1>10, <3>2, <5>1
      <4> QED
        BY <1>0, <4>1 DEF Exact
    <3> QED
      BY <3>1, <3>2
  <2> QED
    BY <1>0, <2>1, <2>2 DEF Exact
<1> QED
    BY <1>11, <1>12, <1>13 DEF CountInv

LEMMA CountNext == CountInv /\ (SC!Next \/ UNCHANGED <<program, countVars>>) => CountInv'
<1> SUFFICES ASSUME CountInv, SC!Next \/ UNCHANGED <<program, countVars>> PROVE CountInv'
    OBVIOUS
<1>1. CASE SC!CreateFails \/ SC!Join \/ UNCHANGED <<program, countVars>>
    BY <1>1, CountMain
<1>2. ASSUME NEW t \in Routines, SC!Create(t) \/ SC!Enter(t) \/ SC!Load(t) \/ SC!Leave(t)
      PROVE  CountInv'
    BY <1>2, CountAside
<1>3. ASSUME NEW t \in Routines, SC!Store(t) PROVE CountInv'
    BY <1>3, CountStore
<1>4. ASSUME NEW t \in Routines, SC!Report(t) PROVE CountInv'
    BY <1>4, CountReport
<1> QED
    BY <1>1, <1>2, <1>3, <1>4 DEF SC!Next, SC!ThreadStep

LEMMA CountTypeOK == CountInv => SC!TypeOK
<1> SUFFICES ASSUME CountInv PROVE SC!TypeOK
    OBVIOUS
<1>1. CountTypes /\ Bounded
    BY DEF CountInv
<1>2. /\ Number(Inner) \in Nat /\ Number(After) \in Nat /\ Number(After) <= N /\ N \in Nat
    BY FiniteStanding, CountersAssumption, FS_CardinalityType DEF N
<1>3. SC!Permits \in Nat
    BY CountersAssumption DEF SC!Permits
<1>4. permits \in 0 .. SC!Permits
    BY <1>1, <1>2, <1>3 DEF CountTypes, Bounded
<1>5. counted \in 0 .. SC!Cardinality(Routines)
  <2>1. counted \in 0 .. N
    BY <1>1, <1>2 DEF CountTypes, Bounded
  <2> QED
    BY <2>1, OneCardinality DEF N
<1>6. at \in [Routines -> 0 .. SC!Len(SC!Steps)]
    BY <1>1, LenSteps DEF CountTypes
<1> QED
    BY <1>1, <1>4, <1>5, <1>6 DEF SC!TypeOK, CountTypes

LEMMA CountAgrees == CountInv => SC!CountersAgree
<1> SUFFICES ASSUME CountInv PROVE SC!CountersAgree
    OBVIOUS
<1>1. CountTypes /\ Bounded /\ Exact
    BY DEF CountInv
<1>2. N \in Nat /\ N = SC!Cardinality(Routines) /\ N = Cardinality(Routines)
    BY OneCardinality, CountersAssumption, FS_CardinalityType DEF N
<1>3. \A t \in Routines : SC!Is(t, "done") => result[t] \in 1 .. N
    BY <1>1, StepsAre DEF Bounded, Told
<1>4. {t \in Routines : result[t] > 0} = Standing(Told)
    BY <1>1, <1>2 DEF Bounded, Standing, CountTypes
<1>5. ASSUME program = "thread.c", NEW k \in 1 .. N
      PROVE  SC!Cardinality({t \in {u \in Routines : result[u] > 0} : result[t] <= k}) <= k
    BY <1>1, <1>2, <1>4, <1>5, OneCardinality DEF Exact
<1>6. ASSUME countMain = "end" PROVE Standing(After) = Routines /\ Routines # {} /\ counted >= 1
  <2>1. Routines # {} /\ \A t \in Routines : at[t] = 6
    BY <1>1, <1>6 DEF Bounded
  <2>2. Standing(After) = Routines
    BY <2>1 DEF Standing, After
  <2> QED
    BY <1>1, <2>1, <2>2 DEF Bounded
<1>7. ASSUME program = "thread.c", countMain = "end"
      PROVE  counted = N /\ \E t \in Routines : result[t] = N
  <2>1. counted = N
    BY <1>1, <1>6, <1>7 DEF Exact, Number, N
  <2>2. Standing(Told) = Routines
    BY <1>1, <1>7 DEF Bounded, Standing, Told
  <2>3. \A t \in Routines : result[t] \in 1 .. N
    BY <1>1, <1>7 DEF Bounded, Told
  <2>4. N >= 1
    BY <1>2, <1>6, <1>7, <2>1
  <2>5. ASSUME \A t \in Routines : result[t] # N PROVE FALSE
    <3>1. {t \in Standing(Told) : result[t] <= N - 1} = Routines
      BY <1>2, <2>2, <2>3, <2>5
    <3>2. N - 1 \in Nat
      BY <1>2, <2>4
    <3>3. Cardinality(Routines) <= N - 1
      BY <1>1, <1>7, <3>1, <3>2 DEF Exact
    <3> QED
      BY <1>2, <3>3
  <2> QED
    BY <2>1, <2>5
<1> QED
    BY <1>2, <1>3, <1>5, <1>6, <1>7 DEF SC!CountersAgree

-----------------------------------------------------------------------------
(* All programs *)
\* A step of one program is a stutter of the others.
LEMMA StepOfOne ==
    [ProgramsNext]_programsVars =>
        /\ [Next]_vars
        /\ CB!Next \/ UNCHANGED condVars
        /\ SC!Next \/ UNCHANGED <<program, countVars>>
<1> SUFFICES ASSUME [ProgramsNext]_programsVars
             PROVE  /\ [Next]_vars
                    /\ CB!Next \/ UNCHANGED condVars
                    /\ SC!Next \/ UNCHANGED <<program, countVars>>
    OBVIOUS
<1>1. CASE SemaphoreStep(Next)
    BY <1>1 DEF SemaphoreStep
<1>2. CASE CondStep(CB!Next)
    BY <1>2 DEF CondStep
<1>3. CASE CountStep(SC!Next)
    BY <1>3 DEF CountStep
<1>4. CASE UNCHANGED programsVars
    BY <1>4 DEF programsVars
<1> QED
    BY <1>1, <1>2, <1>3, <1>4 DEF ProgramsNext

\* Whichever program is started, the semaphores and the array behave as the
\* specification of prod-cons-semaphore.c says.
THEOREM ProgramsImplementSpec == ProgramsSpec => Spec
<1>1. ProgramsInit => Init
    BY DEF ProgramsInit
<1>2. [ProgramsNext]_programsVars => [Next]_vars
    BY StepOfOne
<1> QED
    BY <1>1, <1>2, PTL DEF ProgramsSpec, Spec

\* A consumer of conditionVar.c that was not woken without a signal finds an item
\* behind its wait, however large the array and however long the loops.
THEOREM ConsumerCorrect == ProgramsSpec => []ConsumerFindsItem
<1>1. ProgramsInit => CondInv
    BY CondInit DEF ProgramsInit
<1>2. CondInv /\ [ProgramsNext]_programsVars => CondInv'
    BY StepOfOne, CondNext
<1>3. CondInv => ConsumerFindsItem
    BY CondFinds DEF ConsumerFindsItem
<1> QED
    BY <1>1, <1>2, <1>3, PTL DEF ProgramsSpec

\* What the threads of semaphore.c and thread.c report of their counter, for any
\* number of threads and permits.
THEOREM CountersCorrect == ProgramsSpec => []CountersAgree
<1>1. ProgramsInit => CountInv
    BY CountInit DEF ProgramsInit
<1>2. CountInv /\ [ProgramsNext]_programsVars => CountInv'
    BY StepOfOne, CountNext
<1>3. CountInv => CountersAgree
    BY CountAgrees DEF CountersAgree
<1> QED
    BY <1>1, <1>2, <1>3, PTL DEF ProgramsSpec

\* The types of all programs.
THEOREM ProgramsTypeCorrect == ProgramsSpec => []AllTypeOK
<1> DEFINE AllInv == IInv /\ CondInv /\ CountInv
<1>1. ProgramsInit => AllInv
    BY InitIInv, CondInit, CountInit DEF ProgramsInit
<1>2. AllInv /\ [ProgramsNext]_programsVars => AllInv'
    BY StepOfOne, NextIInv, CondNext, CountNext
<1>3. AllInv => AllTypeOK
    BY CountTypeOK DEF IInv, CondInv, AllTypeOK
<1> QED
    BY <1>1, <1>2, <1>3, PTL DEF ProgramsSpec
==============================================================================
