-------------------------- MODULE SemaphoreBuffer ---------------------------
(***************************************************************************)
(* thread-in-c/prod-cons-semaphore.c: producers and consumers share an     *)
(* array used as a stack, guarded by the semaphores empty, full and allow. *)
(* Every sem_wait and sem_post, and every access to the array or to count, *)
(* is a step of its own.                                                   *)
(***************************************************************************)
EXTENDS Naturals, FiniteSets

CONSTANTS
    Producers, Consumers,   \* 3 of each in the code
    buffer_size,            \* 6
    Rounds                  \* 10: what a thread produces or consumes

ASSUME SizesAssumption == buffer_size \in Nat \ {0} /\ Rounds \in Nat
ASSUME ThreadsAssumption ==
    /\ IsFiniteSet(Producers) /\ IsFiniteSet(Consumers)
    /\ Producers \cap Consumers = {}

Threads == Producers \cup Consumers

\* The n-th item of a producer; the array is global and holds zeroes at first.
Items == Producers \X (1 .. Rounds)
NoItem == <<>>

VARIABLES
    sem,         \* the values of the three semaphores
    pc,          \* of each thread: "absent", a step of its loop, or "done"
    round,       \* the iterations it has completed
    buffer, count,
    consumed,    \* how often each item was consumed
    main         \* "creating", "joining" or "exit"

vars == <<sem, pc, round, buffer, count, consumed, main>>

Semaphores == {"empty", "full", "allow"}

\* Faulty variant: the mutex is initialised like the semaphore of the slots.
AllowMany(s) == IF s = "full" THEN 0 ELSE buffer_size

\* sem_init
InitialValue(s) == IF s = "empty" THEN buffer_size ELSE IF s = "full" THEN 0 ELSE 1

Init ==
    /\ sem = [s \in Semaphores |-> InitialValue(s)]
    /\ pc = [t \in Threads |-> "absent"]
    /\ round = [t \in Threads |-> 0]
    /\ buffer = [k \in 0 .. buffer_size - 1 |-> NoItem] /\ count = 0
    /\ consumed = [i \in Items |-> 0]
    /\ main = "creating"

Goto(t, label) == pc' = [pc EXCEPT ![t] = label]

\* for (int i = 0; i < 10; i++)
LoopHead(n) == IF n < Rounds THEN "wait1" ELSE "done"

\* main creates them alternately; here it may take any order.
Create(t) ==
    /\ main = "creating" /\ pc[t] = "absent"
    /\ Goto(t, LoopHead(0))
    /\ UNCHANGED <<sem, round, buffer, count, consumed, main>>

\* pthread_create fails: main returns, and the process exits with all threads.
CreateFails ==
    /\ main = "creating" /\ \E t \in Threads : pc[t] = "absent"
    /\ main' = "exit"
    /\ UNCHANGED <<sem, pc, round, buffer, count, consumed>>

AllCreated ==
    /\ main = "creating" /\ \A t \in Threads : pc[t] # "absent"
    /\ main' = "joining"
    /\ UNCHANGED <<sem, pc, round, buffer, count, consumed>>

-----------------------------------------------------------------------------
\* Faulty variant: the mutex is taken before the slot is waited for.
MutexFirst(t) == IF t \in Producers THEN <<"allow", "empty">> ELSE <<"full", "allow">>

\* The two semaphores a thread waits for, in this order.
Waits(t) == IF t \in Producers THEN <<"empty", "allow">> ELSE <<"full", "allow">>

\* Faulty variant: a producer gives back the slot it has filled.
SamePosts(t) == <<"allow", "empty">>

\* Those it posts.
Posts(t) == IF t \in Producers THEN <<"allow", "full">> ELSE <<"allow", "empty">>

sem_wait(t, here, s, next) ==
    /\ main # "exit" /\ pc[t] = here
    /\ sem[s] > 0 /\ sem' = [sem EXCEPT ![s] = @ - 1]
    /\ Goto(t, next)
    /\ UNCHANGED <<round, buffer, count, consumed, main>>

WaitForSlot(t) == sem_wait(t, "wait1", Waits(t)[1], "wait2")
WaitForMutex(t) == sem_wait(t, "wait2", Waits(t)[2], "access")

\* buffer[count] = item, int item = buffer[count - 1]
Produce(p) ==
    /\ main # "exit" /\ pc[p] = "access"
    /\ buffer' = [buffer EXCEPT ![count] = <<p, round[p] + 1>>]
    /\ Goto(p, "count")
    /\ UNCHANGED <<sem, round, count, consumed, main>>

Consume(c) ==
    /\ main # "exit" /\ pc[c] = "access"
    /\ consumed' = [consumed EXCEPT ![buffer[count - 1]] = @ + 1]
    /\ Goto(c, "count")
    /\ UNCHANGED <<sem, round, buffer, count, main>>

\* count++, count--
Recount(t) ==
    /\ main # "exit" /\ pc[t] = "count"
    /\ count' = IF t \in Producers THEN count + 1 ELSE count - 1
    /\ Goto(t, "post1")
    /\ UNCHANGED <<sem, round, buffer, consumed, main>>

PostMutex(t) ==
    /\ main # "exit" /\ pc[t] = "post1"
    /\ sem' = [sem EXCEPT ![Posts(t)[1]] = @ + 1]
    /\ Goto(t, "post2")
    /\ UNCHANGED <<round, buffer, count, consumed, main>>

PostSlot(t) ==
    /\ main # "exit" /\ pc[t] = "post2"
    /\ sem' = [sem EXCEPT ![Posts(t)[2]] = @ + 1]
    /\ round' = [round EXCEPT ![t] = @ + 1]
    /\ Goto(t, LoopHead(round[t] + 1))
    /\ UNCHANGED <<buffer, count, consumed, main>>

Step(t) ==
    \/ WaitForSlot(t) \/ WaitForMutex(t)
    \/ t \in Producers /\ Produce(t)
    \/ t \in Consumers /\ Consume(t)
    \/ Recount(t) \/ PostMutex(t) \/ PostSlot(t)

Next ==
    \/ CreateFails \/ AllCreated
    \/ \E t \in Threads : Create(t) \/ Step(t)

Spec == Init /\ [][Next]_vars

\* As many consumers as producers: nothing is left in the array.
Ended ==
    \/ main = "exit"
    \/ count = 0 /\ \A t \in Threads : pc[t] = "done"

-----------------------------------------------------------------------------
TypeOK ==
    /\ sem \in [Semaphores -> Nat]
    /\ pc \in [Threads -> {"absent", "wait1", "wait2", "access", "count", "post1",
                           "post2", "done"}]
    /\ round \in [Threads -> 0 .. Rounds]
    /\ buffer \in [0 .. buffer_size - 1 -> Items \cup {NoItem}]
    /\ count \in 0 .. buffer_size
    /\ consumed \in [Items -> Nat]
    /\ main \in {"creating", "joining", "exit"}

\* One thread at a time is between its sem_wait(&allow) and sem_post(&allow), and
\* the index it uses is inside the array although it never looks at it.
Inside == {t \in Threads : pc[t] \in {"access", "count", "post1"}}
AccessInBounds ==
    /\ Cardinality(Inside) <= 1
    /\ \A t \in Threads : pc[t] = "access" =>
          IF t \in Producers THEN count < buffer_size ELSE count > 0

\* The semaphores account for the array: a slot is free, being filled, full or
\* being emptied.
At(T, labels) == Cardinality({t \in T : pc[t] \in labels})
SemaphoresAgree ==
    Inside = {} =>
        /\ sem["full"] + At(Producers, {"post2"}) + At(Consumers, {"wait2"}) = count
        /\ sem["empty"] + At(Producers, {"wait2"}) + At(Consumers, {"post2"})
               = buffer_size - count

\* No item is lost, overwritten or consumed twice: when no thread is at the
\* array, an item that was stored is in the array or was consumed, once.
Stored(i) == i[2] <= round[i[1]] + (IF pc[i[1]] = "post2" THEN 1 ELSE 0)
ConsumedOnce ==
    Inside = {} =>
        \A i \in Items :
            Cardinality({k \in 0 .. count - 1 : buffer[k] = i}) + consumed[i]
                = IF Stored(i) THEN 1 ELSE 0
=============================================================================
