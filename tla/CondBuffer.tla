----------------------------- MODULE CondBuffer -----------------------------
(***************************************************************************)
(* thread-in-c/conditionVar.c: a producer and a consumer share an array    *)
(* used as a stack, guarded by a mutex and two condition variables.  All   *)
(* accesses are made under the mutex, so what a thread does between two    *)
(* mutex operations is one step; pthread_cond_wait is two.                 *)
(***************************************************************************)
EXTENDS Naturals, FiniteSets

CONSTANTS
    bufferSize,     \* 5
    Rounds          \* 10

Threads == {"producer", "consumer"}
Items == 0 .. Rounds - 1

VARIABLES
    pc,             \* "absent", "lock", "waiting", "woken" or "done"
    round,
    buffer, count,
    taken,          \* the items consumed
    surprised,      \* the consumer was woken without a signal
    main            \* "creating", "joining", "exit", or "undefined": the array
                    \* was read outside its bounds

vars == <<pc, round, buffer, count, taken, surprised, main>>

Init ==
    /\ pc = [t \in Threads |-> "absent"] /\ round = [t \in Threads |-> 0]
    /\ buffer = [k \in 0 .. bufferSize - 1 |-> 0] /\ count = 0
    /\ taken = {} /\ surprised = FALSE /\ main = "creating"

\* for (int i = 0; i < 10; i++)
LoopHead(n) == IF n < Rounds THEN "lock" ELSE "done"

Create(t) ==
    /\ main = "creating" /\ pc[t] = "absent"
    /\ t = "consumer" => pc["producer"] # "absent"
    /\ pc' = [pc EXCEPT ![t] = LoopHead(0)]
    /\ main' = IF t = "consumer" THEN "joining" ELSE main
    /\ UNCHANGED <<round, buffer, count, taken, surprised>>

CreateFails ==
    /\ main = "creating" /\ main' = "exit"
    /\ UNCHANGED <<pc, round, buffer, count, taken, surprised>>

\* pthread_cond_wait releases the mutex.
Wait(t) ==
    /\ pc' = [pc EXCEPT ![t] = "waiting"]
    /\ UNCHANGED <<round, buffer, count, taken, surprised, main>>

SpuriousWakeup(t) ==
    /\ main \in {"creating", "joining"} /\ pc[t] = "waiting"
    /\ pc' = [pc EXCEPT ![t] = "woken"]
    /\ surprised' = (surprised \/ t = "consumer")
    /\ UNCHANGED <<round, buffer, count, taken, main>>

\* The end of an iteration: signal the other thread, unlock, go on.
Finish(t, other) ==
    /\ round' = [round EXCEPT ![t] = @ + 1]
    /\ pc' = [pc EXCEPT ![t] = LoopHead(round[t] + 1),
                        ![other] = IF @ = "waiting" THEN "woken" ELSE @]

Running(t) == main \in {"creating", "joining"} /\ pc[t] \in {"lock", "woken"}

\* while (count == bufferSize)
Produce ==
    /\ Running("producer")
    /\ \/ count = bufferSize /\ Wait("producer")
       \/ /\ count # bufferSize
          /\ buffer' = [buffer EXCEPT ![count] = round["producer"]]
          /\ count' = count + 1
          /\ Finish("producer", "consumer")
          /\ UNCHANGED <<taken, surprised, main>>

\* Faulty variant: the consumer does not look at count.
NeverWaits == FALSE

\* if (count == 0): tested once, not after a wakeup.
MustWait == pc["consumer"] = "lock" /\ count = 0

Consume ==
    /\ Running("consumer")
    /\ \/ MustWait /\ Wait("consumer")
       \/ /\ ~MustWait /\ count > 0
          /\ taken' = taken \cup {buffer[count - 1]}
          /\ count' = count - 1
          /\ Finish("consumer", "producer")
          /\ UNCHANGED <<buffer, surprised, main>>
       \/ /\ ~MustWait /\ count = 0
          /\ main' = "undefined"
          /\ UNCHANGED <<pc, round, buffer, count, taken, surprised>>

Next ==
    \/ CreateFails
    \/ \E t \in Threads : Create(t) \/ SpuriousWakeup(t)
    \/ Produce \/ Consume

Ended ==
    \/ main \in {"exit", "undefined"}
    \/ count = 0 /\ \A t \in Threads : pc[t] = "done"

-----------------------------------------------------------------------------
TypeOK ==
    /\ pc \in [Threads -> {"absent", "lock", "waiting", "woken", "done"}]
    /\ round \in [Threads -> 0 .. Rounds]
    /\ buffer \in [0 .. bufferSize - 1 -> Nat] /\ count \in 0 .. bufferSize
    /\ taken \subseteq Items /\ surprised \in BOOLEAN
    /\ main \in {"creating", "joining", "exit", "undefined"}

\* A consumer woken by a signal finds an item although it does not look again
\* (conditionVar.c:35 tests with if): only a spurious wakeup can make it read
\* below the array.  What was produced is in the array or was consumed, once.
ConsumerFindsItem ==
    LET stored == {buffer[k] : k \in 0 .. count - 1} IN
    /\ main = "undefined" => surprised
    /\ taken \cup stored = 0 .. round["producer"] - 1
    /\ Cardinality(taken) = round["consumer"] /\ Cardinality(stored) = count
=============================================================================
