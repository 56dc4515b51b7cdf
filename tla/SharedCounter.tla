--------------------------- MODULE SharedCounter ----------------------------
(***************************************************************************)
(* Two programs of thread-in-c whose threads count up one variable.  In    *)
(* thread.c a mutex guards mail, in semaphore.c a semaphore lets several   *)
(* threads at a time to count.  A mutex is a semaphore of one permit here; *)
(* a load and a store of the counter are two steps.                        *)
(***************************************************************************)
EXTENDS Naturals, Sequences, FiniteSets

CONSTANTS
    Routines,                   \* the threads: 10, or 3
    MAX_THREADS_IN_CRITICAL     \* 3

VARIABLES
    program,        \* "semaphore.c" or "thread.c"
    permits,
    at,             \* of each thread: its place in Steps, 0 before it is created
    count,          \* count, or mail
    copy,           \* what a thread has loaded from it
    result,         \* what it prints, or returns to main
    main            \* "creating", "joining", "end" or "exit"

vars == <<program, permits, at, count, copy, result, main>>

\* Faulty variant: the mutex is unlocked between the load and the store.
EarlySteps == <<"enter", "load", "leave", "store", "report", "done">>

\* semaphore.c:17-24, thread.c:11-16
Steps ==
    IF program = "thread.c"
    THEN <<"enter", "load", "store", "leave", "report", "done">>
    ELSE <<"enter", "load", "store", "report", "leave", "done">>

Permits == IF program = "thread.c" THEN 1 ELSE MAX_THREADS_IN_CRITICAL

Init ==
    /\ permits = Permits
    /\ at = [t \in Routines |-> 0]
    /\ count = 0 /\ copy = [t \in Routines |-> 0] /\ result = [t \in Routines |-> 0]
    /\ main = "creating"

Is(t, step) == at[t] > 0 /\ Steps[at[t]] = step

Create(t) ==
    /\ main = "creating" /\ at[t] = 0
    /\ at' = [at EXCEPT ![t] = 1]
    /\ main' = IF \A u \in Routines \ {t} : at[u] > 0 THEN "joining" ELSE main
    /\ UNCHANGED <<program, permits, count, copy, result>>

\* pthread_create fails: main returns, and all threads end with the process.
CreateFails ==
    /\ main = "creating" /\ main' = "exit"
    /\ UNCHANGED <<program, permits, at, count, copy, result>>

Step(t, step) ==
    /\ main \in {"creating", "joining"} /\ Is(t, step)
    /\ at' = [at EXCEPT ![t] = @ + 1]
    /\ UNCHANGED <<program, main>>

\* sem_wait, pthread_mutex_lock
Enter(t) ==
    /\ Step(t, "enter") /\ permits > 0 /\ permits' = permits - 1
    /\ UNCHANGED <<count, copy, result>>

\* count++ and mail = mail + 1
Load(t) ==
    /\ Step(t, "load") /\ copy' = [copy EXCEPT ![t] = count]
    /\ UNCHANGED <<permits, count, result>>

Store(t) ==
    /\ Step(t, "store") /\ count' = copy[t] + 1
    /\ UNCHANGED <<permits, copy, result>>

\* sem_post, pthread_mutex_unlock
Leave(t) ==
    /\ Step(t, "leave") /\ permits' = permits + 1
    /\ UNCHANGED <<count, copy, result>>

\* printf("... Count: %d\n", threadNo, count), *mailPtr = mail
Report(t) ==
    /\ Step(t, "report") /\ result' = [result EXCEPT ![t] = count]
    /\ UNCHANGED <<permits, count, copy>>

\* pthread_join of all threads
Join ==
    /\ main = "joining" /\ \A t \in Routines : Is(t, "done")
    /\ main' = "end"
    /\ UNCHANGED <<program, permits, at, count, copy, result>>

ThreadStep(t) == Enter(t) \/ Load(t) \/ Store(t) \/ Leave(t) \/ Report(t)

Next == CreateFails \/ Join \/ \E t \in Routines : Create(t) \/ ThreadStep(t)

Ended == main \in {"exit", "end"}

-----------------------------------------------------------------------------
TypeOK ==
    /\ permits \in 0 .. Permits
    /\ at \in [Routines -> 0 .. Len(Steps)]
    /\ count \in 0 .. Cardinality(Routines)
    /\ copy \in [Routines -> Nat] /\ result \in [Routines -> Nat]
    /\ main \in {"creating", "joining", "end", "exit"}

\* thread.c:15 reads mail without the lock, so two threads may return the same
\* number; still at most k of them return k or less, none returns 0, and when
\* main has joined them mail is their number and one of them has returned it.
\* semaphore.c:21 loses increments (three threads may load the same number), but
\* not all of them, and nobody reports more than there are threads.
CountersAgree ==
    LET n == Cardinality(Routines)
        Reported == {t \in Routines : result[t] > 0}
    IN
    /\ \A t \in Routines : Is(t, "done") => result[t] \in 1 .. n
    /\ main = "end" => count >= 1
    /\ program = "thread.c" =>
          /\ \A k \in 1 .. n : Cardinality({t \in Reported : result[t] <= k}) <= k
          /\ main = "end" => count = n /\ \E t \in Routines : result[t] = n
=============================================================================
