----------------------------- MODULE ThreadPool -----------------------------
(***************************************************************************)
(* thread-in-c/threadPool.c: main creates the workers, puts the tasks into *)
(* taskQueue under the mutex lock, signalling condVar for each, and joins  *)
(* workers that never return.  Every step between two operations on the    *)
(* mutex is an action of its own.                                          *)
(***************************************************************************)
EXTENDS Naturals, FiniteSets

CONSTANTS
    Workers,        \* THREAD_POOL_SIZE of them, 5 in the code
    QueueSize,      \* TASK_QUEUE_SIZE, 10
    NumTasks,       \* main submits 10
    MaxSpurious,    \* bound on the spurious wakeups of a run
    Main, NoThread

\* main never looks whether the queue is full: it must hold all of its tasks.
ASSUME SizesAssumption ==
    /\ QueueSize \in Nat \ {0} /\ NumTasks \in Nat /\ NumTasks <= QueueSize
    /\ MaxSpurious \in Nat
ASSUME ThreadsAssumption ==
    /\ IsFiniteSet(Workers)
    /\ Main \notin Workers /\ NoThread \notin Workers \cup {Main}

Tasks == 1 .. NumTasks
NoTask == 0         \* taskQueue is a global: its elements are zero at first

VARIABLES
    lock,        \* who holds the mutex
    pc,          \* of every thread
    taskQueue, count,
    task,        \* the local copy of each worker
    submitted,   \* main's loop counter: tasks it has put into the queue
    executed,    \* how often each task was executed
    spurious     \* spurious wakeups so far

vars == <<lock, pc, taskQueue, count, task, submitted, executed, spurious>>

Threads == Workers \cup {Main}

\* The workers that sleep in pthread_cond_wait.
Sleeping == {w \in Workers : pc[w] = "wait"}

Init ==
    /\ lock = NoThread
    /\ pc = [t \in Threads |-> IF t = Main THEN "create" ELSE "absent"]
    /\ taskQueue = [k \in 0 .. QueueSize - 1 |-> NoTask] /\ count = 0
    /\ task = [w \in Workers |-> NoTask]
    /\ submitted = 0
    /\ executed = [t \in Tasks |-> 0]
    /\ spurious = 0

Goto(t, label) == pc' = [pc EXCEPT ![t] = label]

\* Process exit ends every thread.
Running == pc[Main] # "exit"

\* pthread_create, while the workers created so far run.
Create(w) ==
    /\ pc[Main] = "create" /\ pc[w] = "absent"
    /\ Goto(w, "lock")
    /\ UNCHANGED <<lock, taskQueue, count, task, submitted, executed, spurious>>

\* A thread cannot be created: main returns.
CreateFails ==
    /\ pc[Main] = "create" /\ \E w \in Workers : pc[w] = "absent"
    /\ Goto(Main, "exit")
    /\ UNCHANGED <<lock, taskQueue, count, task, submitted, executed, spurious>>

\* The loop over the tasks begins, goes on, or is over.
NextTask == IF submitted < NumTasks THEN "lock" ELSE "join"
AllCreated ==
    /\ pc[Main] = "create" /\ \A w \in Workers : pc[w] # "absent"
    /\ Goto(Main, NextTask)
    /\ UNCHANGED <<lock, taskQueue, count, task, submitted, executed, spurious>>

\* Faulty variant: after a wakeup the count would not be tested again.
TakeAtOnce == "copy"

\* while (count == 0): a worker that was woken tests again.
AfterWakeup == "test"

\* pthread_mutex_lock, and the return of pthread_cond_wait.
Acquire(t) ==
    /\ Running
    /\ pc[t] \in {"lock", "woken"} /\ lock = NoThread
    /\ lock' = t
    /\ Goto(t, IF t = Main THEN "put" ELSE IF pc[t] = "lock" THEN "test" ELSE AfterWakeup)
    /\ UNCHANGED <<taskQueue, count, task, submitted, executed, spurious>>

Release(t, next) == lock' = NoThread /\ Goto(t, next)

-----------------------------------------------------------------------------
Wait(w) ==
    /\ Running /\ pc[w] = "test" /\ count = 0
    /\ Release(w, "wait")
    /\ UNCHANGED <<taskQueue, count, task, submitted, executed, spurious>>

FindTask(w) ==
    /\ Running /\ pc[w] = "test" /\ count # 0
    /\ Goto(w, "copy")
    /\ UNCHANGED <<lock, taskQueue, count, task, submitted, executed, spurious>>

SpuriousWakeup(w) ==
    /\ Running /\ pc[w] = "wait" /\ spurious < MaxSpurious
    /\ Goto(w, "woken")
    /\ spurious' = spurious + 1
    /\ UNCHANGED <<lock, taskQueue, count, task, submitted, executed>>

\* Task task = taskQueue[0]
Copy(w) ==
    /\ Running /\ pc[w] = "copy"
    /\ task' = [task EXCEPT ![w] = taskQueue[0]]
    /\ Goto(w, "shift")
    /\ UNCHANGED <<lock, taskQueue, count, submitted, executed, spurious>>

\* Faulty variant: the loop would stop one element early.
ShiftButLast(q, n) == [k \in DOMAIN q |-> IF k + 2 < n THEN q[k + 1] ELSE q[k]]

\* for (int i = 0; i < count - 1; i++) taskQueue[i] = taskQueue[i + 1]
Shifted(q, n) == [k \in DOMAIN q |-> IF k + 1 < n THEN q[k + 1] ELSE q[k]]

Shift(w) ==
    /\ Running /\ pc[w] = "shift"
    /\ taskQueue' = Shifted(taskQueue, count)
    /\ count' = count - 1
    /\ Goto(w, "unlock")
    /\ UNCHANGED <<lock, task, submitted, executed, spurious>>

Unlock(w) ==
    /\ Running /\ pc[w] = "unlock"
    /\ Release(w, "execute")
    /\ UNCHANGED <<taskQueue, count, task, submitted, executed, spurious>>

executeTask(w) ==
    /\ Running /\ pc[w] = "execute"
    /\ executed' = [executed EXCEPT ![task[w]] = @ + 1]
    /\ Goto(w, "lock")
    /\ UNCHANGED <<lock, taskQueue, count, task, submitted, spurious>>

-----------------------------------------------------------------------------
\* taskQueue[count].x = taskQueue[count].y = i + 1
Put ==
    /\ pc[Main] = "put"
    /\ taskQueue' = [taskQueue EXCEPT ![count] = submitted + 1]
    /\ Goto(Main, "count")
    /\ UNCHANGED <<lock, count, task, submitted, executed, spurious>>

Increment ==
    /\ pc[Main] = "count"
    /\ count' = count + 1 /\ submitted' = submitted + 1
    /\ Goto(Main, "signal")
    /\ UNCHANGED <<lock, taskQueue, task, executed, spurious>>

\* Faulty variants: a signal only when the queue was empty, and none at all.
WakeForFirst == IF count = 1 THEN Sleeping ELSE {}
WakeNobody == {}

\* The workers that pthread_cond_signal may wake.
Wakeable == Sleeping

\* It wakes one worker, if one sleeps.
Signal ==
    /\ pc[Main] = "signal"
    /\ \/ \E w \in Wakeable : pc' = [pc EXCEPT ![Main] = "unlock", ![w] = "woken"]
       \/ Wakeable = {} /\ Goto(Main, "unlock")
    /\ UNCHANGED <<lock, taskQueue, count, task, submitted, executed, spurious>>

UnlockMain ==
    /\ pc[Main] = "unlock"
    /\ Release(Main, NextTask)
    /\ UNCHANGED <<taskQueue, count, task, submitted, executed, spurious>>

MainStep == AllCreated \/ Acquire(Main) \/ Put \/ Increment \/ Signal \/ UnlockMain
                \/ \E w \in Workers : Create(w)

WorkerStep(w) ==
    \/ Acquire(w) \/ Wait(w) \/ FindTask(w) \/ Copy(w) \/ Shift(w)
    \/ Unlock(w) \/ executeTask(w)

Next ==
    \/ MainStep \/ CreateFails
    \/ \E w \in Workers : WorkerStep(w) \/ SpuriousWakeup(w)

Spec == Init /\ [][Next]_vars

\* Every thread that can run does.  The mutex needs no more than weak fairness:
\* the other threads ask for it finitely often.
Fairness == WF_vars(MainStep) /\ \A w \in Workers : WF_vars(WorkerStep(w))

FairSpec == Spec /\ Fairness

-----------------------------------------------------------------------------
MainLabels == {"create", "exit", "lock", "put", "count", "signal", "unlock", "join"}
WorkerLabels == {"absent", "lock", "test", "wait", "woken", "copy", "shift", "unlock",
                 "execute"}

TypeOK ==
    /\ lock \in Threads \cup {NoThread}
    /\ pc \in [Threads -> MainLabels \cup WorkerLabels]
    /\ pc[Main] \in MainLabels /\ \A w \in Workers : pc[w] \in WorkerLabels
    /\ taskQueue \in [0 .. QueueSize - 1 -> Tasks \cup {NoTask}]
    /\ count \in 0 .. QueueSize
    /\ task \in [Workers -> Tasks \cup {NoTask}]
    /\ submitted \in 0 .. NumTasks
    /\ executed \in [Tasks -> Nat]
    /\ spurious \in Nat

\* Tasks start in the order in which they were submitted: whenever the mutex is
\* free, the queue holds the tasks submitted last, without a gap, in order.
QueuedInOrder ==
    lock = NoThread =>
        /\ count <= submitted
        /\ \A k \in 0 .. count - 1 : taskQueue[k] = submitted - count + 1 + k

\* A task is at one place: in the queue, in the hands of one worker or executed,
\* once; and it is somewhere from the moment it was submitted.
Queued(t) == {k \in 0 .. count - 1 : taskQueue[k] = t}
Holding(t) == {w \in Workers : pc[w] \in {"unlock", "execute"} /\ task[w] = t}
EachTaskOnce ==
    lock = NoThread =>
        \A t \in Tasks :
            Cardinality(Queued(t)) + Cardinality(Holding(t)) + executed[t]
                = IF t <= submitted THEN 1 ELSE 0

\* No wakeup is lost: whenever the mutex is free, at least as many workers are
\* awake as tasks are queued, or all are.
EnoughAwake ==
    lock = NoThread => Sleeping = {} \/ count <= Cardinality(Workers \ Sleeping)

\* When all threads could be created, every task is executed in the end, once,
\* and then the workers sleep; main's join waits for them for ever.
AllExecuted ==
    <>[](\/ pc[Main] = "exit"
         \/ /\ \A t \in Tasks : executed[t] = 1
            /\ Sleeping = Workers /\ pc[Main] = "join")
=============================================================================
