-------------------------- MODULE ThreadPoolProofs --------------------------
(***************************************************************************)
(* The thread pool is right for any number of workers, tasks and spurious  *)
(* wakeups, as long as the queue can hold all tasks.                       *)
(***************************************************************************)
EXTENDS ThreadPool, FiniteSetTheorems, TLAPS

\* The thread that is between lock and unlock is the one that holds the mutex.
Critical(t) == pc[t] \in IF t = Main THEN {"put", "count", "signal", "unlock"}
                                     ELSE {"test", "copy", "shift", "unlock"}
MutexInv == \A t \in Threads : Critical(t) => lock = t

\* What the queue holds, at every step and not only when the mutex is free.
Consecutive == \A k \in 0 .. count - 1 : taskQueue[k] = submitted - count + 1 + k
QueueInv ==
    /\ Consecutive /\ count <= submitted
    /\ pc[Main] \in {"lock", "put", "count"} => submitted < NumTasks
    /\ pc[Main] = "count" => taskQueue[count] = submitted + 1
    /\ \A w \in Workers : pc[w] \in {"copy", "shift"} => count > 0
    /\ \A w \in Workers : pc[w] = "shift" => task[w] = taskQueue[0]

\* The tasks that left the queue are the first ones; each is in the hands of one
\* worker or was executed once, and the others were not.
Holds(w, t) == pc[w] \in {"unlock", "execute"} /\ task[w] = t
Started == 1 .. submitted - count
HandsInv ==
    /\ \A w \in Workers : pc[w] \in {"unlock", "execute"} =>
          task[w] \in Started /\ executed[task[w]] = 0
    /\ \A w, v \in Workers : \A t \in Tasks : Holds(w, t) /\ Holds(v, t) => w = v
    /\ \A t \in Tasks : executed[t] \in {0, 1}
    /\ \A t \in Tasks \ Started : executed[t] = 0
    /\ \A t \in Started : executed[t] = 1 \/ \E w \in Workers : Holds(w, t)

\* main wakes a worker for a task after it has counted the task.
Awake == Workers \ Sleeping
AwakeInv ==
    Sleeping = {} \/ count <= Cardinality(Awake) + (IF pc[Main] = "signal" THEN 1 ELSE 0)

IInv == TypeOK /\ MutexInv /\ QueueInv /\ HandsInv

-----------------------------------------------------------------------------
\* A step is one of these; each proof below goes through them.
LEMMA Steps ==
    ASSUME [Next]_vars
    PROVE  \/ \E w \in Workers : Create(w) \/ Wait(w) \/ FindTask(w) \/ SpuriousWakeup(w)
                                 \/ Copy(w) \/ Shift(w) \/ Unlock(w) \/ executeTask(w)
           \/ \E t \in Threads : Acquire(t)
           \/ CreateFails \/ AllCreated \/ Put \/ Increment \/ Signal \/ UnlockMain
           \/ UNCHANGED vars
BY DEF Next, MainStep, WorkerStep, Threads

LEMMA Distinct ==
    /\ Main \in Threads /\ NoThread \notin Threads
    /\ \A w \in Workers : w \in Threads /\ w # Main /\ w # NoThread
BY ThreadsAssumption DEF Threads

LEMMA InitIInv == Init => IInv
<1> SUFFICES ASSUME Init PROVE IInv
    OBVIOUS
<1>1. TypeOK
  <2>1. \A t \in Threads : pc[t] = IF t = Main THEN "create" ELSE "absent"
    BY DEF Init
  <2>2. pc \in [Threads -> MainLabels \cup WorkerLabels]
    BY DEF Init, MainLabels, WorkerLabels
  <2> QED
    BY <2>1, <2>2, Distinct, SizesAssumption DEF Init, TypeOK, MainLabels, WorkerLabels, Tasks
<1>2. MutexInv
    BY Distinct DEF Init, MutexInv, Critical
<1>3. QueueInv
    BY Distinct, SizesAssumption DEF Init, QueueInv, Consecutive
<1>4. HandsInv
  <2>1. Started = {}
    BY DEF Init, Started
  <2>2. \A w \in Workers : pc[w] = "absent"
    BY Distinct DEF Init
  <2> QED
    BY <2>1, <2>2 DEF Init, HandsInv, Holds
<1> QED
    BY <1>1, <1>2, <1>3, <1>4 DEF IInv

LEMMA NextMutexInv == TypeOK /\ MutexInv /\ [Next]_vars => MutexInv'
<1> SUFFICES ASSUME TypeOK, MutexInv, [Next]_vars PROVE MutexInv'
    OBVIOUS
<1> USE Distinct DEF TypeOK, MutexInv, Critical, Goto, Release
<1>1. ASSUME NEW w \in Workers, Create(w) PROVE MutexInv'
    BY <1>1 DEF Create
<1>2. ASSUME NEW w \in Workers, Wait(w) PROVE MutexInv'
    BY <1>2 DEF Wait
<1>3. ASSUME NEW w \in Workers, FindTask(w) PROVE MutexInv'
    BY <1>3 DEF FindTask
<1>4. ASSUME NEW w \in Workers, SpuriousWakeup(w) PROVE MutexInv'
    BY <1>4 DEF SpuriousWakeup
<1>5. ASSUME NEW w \in Workers, Copy(w) PROVE MutexInv'
    BY <1>5 DEF Copy
<1>6. ASSUME NEW w \in Workers, Shift(w) PROVE MutexInv'
    BY <1>6 DEF Shift
<1>7. ASSUME NEW w \in Workers, Unlock(w) PROVE MutexInv'
    BY <1>7 DEF Unlock
<1>8. ASSUME NEW w \in Workers, executeTask(w) PROVE MutexInv'
    BY <1>8 DEF executeTask
<1>9. ASSUME NEW t \in Threads, Acquire(t) PROVE MutexInv'
    BY <1>9 DEF Acquire
<1>10. CASE CreateFails
    BY <1>10 DEF CreateFails
<1>11. CASE AllCreated
    BY <1>11 DEF AllCreated, NextTask
<1>12. CASE Put
    BY <1>12 DEF Put
<1>13. CASE Increment
    BY <1>13 DEF Increment
<1>14. CASE Signal
    BY <1>14 DEF Signal, Wakeable, Sleeping
<1>15. CASE UnlockMain
    BY <1>15 DEF UnlockMain, NextTask
<1>16. CASE UNCHANGED vars
    BY <1>16 DEF vars
<1> QED
    BY <1>1, <1>2, <1>3, <1>4, <1>5, <1>6, <1>7, <1>8, <1>9, <1>10, <1>11, <1>12, <1>13,
       <1>14, <1>15, <1>16, Steps

LEMMA NextTypeOK == IInv /\ [Next]_vars => TypeOK'
<1> SUFFICES ASSUME IInv, [Next]_vars PROVE TypeOK'
    OBVIOUS
<1> USE Distinct, SizesAssumption DEF IInv, TypeOK, Goto, Release, MainLabels, WorkerLabels
<1>1. ASSUME NEW w \in Workers, Create(w) PROVE TypeOK'
    BY <1>1 DEF Create
<1>2. ASSUME NEW w \in Workers, Wait(w) PROVE TypeOK'
    BY <1>2 DEF Wait
<1>3. ASSUME NEW w \in Workers, FindTask(w) PROVE TypeOK'
    BY <1>3 DEF FindTask
<1>4. ASSUME NEW w \in Workers, SpuriousWakeup(w) PROVE TypeOK'
    BY <1>4 DEF SpuriousWakeup
<1>5. ASSUME NEW w \in Workers, Copy(w) PROVE TypeOK'
    BY <1>5 DEF Copy
<1>6. ASSUME NEW w \in Workers, Shift(w) PROVE TypeOK'
  <2>1. count - 1 \in 0 .. QueueSize
    BY <1>6 DEF Shift, QueueInv
  <2>2. Shifted(taskQueue, count) \in [0 .. QueueSize - 1 -> Tasks \cup {NoTask}]
    <3>1. \A k \in 0 .. QueueSize - 1 : k + 1 < count => k + 1 \in 0 .. QueueSize - 1
        OBVIOUS
    <3> QED
        BY <3>1 DEF Shifted
  <2> QED
    BY <1>6, <2>1, <2>2 DEF Shift
<1>7. ASSUME NEW w \in Workers, Unlock(w) PROVE TypeOK'
    BY <1>7 DEF Unlock
<1>8. ASSUME NEW w \in Workers, executeTask(w) PROVE TypeOK'
  <2>1. task[w] \in Tasks /\ executed[task[w]] + 1 \in Nat
    BY <1>8 DEF executeTask, HandsInv, Started, Tasks
  <2> QED
    BY <1>8, <2>1 DEF executeTask
<1>9. ASSUME NEW t \in Threads, Acquire(t) PROVE TypeOK'
    BY <1>9 DEF Acquire, AfterWakeup
<1>10. CASE CreateFails
    BY <1>10 DEF CreateFails
<1>11. CASE AllCreated
    BY <1>11 DEF AllCreated, NextTask
<1>12. CASE Put
  <2>1. count \in 0 .. QueueSize - 1 /\ submitted + 1 \in Tasks
    BY <1>12 DEF Put, QueueInv, Tasks
  <2> QED
    BY <1>12, <2>1 DEF Put
<1>13. CASE Increment
  <2>1. count + 1 \in 0 .. QueueSize /\ submitted + 1 \in 0 .. NumTasks
    BY <1>13 DEF Increment, QueueInv
  <2> QED
    BY <1>13, <2>1 DEF Increment
<1>14. CASE Signal
    BY <1>14 DEF Signal, Wakeable, Sleeping
<1>15. CASE UnlockMain
    BY <1>15 DEF UnlockMain, NextTask
<1>16. CASE UNCHANGED vars
    BY <1>16 DEF vars
<1> QED
    BY <1>1, <1>2, <1>3, <1>4, <1>5, <1>6, <1>7, <1>8, <1>9, <1>10, <1>11, <1>12, <1>13,
       <1>14, <1>15, <1>16, Steps

LEMMA NextQueueInv == IInv /\ [Next]_vars => QueueInv'
<1> SUFFICES ASSUME IInv, [Next]_vars PROVE QueueInv'
    OBVIOUS
<1> USE Distinct, SizesAssumption DEF IInv, TypeOK, QueueInv, Consecutive, Goto, Release
<1>1. ASSUME NEW w \in Workers, Create(w) PROVE QueueInv'
    BY <1>1 DEF Create
<1>2. ASSUME NEW w \in Workers, Wait(w) PROVE QueueInv'
    BY <1>2 DEF Wait
<1>3. ASSUME NEW w \in Workers, FindTask(w) PROVE QueueInv'
    BY <1>3 DEF FindTask
<1>4. ASSUME NEW w \in Workers, SpuriousWakeup(w) PROVE QueueInv'
    BY <1>4 DEF SpuriousWakeup
<1>5. ASSUME NEW w \in Workers, Copy(w) PROVE QueueInv'
    BY <1>5 DEF Copy
<1>6. ASSUME NEW w \in Workers, Shift(w) PROVE QueueInv'
  <2>1. \A u \in Threads : u # w => ~Critical(u)
    BY <1>6 DEF MutexInv, Critical, Shift
  <2>2. /\ count > 0 /\ count' = count - 1 /\ submitted' = submitted /\ task' = task
        /\ pc' = [pc EXCEPT ![w] = "unlock"] /\ taskQueue' = Shifted(taskQueue, count)
    BY <1>6 DEF Shift
  <2>3. ASSUME NEW k \in 0 .. count' - 1
        PROVE  taskQueue'[k] = submitted' - count' + 1 + k
    <3>1. k \in 0 .. QueueSize - 1 /\ k + 1 < count /\ k + 1 \in 0 .. count - 1
        BY <2>2, <2>3
    <3>2. taskQueue'[k] = taskQueue[k + 1]
        BY <2>2, <3>1 DEF Shifted
    <3>3. taskQueue[k + 1] = submitted - count + 1 + (k + 1)
        BY <3>1
    <3> QED
        BY <2>2, <3>1, <3>2, <3>3
  <2>4. pc'[Main] = pc[Main] /\ pc[Main] \notin {"put", "count"}
    BY <2>1, <2>2 DEF Critical
  <2>5. \A v \in Workers : pc'[v] \notin {"copy", "shift"}
    BY <2>1, <2>2 DEF Critical
  <2> QED
    BY <2>2, <2>3, <2>4, <2>5
<1>7. ASSUME NEW w \in Workers, Unlock(w) PROVE QueueInv'
    BY <1>7 DEF Unlock
<1>8. ASSUME NEW w \in Workers, executeTask(w) PROVE QueueInv'
    BY <1>8 DEF executeTask
<1>9. ASSUME NEW t \in Threads, Acquire(t) PROVE QueueInv'
    BY <1>9 DEF Acquire, AfterWakeup, MainLabels
<1>10. CASE CreateFails
    BY <1>10 DEF CreateFails
<1>11. CASE AllCreated
    BY <1>11 DEF AllCreated, NextTask
<1>12. CASE Put
    BY <1>12 DEF Put
<1>13. CASE Increment
    BY <1>13 DEF Increment
<1>14. CASE Signal
    BY <1>14 DEF Signal, Wakeable, Sleeping
<1>15. CASE UnlockMain
    BY <1>15 DEF UnlockMain, NextTask
<1>16. CASE UNCHANGED vars
    BY <1>16 DEF vars
<1> QED
    BY <1>1, <1>2, <1>3, <1>4, <1>5, <1>6, <1>7, <1>8, <1>9, <1>10, <1>11, <1>12, <1>13,
       <1>14, <1>15, <1>16, Steps

LEMMA NextHandsInv == IInv /\ [Next]_vars => HandsInv'
<1> SUFFICES ASSUME IInv, [Next]_vars PROVE HandsInv'
    OBVIOUS
<1>0. Started \subseteq Tasks /\ submitted \in Nat /\ count \in Nat /\ NumTasks \in Nat
    BY SizesAssumption DEF IInv, TypeOK, Started, Tasks
<1> USE Distinct DEF IInv, TypeOK, HandsInv, Holds, Started, Goto, Release, MainLabels
<1>1. ASSUME NEW w \in Workers, Create(w) PROVE HandsInv'
    BY <1>1 DEF Create
<1>2. ASSUME NEW w \in Workers, Wait(w) PROVE HandsInv'
    BY <1>2 DEF Wait
<1>3. ASSUME NEW w \in Workers, FindTask(w) PROVE HandsInv'
    BY <1>3 DEF FindTask
<1>4. ASSUME NEW w \in Workers, SpuriousWakeup(w) PROVE HandsInv'
    BY <1>4 DEF SpuriousWakeup
<1>5. ASSUME NEW w \in Workers, Copy(w) PROVE HandsInv'
    BY <1>5 DEF Copy
<1>6. ASSUME NEW w \in Workers, Shift(w) PROVE HandsInv'
  <2> DEFINE new == submitted - count + 1
  <2>1. /\ pc[w] = "shift" /\ pc' = [pc EXCEPT ![w] = "unlock"]
        /\ count > 0 /\ count' = count - 1 /\ UNCHANGED <<task, executed, submitted>>
    BY <1>6 DEF Shift, QueueInv
  <2>2. task[w] = new
    BY <1>6, <2>1, SizesAssumption DEF QueueInv, Consecutive
  <2>3. new \in Tasks /\ new \notin Started /\ Started' = Started \cup {new}
    <3>1. submitted' - count' = new /\ new \in Nat \ {0} /\ new <= submitted
        BY <1>0, <2>1 DEF QueueInv
    <3>2. submitted <= NumTasks
        BY DEF TypeOK
    <3>3. new \in Tasks
        BY <1>0, <3>1, <3>2 DEF Tasks
    <3>4. Started' = 1 .. new /\ Started = 1 .. new - 1
        BY <1>0, <3>1
    <3> HIDE DEF new, Started
    <3>5. 1 .. new = (1 .. new - 1) \cup {new} /\ new \notin 1 .. new - 1
        BY <3>1
    <3> QED
        BY <3>3, <3>4, <3>5
  <2>4. \A v \in Workers : \A t \in Tasks :
            Holds(v, t)' <=> Holds(v, t) \/ (v = w /\ t = new)
    BY <2>1, <2>2
  <2>5. \A v \in Workers : pc'[v] \in {"unlock", "execute"} =>
            task'[v] \in Started' /\ executed'[task'[v]] = 0
    BY <2>1, <2>2, <2>3
  <2>6. \A u, v \in Workers : \A t \in Tasks : Holds(u, t)' /\ Holds(v, t)' => u = v
    BY <2>3, <2>4
  <2>7. \A t \in Started' : executed'[t] = 1 \/ \E v \in Workers : Holds(v, t)'
    BY <2>1, <2>3, <2>4 DEF Tasks
  <2>8. \A t \in Tasks \ Started' : executed'[t] = 0
    BY <2>1, <2>3
  <2> QED
    BY <2>1, <2>5, <2>6, <2>7, <2>8
<1>7. ASSUME NEW w \in Workers, Unlock(w) PROVE HandsInv'
    BY <1>7 DEF Unlock
<1>8. ASSUME NEW w \in Workers, executeTask(w) PROVE HandsInv'
  <2>1. /\ pc[w] = "execute" /\ pc' = [pc EXCEPT ![w] = "lock"]
        /\ executed' = [executed EXCEPT ![task[w]] = @ + 1]
        /\ UNCHANGED <<task, submitted, count>>
    BY <1>8 DEF executeTask
  <2>2. task[w] \in Started /\ task[w] \in Tasks /\ executed'[task[w]] = 1
    <3>1. task[w] \in Started /\ executed[task[w]] = 0
        BY <2>1
    <3>2. task[w] \in Tasks
        BY <1>0, <3>1
    <3> QED
        BY <2>1, <3>1, <3>2
  <2>3. \A t \in Tasks : t # task[w] => executed'[t] = executed[t]
    BY <2>1, <2>2
  <2>4. \A v \in Workers : \A t \in Tasks : Holds(v, t)' <=> Holds(v, t) /\ v # w
    BY <2>1
  <2>5. \A v \in Workers : pc'[v] \in {"unlock", "execute"} =>
            task'[v] \in Started' /\ executed'[task'[v]] = 0
    BY <2>1, <2>2, <2>3 DEF Tasks
  <2>6. \A t \in Started' : executed'[t] = 1 \/ \E v \in Workers : Holds(v, t)'
    <3>1. ASSUME NEW t \in Started', t # task[w]
          PROVE  executed'[t] = 1 \/ \E v \in Workers : Holds(v, t)'
      <4>1. t \in Started /\ t \in Tasks
        BY <1>0, <2>1
      <4>2. executed[t] = 1 \/ \E v \in Workers : Holds(v, t) /\ v # w
        BY <3>1, <4>1
      <4> QED
        BY <2>3, <2>4, <3>1, <4>1, <4>2
    <3> QED
      BY <2>2, <3>1
  <2> QED
    BY <2>1, <2>2, <2>3, <2>4, <2>5, <2>6
<1>9. ASSUME NEW t \in Threads, Acquire(t) PROVE HandsInv'
    BY <1>9 DEF Acquire, AfterWakeup
<1>10. CASE CreateFails
    BY <1>10 DEF CreateFails
<1>11. CASE AllCreated
    BY <1>11 DEF AllCreated, NextTask
<1>12. CASE Put
    BY <1>12 DEF Put
<1>13. CASE Increment
  <2>1. Started' = Started
    BY <1>13 DEF Increment
  <2>2. (\A w \in Workers : pc'[w] = pc[w]) /\ UNCHANGED <<task, executed>>
    BY <1>13 DEF Increment
  <2>3. \A w \in Workers : \A t \in Tasks : Holds(w, t)' <=> Holds(w, t)
    BY <2>2
  <2> HIDE DEF Started, Holds
  <2> QED
    BY <1>0, <2>1, <2>2, <2>3
<1>14. CASE Signal
    BY <1>14 DEF Signal, Wakeable, Sleeping
<1>15. CASE UnlockMain
    BY <1>15 DEF UnlockMain, NextTask
<1>16. CASE UNCHANGED vars
    BY <1>16 DEF vars
<1> QED
    BY <1>1, <1>2, <1>3, <1>4, <1>5, <1>6, <1>7, <1>8, <1>9, <1>10, <1>11, <1>12, <1>13,
       <1>14, <1>15, <1>16, Steps

LEMMA NextAwakeInv == TypeOK /\ AwakeInv /\ [Next]_vars => AwakeInv'
<1> SUFFICES ASSUME TypeOK, AwakeInv, [Next]_vars PROVE AwakeInv'
    OBVIOUS
<1>0. /\ IsFiniteSet(Awake) /\ Cardinality(Awake) \in Nat /\ count \in Nat
      /\ Cardinality(Awake') \in Nat
    BY ThreadsAssumption, SizesAssumption, FS_Subset, FS_CardinalityType DEF TypeOK, Awake
<1> USE Distinct DEF TypeOK, AwakeInv, Goto, Release
<1>1. ASSUME NEW w \in Workers, Create(w) PROVE AwakeInv'
  <2>1. Sleeping' = Sleeping /\ (pc'[Main] = "signal" <=> pc[Main] = "signal") /\ count' = count
    BY <1>1 DEF Create, Sleeping, MainLabels, WorkerLabels
  <2> QED
    BY <2>1 DEF Awake
<1>2. ASSUME NEW w \in Workers, Wait(w) PROVE AwakeInv'
  <2>1. count' = 0
    BY <1>2 DEF Wait
  <2> QED
    BY <1>0, <2>1
<1>3. ASSUME NEW w \in Workers, FindTask(w) PROVE AwakeInv'
  <2>1. Sleeping' = Sleeping /\ (pc'[Main] = "signal" <=> pc[Main] = "signal") /\ count' = count
    BY <1>3 DEF FindTask, Sleeping, MainLabels, WorkerLabels
  <2> QED
    BY <2>1 DEF Awake
<1>4. ASSUME NEW w \in Workers, SpuriousWakeup(w) PROVE AwakeInv'
  <2>1. /\ Awake' = Awake \cup {w} /\ w \notin Awake
        /\ pc'[Main] = pc[Main] /\ count' = count /\ w \in Sleeping
    BY <1>4 DEF SpuriousWakeup, Sleeping, Awake
  <2>2. Cardinality(Awake') = Cardinality(Awake) + 1
    BY <1>0, <2>1, FS_AddElement
  <2> QED
    BY <1>0, <2>1, <2>2
<1>5. ASSUME NEW w \in Workers, Copy(w) PROVE AwakeInv'
  <2>1. Sleeping' = Sleeping /\ (pc'[Main] = "signal" <=> pc[Main] = "signal") /\ count' = count
    BY <1>5 DEF Copy, Sleeping, MainLabels, WorkerLabels
  <2> QED
    BY <2>1 DEF Awake
<1>6. ASSUME NEW w \in Workers, Shift(w) PROVE AwakeInv'
  <2>1. Sleeping' = Sleeping /\ pc'[Main] = pc[Main] /\ count' = count - 1
    BY <1>6 DEF Shift, Sleeping
  <2> QED
    BY <1>0, <2>1 DEF Awake
<1>7. ASSUME NEW w \in Workers, Unlock(w) PROVE AwakeInv'
  <2>1. Sleeping' = Sleeping /\ (pc'[Main] = "signal" <=> pc[Main] = "signal") /\ count' = count
    BY <1>7 DEF Unlock, Sleeping, MainLabels, WorkerLabels
  <2> QED
    BY <2>1 DEF Awake
<1>8. ASSUME NEW w \in Workers, executeTask(w) PROVE AwakeInv'
  <2>1. Sleeping' = Sleeping /\ (pc'[Main] = "signal" <=> pc[Main] = "signal") /\ count' = count
    BY <1>8 DEF executeTask, Sleeping, MainLabels, WorkerLabels
  <2> QED
    BY <2>1 DEF Awake
<1>9. ASSUME NEW t \in Threads, Acquire(t) PROVE AwakeInv'
  <2>1. Sleeping' = Sleeping /\ (pc'[Main] = "signal" <=> pc[Main] = "signal") /\ count' = count
    BY <1>9 DEF Acquire, AfterWakeup, Sleeping, MainLabels, WorkerLabels
  <2> QED
    BY <2>1 DEF Awake
<1>10. CASE CreateFails
  <2>1. Sleeping' = Sleeping /\ (pc'[Main] = "signal" <=> pc[Main] = "signal") /\ count' = count
    BY <1>10 DEF CreateFails, Sleeping, MainLabels, WorkerLabels
  <2> QED
    BY <2>1 DEF Awake
<1>11. CASE AllCreated
  <2>1. Sleeping' = Sleeping /\ (pc'[Main] = "signal" <=> pc[Main] = "signal") /\ count' = count
    BY <1>11 DEF AllCreated, NextTask, Sleeping, MainLabels, WorkerLabels
  <2> QED
    BY <2>1 DEF Awake
<1>12. CASE Put
  <2>1. Sleeping' = Sleeping /\ (pc'[Main] = "signal" <=> pc[Main] = "signal") /\ count' = count
    BY <1>12 DEF Put, Sleeping, MainLabels, WorkerLabels
  <2> QED
    BY <2>1 DEF Awake
<1>13. CASE Increment
  <2>1. /\ Sleeping' = Sleeping /\ pc[Main] # "signal" /\ pc'[Main] = "signal"
        /\ count' = count + 1
    BY <1>13 DEF Increment, Sleeping
  <2> QED
    BY <1>0, <2>1 DEF Awake
<1>14. CASE Signal
  <2>1. count' = count /\ pc[Main] = "signal" /\ pc'[Main] = "unlock"
    BY <1>14 DEF Signal
  <2>2. CASE Sleeping = {}
    <3>1. Sleeping' = {}
        BY <1>14, <2>2 DEF Signal, Wakeable, Sleeping
    <3> QED
        BY <3>1
  <2>3. CASE Sleeping # {}
    <3>1. PICK w \in Sleeping : pc' = [pc EXCEPT ![Main] = "unlock", ![w] = "woken"]
        BY <1>14, <2>3 DEF Signal, Wakeable
    <3>2. Awake' = Awake \cup {w} /\ w \notin Awake
        BY <3>1 DEF Awake, Sleeping
    <3>3. Cardinality(Awake') = Cardinality(Awake) + 1
        BY <1>0, <3>2, FS_AddElement
    <3> QED
        BY <1>0, <2>1, <2>3, <3>3
  <2> QED
    BY <2>2, <2>3
<1>15. CASE UnlockMain
  <2>1. Sleeping' = Sleeping /\ (pc'[Main] = "signal" <=> pc[Main] = "signal") /\ count' = count
    BY <1>15 DEF UnlockMain, NextTask, Sleeping, MainLabels, WorkerLabels
  <2> QED
    BY <2>1 DEF Awake
<1>16. CASE UNCHANGED vars
  <2>1. Sleeping' = Sleeping /\ (pc'[Main] = "signal" <=> pc[Main] = "signal") /\ count' = count
    BY <1>16 DEF vars, Sleeping, MainLabels, WorkerLabels
  <2> QED
    BY <2>1 DEF Awake
<1> QED
    BY <1>1, <1>2, <1>3, <1>4, <1>5, <1>6, <1>7, <1>8, <1>9, <1>10, <1>11, <1>12, <1>13,
       <1>14, <1>15, <1>16, Steps

-----------------------------------------------------------------------------
LEMMA Invariance == Spec => []IInv
<1>1. IInv /\ [Next]_vars => IInv'
    BY NextTypeOK, NextMutexInv, NextQueueInv, NextHandsInv DEF IInv
<1> QED
    BY <1>1, InitIInv, PTL DEF Spec

\* Every index that is used lies in taskQueue, and every execution is of a task.
THEOREM TypeCorrect == Spec => []TypeOK
<1>1. IInv => TypeOK
    BY DEF IInv
<1> QED
    BY <1>1, Invariance, PTL

\* Tasks leave the queue in the order of their submission, for every pool.
THEOREM StartedInOrder == Spec => []QueuedInOrder
<1>1. IInv => QueuedInOrder
    BY DEF IInv, QueueInv, Consecutive, QueuedInOrder
<1> QED
    BY <1>1, Invariance, PTL

\* Each submitted task is queued, in the hands of one worker, or executed, once.
THEOREM ExecutedOnce == Spec => []EachTaskOnce
<1>1. ASSUME IInv, NEW t \in Tasks
      PROVE  Cardinality(Queued(t)) + Cardinality(Holding(t)) + executed[t]
                 = IF t <= submitted THEN 1 ELSE 0
  <2>1. /\ submitted \in Nat /\ count \in Nat /\ count <= submitted /\ t \in Nat \ {0}
        /\ executed[t] \in {0, 1}
    BY <1>1, SizesAssumption DEF IInv, TypeOK, QueueInv, HandsInv, Tasks
  <2>2. Queued(t) = {k \in 0 .. count - 1 : submitted - count + 1 + k = t}
    BY <1>1 DEF IInv, QueueInv, Consecutive, Queued
  <2>3. Holding(t) = {w \in Workers : Holds(w, t)}
    BY DEF Holding, Holds
  <2>4. CASE t \in Started
    <3>1. Queued(t) = {} /\ t <= submitted
        BY <2>1, <2>2, <2>4 DEF Started
    <3>2. CASE executed[t] = 1
      <4>1. Holding(t) = {}
        BY <1>1, <2>3, <3>2 DEF IInv, HandsInv, Holds
      <4> QED
        BY <2>1, <3>1, <3>2, <4>1, FS_EmptySet
    <3>3. CASE executed[t] = 0
      <4>1. PICK w \in Workers : Holds(w, t)
        BY <1>1, <2>4, <3>3 DEF IInv, HandsInv
      <4>2. Holding(t) = {w}
        BY <1>1, <2>3, <4>1 DEF IInv, HandsInv
      <4>3. Cardinality(Holding(t)) = 1
        BY <4>2, FS_Singleton
      <4> QED
        BY <2>1, <3>1, <3>3, <4>3, FS_EmptySet
    <3> QED
        BY <2>1, <3>2, <3>3
  <2>5. CASE t \notin Started
    <3>1. Holding(t) = {} /\ executed[t] = 0
        BY <1>1, <2>3, <2>5 DEF IInv, HandsInv, Holds
    <3>2. CASE t <= submitted
      <4>1. t - (submitted - count) - 1 \in 0 .. count - 1
        BY <2>1, <2>5, <3>2 DEF Started
      <4>2. Queued(t) = {t - (submitted - count) - 1}
        BY <2>1, <2>2, <4>1
      <4>3. Cardinality(Queued(t)) = 1
        BY <4>2, FS_Singleton
      <4> QED
        BY <3>1, <3>2, <4>3, FS_EmptySet
    <3>3. CASE ~(t <= submitted)
      <4>1. Queued(t) = {}
        BY <2>1, <2>2, <3>3
      <4> QED
        BY <3>1, <3>3, <4>1, FS_EmptySet
    <3> QED
        BY <3>2, <3>3
  <2> QED
    BY <2>4, <2>5
<1>2. IInv => EachTaskOnce
    BY <1>1 DEF EachTaskOnce
<1> QED
    BY <1>2, Invariance, PTL

\* No signal is lost, however many workers sleep and wake up by themselves.
THEOREM NoWakeupLost == Spec => []EnoughAwake
<1>1. Init => AwakeInv
  <2> SUFFICES ASSUME Init PROVE AwakeInv
    OBVIOUS
  <2>1. Sleeping = {}
    BY Distinct DEF Init, Sleeping
  <2> QED
    BY <2>1 DEF AwakeInv
<1>2. IInv /\ AwakeInv /\ [Next]_vars => AwakeInv'
    BY NextAwakeInv DEF IInv
<1>3. IInv /\ AwakeInv => EnoughAwake
  <2> SUFFICES ASSUME IInv, AwakeInv, lock = NoThread
               PROVE  Sleeping = {} \/ count <= Cardinality(Awake)
    BY DEF EnoughAwake, Awake
  <2>1. pc[Main] # "signal"
    BY Distinct DEF IInv, MutexInv, Critical
  <2>2. Cardinality(Awake) \in Nat
    BY ThreadsAssumption, FS_Subset, FS_CardinalityType DEF Awake
  <2> QED
    BY <2>1, <2>2 DEF AwakeInv
<1> QED
    BY <1>1, <1>2, <1>3, Invariance, PTL DEF Spec
=============================================================================
