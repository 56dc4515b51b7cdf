--------------------------- MODULE ThreadPrograms ---------------------------
(***************************************************************************)
(* The small programs of src/thread-in-c, each a process of its own: one   *)
(* of them is started.                                                     *)
(***************************************************************************)
EXTENDS SemaphoreBuffer

CONSTANTS bufferSize, Routines, MAX_THREADS_IN_CRITICAL

ASSUME CountersAssumption ==
    bufferSize \in Nat \ {0} /\ MAX_THREADS_IN_CRITICAL \in Nat \ {0} /\ IsFiniteSet(Routines)

VARIABLES
    program,                            \* the source file of the process
    condPc, condRound, condBuffer, condCount, taken, surprised, condMain,
    permits, at, counted, copy, result, countMain

CB == INSTANCE CondBuffer WITH
    pc <- condPc, round <- condRound, buffer <- condBuffer, count <- condCount,
    main <- condMain

SC == INSTANCE SharedCounter WITH count <- counted, main <- countMain

condVars == <<condPc, condRound, condBuffer, condCount, taken, surprised, condMain>>
countVars == <<permits, at, counted, copy, result, countMain>>

Programs == {"prod-cons-semaphore.c", "conditionVar.c", "semaphore.c", "thread.c"}

Counting == program \in {"semaphore.c", "thread.c"}

ProgramsInit == program \in Programs /\ Init /\ CB!Init /\ SC!Init

SemaphoreStep(A) ==
    program = "prod-cons-semaphore.c" /\ A /\ UNCHANGED <<program, condVars, countVars>>
CondStep(A) == program = "conditionVar.c" /\ A /\ UNCHANGED <<program, vars, countVars>>
CountStep(A) == Counting /\ A /\ UNCHANGED <<vars, condVars>>

ProgramsNext == SemaphoreStep(Next) \/ CondStep(CB!Next) \/ CountStep(SC!Next)

programsVars == <<program, vars, condVars, countVars>>

\* Every thread that can run does, main among them.
ProgramsFairness ==
    /\ WF_programsVars(SemaphoreStep(AllCreated \/ \E t \in Threads : Create(t)))
    /\ \A t \in Threads : WF_programsVars(SemaphoreStep(Step(t)))
    /\ WF_programsVars(CondStep(\E t \in CB!Threads : CB!Create(t)))
    /\ WF_programsVars(CondStep(CB!Produce)) /\ WF_programsVars(CondStep(CB!Consume))
    /\ WF_programsVars(CountStep(SC!Join \/ \E t \in Routines : SC!Create(t)))
    /\ \A t \in Routines : WF_programsVars(CountStep(SC!ThreadStep(t)))

ProgramsSpec == ProgramsInit /\ [][ProgramsNext]_programsVars /\ ProgramsFairness

-----------------------------------------------------------------------------
AllTypeOK == TypeOK /\ CB!TypeOK /\ SC!TypeOK

ConsumerFindsItem == CB!ConsumerFindsItem
CountersAgree == SC!CountersAgree

\* Unless a thread cannot be created, or a spurious wakeup makes the consumer of
\* conditionVar.c read below its array, every thread of every program finishes;
\* as much is consumed as is produced, so the arrays end empty.
EveryThreadFinishes ==
    <>(CASE program = "prod-cons-semaphore.c" -> Ended
         [] program = "conditionVar.c" -> CB!Ended
         [] Counting -> SC!Ended)
=============================================================================
