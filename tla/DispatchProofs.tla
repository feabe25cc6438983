--------------------------- MODULE DispatchProofs ---------------------------
(***************************************************************************)
(* Proofs about Dispatch for every set of keys, scopes and threads: types, *)
(* one carrier for each dispatch, and the two lanes of a scope, which hold *)
(* at most one operation each.                                             *)
(***************************************************************************)
EXTENDS Dispatch, TLAPS

\* Most steps are first-order: Zenon is the prover where no other is named.
USE ZenonT(60)

-----------------------------------------------------------------------------
\* Every step of the executor keeps every row and every piece of memory in
\* its type: no status outside the schema's CHECK lists, no negative slot.
LEMMA TypeStep == TypeOK /\ [Next]_vars => TypeOK'
  <1> SUFFICES ASSUME TypeOK, [Next]_vars PROVE TypeOK'
    OBVIOUS
  <1> USE ConstantsAssumption
          DEF journal, dispatches, memory, boot, Statuses, Unfinished, Terminal,
              DispatchStatuses, PlaceholderPhases, FinishingPhases, Phases,
              RetryTimes, ThreadStates, ProcStates
  <1>1. ASSUME NEW o \in Op, submit(o) PROVE TypeOK'
    BY SMTT(30), <1>1 DEF TypeOK, submit, Enqueue
  <1>2. ASSUME NEW o \in Op, resubmit_recovery(o) PROVE TypeOK'
    BY SMTT(30), <1>2 DEF TypeOK, resubmit_recovery, Enqueue, Requeueable
  <1>3. ASSUME NEW o \in Op, retry_due(o) PROVE TypeOK'
    BY SMTT(30), <1>3 DEF TypeOK, retry_due, Enqueue, Requeueable
  <1>4. ASSUME NEW o \in Op, BackoffElapses(o) PROVE TypeOK'
    BY <1>4 DEF TypeOK, BackoffElapses
  <1>5. ASSUME NEW t \in Thread, NEW o \in Op, Take(t, o) PROVE TypeOK'
    BY SMTT(30), <1>5 DEF TypeOK, Take, Goto
  <1>6. ASSUME NEW t \in Thread, NEW c \in Op, ChildBegins(t, c) PROVE TypeOK'
    BY SMTT(30), <1>6 DEF TypeOK, ChildBegins, begin_operation, set_status
  <1>7. ASSUME NEW t \in Thread, MarkRunning(t) PROVE TypeOK'
    BY <1>7 DEF TypeOK, MarkRunning, set_operation_dispatch_status, Goto
  <1>8. ASSUME NEW t \in Thread, AcquireLock(t) PROVE TypeOK'
    BY <1>8 DEF TypeOK, AcquireLock, Goto
  <1>9. ASSUME NEW t \in Thread, LockBusy(t) PROVE TypeOK'
    BY <1>9 DEF TypeOK, LockBusy, Goto
  <1>10. ASSUME NEW t \in Thread, WorkRefuses(t) PROVE TypeOK'
    BY <1>10 DEF TypeOK, WorkRefuses, Leave, Goto
  <1>11. ASSUME NEW t \in Thread, WorkIsNoop(t) PROVE TypeOK'
    BY <1>11 DEF TypeOK, WorkIsNoop, Leave, Goto
  <1>12. ASSUME NEW t \in Thread, WorkBegins(t) PROVE TypeOK'
    BY <1>12 DEF TypeOK, WorkBegins, begin_operation, Goto
  <1>13. ASSUME NEW t \in Thread, WorkResumes(t) PROVE TypeOK'
    BY <1>13 DEF TypeOK, WorkResumes, set_status, Goto
  <1>14. ASSUME NEW t \in Thread, WorkStops(t) PROVE TypeOK'
    BY <1>14 DEF TypeOK, WorkStops
  <1>15. ASSUME NEW t \in Thread, WorkEnds(t) PROVE TypeOK'
    BY SMTT(30), <1>15 DEF TypeOK, WorkEnds, set_status, Leave, Goto
  <1>16. ASSUME NEW t \in Thread, WorkRaises(t) PROVE TypeOK'
    BY SMTT(30), <1>16 DEF TypeOK, WorkRaises, set_status, Leave, Goto
  <1>17. ASSUME NEW t \in Thread, WorkAccepts(t) PROVE TypeOK'
    BY <1>17 DEF TypeOK, WorkAccepts
  <1>18. ASSUME NEW t \in Thread, WorkFinishes(t) PROVE TypeOK'
    BY <1>18 DEF TypeOK, WorkFinishes, set_status, Leave, Goto
  <1>18a. ASSUME NEW t \in Thread, WorkCheckpoints(t) PROVE TypeOK'
    <2>1. PICK next \in Phases : opPhase' = [opPhase EXCEPT ![thrOp[t]] = next]
      BY <1>18a DEF WorkCheckpoints, FinishingSuccessors
    <2> QED
      BY <1>18a, <2>1 DEF TypeOK, WorkCheckpoints
  <1>19. ASSUME NEW t \in Thread, ChildSucceeds(t) PROVE TypeOK'
    BY <1>19 DEF TypeOK, ChildSucceeds, set_status
  <1>20. ASSUME NEW t \in Thread, ChildFails(t) PROVE TypeOK'
    BY <1>20 DEF TypeOK, ChildFails, set_status, Goto
  <1>21. ASSUME NEW t \in Thread, AfterReturn(t) PROVE TypeOK'
    <2>1. pc' \in [Thread -> ThreadStates]
      BY SMTT(30), <1>21 DEF TypeOK, AfterReturn, Goto
    <2>2. /\ opStatus' \in [Op -> Statuses]
          /\ opPhase' \in [Op -> Phases]
      BY SMTT(30), <1>21 DEF TypeOK, AfterReturn, begin_operation
    <2>3. UNCHANGED <<finishing, attempts, nextAt, desired>>
      BY <1>21 DEF AfterReturn, begin_operation
    <2> QED
      BY <1>21, <2>1, <2>2, <2>3 DEF TypeOK, AfterReturn
  <1>22. ASSUME NEW t \in Thread, AfterRaise(t) PROVE TypeOK'
    BY SMTT(30), <1>22 DEF TypeOK, AfterRaise, begin_operation, set_status, Goto
  <1>23. ASSUME NEW t \in Thread, SettlePlaceholder(t) PROVE TypeOK'
    BY SMTT(30), <1>23 DEF TypeOK, SettlePlaceholder, set_status, Goto
  <1>24. ASSUME NEW t \in Thread, Reschedule(t) PROVE TypeOK'
    BY SMTT(30), <1>24 DEF TypeOK, Reschedule, schedule, Goto
  <1>25. ASSUME NEW t \in Thread, Conclude(t) PROVE TypeOK'
    <2>1. ConcludedStatus(thrOp[t]) \in DispatchStatuses
      BY DEF ConcludedStatus
    <2>2. dispatch' \in [Op -> DispatchStatuses]
      BY <1>25, <2>1 DEF TypeOK, Conclude, set_operation_dispatch_status
    <2>3. slots' \in Nat /\ thrOp' \in [Thread -> Op \union {NoOp}]
      BY SMTT(30), <1>25 DEF TypeOK, Conclude
    <2> QED
      BY <1>25, <2>2, <2>3
      DEF TypeOK, Conclude, set_operation_dispatch_status, Goto
  <1>26. ASSUME NEW o \in Op, StartupSchedules(o) PROVE TypeOK'
    BY <1>26 DEF TypeOK, StartupSchedules, schedule
  <1>27. ASSUME NEW o \in Op, StartupSkips(o) PROVE TypeOK'
    BY <1>27 DEF TypeOK, StartupSkips
  <1>28. ASSUME NEW o \in Op, StartupConcludes(o) PROVE TypeOK'
    BY <1>28 DEF TypeOK, StartupConcludes, set_operation_dispatch_status
  <1>29. ASSUME NEW o \in Op, StartupPlaces(o) PROVE TypeOK'
    BY <1>29 DEF TypeOK, StartupPlaces, begin_operation
  <1>30. ASSUME NEW o \in Op, StartupFindsScopeTaken(o) PROVE TypeOK'
    BY <1>30 DEF TypeOK, StartupFindsScopeTaken, set_operation_dispatch_status
  <1>31. ASSUME NEW o \in Op, StartupMarksRecovery(o) PROVE TypeOK'
    BY <1>31 DEF TypeOK, StartupMarksRecovery, set_status
  <1>32. ASSUME Close PROVE TypeOK'
    BY <1>32 DEF TypeOK, Close
  <1>33. ASSUME Drained PROVE TypeOK'
    BY <1>33 DEF TypeOK, Drained
  <1>34. ASSUME Exit PROVE TypeOK'
    BY <1>34 DEF TypeOK, Exit, LoseMemory
  <1>35. ASSUME Crash PROVE TypeOK'
    BY SMTT(30), <1>35 DEF TypeOK, Crash, LoseMemory
  <1>36. ASSUME Start PROVE TypeOK'
    BY <1>36 DEF TypeOK, Start
  <1>37. ASSUME StartupFails PROVE TypeOK'
    BY <1>37 DEF TypeOK, StartupFails, set_status
  <1>38. ASSUME StartupSetsDispatch PROVE TypeOK'
    BY <1>38 DEF TypeOK, StartupSetsDispatch, set_operation_dispatch_status
  <1>39. ASSUME StartupDone PROVE TypeOK'
    BY <1>39 DEF TypeOK, StartupDone
  <1>40. CASE UNCHANGED vars
    BY <1>40 DEF TypeOK, vars
  <1> QED
    BY <1>1, <1>2, <1>3, <1>4, <1>5, <1>6, <1>7, <1>8, <1>9, <1>10,
       <1>11, <1>12, <1>13, <1>14, <1>15, <1>16, <1>17, <1>18, <1>18a, <1>19,
       <1>20, <1>21, <1>22, <1>23, <1>24, <1>25, <1>26, <1>27, <1>28, <1>29,
       <1>30, <1>31, <1>32, <1>33, <1>34, <1>35, <1>36, <1>37, <1>38, <1>39,
       <1>40
    DEF Next, ThreadStep, StartupStep

\* The type invariant of the journal, the dispatch table and the executor.
THEOREM TypeCorrect == Spec => []TypeOK
  <1>1. Init => TypeOK
    BY SMTT(30), ConstantsAssumption DEF Init, TypeOK, Statuses, DispatchStatuses, Phases,
       RetryTimes, ThreadStates, ProcStates
  <1> QED
    BY <1>1, TypeStep, PTL DEF Spec

-----------------------------------------------------------------------------
\* The variables that say who carries a dispatch.
carriers == <<dispatch, queued, thrOp, proc, todo, cur, spc>>

\* A step inside a body, and the executor's bookkeeping after it, carries the
\* same operations on the same threads as before.
LEMMA BodyStepCarries ==
  ASSUME TypeOK, CarrierInv, UNCHANGED carriers,
         \A t \in Thread : pc'[t] = "idle" <=> pc[t] = "idle"
  PROVE  CarrierInv'
  BY SMTT(30) DEF CarrierInv, ExecutedExactlyOnce, Interrupted, carriers

\* The steps that BodyStepCarries is about.
QuietStep(t) ==
    \/ AcquireLock(t) \/ LockBusy(t)
    \/ WorkRefuses(t) \/ WorkIsNoop(t) \/ WorkBegins(t) \/ WorkResumes(t)
    \/ WorkStops(t) \/ WorkEnds(t) \/ WorkRaises(t)
    \/ WorkAccepts(t) \/ WorkCheckpoints(t) \/ WorkFinishes(t)
    \/ \E c \in Op : ChildBegins(t, c)
    \/ ChildSucceeds(t) \/ ChildFails(t)
    \/ AfterReturn(t) \/ AfterRaise(t) \/ SettlePlaceholder(t)
    \/ Reschedule(t)

\* A step of a thread within a body moves no dispatch between carriers.
LEMMA QuietStepIsQuiet ==
  ASSUME TypeOK, NEW t \in Thread, QuietStep(t)
  PROVE  /\ UNCHANGED carriers
         /\ \A u \in Thread : pc'[u] = "idle" <=> pc[u] = "idle"
  <1> USE DEF carriers, boot, memory, dispatches, Goto, Leave, TypeOK
  <1>1. CASE AcquireLock(t)
    BY <1>1 DEF AcquireLock
  <1>2. CASE LockBusy(t)
    BY <1>2 DEF LockBusy
  <1>3. CASE WorkRefuses(t)
    BY <1>3 DEF WorkRefuses
  <1>4. CASE WorkIsNoop(t)
    BY <1>4 DEF WorkIsNoop
  <1>5. CASE WorkBegins(t)
    BY <1>5 DEF WorkBegins
  <1>6. CASE WorkResumes(t)
    BY <1>6 DEF WorkResumes
  <1>7. CASE WorkStops(t)
    BY <1>7 DEF WorkStops
  <1>8. CASE WorkEnds(t)
    BY <1>8 DEF WorkEnds
  <1>9. CASE WorkRaises(t)
    BY <1>9 DEF WorkRaises
  <1>10. CASE WorkAccepts(t)
    BY <1>10 DEF WorkAccepts
  <1>11. CASE WorkCheckpoints(t)
    BY <1>11 DEF WorkCheckpoints
  <1>12. CASE WorkFinishes(t)
    BY <1>12 DEF WorkFinishes
  <1>13. CASE ChildSucceeds(t)
    BY <1>13 DEF ChildSucceeds
  <1>14. CASE ChildFails(t)
    BY <1>14 DEF ChildFails
  <1>15. CASE AfterReturn(t)
    BY <1>15 DEF AfterReturn
  <1>16. CASE AfterRaise(t)
    BY <1>16 DEF AfterRaise
  <1>17. CASE SettlePlaceholder(t)
    BY <1>17 DEF SettlePlaceholder
  <1>18. CASE Reschedule(t)
    BY <1>18 DEF Reschedule
  <1>19. ASSUME NEW c \in Op, ChildBegins(t, c)
        PROVE  /\ UNCHANGED carriers
               /\ \A u \in Thread : pc'[u] = "idle" <=> pc[u] = "idle"
    BY <1>19 DEF ChildBegins
  <1> QED
    BY <1>1, <1>2, <1>3, <1>4, <1>5, <1>6, <1>7, <1>8, <1>9, <1>10, <1>11, <1>12,
       <1>13, <1>14, <1>15, <1>16, <1>17, <1>18, <1>19
    DEF QuietStep

\* Admission puts a dispatch in the queue that nothing carried before.
LEMMA EnqueueCarries ==
  ASSUME TypeOK, CarrierInv, proc = "up", NEW o \in Op, ~Interrupted(o),
         Enqueue(o), UNCHANGED <<thrOp, pc, proc, todo, cur, spc>>
  PROVE  CarrierInv'
  <1> USE DEF CarrierInv, ExecutedExactlyOnce, Interrupted
  <1>1. queued[o] = 0 /\ \A t \in Thread : thrOp[t] # o
    BY SMTT(30) DEF TypeOK
  <1>2. /\ queued'[o] = 1 /\ dispatch'[o] = "pending"
        /\ \A p \in Op : p # o => /\ queued'[p] = queued[p]
                                  /\ dispatch'[p] = dispatch[p]
    BY SMTT(30), <1>1 DEF TypeOK, Enqueue
  <1> QED
    BY SMTT(30), <1>1, <1>2

\* Closing only stops admission.
LEMMA CloseCarries ==
  ASSUME CarrierInv, Close
  PROVE  CarrierInv'
  <1>1. UNCHANGED <<queued, thrOp, pc, dispatch, todo, cur, spc>>
    BY DEF Close, dispatches, memory
  <1> QED
    BY SMTT(30), <1>1 DEF Close, CarrierInv, ExecutedExactlyOnce, Interrupted

\* Memory and the dispatch table stay in step through admission, execution,
\* orderly stop, crash and startup.
LEMMA CarrierStep == TypeOK /\ CarrierInv /\ [Next]_vars => CarrierInv'
  <1> SUFFICES ASSUME TypeOK, CarrierInv, [Next]_vars PROVE CarrierInv'
    OBVIOUS
  <1> USE ConstantsAssumption
          DEF journal, dispatches, memory, boot, CarrierInv,
              ExecutedExactlyOnce, Interrupted, Visiting, DispatchStatuses
  <1>1. ASSUME NEW o \in Op, submit(o) PROVE CarrierInv'
    BY <1>1, EnqueueCarries DEF submit
  <1>2. ASSUME NEW o \in Op, resubmit_recovery(o) PROVE CarrierInv'
    BY <1>2, EnqueueCarries DEF resubmit_recovery, Requeueable
  <1>3. ASSUME NEW o \in Op, retry_due(o) PROVE CarrierInv'
    BY <1>3, EnqueueCarries DEF retry_due, Requeueable
  <1>4. ASSUME NEW o \in Op, BackoffElapses(o) PROVE CarrierInv'
    BY <1>4, BodyStepCarries DEF BackoffElapses, carriers
  <1>5. ASSUME NEW t \in Thread, NEW o \in Op, Take(t, o) PROVE CarrierInv'
    BY SMTT(30), <1>5 DEF TypeOK, Take, Goto
  <1>6. ASSUME NEW t \in Thread, MarkRunning(t) PROVE CarrierInv'
    BY SMTT(30), <1>6 DEF TypeOK, MarkRunning, set_operation_dispatch_status, Goto
  <1>7. ASSUME NEW t \in Thread, QuietStep(t) PROVE CarrierInv'
    BY <1>7, QuietStepIsQuiet, BodyStepCarries
  <1>8. ASSUME NEW t \in Thread, Conclude(t) PROVE CarrierInv'
    BY SMTT(30), <1>8
    DEF TypeOK, Conclude, set_operation_dispatch_status, ConcludedStatus, Goto
  <1>9. CASE Close
    BY <1>9, CloseCarries
  <1>10. CASE Drained
    BY <1>10 DEF TypeOK, Drained
  <1>11. CASE Exit \/ Crash
    BY SMTT(30), <1>11 DEF TypeOK, Exit, Crash, LoseMemory
  <1>12. CASE Start
    BY <1>12 DEF TypeOK, Start
  <1>13. ASSUME NEW o \in Op, StartupSchedules(o) PROVE CarrierInv'
    BY SMTT(30), <1>13 DEF TypeOK, StartupSchedules
  <1>14. ASSUME NEW o \in Op, StartupSkips(o) PROVE CarrierInv'
    BY <1>14 DEF TypeOK, StartupSkips
  <1>15. ASSUME NEW o \in Op, StartupConcludes(o) PROVE CarrierInv'
    BY SMTT(30), <1>15 DEF TypeOK, StartupConcludes, set_operation_dispatch_status
  <1>16. ASSUME NEW o \in Op, StartupPlaces(o) PROVE CarrierInv'
    BY <1>16 DEF TypeOK, StartupPlaces
  <1>17. ASSUME NEW o \in Op, StartupFindsScopeTaken(o) PROVE CarrierInv'
    BY SMTT(30), <1>17
    DEF TypeOK, StartupFindsScopeTaken, set_operation_dispatch_status
  <1>18. ASSUME NEW o \in Op, StartupMarksRecovery(o) PROVE CarrierInv'
    BY <1>18 DEF TypeOK, StartupMarksRecovery
  <1>19. CASE StartupFails
    BY <1>19 DEF TypeOK, StartupFails
  <1>20. CASE StartupSetsDispatch
    BY SMTT(30), <1>20 DEF TypeOK, StartupSetsDispatch, set_operation_dispatch_status
  <1>21. CASE StartupDone
    BY SMTT(30), <1>21 DEF TypeOK, StartupDone
  <1>22. CASE UNCHANGED vars
    BY <1>22, BodyStepCarries DEF vars, carriers
  <1> QED
    BY <1>1, <1>2, <1>3, <1>4, <1>5, <1>6, <1>7, <1>8, <1>9, <1>10, <1>11,
       <1>12, <1>13, <1>14, <1>15, <1>16, <1>17, <1>18, <1>19, <1>20, <1>21,
       <1>22
    DEF Next, ThreadStep, StartupStep, QuietStep

\* A pending or running dispatch is carried by exactly one queue item or
\* thread while the executor runs, for any number of keys and threads.
THEOREM ExecutedOnce == Spec => []ExecutedExactlyOnce
  <1>1. Init => CarrierInv
    BY SMTT(30), ConstantsAssumption DEF Init, CarrierInv, ExecutedExactlyOnce, Interrupted
  <1>2. CarrierInv => ExecutedExactlyOnce
    BY DEF CarrierInv
  <1> QED
    BY <1>1, <1>2, TypeCorrect, CarrierStep, PTL DEF Spec

-----------------------------------------------------------------------------
(***************************************************************************)
(* No step of an executor thread puts two operations in a lane.            *)
(***************************************************************************)
-----------------------------------------------------------------------------
\* Lanes only empty: nothing that was outside the unfinished set enters it, and
\* no placeholder acquires domain intent.
LEMMA LanesShrink ==
  ASSUME OneOperationPerLane, AcceptanceInv, UNCHANGED finishing,
         \A o \in Op : opStatus'[o] \in Unfinished =>
             /\ opStatus[o] \in Unfinished
             /\ finishing[o] \/ opPhase'[o] = opPhase[o]
  PROVE  OneOperationPerLane' /\ AcceptanceInv'
  BY DEF OneOperationPerLane, AcceptanceInv

\* begin_operation enters an empty foreground lane; with domain intent of an
\* accepting kind only where nothing is finishing.
LEMMA LanesBegin ==
  ASSUME TypeOK, OneOperationPerLane, AcceptanceInv, BodyInv,
         NEW o \in Op, opStatus[o] = "none", MayBegin(o),
         NEW phase \in Phases, begin_operation(o, phase),
         \/ phase \in PlaceholderPhases
         \/ KindOf[o] = "enable" => ~desired[ScopeOf[o]]
  PROVE  OneOperationPerLane' /\ AcceptanceInv'
  <1>1. /\ ~finishing[o]
        /\ \A p \in Op : ScopeOf[p] = ScopeOf[o] /\ opStatus[p] \in Unfinished
                         => finishing[p]
        /\ \A p \in Op : p # o => /\ opStatus'[p] = opStatus[p]
                                  /\ opPhase'[p] = opPhase[p]
        /\ opPhase'[o] = phase
        /\ UNCHANGED finishing
    BY DEF TypeOK, BodyInv, MayBegin, get_unfinished_operation, begin_operation
  <1>2. phase \notin PlaceholderPhases /\ KindOf[o] \in {"deploy", "enable"} =>
          \A f \in Op : ScopeOf[f] = ScopeOf[o]
                        => ~(opStatus[f] \in Unfinished /\ finishing[f])
    BY DEF MayBegin, check_finishing_admission, get_finishing_operation
  <1>3. OneOperationPerLane'
    BY <1>1 DEF OneOperationPerLane
  <1>4. AcceptanceInv'
    <2> SUFFICES ASSUME NEW p \in Op, NEW f \in Op,
                        ScopeOf[p] = ScopeOf[f],
                        opStatus'[p] \in Unfinished, ~finishing[p],
                        KindOf[p] \in {"deploy", "enable"},
                        opPhase'[p] \notin PlaceholderPhases,
                        opStatus'[f] \in Unfinished, finishing[f]
                 PROVE  FALSE
      BY <1>1 DEF AcceptanceInv
    <2>1. f # o
      BY <1>1
    <2>2. CASE p = o
      BY <1>1, <1>2, <2>1, <2>2
    <2>3. CASE p # o
      BY <1>1, <2>1, <2>3 DEF AcceptanceInv
    <2> QED
      BY <2>2, <2>3
  <1> QED
    BY <1>3, <1>4

\* The row of the operation a thread executes is that thread's alone.
LEMMA OwnRow ==
  ASSUME TypeOK, CarrierInv, BodyInv, NEW t \in Thread, pc[t] # "idle"
  PROVE  /\ thrOp[t] \in Op
         /\ KindOf[thrOp[t]] # "child"
         /\ \A u \in Thread : u # t => thrOp[u] # thrOp[t]
         /\ \A u \in Thread : child[u] # thrOp[t]
         /\ \A u \in Thread : u # t /\ child[u] # NoOp =>
                                  KindOf[thrOp[t]] # "migrate"
  <1>1. thrOp[t] \in Op /\ \A u \in Thread : u # t => thrOp[u] # thrOp[t]
    BY DEF TypeOK, CarrierInv, ExecutedExactlyOnce
  <1>2. Interrupted(thrOp[t])
    BY <1>1 DEF CarrierInv, ExecutedExactlyOnce
  <1>3. KindOf[thrOp[t]] # "child"
    BY <1>1, <1>2 DEF BodyInv, Interrupted
  <1>4. \A u \in Thread : child[u] # thrOp[t]
    BY SMTT(30), <1>1, <1>3 DEF BodyInv, CarrierInv, ExecutedExactlyOnce, TypeOK
  <1>5. ASSUME NEW u \in Thread, u # t, child[u] # NoOp
        PROVE  KindOf[thrOp[t]] # "migrate"
    <2>1. thrOp[u] \in Op /\ KindOf[thrOp[u]] = "migrate"
      BY <1>5 DEF BodyInv, CarrierInv, TypeOK
    <2> QED
      BY <1>1, <1>5, <2>1, ConstantsAssumption
  <1> QED
    BY <1>1, <1>3, <1>4, <1>5

\* A thread that is not in a body afterwards, and wrote only its own row,
\* leaves the other threads' bodies as they were.
LEMMA OthersUndisturbed ==
  ASSUME TypeOK, CarrierInv, BodyInv, NEW t \in Thread, pc[t] # "idle",
         UNCHANGED <<thrOp, dispatch, finishing>>,
         pc'[t] \notin {"working", "raising"}, child'[t] = NoOp,
         \A u \in Thread : u # t => pc'[u] = pc[u] /\ child'[u] = child[u],
         \A p \in Op : p # thrOp[t] => /\ opStatus'[p] = opStatus[p]
                                       /\ opPhase'[p] = opPhase[p],
         opStatus'[thrOp[t]] = opStatus[thrOp[t]] \/ opStatus'[thrOp[t]] # "none"
  PROVE  BodyInv'
  <1>1. \A u \in Thread : u # t => thrOp[u] # thrOp[t] /\ child[u] # thrOp[t]
    BY OwnRow
  <1>2. \A u \in Thread : pc[u] # "idle" => thrOp[u] \in Op
    BY SMTT(30) DEF TypeOK, CarrierInv
  <1>3. \A u \in Thread : child[u] # NoOp => child[u] \in Op
    BY DEF TypeOK
  <1>4. \A u \in Thread :
          pc'[u] \in {"working", "raising"} =>
              u # t /\ pc[u] = pc'[u] /\ thrOp'[u] = thrOp[u]
              /\ opStatus'[thrOp[u]] = opStatus[thrOp[u]]
              /\ opPhase'[thrOp[u]] = opPhase[thrOp[u]]
    BY <1>1, <1>2
  <1>5. \A u \in Thread :
          child'[u] # NoOp =>
              u # t /\ pc'[u] = pc[u] /\ thrOp'[u] = thrOp[u]
              /\ child'[u] = child[u]
              /\ opStatus'[child[u]] = opStatus[child[u]]
    BY <1>1, <1>3
  <1>6. /\ \A o \in Op : dispatch'[o] # "none" => KindOf[o] # "child"
        /\ \A o \in Op : finishing'[o] => opStatus'[o] # "none"
    BY SMTT(30) DEF BodyInv
  <1> HIDE DEF Unfinished, PlaceholderPhases
  <1> QED
    <2>1. \A u \in Thread :
            pc'[u] \in {"working", "raising"} =>
                /\ opStatus'[thrOp'[u]] \in Unfinished
                /\ opPhase'[thrOp'[u]] \notin PlaceholderPhases
      BY <1>4 DEF BodyInv
    <2>2. \A u \in Thread :
            child'[u] # NoOp =>
                /\ pc'[u] = "working"
                /\ KindOf[thrOp'[u]] = "migrate"
                /\ KindOf[child'[u]] = "child"
                /\ opStatus'[child'[u]] \in Unfinished
      BY SMTT(30), <1>5 DEF BodyInv
    <2> QED
      BY <1>6, <2>1, <2>2 DEF BodyInv

\* A thread within a body afterwards, which wrote only its own row and left it
\* unfinished with domain intent, leaves the other bodies as they were.
LEMMA BodyKept ==
  ASSUME TypeOK, CarrierInv, BodyInv, NEW t \in Thread, pc[t] # "idle",
         UNCHANGED <<thrOp, dispatch, child>>, pc'[t] = "working",
         \A u \in Thread : u # t => pc'[u] = pc[u],
         \A p \in Op : p # thrOp[t] => /\ opStatus'[p] = opStatus[p]
                                       /\ opPhase'[p] = opPhase[p]
                                       /\ finishing'[p] = finishing[p],
         opStatus'[thrOp[t]] \in Unfinished, opPhase'[thrOp[t]] \notin PlaceholderPhases
  PROVE  BodyInv'
  <1>1. \A u \in Thread : u # t => thrOp[u] # thrOp[t] /\ child[u] # thrOp[t]
    BY OwnRow
  <1>2. \A u \in Thread : /\ pc[u] # "idle" => thrOp[u] \in Op
                          /\ child[u] # NoOp => child[u] \in Op
    BY DEF TypeOK, CarrierInv
  <1>3. child[t] # thrOp[t]
    BY OwnRow
  <1>4. \A u \in Thread :
          pc'[u] \in {"working", "raising"} =>
              /\ opStatus'[thrOp'[u]] \in Unfinished
              /\ opPhase'[thrOp'[u]] \notin PlaceholderPhases
    BY <1>1, <1>2 DEF BodyInv
  <1>5. \A u \in Thread :
          child'[u] # NoOp =>
              /\ pc'[u] = "working" /\ KindOf[thrOp'[u]] = "migrate"
              /\ KindOf[child'[u]] = "child"
              /\ opStatus'[child'[u]] \in Unfinished
    BY SMTT(30), <1>1, <1>2, <1>3 DEF BodyInv
  <1>6. \A o \in Op : finishing'[o] => opStatus'[o] # "none"
    BY SMTT(30) DEF BodyInv, Unfinished
  <1> QED
    BY SMTT(30), <1>4, <1>5, <1>6 DEF BodyInv

\* The lane invariants survive every step of a thread on its own operation.
LEMMA LaneThreadStep ==
  ASSUME TypeOK, CarrierInv, LaneInv, NEW t \in Thread, ThreadStep(t),
         ~ChildSucceeds(t), ~ChildFails(t), \A c \in Op : ~ChildBegins(t, c)
  PROVE  LaneInv'
  <1> USE ConstantsAssumption
          DEF LaneInv, journal, dispatches, memory, boot
  <1>0. ASSUME pc[t] # "working" PROVE child[t] = NoOp
    BY <1>0 DEF BodyInv
  <1>1. ASSUME NEW o \in Op, Take(t, o) PROVE LaneInv'
    <2>1. OneOperationPerLane' /\ AcceptanceInv'
      BY <1>1, LanesShrink DEF Take
    <2>2. BodyInv'
      BY SMTT(30), <1>0, <1>1 DEF TypeOK, Take, Goto, BodyInv, CarrierInv
    <2> QED
      BY <2>1, <2>2
  <1>2. CASE MarkRunning(t)
    <2>1. OneOperationPerLane' /\ AcceptanceInv'
      BY <1>2, LanesShrink DEF MarkRunning
    <2>2. BodyInv'
      <3>1. /\ UNCHANGED <<child, thrOp, opStatus, opPhase, finishing>>
            /\ pc'[t] = "waiting" /\ child[t] = NoOp
            /\ \A u \in Thread : u # t => pc'[u] = pc[u]
        BY SMTT(30), <1>0, <1>2 DEF TypeOK, MarkRunning, Goto
      <3>2. \A o \in Op : o # thrOp[t] => dispatch'[o] = dispatch[o]
        BY <1>2 DEF TypeOK, MarkRunning, set_operation_dispatch_status
      <3>3. KindOf[thrOp[t]] # "child"
        BY <1>2, OwnRow DEF MarkRunning
      <3> QED
        BY <3>1, <3>2, <3>3 DEF BodyInv
    <2> QED
      BY <2>1, <2>2
  <1>3. CASE AcquireLock(t) \/ LockBusy(t) \/ WorkRefuses(t) \/ WorkIsNoop(t)
    <2>1. OneOperationPerLane' /\ AcceptanceInv'
      BY <1>3, LanesShrink DEF AcquireLock, LockBusy, WorkRefuses, WorkIsNoop
    <2>2. BodyInv'
      <3>1. /\ UNCHANGED <<thrOp, dispatch, finishing, opStatus, opPhase>>
            /\ pc[t] \in {"waiting", "locked"}
            /\ child' = child \/ child' = [child EXCEPT ![t] = NoOp]
            /\ \E label \in {"locked", "raised", "returned"} : Goto(t, label)
        BY <1>3 DEF AcquireLock, LockBusy, WorkRefuses, WorkIsNoop, Leave
      <3>2. /\ pc'[t] \notin {"working", "raising"} /\ child'[t] = NoOp
            /\ \A u \in Thread : u # t => pc'[u] = pc[u] /\ child'[u] = child[u]
        BY SMTT(30), <1>0, <3>1 DEF TypeOK, Goto
      <3> QED
        BY <3>1, <3>2, OthersUndisturbed
    <2> QED
      BY <2>1, <2>2
  <1>4. CASE WorkBegins(t)
    <2>1. OneOperationPerLane' /\ AcceptanceInv'
      BY <1>4, OwnRow, LanesBegin DEF WorkBegins, Phases
    <2>2. BodyInv'
      <3>1. /\ pc[t] = "locked" /\ Goto(t, "working")
            /\ begin_operation(thrOp[t], "domain")
            /\ UNCHANGED <<thrOp, dispatch, child>>
        BY <1>4 DEF WorkBegins
      <3>2. thrOp[t] \in Op
        BY <3>1, OwnRow
      <3>3. /\ UNCHANGED finishing
            /\ opStatus'[thrOp[t]] = "running" /\ opPhase'[thrOp[t]] = "domain"
            /\ \A p \in Op : p # thrOp[t] => /\ opStatus'[p] = opStatus[p]
                                             /\ opPhase'[p] = opPhase[p]
        BY SMTT(30), <3>1, <3>2 DEF TypeOK, begin_operation
      <3>4. pc'[t] = "working" /\ \A u \in Thread : u # t => pc'[u] = pc[u]
        BY <3>1 DEF TypeOK, Goto
      <3> QED
        BY <3>1, <3>3, <3>4, BodyKept DEF Unfinished, PlaceholderPhases
    <2> QED
      BY <2>1, <2>2
  <1>5. CASE WorkResumes(t)
    <2>1. /\ pc[t] = "locked" /\ Goto(t, "working") /\ set_status(thrOp[t], "running")
          /\ opStatus[thrOp[t]] \in Unfinished
          /\ opPhase[thrOp[t]] \notin PlaceholderPhases
          /\ UNCHANGED <<thrOp, dispatch, child, opPhase, finishing>>
      BY <1>5 DEF WorkResumes, set_status
    <2>2. /\ opStatus'[thrOp[t]] = "running"
          /\ \A p \in Op : p # thrOp[t] => opStatus'[p] = opStatus[p]
      BY <2>1, OwnRow DEF TypeOK, set_status
    <2>3. pc'[t] = "working" /\ \A u \in Thread : u # t => pc'[u] = pc[u]
      BY <2>1 DEF TypeOK, Goto
    <2>4. OneOperationPerLane' /\ AcceptanceInv'
      BY <2>1, <2>2, LanesShrink
    <2>5. BodyInv'
      BY <2>1, <2>2, <2>3, BodyKept DEF Unfinished
    <2> QED
      BY <2>4, <2>5
  <1>6. CASE WorkStops(t)
    <2>1. OneOperationPerLane' /\ AcceptanceInv'
      BY <1>6, LanesShrink DEF WorkStops
    <2>2. BodyInv'
      BY <1>6 DEF WorkStops, BodyInv
    <2> QED
      BY <2>1, <2>2
  <1>7. CASE WorkEnds(t) \/ WorkFinishes(t) \/ WorkRaises(t)
    <2>1. opStatus[thrOp[t]] \in Unfinished /\ thrOp[t] \in Op
      BY <1>7, OwnRow DEF WorkEnds, WorkFinishes, WorkRaises, BodyInv
    <2>2. OneOperationPerLane' /\ AcceptanceInv'
      <3>1. /\ UNCHANGED <<opPhase, finishing>>
            /\ \A p \in Op : p # thrOp[t] => opStatus'[p] = opStatus[p]
        BY SMTT(30), <1>7, <2>1 DEF TypeOK, WorkEnds, WorkFinishes, WorkRaises, set_status
      <3> QED
        BY <2>1, <3>1, LanesShrink
    <2>3. BodyInv'
      <3>1. /\ UNCHANGED <<thrOp, dispatch, finishing>> /\ pc[t] # "idle"
            /\ pc'[t] \notin {"working", "raising"} /\ child'[t] = NoOp
            /\ \A u \in Thread : u # t => pc'[u] = pc[u] /\ child'[u] = child[u]
        BY SMTT(30), <1>7 DEF TypeOK, WorkEnds, WorkFinishes, WorkRaises, set_status, Leave, Goto
      <3>2. /\ UNCHANGED opPhase /\ opStatus'[thrOp[t]] # "none"
            /\ \A p \in Op : p # thrOp[t] => opStatus'[p] = opStatus[p]
        BY SMTT(30), <1>7, <2>1 DEF TypeOK, WorkEnds, WorkFinishes, WorkRaises, set_status, Unfinished
      <3> QED
        BY <3>1, <3>2, OthersUndisturbed
    <2> QED
      BY <2>2, <2>3
  <1>8. CASE WorkAccepts(t)
    <2>1. /\ thrOp[t] \in Op /\ opStatus[thrOp[t]] \in Unfinished
          /\ opPhase[thrOp[t]] \notin PlaceholderPhases
      BY <1>8, OwnRow DEF WorkAccepts, BodyInv
    <2>2. \A f \in Op : /\ ScopeOf[f] = ScopeOf[thrOp[t]]
                        /\ opStatus[f] \in Unfinished
                        => f = thrOp[t]
      BY SMTT(30), <1>8, <2>1 DEF WorkAccepts, OneOperationPerLane, AcceptanceInv, TypeOK
    <2>3. OneOperationPerLane' /\ AcceptanceInv'
      <3>1. /\ opStatus' = opStatus /\ finishing'[thrOp[t]]
            /\ \A p \in Op : p # thrOp[t] =>
                  finishing'[p] = finishing[p] /\ opPhase'[p] = opPhase[p]
        BY SMTT(30), <1>8, <2>1 DEF WorkAccepts, TypeOK
      <3>2. OneOperationPerLane'
        BY <2>2, <3>1 DEF OneOperationPerLane
      <3>3. AcceptanceInv'
        BY <2>1, <2>2, <3>1 DEF AcceptanceInv
      <3> QED
        BY <3>2, <3>3
    <2>4. BodyInv'
      <3>1. /\ opPhase'[thrOp[t]] = "deployment_healthy" /\ pc[t] = "working"
            /\ UNCHANGED <<opStatus, dispatch, thrOp, pc, child>>
            /\ \A p \in Op : p # thrOp[t] => /\ opPhase'[p] = opPhase[p]
                                             /\ finishing'[p] = finishing[p]
        BY SMTT(30), <1>8, <2>1 DEF WorkAccepts, TypeOK
      <3> QED
        BY <2>1, <3>1, BodyKept DEF PlaceholderPhases
    <2> QED
      BY <2>3, <2>4
  <1>9. CASE WorkCheckpoints(t)
    <2>1. thrOp[t] \in Op
      BY <1>9, OwnRow DEF WorkCheckpoints
    <2>2. PICK next \in FinishingPhases :
            opPhase' = [opPhase EXCEPT ![thrOp[t]] = next]
      BY <1>9 DEF WorkCheckpoints, FinishingSuccessors
    <2>3. /\ UNCHANGED <<opStatus, finishing, dispatch, thrOp, pc, child>>
          /\ pc[t] = "working" /\ finishing[thrOp[t]]
          /\ opPhase'[thrOp[t]] \in FinishingPhases
          /\ \A p \in Op : p # thrOp[t] => opPhase'[p] = opPhase[p]
      BY SMTT(30), <1>9, <2>1, <2>2 DEF TypeOK, WorkCheckpoints
    <2>4. OneOperationPerLane' /\ AcceptanceInv'
      BY <2>3, LanesShrink
    <2>5. BodyInv'
      <3>1. opStatus[thrOp[t]] \in Unfinished
        BY <2>3 DEF BodyInv
      <3>2. opPhase'[thrOp[t]] \notin PlaceholderPhases
        BY <2>3 DEF FinishingPhases, PlaceholderPhases
      <3> QED
        BY <2>3, <3>1, <3>2, BodyKept
    <2> QED
      BY <2>4, <2>5
  <1>12. ASSUME pc[t] \notin {"idle", "working", "raising"},
                UNCHANGED <<dispatch, thrOp, finishing, child>>,
                NEW o, o = thrOp[t],
                \/ UNCHANGED <<opStatus, opPhase>>
                \/ opStatus[o] = "none" /\ MayBegin(o) /\
                     \E phase \in PlaceholderPhases : begin_operation(o, phase)
                \/ opStatus[o] \in Unfinished /\
                     \E st \in Statuses \ {"none"} :
                         opStatus' = [opStatus EXCEPT ![o] = st]
                         /\ UNCHANGED opPhase
                \/ \E st \in Terminal :
                     opStatus' = [opStatus EXCEPT ![o] = st]
                     /\ UNCHANGED opPhase,
                \E label \in ThreadStates \ {"working", "raising"} : Goto(t, label)
         PROVE  LaneInv'
    <2>1. o \in Op
      BY <1>12, OwnRow
    <2>2. OneOperationPerLane' /\ AcceptanceInv'
      <3>1. CASE opStatus[o] = "none" /\ MayBegin(o) /\
                   \E phase \in PlaceholderPhases : begin_operation(o, phase)
        BY <2>1, <3>1, LanesBegin DEF Phases
      <3>2. CASE ~\E phase \in PlaceholderPhases : begin_operation(o, phase)
        BY SMTT(30), <1>12, <2>1, <3>2, LanesShrink DEF TypeOK, Unfinished, Terminal
      <3> QED
        BY SMTT(30), <1>12, <2>1, <3>1, <3>2, LanesShrink
        DEF TypeOK, Unfinished, Terminal
    <2>3. BodyInv'
      <3>1. /\ pc'[t] \notin {"working", "raising"} /\ child[t] = NoOp
            /\ \A u \in Thread : u # t => pc'[u] = pc[u]
        BY SMTT(30), <1>0, <1>12 DEF TypeOK, Goto
      <3>2. /\ \A p \in Op : p # o => /\ opStatus'[p] = opStatus[p]
                                      /\ opPhase'[p] = opPhase[p]
            /\ opStatus'[o] = opStatus[o] \/ opStatus'[o] # "none"
        BY SMTT(30), <1>12, <2>1 DEF TypeOK, begin_operation, Terminal
      <3> QED
        BY <1>12, <3>1, <3>2, OthersUndisturbed
    <2> QED
      BY <2>2, <2>3
  <1>13. CASE AfterReturn(t)
    <2>1. pc[t] = "returned" /\ UNCHANGED <<dispatch, thrOp, finishing, child>>
      BY <1>13 DEF AfterReturn, begin_operation
    <2>2. \E label \in ThreadStates \ {"working", "raising"} : Goto(t, label)
      BY <1>13 DEF AfterReturn, ThreadStates
    <2>3. \/ UNCHANGED <<opStatus, opPhase>>
          \/ opStatus[thrOp[t]] = "none" /\ MayBegin(thrOp[t]) /\
               \E phase \in PlaceholderPhases : begin_operation(thrOp[t], phase)
      BY <1>13 DEF AfterReturn, PlaceholderPhases
    <2> QED
      BY <1>12, <2>1, <2>2, <2>3
  <1>14. CASE AfterRaise(t)
    <2>1. pc[t] = "raised" /\ UNCHANGED <<dispatch, thrOp, finishing, child>>
      BY <1>14 DEF AfterRaise, begin_operation, set_status
    <2>2. \E label \in ThreadStates \ {"working", "raising"} : Goto(t, label)
      BY <1>14 DEF AfterRaise, ThreadStates
    <2>3. \/ UNCHANGED <<opStatus, opPhase>>
          \/ opStatus[thrOp[t]] = "none" /\ MayBegin(thrOp[t]) /\
               \E phase \in PlaceholderPhases : begin_operation(thrOp[t], phase)
          \/ opStatus[thrOp[t]] \in Unfinished /\
               \E st \in Statuses \ {"none"} :
                   opStatus' = [opStatus EXCEPT ![thrOp[t]] = st]
                   /\ UNCHANGED opPhase
      BY <1>14 DEF AfterRaise, set_status, PlaceholderPhases, Statuses, Unfinished
    <2> QED
      BY <1>12, <2>1, <2>2, <2>3
  <1>15. CASE SettlePlaceholder(t)
    BY <1>12, <1>15 DEF SettlePlaceholder, set_status, Terminal, ThreadStates
  <1>16. CASE Reschedule(t)
    BY <1>12, <1>16
    DEF Reschedule, FinishingPending, schedule, Statuses, ThreadStates
  <1>17. CASE Conclude(t)
    <2>1. OneOperationPerLane' /\ AcceptanceInv'
      BY <1>17, LanesShrink DEF Conclude
    <2>2. BodyInv'
      <3>1. /\ UNCHANGED <<child, opStatus, opPhase, finishing>>
            /\ pc'[t] = "idle" /\ child[t] = NoOp
            /\ \A u \in Thread : u # t => pc'[u] = pc[u] /\ thrOp'[u] = thrOp[u]
        BY SMTT(30), <1>0, <1>17 DEF TypeOK, Conclude, Goto
      <3>2. \A o \in Op : o # thrOp[t] => dispatch'[o] = dispatch[o]
        BY <1>17 DEF TypeOK, Conclude, set_operation_dispatch_status
      <3>3. KindOf[thrOp[t]] # "child"
        BY <1>17, OwnRow DEF Conclude
      <3> QED
        <4>1. \A u \in Thread : pc'[u] \in {"working", "raising"} =>
                  /\ opStatus'[thrOp'[u]] \in Unfinished
                  /\ opPhase'[thrOp'[u]] \notin PlaceholderPhases
          BY <3>1 DEF BodyInv
        <4>2. \A u \in Thread : child'[u] # NoOp =>
                  /\ pc'[u] = "working" /\ KindOf[thrOp'[u]] = "migrate"
                  /\ KindOf[child'[u]] = "child" /\ opStatus'[child'[u]] \in Unfinished
          BY SMTT(30), <3>1 DEF BodyInv
        <4>3. /\ \A o \in Op : dispatch'[o] # "none" => KindOf[o] # "child"
              /\ \A o \in Op : finishing'[o] => opStatus'[o] # "none"
          BY <3>1, <3>2, <3>3 DEF BodyInv
        <4> QED
          BY <4>1, <4>2, <4>3 DEF BodyInv
    <2> QED
      BY <2>1, <2>2
  <1> QED
    BY <1>1, <1>2, <1>3, <1>4, <1>5, <1>6, <1>7, <1>8, <1>9,
       <1>13, <1>14, <1>15, <1>16, <1>17
    DEF ThreadStep

-----------------------------------------------------------------------------
\* The lane invariants survive what a migrate does to a child operation.
LEMMA LaneChildStep ==
  ASSUME TypeOK, CarrierInv, LaneInv, NEW t \in Thread,
         ChildSucceeds(t) \/ ChildFails(t) \/ \E c \in Op : ChildBegins(t, c)
  PROVE  LaneInv'
  <1> USE ConstantsAssumption
          DEF LaneInv, journal, dispatches, memory, boot
  <1>1. ASSUME NEW c \in Op, ChildBegins(t, c) PROVE LaneInv'
    <2>1. OneOperationPerLane' /\ AcceptanceInv'
      <3>1. CASE opStatus[c] = "none" /\ MayBegin(c) /\ begin_operation(c, "domain")
        BY <1>1, <3>1, LanesBegin DEF ChildBegins, Phases
      <3>2. CASE opStatus[c] \in Unfinished /\ set_status(c, "running")
        BY <1>1, <3>2, LanesShrink DEF TypeOK, set_status
      <3> QED
        BY <1>1, <3>1, <3>2 DEF ChildBegins
    <2>2. thrOp[t] \in Op /\ \A u \in Thread : thrOp[u] # c
      BY <1>1, OwnRow
      DEF ChildBegins, CarrierInv, ExecutedExactlyOnce, BodyInv, Interrupted,
          TypeOK
    <2>3. /\ \A u \in Thread : pc[u] # "idle" => thrOp[u] \in Op
          /\ \A u \in Thread : child[u] # NoOp => child[u] \in Op
      BY DEF TypeOK, CarrierInv
    <2>4. /\ opStatus'[c] = "running"
          /\ \A p \in Op : p # c => opStatus'[p] = opStatus[p]
          /\ \A p \in Op : p # c => opPhase'[p] = opPhase[p]
          /\ UNCHANGED finishing
      BY SMTT(30), <1>1 DEF TypeOK, ChildBegins, begin_operation, set_status
    <2>5. child'[t] = c /\ \A u \in Thread : u # t => child'[u] = child[u]
      BY SMTT(30), <1>1 DEF TypeOK, ChildBegins
    <2>6. /\ UNCHANGED <<dispatch, thrOp, pc>> /\ pc[t] = "working"
          /\ KindOf[thrOp[t]] = "migrate" /\ KindOf[c] = "child"
      BY <1>1 DEF ChildBegins, begin_operation, set_status
    <2>7. \A u \in Thread :
            pc'[u] \in {"working", "raising"} =>
                /\ opStatus'[thrOp'[u]] \in Unfinished
                /\ opPhase'[thrOp'[u]] \notin PlaceholderPhases
      BY <2>2, <2>3, <2>4, <2>6 DEF BodyInv
    <2>8. \A u \in Thread :
            child'[u] # NoOp =>
                /\ pc'[u] = "working" /\ KindOf[thrOp'[u]] = "migrate"
                /\ KindOf[child'[u]] = "child"
                /\ opStatus'[child'[u]] \in Unfinished
      <3> SUFFICES ASSUME NEW u \in Thread, child'[u] # NoOp
                   PROVE  /\ pc'[u] = "working" /\ KindOf[thrOp'[u]] = "migrate"
                          /\ KindOf[child'[u]] = "child"
                          /\ opStatus'[child'[u]] \in Unfinished
        OBVIOUS
      <3>1. CASE u = t
        BY <2>4, <2>5, <2>6, <3>1 DEF Unfinished
      <3>2. CASE u # t
        <4>1. child'[u] = child[u] /\ child[u] \in Op
          BY <2>3, <2>5, <3>2
        <4>2. /\ pc[u] = "working" /\ KindOf[thrOp[u]] = "migrate"
              /\ KindOf[child[u]] = "child" /\ opStatus[child[u]] \in Unfinished
          BY <4>1 DEF BodyInv
        <4> QED
          BY <2>4, <2>6, <4>1, <4>2 DEF Unfinished
      <3> QED
        BY <3>1, <3>2
    <2>9. \A o \in Op : finishing'[o] => opStatus'[o] # "none"
      BY <2>4 DEF BodyInv
    <2>10. BodyInv'
      BY <2>6, <2>7, <2>8, <2>9 DEF BodyInv
    <2> QED
      BY <2>1, <2>10
  <1>2. CASE ChildSucceeds(t) \/ ChildFails(t)
    <2>1. /\ child[t] \in Op /\ KindOf[child[t]] = "child"
          /\ opStatus[child[t]] \in Unfinished
      BY <1>2 DEF ChildSucceeds, ChildFails, BodyInv, TypeOK
    <2>2. OneOperationPerLane' /\ AcceptanceInv'
      <3>1. /\ UNCHANGED <<opPhase, finishing>>
            /\ \A p \in Op : p # child[t] => opStatus'[p] = opStatus[p]
        BY SMTT(30), <1>2 DEF TypeOK, ChildSucceeds, ChildFails, set_status
      <3> QED
        BY <2>1, <3>1, LanesShrink
    <2>3. \A u \in Thread : thrOp[u] # child[t]
      <3> SUFFICES ASSUME NEW u \in Thread, thrOp[u] = child[t] PROVE FALSE
        OBVIOUS
      <3>1. pc[u] # "idle"
        BY <2>1, ConstantsAssumption DEF CarrierInv
      <3> QED
        BY <2>1, <3>1, OwnRow
    <2>4. \A u \in Thread : u # t => child[u] = NoOp
      <3> SUFFICES ASSUME NEW u \in Thread, u # t, child[u] # NoOp PROVE FALSE
        OBVIOUS
      <3>1. pc[t] # "idle" /\ KindOf[thrOp[t]] = "migrate"
        BY <1>2 DEF ChildSucceeds, ChildFails, BodyInv
      <3> QED
        BY <3>1, OwnRow
    <2>5. /\ UNCHANGED <<dispatch, thrOp, opPhase, finishing>>
          /\ \A u \in Thread : pc'[u] \in {"working", "raising"}
                              => pc[u] \in {"working", "raising"}
          /\ \A u \in Thread : child'[u] = NoOp
          /\ opStatus'[child[t]] # "none"
          /\ \A p \in Op : p # child[t] => opStatus'[p] = opStatus[p]
      <3>1. /\ UNCHANGED <<dispatch, thrOp, opPhase, finishing>>
            /\ child' = [child EXCEPT ![t] = NoOp] /\ pc[t] = "working"
            /\ pc' = pc \/ Goto(t, "raising")
            /\ \E s \in {"succeeded", "recovery_required"} :
                  opStatus' = [opStatus EXCEPT ![child[t]] = s]
        BY <1>2 DEF ChildSucceeds, ChildFails, set_status
      <3>2. \A u \in Thread : pc'[u] \in {"working", "raising"}
                              => pc[u] \in {"working", "raising"}
        BY SMTT(30), <3>1 DEF TypeOK, Goto
      <3>3. \A u \in Thread : child'[u] = NoOp
        BY <2>4, <3>1 DEF TypeOK
      <3>4. /\ opStatus'[child[t]] # "none"
            /\ \A p \in Op : p # child[t] => opStatus'[p] = opStatus[p]
        BY SMTT(30), <2>1, <3>1 DEF TypeOK
      <3> QED
        BY <3>1, <3>2, <3>3, <3>4
    <2>6. \A u \in Thread :
            pc'[u] \in {"working", "raising"} =>
                /\ opStatus'[thrOp'[u]] \in Unfinished
                /\ opPhase'[thrOp'[u]] \notin PlaceholderPhases
      <3>1. \A u \in Thread : pc[u] # "idle" => thrOp[u] \in Op
        BY DEF TypeOK, CarrierInv
      <3> QED
        BY <2>3, <2>5, <3>1 DEF BodyInv
    <2>7. /\ \A o \in Op : dispatch'[o] # "none" => KindOf[o] # "child"
          /\ \A o \in Op : finishing'[o] => opStatus'[o] # "none"
      BY <2>5 DEF BodyInv
    <2>8. BodyInv'
      BY <2>5, <2>6, <2>7 DEF BodyInv
    <2> QED
      BY <2>2, <2>8
  <1> QED
    BY <1>1, <1>2

\* The lane invariants survive every step.
LEMMA LaneStep ==
  TypeOK /\ CarrierInv /\ LaneInv /\ [Next]_vars => LaneInv'
  <1> SUFFICES ASSUME TypeOK, CarrierInv, LaneInv, [Next]_vars PROVE LaneInv'
    OBVIOUS
  <1> USE ConstantsAssumption
          DEF LaneInv, journal, dispatches, memory, boot
  <1>1. ASSUME NEW o \in Op,
               submit(o) \/ resubmit_recovery(o) \/ retry_due(o)
        PROVE  LaneInv'
    <2>1. OneOperationPerLane' /\ AcceptanceInv'
      BY <1>1, LanesShrink DEF submit, resubmit_recovery, retry_due
    <2>2. /\ UNCHANGED <<opStatus, opPhase, finishing, thrOp, pc, child>>
          /\ \A p \in Op : p # o => dispatch'[p] = dispatch[p]
          /\ dispatch[o] # "none" \/ KindOf[o] # "child"
      <3>1. /\ UNCHANGED <<opStatus, opPhase, finishing, thrOp, pc, child>>
            /\ dispatch' = [dispatch EXCEPT ![o] = "pending"]
            /\ dispatch[o] # "none" \/ KindOf[o] # "child"
        BY <1>1
        DEF submit, resubmit_recovery, retry_due, Requeueable, Enqueue
      <3> QED
        BY <3>1 DEF TypeOK
    <2>3. \A p \in Op : dispatch'[p] # "none" => KindOf[p] # "child"
      BY <2>2 DEF BodyInv
    <2>4. BodyInv'
      BY <2>2, <2>3 DEF BodyInv
    <2> QED
      BY SMTT(30), <2>1, <2>4
  <1>2. CASE \/ \E o \in Op : BackoffElapses(o)
             \/ Close \/ Drained \/ Start \/ StartupDone \/ UNCHANGED vars
             \/ \E o \in Op : StartupSkips(o)
    <2>1. UNCHANGED <<opStatus, opPhase, finishing, dispatch, thrOp, pc, child>>
      BY <1>2
      DEF BackoffElapses, Close, Drained, Start, StartupDone, StartupSkips, vars
    <2>2. OneOperationPerLane' /\ AcceptanceInv'
      BY <2>1, LanesShrink
    <2> QED
      BY <2>1, <2>2 DEF BodyInv
  <1>3. ASSUME NEW t \in Thread, ThreadStep(t) PROVE LaneInv'
    BY <1>3, LaneThreadStep, LaneChildStep
  <1>4. CASE Exit \/ Crash
    <2>1. OneOperationPerLane' /\ AcceptanceInv'
      BY <1>4, LanesShrink DEF Exit, Crash
    <2>2. /\ UNCHANGED <<opStatus, finishing, dispatch>>
          /\ \A t \in Thread : pc'[t] = "idle" /\ child'[t] = NoOp
      BY <1>4 DEF Exit, Crash, LoseMemory
    <2>3. BodyInv'
      BY <2>2 DEF BodyInv
    <2> QED
      BY <2>1, <2>3
  <1>5. ASSUME proc = "startup", UNCHANGED <<thrOp, pc, child, finishing>>,
               \A o \in Op : /\ opStatus'[o] = "none" => opStatus[o] = "none"
                             /\ dispatch'[o] # "none" => dispatch[o] # "none"
        PROVE  BodyInv'
    <2>1. \A t \in Thread : pc[t] = "idle" /\ child[t] = NoOp
      BY <1>5 DEF CarrierInv, BodyInv
    <2> QED
      BY <1>5, <2>1 DEF BodyInv
  <1>6. ASSUME NEW o \in Op, StartupSchedules(o) \/ StartupMarksRecovery(o)
        PROVE  LaneInv'
    <2>1. /\ UNCHANGED <<opPhase, finishing, dispatch, thrOp, pc, child>>
          /\ proc = "startup" /\ opStatus[o] \in Unfinished
          /\ \E s \in Statuses \ {"none"} : opStatus' = [opStatus EXCEPT ![o] = s]
      BY <1>6
      DEF StartupSchedules, StartupMarksRecovery, Visiting, FinishingPending, schedule,
          set_status, Statuses
    <2>2. /\ UNCHANGED <<opPhase, finishing, dispatch, thrOp, pc, child>>
          /\ proc = "startup" /\ opStatus[o] \in Unfinished
          /\ \A p \in Op : p # o => opStatus'[p] = opStatus[p]
          /\ opStatus'[o] # "none"
      BY SMTT(30), <2>1 DEF TypeOK
    <2>3. OneOperationPerLane' /\ AcceptanceInv'
      BY <2>2, LanesShrink
    <2>4. BodyInv'
      BY <1>5, <2>2
    <2> QED
      BY <2>3, <2>4
  <1>7. ASSUME NEW o \in Op, StartupConcludes(o) \/ StartupFindsScopeTaken(o)
        PROVE  LaneInv'
    <2>1. OneOperationPerLane' /\ AcceptanceInv'
      BY <1>7, LanesShrink DEF StartupConcludes, StartupFindsScopeTaken
    <2>2. BodyInv'
      <3>1. /\ UNCHANGED <<opStatus, finishing, thrOp, pc, child>>
            /\ proc = "startup" /\ dispatch[o] # "none"
            /\ \E s \in {"finished", "recovery_required"} :
                  dispatch' = [dispatch EXCEPT ![o] = s]
        BY <1>7
        DEF StartupConcludes, StartupFindsScopeTaken, Visiting, Interrupted,
            set_operation_dispatch_status
      <3>2. \A p \in Op : dispatch'[p] # "none" => dispatch[p] # "none"
        BY SMTT(30), <3>1 DEF TypeOK
      <3> QED
        BY <1>5, <3>1, <3>2
    <2> QED
      BY <2>1, <2>2
  <1>8. ASSUME NEW o \in Op, StartupPlaces(o) PROVE LaneInv'
    <2>1. OneOperationPerLane' /\ AcceptanceInv'
      BY <1>8, LanesBegin DEF StartupPlaces, Phases, PlaceholderPhases
    <2>2. BodyInv'
      BY <1>5, <1>8 DEF TypeOK, StartupPlaces, Visiting, begin_operation
    <2> QED
      BY <2>1, <2>2
  <1>9. CASE StartupFails
    <2>1. OneOperationPerLane' /\ AcceptanceInv'
      BY <1>9, LanesShrink DEF TypeOK, StartupFails, set_status, Unfinished
    <2>2. BodyInv'
      BY <1>5, <1>9 DEF TypeOK, StartupFails, set_status
    <2> QED
      BY <2>1, <2>2
  <1>10. CASE StartupSetsDispatch
    <2>1. OneOperationPerLane' /\ AcceptanceInv'
      BY <1>10, LanesShrink DEF StartupSetsDispatch
    <2>2. BodyInv'
      BY <1>5, <1>10
      DEF TypeOK, CarrierInv, StartupSetsDispatch, set_operation_dispatch_status
    <2> QED
      BY <2>1, <2>2
  <1> QED
    BY <1>1, <1>2, <1>3, <1>4, <1>6, <1>7, <1>8, <1>9, <1>10
    DEF Next, StartupStep

\* The two lanes of a scope never hold two unfinished operations each: the
\* guards of begin_operation and the acceptance transaction suffice, without
\* the partial unique indexes of the schema.
THEOREM LanesExclusive == Spec => []OneOperationPerLane
  <1>1. Init => CarrierInv /\ LaneInv
    BY SMTT(30), ConstantsAssumption
    DEF Init, CarrierInv, ExecutedExactlyOnce, Interrupted, LaneInv,
        OneOperationPerLane, AcceptanceInv, BodyInv, Unfinished
  <1>2. LaneInv => OneOperationPerLane
    BY DEF LaneInv
  <1> QED
    BY <1>1, <1>2, TypeCorrect, CarrierStep, LaneStep, PTL DEF Spec

-----------------------------------------------------------------------------
(***************************************************************************)
(* What each step of Dispatch does to the rows of the two tables, reduced  *)
(* to eleven moves, and what those moves keep.                             *)
(***************************************************************************)
rows == <<opStatus, opPhase, finishing, desired, dispatch, dispatchFinishing>>

Begins(o) ==
    /\ opStatus[o] = "none"
    /\ MayBegin(o)
    /\ \/ Interrupted(o)
       \/ /\ KindOf[o] = "child"
          /\ \A m \in Op : KindOf[m] = "migrate" =>
                 opStatus[m] \in Unfinished /\ opPhase[m] \notin PlaceholderPhases
    /\ \E phase \in Phases : opPhase' = [opPhase EXCEPT ![o] = phase]
    /\ opStatus' = [opStatus EXCEPT ![o] = "running"]
    /\ UNCHANGED <<finishing, desired, dispatch, dispatchFinishing>>

Accepts(o) ==
    /\ Interrupted(o) /\ opStatus[o] \in Unfinished /\ ~finishing[o]
    /\ KindOf[o] \in {"deploy", "enable"} /\ opPhase[o] \notin PlaceholderPhases
    /\ finishing' = [finishing EXCEPT ![o] = TRUE]
    /\ dispatchFinishing' = [dispatchFinishing EXCEPT ![o] = TRUE]
    /\ opPhase' = [opPhase EXCEPT ![o] = "deployment_healthy"]
    /\ desired' = [desired EXCEPT ![ScopeOf[o]] = TRUE]
    /\ UNCHANGED <<opStatus, dispatch>>

Ends(o) ==
    /\ Interrupted(o) \/ KindOf[o] = "child"
    /\ opStatus[o] \in Unfinished
    /\ KindOf[o] = "migrate" =>
          \/ opPhase[o] \in PlaceholderPhases
          \/ \A c \in Op : KindOf[c] = "child" => opStatus[c] = "succeeded"
    /\ \E result \in Terminal :
          /\ finishing[o] => result = "succeeded"
          /\ opStatus' = [opStatus EXCEPT ![o] = result]
    /\ UNCHANGED <<opPhase, finishing, desired, dispatch, dispatchFinishing>>

Marks(o) ==
    /\ opStatus[o] \in Unfinished
    /\ \E status \in Unfinished : opStatus' = [opStatus EXCEPT ![o] = status]
    /\ UNCHANGED <<opPhase, finishing, desired, dispatch, dispatchFinishing>>

Checkpoints(o) ==
    /\ finishing[o]
    /\ \E next \in FinishingSuccessors(o) : opPhase' = [opPhase EXCEPT ![o] = next]
    /\ UNCHANGED <<opStatus, finishing, desired, dispatch, dispatchFinishing>>

Stops(o) ==
    /\ Interrupted(o) /\ opStatus[o] \in Unfinished /\ KindOf[o] = "disable"
    /\ desired' = [desired EXCEPT ![ScopeOf[o]] = FALSE]
    /\ UNCHANGED <<opStatus, opPhase, finishing, dispatch, dispatchFinishing>>

Admits(o) ==
    /\ KindOf[o] # "child" /\ dispatch[o] = "none"
    /\ active_dispatches(ScopeOf[o]) = {}
    /\ MayBegin(o)
    /\ dispatch' = [dispatch EXCEPT ![o] = "pending"]
    /\ UNCHANGED <<opStatus, opPhase, finishing, desired, dispatchFinishing>>

Resumes(o) ==
    /\ dispatch[o] = "recovery_required" /\ opStatus[o] \in Unfinished
    /\ dispatch' = [dispatch EXCEPT ![o] = "pending"]
    /\ UNCHANGED <<opStatus, opPhase, finishing, desired, dispatchFinishing>>

Runs(o) ==
    /\ Interrupted(o)
    /\ dispatch' = [dispatch EXCEPT ![o] = "running"]
    /\ UNCHANGED <<opStatus, opPhase, finishing, desired, dispatchFinishing>>

Rests(o) ==
    /\ Interrupted(o)
    /\ opStatus[o] \in Unfinished \/ Crossed(o)
    /\ dispatch' = [dispatch EXCEPT ![o] = "recovery_required"]
    /\ UNCHANGED <<opStatus, opPhase, finishing, desired, dispatchFinishing>>

Concludes(o) ==
    /\ Interrupted(o)
    /\ opStatus[o] \in Terminal \/ Crossed(o)
    /\ dispatch' = [dispatch EXCEPT ![o] = "finished"]
    /\ UNCHANGED <<opStatus, opPhase, finishing, desired, dispatchFinishing>>

Moves(o) ==
    \/ Begins(o) \/ Accepts(o) \/ Ends(o) \/ Marks(o) \/ Checkpoints(o) \/ Stops(o)
    \/ Admits(o) \/ Resumes(o) \/ Runs(o) \/ Rests(o) \/ Concludes(o)

-----------------------------------------------------------------------------
\* What a thread executes is an interrupted request, by startup's reckoning.
LEMMA CarriedIsInterrupted ==
  ASSUME TypeOK, CarrierInv, NEW t \in Thread, pc[t] # "idle"
  PROVE  thrOp[t] \in Op /\ Interrupted(thrOp[t]) /\ proc # "startup" /\ spc = "next"
  BY DEF TypeOK, CarrierInv, ExecutedExactlyOnce

\* The one reason why the row of an admitted request is refused.
LEMMA RefusedIsCrossed ==
  ASSUME TypeOK, BodyInv, RowInv, NEW o \in Op,
         Interrupted(o), opStatus[o] = "none", ~MayBegin(o)
  PROVE  Crossed(o)
  <1>1. PICK p \in Op : /\ ScopeOf[p] = ScopeOf[o]
                        /\ opStatus[p] \in Unfinished /\ ~finishing[p]
    BY DEF RowInv, ConflictNeverKillsWorker, MayBegin, get_unfinished_operation
  <1>2. p # o
    BY <1>1 DEF Unfinished
  <1>3. o \in active_dispatches(ScopeOf[o])
    BY DEF active_dispatches, Interrupted, RowInv, FlagsInv
  <1>4. CASE KindOf[p] # "child"
    <2>1. p \in active_dispatches(ScopeOf[o])
      BY <1>1, <1>4
      DEF active_dispatches, RowInv, FlagsInv, DutyInv, TypeOK, DispatchStatuses,
          Unfinished
    <2> QED
      BY <1>2, <1>3, <2>1 DEF RowInv, DutyInv
  <1>5. CASE KindOf[p] = "child"
    BY <1>1, <1>5 DEF Crossed, Unfinished
  <1> QED
    BY <1>4, <1>5

\* Every step of a thread is a move or leaves the rows alone.
LEMMA ThreadMoves ==
  ASSUME TypeOK, CarrierInv, LaneInv, PlacedInv, RowInv,
         NEW t \in Thread, ThreadStep(t)
  PROVE  UNCHANGED rows \/ \E o \in Op : Moves(o)
  <1> USE DEF rows, journal, dispatches, memory
  <1>1. CASE \/ \E o \in Op : Take(t, o)
             \/ AcquireLock(t) \/ LockBusy(t) \/ WorkRefuses(t) \/ WorkIsNoop(t)
    BY <1>1 DEF Take, AcquireLock, LockBusy, WorkRefuses, WorkIsNoop
  <1> DEFINE o == thrOp[t]
  <1>0. ASSUME pc[t] # "idle"
        PROVE  o \in Op /\ Interrupted(o) /\ KindOf[o] # "child"
    BY <1>0, CarriedIsInterrupted, OwnRow DEF LaneInv
  <1>w. ASSUME pc[t] \in {"working", "raising"}
        PROVE  /\ o \in Op /\ Interrupted(o) /\ opStatus[o] \in Unfinished
               /\ opPhase[o] \notin PlaceholderPhases
    BY <1>w, <1>0 DEF LaneInv, BodyInv
  <1> HIDE DEF o
  <1>2. CASE MarkRunning(t)
    <2>1. Runs(o)
      BY <1>0, <1>2 DEF MarkRunning, set_operation_dispatch_status, Runs, o
    <2> QED
      BY <1>0, <1>2, <2>1 DEF Moves, MarkRunning
  <1>3. CASE WorkBegins(t)
    <2>1. Begins(o)
      BY <1>0, <1>3 DEF WorkBegins, begin_operation, Begins, o, Phases
    <2> QED
      BY <1>0, <1>3, <2>1 DEF Moves, WorkBegins
  <1>4. CASE WorkResumes(t)
    <2>1. Marks(o)
      BY <1>0, <1>4 DEF WorkResumes, set_status, Marks, o, Unfinished
    <2> QED
      BY <1>0, <1>4, <2>1 DEF Moves, WorkResumes
  <1>5. CASE WorkStops(t)
    <2>1. Stops(o)
      BY <1>w, <1>5 DEF WorkStops, Stops, o
    <2> QED
      BY <1>w, <1>5, <2>1 DEF Moves, WorkStops
  <1>6. CASE WorkEnds(t)
    <2>1. Ends(o)
      BY <1>w, <1>6
      DEF WorkEnds, Ends, set_status, MaySucceed, MayFail, Terminal, o
    <2> QED
      BY <1>w, <1>6, <2>1 DEF Moves, WorkEnds
  <1>7. CASE WorkRaises(t)
    <2>1. UNCHANGED rows \/ Marks(o)
      BY <1>w, <1>7 DEF WorkRaises, Marks, set_status, Unfinished, o
    <2> QED
      BY <1>w, <1>7, <2>1 DEF Moves, WorkRaises
  <1>8. CASE WorkAccepts(t)
    <2>1. Accepts(o)
      BY <1>w, <1>8 DEF WorkAccepts, Accepts, o
    <2> QED
      BY <1>w, <1>8, <2>1 DEF Moves, WorkAccepts
  <1>9. CASE WorkCheckpoints(t)
    <2>1. Checkpoints(o)
      BY <1>w, <1>9 DEF WorkCheckpoints, Checkpoints, o
    <2> QED
      BY <1>w, <1>9, <2>1 DEF Moves, WorkCheckpoints
  <1>10. CASE WorkFinishes(t)
    <2>1. KindOf[o] # "migrate"
      BY <1>w, <1>10 DEF WorkFinishes, RowInv, FlagsInv, o
    <2>2. Ends(o)
      BY <1>w, <1>10, <2>1 DEF WorkFinishes, Ends, set_status, Terminal, o
    <2> QED
      BY <1>w, <1>10, <2>2 DEF Moves, WorkFinishes
  <1>11. ASSUME NEW c \in Op, ChildBegins(t, c)
         PROVE  UNCHANGED rows \/ \E p \in Op : Moves(p)
    <2>1. /\ opStatus[o] \in Unfinished /\ opPhase[o] \notin PlaceholderPhases
          /\ KindOf[o] = "migrate" /\ o \in Op
      BY <1>w, <1>11 DEF ChildBegins, o
    <2>2. \A m \in Op : KindOf[m] = "migrate" => m = o
      BY <2>1, ConstantsAssumption
    <2>3. CASE opStatus[c] = "none" /\ MayBegin(c) /\ begin_operation(c, "domain")
      <3>1. Begins(c)
        BY <1>11, <2>1, <2>2, <2>3 DEF Begins, ChildBegins, begin_operation, Phases
      <3> QED
        BY <3>1 DEF Moves
    <2>4. CASE opStatus[c] \in Unfinished /\ set_status(c, "running")
      <3>1. Marks(c)
        BY <1>11, <2>4 DEF Marks, ChildBegins, set_status, Unfinished
      <3> QED
        BY <3>1 DEF Moves
    <2> QED
      BY <1>11, <2>3, <2>4 DEF ChildBegins
  <1>12. CASE ChildSucceeds(t) \/ ChildFails(t)
    <2>1. /\ child[t] \in Op /\ KindOf[child[t]] = "child"
          /\ opStatus[child[t]] \in Unfinished
      BY <1>12 DEF ChildSucceeds, ChildFails, LaneInv, BodyInv, TypeOK
    <2>2. Ends(child[t]) \/ Marks(child[t])
      BY <1>12, <2>1
      DEF ChildSucceeds, ChildFails, Ends, Marks, set_status, Terminal, Unfinished
    <2> QED
      BY <2>1, <2>2 DEF Moves
  <1>13. CASE AfterReturn(t) \/ AfterRaise(t)
    <2>0. pc[t] # "idle"
      BY <1>13 DEF AfterReturn, AfterRaise
    <2>1. UNCHANGED rows \/ Begins(o) \/ Marks(o)
      BY <1>0, <1>13, <2>0
      DEF AfterReturn, AfterRaise, begin_operation, set_status, Begins, Marks,
          Phases, PlaceholderPhases, Unfinished, o
    <2> QED
      BY <1>0, <2>0, <2>1 DEF Moves
  <1>14. CASE SettlePlaceholder(t)
    <2>0. pc[t] # "idle" /\ Placeholder(o)
      BY <1>14 DEF SettlePlaceholder, PlacedInv, Placed, o
    <2>1. Ends(o)
      BY <1>0, <1>14, <2>0
      DEF SettlePlaceholder, Ends, Placeholder, set_status, Terminal, Unfinished, o
    <2> QED
      BY <1>0, <2>0, <2>1 DEF Moves
  <1>15. CASE Reschedule(t)
    <2>1. UNCHANGED rows \/ Marks(o)
      BY <1>15 DEF Reschedule, FinishingPending, schedule, Marks, Unfinished, o
    <2> QED
      BY <1>0, <1>15, <2>1 DEF Moves, Reschedule
  <1>16. CASE Conclude(t)
    <2>0. pc[t] # "idle" /\ Settled(o)
      BY <1>16 DEF Conclude, PlacedInv, Placed, o
    <2>1. Rests(o) \/ Concludes(o)
      BY <1>0, <1>16, <2>0
      DEF Conclude, ConcludedStatus, set_operation_dispatch_status, Settled,
          FinishingPending, Rests, Concludes, Crossed, Terminal, Unfinished, o
    <2> QED
      BY <1>0, <2>0, <2>1 DEF Moves
  <1> QED
    BY <1>1, <1>2, <1>3, <1>4, <1>5, <1>6, <1>7, <1>8, <1>9, <1>10, <1>11,
       <1>12, <1>13, <1>14, <1>15, <1>16
    DEF ThreadStep

\* So is every other step: those of callers, of the clock and of a restart.
LEMMA RowMoves ==
  ASSUME TypeOK, CarrierInv, LaneInv, PlacedInv, RowInv, [Next]_vars
  PROVE  UNCHANGED rows \/ \E o \in Op : Moves(o)
  <1> USE DEF rows, journal, dispatches, memory, Interrupted
  <1>1. ASSUME NEW o \in Op, submit(o) PROVE Admits(o)
    BY <1>1 DEF submit, Enqueue, Admits, MayBegin
  <1>2. ASSUME NEW o \in Op, resubmit_recovery(o) \/ retry_due(o) PROVE Resumes(o)
    BY <1>2 DEF resubmit_recovery, retry_due, Requeueable, Enqueue, Resumes
  <1>3. CASE \/ \E o \in Op : BackoffElapses(o) \/ StartupSkips(o)
             \/ Close \/ Drained \/ Exit \/ Crash \/ Start \/ StartupDone
             \/ UNCHANGED vars
    BY <1>3 DEF BackoffElapses, StartupSkips, Close, Drained, Exit, Crash, Start,
                StartupDone, vars
  <1>4. ASSUME NEW o \in Op, StartupSchedules(o) \/ StartupMarksRecovery(o)
        PROVE  Marks(o)
    BY <1>4 DEF StartupSchedules, StartupMarksRecovery, FinishingPending, schedule,
                set_status, Marks, Unfinished
  <1>5. ASSUME NEW o \in Op, StartupConcludes(o) PROVE Concludes(o)
    BY <1>5 DEF StartupConcludes, set_operation_dispatch_status, Concludes
  <1>6. ASSUME NEW o \in Op, StartupPlaces(o) PROVE Begins(o)
    BY <1>6 DEF StartupPlaces, begin_operation, Begins, Phases, PlaceholderPhases
  <1>7. ASSUME NEW o \in Op, StartupFindsScopeTaken(o) PROVE Rests(o)
    BY <1>7, RefusedIsCrossed
    DEF StartupFindsScopeTaken, set_operation_dispatch_status, Rests, LaneInv
  <1>8. ASSUME StartupFails PROVE cur \in Op /\ Ends(cur)
    <2>1. cur \in Op /\ Interrupted(cur) /\ Placeholder(cur)
      BY <1>8 DEF StartupFails, CarrierInv, TypeOK, PlacedInv
    <2> QED
      BY <1>8, <2>1
      DEF StartupFails, set_status, Placeholder, Ends, Terminal, Unfinished
  <1>9. ASSUME StartupSetsDispatch
        PROVE  UNCHANGED rows \/ (cur \in Op /\ (Concludes(cur) \/ Rests(cur)))
    <2>1. cur \in Op /\ dispatch[cur] # "none" /\ KindOf[cur] # "child"
      BY <1>9 DEF StartupSetsDispatch, CarrierInv, TypeOK, LaneInv, BodyInv
    <2>2. CASE spc = "finish"
      BY <1>9, <2>1, <2>2
      DEF StartupSetsDispatch, PlacedInv, set_operation_dispatch_status, Concludes
    <2>3. CASE spc = "requeue"
      <3>1. opStatus[cur] \in Unfinished /\ dispatch[cur] # "finished"
        BY <2>1, <2>3 DEF PlacedInv, RowInv, DutyInv
      <3>2. CASE dispatch[cur] = "recovery_required"
        BY <1>9, <2>3, <3>2
        DEF StartupSetsDispatch, set_operation_dispatch_status, TypeOK
      <3>3. CASE Interrupted(cur)
        BY <1>9, <2>1, <2>3, <3>1, <3>3
        DEF StartupSetsDispatch, set_operation_dispatch_status, Rests
      <3> QED
        BY <2>1, <3>1, <3>2, <3>3 DEF TypeOK, DispatchStatuses
    <2> QED
      BY <1>9, <2>2, <2>3 DEF StartupSetsDispatch
  <1>10. ASSUME NEW t \in Thread, ThreadStep(t)
         PROVE  UNCHANGED rows \/ \E o \in Op : Moves(o)
    BY <1>10, ThreadMoves
  <1> QED
    BY <1>1, <1>2, <1>3, <1>4, <1>5, <1>6, <1>7, <1>8, <1>9, <1>10
    DEF Next, StartupStep, Moves
=============================================================================
