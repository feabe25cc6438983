----------------------- MODULE DispatchJournalProofs ------------------------
(***************************************************************************)
(* Where a thread, or the startup, stands tells what the row it is about   *)
(* says; with that, the inductive invariant of the journal.                *)
(***************************************************************************)
EXTENDS DispatchProofs, FiniteSetTheorems

\* Most steps are first-order: Zenon is the prover where no other is named.
USE ZenonT(60)

-----------------------------------------------------------------------------
\* The move of one row leaves the others alone.
LEMMA MoveIsLocal ==
  ASSUME TypeOK, NEW o \in Op, Moves(o), NEW p \in Op, p # o
  PROVE  /\ opStatus'[p] = opStatus[p] /\ opPhase'[p] = opPhase[p]
         /\ finishing'[p] = finishing[p] /\ dispatch'[p] = dispatch[p]
         /\ dispatchFinishing'[p] = dispatchFinishing[p]
  BY DEF TypeOK, Moves, Begins, Accepts, Ends, Marks, Checkpoints, Stops, Admits,
         Resumes, Runs, Rests, Concludes

\* mark_operation_finishing writes both tables in one transaction.
LEMMA FlagsKept ==
  ASSUME TypeOK, FlagsInv, NEW o \in Op, Moves(o)
  PROVE  FlagsInv'
  <1> SUFFICES ASSUME NEW p \in Op
               PROVE  /\ dispatchFinishing'[p] = finishing'[p]
                      /\ finishing'[p] => /\ KindOf[p] \in {"deploy", "enable"}
                                          /\ opStatus'[p] \notin {"none", "failed"}
    BY DEF FlagsInv
  <1>1. CASE p # o
    BY <1>1, MoveIsLocal DEF FlagsInv
  <1>2. CASE p = o
    <2>1. CASE Accepts(o)
      BY <1>2, <2>1 DEF TypeOK, FlagsInv, Accepts, Unfinished
    <2>2. CASE Ends(o)
      BY <1>2, <2>2 DEF TypeOK, FlagsInv, Ends
    <2>3. CASE ~Accepts(o) /\ ~Ends(o)
      BY <1>2, <2>3
      DEF TypeOK, FlagsInv, Moves, Begins, Marks, Checkpoints, Stops, Admits, Resumes,
          Runs, Rests, Concludes, Unfinished
    <2> QED
      BY <2>1, <2>2, <2>3
  <1> QED
    BY <1>1, <1>2

\* A row is begun for a request that is admitted and is unfinished no longer than
\* its request; two requests of a scope are active together only when one of them
\* is accepted.
LEMMA DutyKept ==
  ASSUME TypeOK, FlagsInv, DutyInv, NEW o \in Op, Moves(o)
  PROVE  DutyInv'
  <1> DEFINE Active(p) == /\ dispatch[p] \in {"pending", "running", "recovery_required"}
                          /\ ~dispatchFinishing[p]
             Backed(p) == KindOf[p] # "child" =>
                            /\ opStatus[p] # "none" => dispatch[p] # "none"
                            /\ opStatus[p] \in Unfinished => dispatch[p] # "finished"
  <1>0. /\ DutyInv <=> /\ \A p \in Op : Backed(p)
                       /\ \A p, q \in Op : ScopeOf[p] = ScopeOf[q] /\ Active(p)
                                           /\ Active(q) => p = q
        /\ DutyInv' <=> /\ \A p \in Op : Backed(p)'
                        /\ \A p, q \in Op : ScopeOf[p] = ScopeOf[q] /\ Active(p)'
                                            /\ Active(q)' => p = q
    BY DEF DutyInv, active_dispatches
  <1>1. \A p \in Op : p # o => (Active(p)' <=> Active(p)) /\ (Backed(p)' <=> Backed(p))
    BY MoveIsLocal
  <1>2. Backed(o)'
    <2>1. CASE Begins(o) \/ Ends(o) \/ Marks(o) \/ Accepts(o) \/ Checkpoints(o) \/ Stops(o)
      BY <1>0, <2>1
      DEF TypeOK, Begins, Ends, Marks, Accepts, Checkpoints, Stops, Interrupted,
          Unfinished, Terminal
    <2>2. CASE Admits(o) \/ Resumes(o) \/ Runs(o) \/ Rests(o)
      BY <2>2 DEF TypeOK, Admits, Resumes, Runs, Rests
    <2>3. CASE Concludes(o)
      BY <2>3 DEF TypeOK, Concludes, Crossed, Unfinished, Terminal
    <2> QED
      BY <2>1, <2>2, <2>3 DEF Moves
  <1>3. Active(o)' /\ ~Active(o) => \A p \in Op : ScopeOf[p] = ScopeOf[o] => ~Active(p)
    <2>1. CASE Admits(o)
      BY <2>1 DEF Admits, active_dispatches
    <2>2. CASE ~Admits(o)
      BY <2>2
      DEF TypeOK, Moves, Begins, Ends, Marks, Accepts, Checkpoints, Stops, Resumes, Runs,
          Rests, Concludes, Interrupted
    <2> QED
      BY <2>1, <2>2
  <1> HIDE DEF Active, Backed
  <1> QED
    BY <1>0, <1>1, <1>2, <1>3

\* The master of a child is inside its body, or will be replayed.
LEMMA MasterKept ==
  ASSUME TypeOK, BodyInv, FlagsInv, MasterInv, NEW o \in Op, Moves(o)
  PROVE  MasterInv'
  <1> SUFFICES ASSUME NEW m \in Op, NEW c \in Op, KindOf[m] = "migrate",
                      KindOf[c] = "child", opStatus'[c] \in Unfinished
               PROVE  opStatus'[m] \in Unfinished /\ opPhase'[m] \notin PlaceholderPhases
    BY DEF MasterInv
  <1>1. CASE o # m /\ o # c
    BY <1>1, MoveIsLocal DEF MasterInv
  <1>2. CASE o = c
    <2>1. opStatus'[m] = opStatus[m] /\ opPhase'[m] = opPhase[m]
      BY <1>2, MoveIsLocal
    <2>2. CASE Begins(o)
      BY <1>2, <2>1, <2>2 DEF Begins, Interrupted, BodyInv
    <2>3. CASE ~Begins(o)
      <3>1. opStatus[c] \in Unfinished
        BY <1>2, <2>3
        DEF TypeOK, Moves, Ends, Marks, Accepts, Checkpoints, Stops, Admits, Resumes,
            Runs, Rests, Concludes, Unfinished, Terminal
      <3> QED
        BY <2>1, <3>1 DEF MasterInv
    <2> QED
      BY <2>2, <2>3
  <1>3. CASE o = m
    <2>1. opStatus[c] \in Unfinished
      BY <1>3, MoveIsLocal
    <2>2. opStatus[m] \in Unfinished /\ opPhase[m] \notin PlaceholderPhases /\ ~finishing[m]
      BY <2>1 DEF MasterInv, FlagsInv
    <2>3. ~Begins(o) /\ ~Ends(o) /\ ~Accepts(o) /\ ~Checkpoints(o)
      BY <1>3, <2>1, <2>2 DEF Begins, Ends, Accepts, Checkpoints, Unfinished
    <2> QED
      BY <1>3, <2>2, <2>3
      DEF TypeOK, Moves, Marks, Stops, Admits, Resumes, Runs, Rests, Concludes
  <1> QED
    BY <1>1, <1>2, <1>3

\* What was admitted beside an accepted operation stays admitted: the accepted
\* one only advances, nothing else of the scope is accepted, and the application
\* is not stopped, while the request waits.
LEMMA AdmittedKept ==
  ASSUME TypeOK, LaneInv, RowInv, NEW o \in Op, Moves(o)
  PROVE  ConflictNeverKillsWorker'
  <1> SUFFICES ASSUME NEW p \in Op, Interrupted(p)', opStatus'[p] = "none",
                      NEW f \in Op, ScopeOf[f] = ScopeOf[p],
                      opStatus'[f] \in Unfinished, finishing'[f]
               PROVE  \/ KindOf[p] = "compatible"
                      \/ /\ KindOf[p] = "enable"
                         /\ opPhase'[f] \in FinishingPhases \ {"deployment_healthy"}
                         /\ desired'[ScopeOf[p]]
                      \/ /\ KindOf[p] = "disable"
                         /\ opPhase'[f] \in {"predecessor_job_absent", "accepted"}
    BY DEF ConflictNeverKillsWorker, check_finishing_admission, get_finishing_operation
  <1> USE DEF RowInv
  <1>1. opStatus[p] = "none"
    BY MoveIsLocal
    DEF TypeOK, Moves, Begins, Accepts, Ends, Marks, Checkpoints, Stops, Admits, Resumes,
        Runs, Rests, Concludes, Unfinished, Terminal
  <1>2. CASE Admits(o) /\ o = p
    BY <1>2
    DEF Admits, MayBegin, check_finishing_admission, get_finishing_operation
  <1>3. CASE ~Admits(o) \/ o # p
    <2>1. Interrupted(p)
      BY <1>1, <1>3, MoveIsLocal
      DEF TypeOK, Moves, Begins, Accepts, Ends, Marks, Checkpoints, Stops, Resumes,
          Runs, Rests, Concludes, Unfinished, Interrupted
    <2>2. p \in active_dispatches(ScopeOf[p]) /\ KindOf[p] # "child"
      BY <1>1, <2>1
      DEF active_dispatches, Interrupted, FlagsInv, LaneInv, BodyInv
    <2>3. ASSUME Accepts(o) \/ Stops(o) PROVE ScopeOf[o] # ScopeOf[p]
      <3>1. o \in active_dispatches(ScopeOf[o])
        BY <2>3 DEF Accepts, Stops, active_dispatches, Interrupted, FlagsInv
      <3>2. o # p
        BY <1>1, <2>3 DEF Accepts, Stops, Unfinished
      <3> QED
        BY <2>2, <3>1, <3>2 DEF DutyInv
    <2>4. desired'[ScopeOf[p]] = desired[ScopeOf[p]]
      <3>1. CASE Accepts(o) \/ Stops(o)
        <4>1. ScopeOf[o] # ScopeOf[p] /\ ScopeOf[p] \in Scope
          BY <2>3, <3>1, ConstantsAssumption
        <4>2. \E b \in BOOLEAN : desired' = [desired EXCEPT ![ScopeOf[o]] = b]
          BY <3>1 DEF Accepts, Stops
        <4> QED
          BY <4>1, <4>2 DEF TypeOK
      <3>2. CASE ~(Accepts(o) \/ Stops(o))
        BY <3>2
        DEF Moves, Begins, Ends, Marks, Checkpoints, Admits, Resumes, Runs, Rests,
            Concludes
      <3> QED
        BY <3>1, <3>2
    <2>5. opStatus[f] \in Unfinished /\ finishing[f]
      <3>1. CASE o # f
        BY <3>1, MoveIsLocal
      <3>2. CASE o = f
        BY <2>3, <3>2
        DEF TypeOK, Moves, Begins, Accepts, Ends, Marks, Checkpoints, Stops, Admits,
            Resumes, Runs, Rests, Concludes, Unfinished, Terminal, FlagsInv
      <3> QED
        BY <3>1, <3>2
    <2>6. \/ KindOf[p] = "compatible"
          \/ /\ KindOf[p] = "enable"
             /\ opPhase[f] \in FinishingPhases \ {"deployment_healthy"}
             /\ desired[ScopeOf[p]]
          \/ /\ KindOf[p] = "disable"
             /\ opPhase[f] \in {"predecessor_job_absent", "accepted"}
      BY <1>1, <2>1, <2>5
      DEF ConflictNeverKillsWorker, check_finishing_admission, get_finishing_operation
    <2>7. \/ opPhase'[f] = opPhase[f]
          \/ /\ opPhase'[f] \in FinishingPhases \ {"deployment_healthy"}
             /\ opPhase[f] \in {"predecessor_job_absent", "accepted"} =>
                   opPhase'[f] \in {"predecessor_job_absent", "accepted"}
      <3>1. CASE o # f
        BY <3>1, MoveIsLocal
      <3>2. CASE o = f /\ Checkpoints(o)
        BY <3>2
        DEF Checkpoints, FinishingSuccessors, FinishingOrder, FinishingPhases, TypeOK
      <3>3. CASE o = f /\ ~Checkpoints(o)
        BY <2>3, <2>5, <3>3
        DEF TypeOK, Moves, Begins, Accepts, Ends, Marks, Stops, Admits, Resumes, Runs,
            Rests, Concludes, Unfinished
      <3> QED
        BY <3>1, <3>2, <3>3
    <2> QED
      BY <2>4, <2>6, <2>7
  <1> QED
    BY <1>2, <1>3

\* What the rows say stays true.
LEMMA RowStep ==
  ASSUME TypeOK, CarrierInv, LaneInv, PlacedInv, RowInv, [Next]_vars
  PROVE  RowInv'
  <1>1. CASE UNCHANGED rows
    BY <1>1
    DEF rows, RowInv, FlagsInv, DutyInv, active_dispatches, MasterInv,
        ConflictNeverKillsWorker, Interrupted, check_finishing_admission,
        get_finishing_operation
  <1>2. ASSUME NEW o \in Op, Moves(o) PROVE RowInv'
    BY <1>2, FlagsKept, DutyKept, MasterKept, AdmittedKept DEF RowInv, LaneInv
  <1> QED
    BY <1>1, <1>2, RowMoves

-----------------------------------------------------------------------------
\* A step of a thread that writes no row but its own, or a child's, leaves what
\* the other threads rely on.
LEMMA PlacedOthers ==
  ASSUME TypeOK, CarrierInv, LaneInv, PlacedInv, NEW t \in Thread, pc[t] # "idle",
         \A u \in Thread : u # t => pc'[u] = pc[u] /\ thrOp'[u] = thrOp[u],
         \A p \in Op : p # thrOp[t] /\ KindOf[p] # "child" =>
             /\ opStatus'[p] = opStatus[p] /\ opPhase'[p] = opPhase[p]
             /\ finishing'[p] = finishing[p],
         \A p \in Op : opStatus[p] # "none" => opStatus'[p] # "none",
         UNCHANGED spc, Placed(t)'
  PROVE  PlacedInv'
  <1>1. spc' = "next"
    BY CarriedIsInterrupted
  <1>2. ASSUME NEW u \in Thread, u # t PROVE Placed(u)'
    <2>1. CASE pc[u] = "idle"
      BY <1>2, <2>1 DEF Placed
    <2>2. CASE pc[u] # "idle"
      <3>1. thrOp[u] \in Op /\ thrOp[u] # thrOp[t] /\ KindOf[thrOp[u]] # "child"
        BY <1>2, <2>2, OwnRow DEF LaneInv
      <3>2. /\ opStatus'[thrOp'[u]] = opStatus[thrOp[u]] /\ pc'[u] = pc[u]
            /\ opPhase'[thrOp'[u]] = opPhase[thrOp[u]]
            /\ finishing'[thrOp'[u]] = finishing[thrOp[u]]
            /\ thrOp'[u] = thrOp[u]
        BY <1>2, <3>1
      <3>3. Settled(thrOp[u]) => Settled(thrOp[u])'
        BY <3>2 DEF Settled, FinishingPending, Crossed
      <3> QED
        BY <3>2, <3>3 DEF PlacedInv, Placed, Placeholder
    <2> QED
      BY <2>1, <2>2
  <1> QED
    BY <1>1, <1>2 DEF PlacedInv

\* Every step of a thread leaves each thread where its row says.
LEMMA PlacedThreadStep ==
  ASSUME TypeOK, CarrierInv, LaneInv, PlacedInv, RowInv, NEW t \in Thread, ThreadStep(t)
  PROVE  PlacedInv'
  <1> USE DEF journal, dispatches, memory, boot
  <1>1. ASSUME NEW o \in Op, Take(t, o) PROVE PlacedInv'
    BY <1>1
    DEF Take, Goto, TypeOK, PlacedInv, Placed, Settled, Placeholder, FinishingPending,
        Crossed, Interrupted
  <1> DEFINE o == thrOp[t]
  <1>0. ASSUME pc[t] # "idle"
        PROVE  o \in Op /\ Interrupted(o) /\ KindOf[o] # "child"
    BY <1>0, CarriedIsInterrupted, OwnRow DEF LaneInv
  <1>w. ASSUME pc[t] \in {"working", "raising"}
        PROVE  o \in Op /\ opStatus[o] \in Unfinished
    BY <1>w, <1>0 DEF LaneInv, BodyInv
  \* A step that goes to a label where nothing is required.
  <1>a. ASSUME pc[t] # "idle", UNCHANGED <<thrOp, spc>>,
               NEW label \in ThreadStates \ {"returned", "placed_returned",
                                             "placed_rejected", "finally", "conclude"},
               Goto(t, label),
               \A p \in Op : p # o /\ KindOf[p] # "child" =>
                   /\ opStatus'[p] = opStatus[p] /\ opPhase'[p] = opPhase[p]
                   /\ finishing'[p] = finishing[p],
               \A p \in Op : opStatus[p] # "none" => opStatus'[p] # "none"
        PROVE  PlacedInv'
    <2>1. pc'[t] = label /\ \A u \in Thread : u # t => pc'[u] = pc[u]
      BY <1>a DEF TypeOK, Goto
    <2>2. Placed(t)'
      BY <1>a, <2>1 DEF Placed
    <2> QED
      BY <1>a, <2>1, <2>2, PlacedOthers
  <1>2. CASE MarkRunning(t) \/ AcquireLock(t) \/ LockBusy(t) \/ WorkRefuses(t)
    BY <1>2, <1>a DEF MarkRunning, AcquireLock, LockBusy, WorkRefuses, Leave, ThreadStates
  <1>3. CASE WorkBegins(t) \/ WorkResumes(t)
    BY <1>3, <1>a, <1>0
    DEF WorkBegins, WorkResumes, begin_operation, set_status, TypeOK, ThreadStates,
        Unfinished
  <1>4. CASE WorkStops(t) \/ WorkAccepts(t) \/ WorkCheckpoints(t)
    <2>1. /\ pc[t] = "working" /\ UNCHANGED <<thrOp, spc, pc, opStatus>>
          /\ \A p \in Op : p # o => opPhase'[p] = opPhase[p] /\ finishing'[p] = finishing[p]
      BY <1>4, <1>w DEF WorkStops, WorkAccepts, WorkCheckpoints, TypeOK
    <2>2. Placed(t)'
      BY <2>1 DEF Placed
    <2> QED
      BY <2>1, <2>2, PlacedOthers
  <1>5. CASE WorkRaises(t)
    <2>1. /\ \A p \in Op : p # o => opStatus'[p] = opStatus[p]
          /\ \A p \in Op : opStatus[p] # "none" => opStatus'[p] # "none"
          /\ UNCHANGED <<opPhase, finishing, thrOp, spc>> /\ Goto(t, "raised")
          /\ pc[t] # "idle"
      BY <1>5, <1>w DEF WorkRaises, set_status, Leave, TypeOK
    <2> QED
      BY <2>1, <1>a DEF ThreadStates
  <1>6. ASSUME NEW c \in Op, ChildBegins(t, c) PROVE PlacedInv'
    <2>1. /\ pc[t] = "working" /\ UNCHANGED <<thrOp, spc, pc, finishing>>
          /\ \A p \in Op : p # c => opPhase'[p] = opPhase[p] /\ opStatus'[p] = opStatus[p]
          /\ opStatus'[c] # "none" /\ KindOf[c] = "child"
      BY <1>6 DEF ChildBegins, begin_operation, set_status, TypeOK
    <2>2. Placed(t)'
      BY <2>1 DEF Placed
    <2> QED
      BY <2>1, <2>2, PlacedOthers
  <1>7. CASE ChildSucceeds(t) \/ ChildFails(t)
    <2>1. child[t] \in Op /\ KindOf[child[t]] = "child" /\ pc[t] = "working"
      BY <1>7 DEF ChildSucceeds, ChildFails, LaneInv, BodyInv, TypeOK
    <2>2. /\ UNCHANGED <<thrOp, spc, opPhase, finishing>>
          /\ \A p \in Op : p # child[t] => opStatus'[p] = opStatus[p]
          /\ opStatus'[child[t]] # "none"
          /\ \A u \in Thread : u # t => pc'[u] = pc[u]
          /\ pc'[t] \in {"working", "raising"}
      BY <1>7, <2>1 DEF ChildSucceeds, ChildFails, set_status, Goto, TypeOK
    <2>3. Placed(t)'
      BY <2>2 DEF Placed
    <2> QED
      BY <2>1, <2>2, <2>3, PlacedOthers
  \* The steps that establish what a label requires.
  <1>b. ASSUME pc[t] # "idle", UNCHANGED <<thrOp, spc>>, NEW label, Goto(t, label),
               \A p \in Op : p # o =>
                   /\ opStatus'[p] = opStatus[p] /\ opPhase'[p] = opPhase[p]
                   /\ finishing'[p] = finishing[p],
               opStatus[o] # "none" => opStatus'[o] # "none",
               /\ label = "returned" => opStatus'[o] \in Terminal \union {"none"}
               /\ label \in {"placed_returned", "placed_rejected"} => Placeholder(o)'
               /\ label \in {"finally", "conclude"} => Settled(o)'
        PROVE  PlacedInv'
    <2>1. pc'[t] = label /\ \A u \in Thread : u # t => pc'[u] = pc[u]
      BY <1>b DEF TypeOK, Goto
    <2>2. Placed(t)'
      BY <1>b, <2>1 DEF Placed
    <2> QED
      BY <1>b, <2>1, <2>2, PlacedOthers
  <1>8. CASE WorkIsNoop(t)
    BY <1>8, <1>b DEF WorkIsNoop, Leave
  <1>9. CASE WorkEnds(t) \/ WorkFinishes(t)
    <2>1. /\ pc[t] # "idle" /\ UNCHANGED <<thrOp, spc, opPhase, finishing>>
          /\ \A p \in Op : p # o => opStatus'[p] = opStatus[p]
          /\ opStatus'[o] \in Terminal
          /\ Goto(t, "returned") \/ Goto(t, "raised")
      BY <1>9, <1>w DEF WorkEnds, WorkFinishes, set_status, Leave, TypeOK, Terminal
    <2> QED
      BY <2>1, <1>b DEF Terminal
  <1>10. CASE AfterReturn(t)
    <2>0. pc[t] = "returned" /\ UNCHANGED <<thrOp, spc>>
      BY <1>10 DEF AfterReturn
    <2>1. CASE opStatus[o] # "none" /\ Goto(t, "finally") /\ UNCHANGED journal
      BY <2>0, <2>1, <1>b DEF PlacedInv, Placed, Settled
    <2>2. CASE /\ opStatus[o] = "none"
               /\ begin_operation(o, "returned") /\ Goto(t, "placed_returned")
      <3>1. /\ \A p \in Op : p # o => opStatus'[p] = opStatus[p] /\ opPhase'[p] = opPhase[p]
            /\ UNCHANGED finishing /\ Placeholder(o)' /\ opStatus'[o] # "none"
        BY <2>0, <2>2, <1>0
        DEF begin_operation, Placeholder, PlaceholderPhases, TypeOK, RowInv, FlagsInv
      <3> QED
        BY <2>0, <2>2, <3>1, <1>b
    <2>3. CASE Goto(t, "raised") /\ UNCHANGED journal
      BY <2>0, <2>3, <1>b
    <2> QED
      BY <1>10, <2>1, <2>2, <2>3 DEF AfterReturn
  <1>11. CASE AfterRaise(t)
    <2>0. pc[t] = "raised" /\ UNCHANGED <<thrOp, spc>> /\ o \in Op /\ Interrupted(o)
      BY <1>11, <1>0 DEF AfterRaise
    <2>1. CASE /\ opStatus[o] = "none"
               /\ begin_operation(o, "rejected") /\ Goto(t, "placed_rejected")
      <3>1. /\ \A p \in Op : p # o => opStatus'[p] = opStatus[p] /\ opPhase'[p] = opPhase[p]
            /\ UNCHANGED finishing /\ Placeholder(o)' /\ opStatus'[o] # "none"
        BY <2>0, <2>1
        DEF begin_operation, Placeholder, PlaceholderPhases, TypeOK, RowInv, FlagsInv
      <3> QED
        BY <2>0, <2>1, <3>1, <1>b
    <2>2. CASE set_status(o, "recovery_required") /\ Goto(t, "finally")
      <3>1. /\ \A p \in Op : p # o => opStatus'[p] = opStatus[p]
            /\ UNCHANGED <<opPhase, finishing>> /\ opStatus'[o] = "recovery_required"
        BY <2>0, <2>2 DEF set_status, TypeOK
      <3> QED
        BY <2>0, <2>2, <3>1, <1>b DEF Settled
    <2>3. CASE /\ \/ opStatus[o] = "none" /\ ~MayBegin(o)
                  \/ opStatus[o] = "running" /\ finishing[o]
                  \/ opStatus[o] \notin {"none", "running"}
               /\ Goto(t, "finally") /\ UNCHANGED journal
      <3>1. Settled(o)
        BY <2>0, <2>3, RefusedIsCrossed
        DEF Settled, FinishingPending, TypeOK, Statuses, Unfinished, Terminal, LaneInv
      <3>2. Settled(o)'
        BY <2>3, <3>1, <2>0 DEF Settled, FinishingPending, Crossed
      <3> QED
        BY <2>0, <2>3, <3>2, <1>b
    <2> QED
      BY <1>11, <2>1, <2>2, <2>3 DEF AfterRaise
  <1>12. CASE SettlePlaceholder(t)
    <2>1. /\ pc[t] # "idle" /\ UNCHANGED <<thrOp, spc, opPhase, finishing>>
          /\ \A p \in Op : p # o => opStatus'[p] = opStatus[p]
          /\ opStatus'[o] \in Terminal /\ Goto(t, "finally")
      BY <1>12, <1>0 DEF SettlePlaceholder, set_status, TypeOK, Terminal
    <2> QED
      BY <2>1, <1>b DEF Settled, Terminal
  <1>13. CASE Reschedule(t)
    <2>0. pc[t] = "finally" /\ UNCHANGED <<thrOp, spc>> /\ o \in Op /\ Goto(t, "conclude")
      BY <1>13, <1>0 DEF Reschedule
    <2>1. CASE FinishingPending(o) /\ schedule(o)
      <3>1. /\ \A p \in Op : p # o => opStatus'[p] = opStatus[p]
            /\ UNCHANGED <<opPhase, finishing>> /\ opStatus'[o] \in Unfinished
        BY <2>0, <2>1 DEF schedule, TypeOK, Unfinished
      <3> QED
        BY <2>0, <2>1, <3>1, <1>b DEF Settled, FinishingPending, Unfinished
    <2>2. CASE UNCHANGED journal
      <3>1. Settled(o)'
        BY <2>0, <2>2 DEF PlacedInv, Placed, Settled, FinishingPending, Crossed
      <3> QED
        BY <2>0, <2>2, <3>1, <1>b
    <2> QED
      BY <1>13, <2>1, <2>2 DEF Reschedule
  <1>14. CASE Conclude(t)
    <2>1. /\ pc[t] # "idle" /\ UNCHANGED <<spc, opStatus, opPhase, finishing>>
          /\ pc'[t] = "idle"
          /\ \A u \in Thread : u # t => pc'[u] = pc[u] /\ thrOp'[u] = thrOp[u]
      BY <1>14 DEF Conclude, Goto, TypeOK
    <2>2. Placed(t)'
      BY <2>1 DEF Placed
    <2> QED
      BY <2>1, <2>2, PlacedOthers
  <1> HIDE DEF o
  <1> QED
    BY <1>1, <1>2, <1>3, <1>4, <1>5, <1>6, <1>7, <1>8, <1>9, <1>10, <1>11,
       <1>12, <1>13, <1>14
    DEF ThreadStep

\* Threads run while the executor is up, or closing and not yet drained.
LEMMA ThreadRuns ==
  ASSUME TypeOK, CarrierInv, NEW t \in Thread, ThreadStep(t)
  PROVE  proc \in {"up", "closing"} /\ proc' = proc
  <1> USE DEF boot, memory
  <1>1. CASE \E o \in Op : Take(t, o)
    BY <1>1 DEF Take
  <1>2. CASE ~\E o \in Op : Take(t, o)
    <2>1. pc[t] # "idle"
      BY <1>2
      DEF ThreadStep, MarkRunning, AcquireLock, LockBusy, WorkRefuses, WorkIsNoop,
          WorkBegins, WorkResumes, WorkStops, WorkEnds, WorkRaises, WorkAccepts,
          WorkCheckpoints, WorkFinishes, ChildBegins, ChildSucceeds, ChildFails,
          AfterReturn, AfterRaise, SettlePlaceholder, Reschedule, Conclude
    <2>2. UNCHANGED proc
      BY <1>2, QuietStepIsQuiet
      DEF ThreadStep, QuietStep, carriers, MarkRunning, Conclude
    <2> QED
      BY <2>1, <2>2 DEF CarrierInv
  <1> QED
    BY <1>1, <1>2

\* So does every other step.
LEMMA PlacedStep ==
  ASSUME TypeOK, CarrierInv, LaneInv, PlacedInv, RowInv, [Next]_vars
  PROVE  PlacedInv'
  <1> USE DEF journal, dispatches, memory, boot
  <1>1. ASSUME NEW t \in Thread, ThreadStep(t) PROVE PlacedInv'
    BY <1>1, PlacedThreadStep
  \* A caller, the clock or a stop, which write no operation's row.
  <1>2. CASE \/ \E o \in Op : submit(o) \/ resubmit_recovery(o) \/ retry_due(o)
                               \/ BackoffElapses(o)
             \/ Close \/ Drained \/ UNCHANGED vars
    <2>1. UNCHANGED <<opStatus, opPhase, finishing, thrOp, pc, spc, cur>>
      BY <1>2
      DEF submit, resubmit_recovery, retry_due, BackoffElapses, Close, Drained, vars
    <2>2. spc # "next" => UNCHANGED dispatch
      BY <1>2
      DEF submit, resubmit_recovery, retry_due, BackoffElapses, Close, Drained, vars,
          CarrierInv
    <2> QED
      BY <2>1, <2>2
      DEF PlacedInv, Placed, Placeholder, Settled, FinishingPending, Crossed, Interrupted
  <1>3. CASE Exit \/ Crash
    BY <1>3 DEF Exit, Crash, LoseMemory, PlacedInv, Placed
  <1>4. CASE Start
    BY <1>4
    DEF Start, CarrierInv, PlacedInv, Placed, Placeholder, Settled, FinishingPending,
        Crossed, Interrupted
  \* Startup, when no thread executes anything.
  <1>a. ASSUME proc = "startup", UNCHANGED <<thrOp, pc>>,
               /\ spc' = "fail" => Interrupted(cur)' /\ Placeholder(cur)'
               /\ spc' = "finish" => Interrupted(cur)' /\ opStatus'[cur'] \in Terminal
               /\ spc' = "requeue" => opStatus'[cur'] \in Unfinished
        PROVE  PlacedInv'
    <2>1. \A t \in Thread : pc'[t] = "idle"
      BY <1>a DEF CarrierInv
    <2> QED
      BY <1>a, <2>1 DEF PlacedInv, Placed
  <1>5. ASSUME NEW o \in Op, StartupSchedules(o) \/ StartupMarksRecovery(o)
        PROVE  PlacedInv'
    BY <1>5, <1>a
    DEF StartupSchedules, StartupMarksRecovery, Visiting, schedule, set_status, TypeOK,
        Unfinished
  <1>6. ASSUME NEW o \in Op,
               \/ StartupSkips(o) \/ StartupConcludes(o) \/ StartupFindsScopeTaken(o)
        PROVE  PlacedInv'
    BY <1>6, <1>a
    DEF StartupSkips, StartupConcludes, StartupFindsScopeTaken, Visiting
  <1>7. ASSUME NEW o \in Op, StartupPlaces(o) PROVE PlacedInv'
    <2>1. ~finishing[o] /\ cur' = o /\ spc' = "fail" /\ Interrupted(o)
      BY <1>7 DEF StartupPlaces, RowInv, FlagsInv
    <2>2. Interrupted(cur)' /\ Placeholder(cur)'
      BY <1>7, <2>1
      DEF StartupPlaces, begin_operation, Interrupted, Placeholder, PlaceholderPhases,
          TypeOK
    <2> QED
      BY <1>7, <1>a, <2>1, <2>2 DEF StartupPlaces, Visiting
  <1>8. CASE StartupFails
    <2>1. cur \in Op /\ Interrupted(cur)
      BY <1>8 DEF StartupFails, CarrierInv, TypeOK, PlacedInv
    <2> QED
      BY <1>8, <1>a, <2>1
      DEF StartupFails, set_status, Interrupted, TypeOK, Terminal
  <1>9. CASE StartupSetsDispatch \/ StartupDone
    BY <1>9, <1>a DEF StartupSetsDispatch, StartupDone
  <1> QED
    BY <1>1, <1>2, <1>3, <1>4, <1>5, <1>6, <1>7, <1>8, <1>9
    DEF Next, StartupStep

-----------------------------------------------------------------------------
\* The inductive invariant that the theorems below rest on.
JournalInv == TypeOK /\ CarrierInv /\ LaneInv /\ PlacedInv /\ RowInv

\* It holds at first and survives every step.
LEMMA JournalInvariant == Spec => []JournalInv
  <1>1. Init => JournalInv
    BY SMTT(30), ConstantsAssumption
    DEF Init, JournalInv, TypeOK, Statuses, DispatchStatuses, Phases, RetryTimes,
        ThreadStates, ProcStates, CarrierInv, ExecutedExactlyOnce, Interrupted, LaneInv,
        OneOperationPerLane, AcceptanceInv, BodyInv, Unfinished, PlacedInv, Placed,
        RowInv, FlagsInv, DutyInv, active_dispatches, MasterInv, ConflictNeverKillsWorker
  <1>2. JournalInv /\ [Next]_vars => JournalInv'
    BY TypeStep, CarrierStep, LaneStep, PlacedStep, RowStep DEF JournalInv
  <1> QED
    BY <1>1, <1>2, PTL DEF Spec

-----------------------------------------------------------------------------
(***************************************************************************)
(* The promises of the journal, for every set of keys, scopes and threads, *)
(* and the abstract specification it implements.                           *)
(***************************************************************************)
\* No finishing conflict reaches the handlers of _run and _recover_startup that
\* catch only UnfinishedOperationError.
THEOREM AdmittedStaysAdmitted == Spec => []ConflictNeverKillsWorker
  <1>1. JournalInv => ConflictNeverKillsWorker
    BY DEF JournalInv, RowInv
  <1> QED
    BY <1>1, JournalInvariant, PTL

\* An unfinished child of a migration always has an unfinished master.
THEOREM MasterStaysOpen == Spec => []MasterOutlivesChild
  <1>1. JournalInv => MasterOutlivesChild
    BY DEF JournalInv, RowInv, MasterInv, MasterOutlivesChild
  <1> QED
    BY <1>1, JournalInvariant, PTL

\* close() leaves nothing pending or running: the sentinels go in behind every
\* item, and the last thread concludes before it takes one.
THEOREM StopDrains == Spec => []StopLeavesNothingBehind
  <1>1. StopLeavesNothingBehind /\ JournalInv /\ [Next]_vars => StopLeavesNothingBehind'
    <2> SUFFICES ASSUME StopLeavesNothingBehind, JournalInv, [Next]_vars,
                        proc' = "stopped", NEW o \in Op
                 PROVE  ~Interrupted(o)'
      BY DEF StopLeavesNothingBehind
    <2>1. CASE Exit
      BY SMTT(30), <2>1, ConstantsAssumption
      DEF Exit, dispatches, JournalInv, CarrierInv, ExecutedExactlyOnce, Interrupted
    <2>2. ASSUME NEW t \in Thread, ThreadStep(t) PROVE FALSE
      BY <2>2, ThreadRuns DEF JournalInv
    <2>3. CASE ~Exit /\ \A t \in Thread : ~ThreadStep(t)
      <3>1. proc = "stopped" /\ UNCHANGED dispatch
        BY <2>3
        DEF Next, StartupStep, vars, boot, dispatches, submit, resubmit_recovery,
            retry_due, BackoffElapses, Close, Drained, Crash, Start, StartupSchedules,
            StartupSkips, StartupConcludes, StartupPlaces, StartupFindsScopeTaken,
            StartupMarksRecovery, StartupFails, StartupSetsDispatch, StartupDone, Visiting
      <3> QED
        BY <3>1 DEF StopLeavesNothingBehind, Interrupted
    <2> QED
      BY <2>1, <2>2, <2>3
  <1>2. Init => StopLeavesNothingBehind
    BY DEF Init, StopLeavesNothingBehind
  <1> QED
    BY <1>1, <1>2, JournalInvariant, PTL DEF Spec

-----------------------------------------------------------------------------
\* One row moves as one action of Operations allows, or as nothing it can see.
LEMMA MovePromised ==
  ASSUME TypeOK, LaneInv, RowInv, NEW o \in Op, Moves(o)
  PROVE  Promise!Next \/ UNCHANGED <<life, duty>>
  <1> DEFINE Live(p) == IF opStatus[p] = "none" THEN "unknown"
                        ELSE IF opStatus[p] \in Terminal THEN opStatus[p]
                        ELSE IF finishing[p] THEN "finishing" ELSE "open"
             Due(p) == IF dispatch[p] = "none" THEN "none"
                       ELSE IF dispatch[p] = "finished" THEN "done"
                       ELSE IF dispatch[p] = "recovery_required" THEN "resting"
                       ELSE "held"
  <1>0. /\ life = [p \in Op |-> Live(p)] /\ life' = [p \in Op |-> Live(p)']
        /\ duty = [p \in Op |-> Due(p)] /\ duty' = [p \in Op |-> Due(p)']
    BY DEF life, duty
  <1>1. \A p \in Op : p # o => Live(p)' = Live(p) /\ Due(p)' = Due(p)
    BY MoveIsLocal
  <1>2. /\ \A v : Live(o)' = v => life' = [life EXCEPT ![o] = v]
        /\ \A v : Due(o)' = v => duty' = [duty EXCEPT ![o] = v]
        /\ Live(o)' = Live(o) => life' = life
        /\ Due(o)' = Due(o) => duty' = duty
    BY SMTT(30), <1>0, <1>1
  <1>3. /\ \A p \in Op : life[p] = Live(p) /\ duty[p] = Due(p)
        /\ Promise!Beside(o) = {p \in Op \ {o} : ScopeOf[p] = ScopeOf[o]}
        /\ KindOf[o] = "child" \/ Interrupted(o) => Promise!Executing(o)
    BY <1>0 DEF Promise!Beside, Promise!Executing, Interrupted
  <1>4. Crossed(o) => Promise!Crossed(o)
    BY <1>3 DEF Crossed, Promise!Crossed, Terminal
  <1>5. CASE Begins(o)
    <2>1. /\ Live(o) = "unknown" /\ Live(o)' = "open" /\ Due(o)' = Due(o)
      BY <1>5 DEF Begins, TypeOK, RowInv, FlagsInv, Terminal
    <2>2. \A p \in Op : ScopeOf[p] = ScopeOf[o] => Live(p) # "open"
      BY <1>5
      DEF Begins, MayBegin, get_unfinished_operation, TypeOK, Statuses, Unfinished, Terminal
    <2>3. Promise!Begin(o)
      BY <1>2, <1>3, <1>5, <2>1, <2>2 DEF Promise!Begin, Begins
    <2> QED
      BY <2>3 DEF Promise!Next
  <1>6. CASE Accepts(o)
    <2>1. Live(o) = "open" /\ Live(o)' = "finishing" /\ Due(o)' = Due(o)
      BY <1>6 DEF Accepts, TypeOK, Unfinished, Terminal
    <2>2. \A p \in Op : p # o /\ ScopeOf[p] = ScopeOf[o] => opStatus[p] \notin Unfinished
      BY <1>6 DEF Accepts, LaneInv, OneOperationPerLane, AcceptanceInv, TypeOK
    <2>3. \A p \in Op : p # o /\ ScopeOf[p] = ScopeOf[o] =>
              Live(p) \notin {"open", "finishing"}
      BY <2>2 DEF TypeOK, Statuses, Unfinished, Terminal
    <2>4. Promise!Accept(o)
      BY <1>2, <1>3, <1>6, <2>1, <2>3 DEF Promise!Accept, Accepts
    <2> QED
      BY <2>4 DEF Promise!Next
  <1>7. CASE Ends(o)
    <2>1. PICK result \in Terminal : /\ finishing[o] => result = "succeeded"
                                     /\ opStatus' = [opStatus EXCEPT ![o] = result]
      BY <1>7 DEF Ends
    <2>2. Live(o)' = result /\ Due(o)' = Due(o) /\ result \in Promise!Results
      BY <1>7, <2>1 DEF Ends, TypeOK, Terminal, Promise!Results
    <2>3. Live(o) = "open" \/ (Live(o) = "finishing" /\ result = "succeeded")
      BY <1>7, <2>1 DEF Ends, Unfinished, Terminal
    <2>4. Promise!End(o)
      BY <1>2, <1>3, <1>7, <2>2, <2>3 DEF Promise!End, Ends
    <2> QED
      BY <2>4 DEF Promise!Next
  <1>8. CASE Marks(o) \/ Checkpoints(o) \/ Stops(o) \/ Runs(o)
    <2>1. Live(o)' = Live(o) /\ Due(o)' = Due(o)
      BY <1>8
      DEF Marks, Checkpoints, Stops, Runs, TypeOK, Unfinished, Terminal, Interrupted
    <2> QED
      BY <1>2, <2>1
  <1>9. CASE Admits(o)
    <2>1. Due(o) = "none" /\ Due(o)' = "held" /\ Live(o)' = Live(o)
      BY <1>9 DEF Admits, TypeOK
    <2>2. \A p \in Op : ScopeOf[p] = ScopeOf[o] => Live(p) # "open"
      BY <1>9
      DEF Admits, MayBegin, get_unfinished_operation, TypeOK, Statuses, Unfinished, Terminal
    <2>3. \A p \in Op : ScopeOf[p] = ScopeOf[o] /\ Due(p) \in {"held", "resting"} =>
              Live(p) \in {"finishing", "succeeded"}
      <3> SUFFICES ASSUME NEW p \in Op, ScopeOf[p] = ScopeOf[o],
                          Due(p) \in {"held", "resting"}
                   PROVE  Live(p) \in {"finishing", "succeeded"}
        OBVIOUS
      <3>1. finishing[p]
        BY <1>9
        DEF Admits, active_dispatches, TypeOK, DispatchStatuses, RowInv, FlagsInv
      <3> QED
        BY <3>1 DEF RowInv, FlagsInv, Terminal
    <2>4. Promise!Admit(o)
      BY <1>2, <1>3, <1>9, <2>1, <2>2, <2>3 DEF Promise!Admit, Admits
    <2> QED
      BY <2>4 DEF Promise!Next
  <1>10. CASE Resumes(o)
    <2>1. /\ Due(o) = "resting" /\ Due(o)' = "held" /\ Live(o)' = Live(o)
          /\ Live(o) \in {"open", "finishing"}
      BY <1>10 DEF Resumes, TypeOK, Unfinished, Terminal
    <2>2. Promise!Resume(o)
      BY <1>2, <1>3, <2>1 DEF Promise!Resume
    <2> QED
      BY <2>2 DEF Promise!Next
  <1>11. CASE Rests(o)
    <2>1. /\ Due(o) = "held" /\ Due(o)' = "resting" /\ Live(o)' = Live(o)
          /\ opStatus[o] \in Unfinished => Live(o) \in {"open", "finishing"}
      BY <1>11 DEF Rests, TypeOK, Unfinished, Terminal, Interrupted
    <2>2. Promise!Rest(o)
      BY <1>2, <1>3, <1>4, <1>11, <2>1 DEF Promise!Rest, Rests
    <2> QED
      BY <2>2 DEF Promise!Next
  <1>12. CASE Concludes(o)
    <2>1. /\ Due(o) = "held" /\ Due(o)' = "done" /\ Live(o)' = Live(o)
          /\ opStatus[o] \in Terminal => Live(o) \in Promise!Results
      BY <1>12 DEF Concludes, TypeOK, Terminal, Interrupted, Promise!Results
    <2>2. Promise!Done(o)
      BY <1>2, <1>3, <1>4, <1>12, <2>1 DEF Promise!Done, Concludes
    <2> QED
      BY <2>2 DEF Promise!Next
  <1> QED
    BY <1>5, <1>6, <1>7, <1>8, <1>9, <1>10, <1>11, <1>12 DEF Moves

\* The executor with its queue, threads, retries, crashes and restarts implements
\* Operations.
THEOREM JournalImplementsOperations == Spec => JournalKept
  <1>1. Init => Promise!Init
    BY SMTT(30) DEF Init, Promise!Init, life, duty
  <1>2. JournalInv /\ [Next]_vars => [Promise!Next]_(Promise!vars)
    <2> SUFFICES ASSUME JournalInv, [Next]_vars
                 PROVE  Promise!Next \/ UNCHANGED <<life, duty>>
      BY DEF Promise!vars
    <2>1. CASE UNCHANGED rows
      BY <2>1 DEF rows, life, duty
    <2> QED
      BY <2>1, RowMoves, MovePromised DEF JournalInv
  <1> QED
    BY <1>1, <1>2, JournalInvariant, PTL DEF Spec, JournalKept, Promise!Spec

-----------------------------------------------------------------------------
\* What a request that rests or is done can show survives every move.
LEMMA ReplayableKept ==
  ASSUME TypeOK, LaneInv, LanesReplayable, NEW o \in Op, Moves(o)
  PROVE  LanesReplayable'
  <1> SUFFICES ASSUME NEW p \in Op
               PROVE  /\ dispatch'[p] = "recovery_required" =>
                             opStatus'[p] \in Unfinished \/ Crossed(p)'
                      /\ dispatch'[p] = "finished" =>
                             opStatus'[p] \in Terminal \/ Crossed(p)'
    BY DEF LanesReplayable
  <1>1. \A c \in Op : opStatus[c] # "none" => opStatus'[c] # "none"
    BY DEF TypeOK, Moves, Begins, Accepts, Ends, Marks, Checkpoints, Stops, Admits,
           Resumes, Runs, Rests, Concludes, Unfinished, Terminal
  <1>2. opStatus'[p] = "none" /\ Crossed(p) => Crossed(p)'
    BY <1>1 DEF Crossed
  <1>3. CASE p # o
    BY <1>2, <1>3, MoveIsLocal DEF LanesReplayable, Crossed
  <1>4. CASE p = o /\ (Begins(o) \/ Accepts(o) \/ Ends(o))
    <2>1. dispatch'[o] = dispatch[o] /\ dispatch[o] \in {"none", "pending", "running"}
      BY <1>4
      DEF Begins, Accepts, Ends, Interrupted, LaneInv, BodyInv
    <2> QED
      BY <1>4, <2>1
  <1>5. CASE p = o /\ Marks(o)
    BY <1>5 DEF Marks, LanesReplayable, Crossed, TypeOK, Unfinished, Terminal
  <1>6. CASE p = o /\ (Checkpoints(o) \/ Stops(o))
    BY <1>2, <1>6 DEF Checkpoints, Stops, LanesReplayable, Crossed
  <1>7. CASE p = o /\ (Admits(o) \/ Resumes(o) \/ Runs(o))
    BY <1>7 DEF Admits, Resumes, Runs, TypeOK
  <1>8. CASE p = o /\ (Rests(o) \/ Concludes(o))
    BY <1>2, <1>8 DEF Rests, Concludes, TypeOK, Crossed
  <1> QED
    BY <1>3, <1>4, <1>5, <1>6, <1>7, <1>8 DEF Moves

\* Whoever polls a settled request finds an operation to resume or a result,
\* unless a migration's child took the scope first.
THEOREM SettledIsReplayable == Spec => []LanesReplayable
  <1>1. Init => LanesReplayable
    BY DEF Init, LanesReplayable
  <1>2. JournalInv /\ LanesReplayable /\ [Next]_vars => LanesReplayable'
    <2> SUFFICES ASSUME JournalInv, LanesReplayable, [Next]_vars PROVE LanesReplayable'
      OBVIOUS
    <2>1. CASE UNCHANGED rows
      BY <2>1 DEF rows, LanesReplayable, Crossed
    <2> QED
      BY <2>1, RowMoves, ReplayableKept DEF JournalInv
  <1> QED
    BY <1>1, <1>2, JournalInvariant, PTL DEF Spec

-----------------------------------------------------------------------------
(***************************************************************************)
(* The retry schedule and the capacity of the executor, for every set of   *)
(* keys, scopes and threads.                                               *)
(***************************************************************************)
\* Until it reschedules, a thread touches neither the retry schedule nor any row
\* but its own and a child's.
LEMMA BeforeReschedule ==
  ASSUME TypeOK, CarrierInv, LaneInv, NEW t \in Thread,
         ThreadStep(t), ~Reschedule(t), ~Conclude(t)
  PROVE  /\ UNCHANGED <<attempts, nextAt, spc, cur>>
         /\ \A p \in Op : p # thrOp[t] /\ KindOf[p] # "child" =>
               opStatus'[p] = opStatus[p] /\ finishing'[p] = finishing[p]
         /\ \A p \in Op : dispatch'[p] = "recovery_required" =>
               dispatch[p] = "recovery_required"
         /\ pc'[t] # "conclude"
         /\ \A u \in Thread : u # t => pc'[u] = pc[u] /\ thrOp'[u] = thrOp[u]
  <1> USE DEF journal, dispatches, memory, boot, Goto, Leave, TypeOK
  <1>1. CASE \/ \E o \in Op : Take(t, o)
             \/ AcquireLock(t) \/ LockBusy(t) \/ WorkRefuses(t) \/ WorkIsNoop(t)
    BY <1>1 DEF Take, AcquireLock, LockBusy, WorkRefuses, WorkIsNoop
  <1>2. CASE MarkRunning(t)
    BY <1>2 DEF MarkRunning, set_operation_dispatch_status
  <1>3. CASE WorkBegins(t) \/ WorkResumes(t)
    BY <1>3 DEF WorkBegins, WorkResumes, begin_operation, set_status
  <1>4. CASE WorkStops(t) \/ WorkAccepts(t) \/ WorkCheckpoints(t)
    BY <1>4 DEF WorkStops, WorkAccepts, WorkCheckpoints
  <1>5. CASE WorkEnds(t) \/ WorkFinishes(t) \/ WorkRaises(t)
    BY <1>5 DEF WorkEnds, WorkFinishes, WorkRaises, set_status
  <1>6. CASE \E c \in Op : ChildBegins(t, c)
    BY <1>6 DEF ChildBegins, begin_operation, set_status
  <1>7. CASE ChildSucceeds(t) \/ ChildFails(t)
    <2>1. KindOf[child[t]] = "child"
      BY <1>7 DEF ChildSucceeds, ChildFails, LaneInv, BodyInv
    <2> QED
      BY <1>7, <2>1 DEF ChildSucceeds, ChildFails, set_status
  <1>8. CASE AfterReturn(t) \/ AfterRaise(t) \/ SettlePlaceholder(t)
    BY <1>8 DEF AfterReturn, AfterRaise, SettlePlaceholder, begin_operation, set_status
  <1> QED
    BY <1>1, <1>2, <1>3, <1>4, <1>5, <1>6, <1>7, <1>8 DEF ThreadStep

\* Scheduling leaves a next attempt, or an exhausted budget and a call for help.
LEMMA ScheduleSchedules ==
  ASSUME TypeOK, BudgetHolds, NEW o \in Op, schedule(o)
  PROVE  /\ Scheduled(o)' /\ BudgetHolds'
         /\ \A p \in Op : p # o => (Scheduled(p)' <=> Scheduled(p))
  <1>1. \A p \in Op : p # o => /\ opStatus'[p] = opStatus[p] /\ nextAt'[p] = nextAt[p]
    BY DEF TypeOK, schedule
  <1>2. UNCHANGED <<finishing, attempts>>
    BY DEF schedule
  <1>3. \/ attempts[o] < MaxRetries /\ nextAt'[o] = "waiting" /\ opStatus'[o] = "running"
        \/ /\ ~(attempts[o] < MaxRetries)
           /\ nextAt'[o] = "null" /\ opStatus'[o] = "recovery_required"
    BY DEF TypeOK, schedule
  <1>4. Scheduled(o)'
    <2>1. attempts[o] \in Nat /\ attempts[o] <= MaxRetries /\ MaxRetries \in Nat
      BY ConstantsAssumption DEF TypeOK, BudgetHolds
    <2>2. ~(attempts[o] < MaxRetries) => attempts[o] = MaxRetries
      BY SMTT(30), <2>1
    <2>3. attempts'[o] = attempts[o]
      BY <1>2
    <2>4. \/ opStatus'[o] = "running" /\ nextAt'[o] \in {"waiting", "due"}
          \/ opStatus'[o] = "recovery_required" /\ attempts'[o] = MaxRetries
      BY <1>3, <2>2, <2>3
    <2> QED
      BY <2>4 DEF Scheduled
  <1>5. BudgetHolds'
    BY <1>1, <1>2, <1>3 DEF BudgetHolds
  <1>6. \A p \in Op : p # o => (Scheduled(p)' <=> Scheduled(p))
    BY <1>1, <1>2 DEF Scheduled, FinishingPending
  <1> QED
    BY <1>4, <1>5, <1>6

\* What waits for a retry is scheduled, through every step.
LEMMA RetryStep ==
  ASSUME JournalInv, RetryInv, BudgetHolds, [Next]_vars
  PROVE  RetryInv' /\ BudgetHolds'
  <1> USE DEF journal, dispatches, memory, boot
  <1>t. TypeOK /\ CarrierInv /\ LaneInv /\ PlacedInv /\ RowInv
    BY DEF JournalInv
  <1>c. ASSUME NEW t \in Thread, pc[t] # "idle"
        PROVE  thrOp[t] \in Op /\ Interrupted(thrOp[t]) /\ spc = "next"
    BY <1>c, <1>t, CarriedIsInterrupted
  <1>o. ASSUME NEW t \in Thread, NEW u \in Thread, t # u, pc[t] # "idle", pc[u] # "idle"
        PROVE  thrOp[t] # thrOp[u]
    BY <1>o, <1>c, <1>t, ConstantsAssumption DEF CarrierInv, ExecutedExactlyOnce
  \* Nobody executes a request that rests, and startup is over.
  <1>r. ASSUME NEW o \in Op, proc = "up", ~Interrupted(o)
        PROVE  spc = "next" /\ \A t \in Thread : pc[t] = "conclude" => thrOp[t] # o
    BY <1>r, <1>c, <1>t DEF CarrierInv
  \* A step that changes no schedule and leaves nothing new to rest.
  <1>a. ASSUME \A p \in Op : Scheduled(p) => Scheduled(p)',
               \A p \in Op : dispatch'[p] = "recovery_required" =>
                   dispatch[p] = "recovery_required" \/ Scheduled(p)',
               UNCHANGED <<pc, thrOp>> \/ \A t \in Thread : pc'[t] = "idle",
               spc' = "requeue" => Scheduled(cur)'
        PROVE  RetryInv'
    BY <1>a, <1>c, <1>t DEF RetryInv
  <1>1. CASE \/ \E o \in Op : submit(o)
             \/ Close \/ Drained \/ Exit \/ Crash \/ Start \/ StartupDone
             \/ \E o \in Op : StartupSkips(o) \/ StartupConcludes(o)
             \/ UNCHANGED vars
    <2>1. /\ UNCHANGED <<opStatus, finishing, attempts, nextAt>>
          /\ spc' = "requeue" => spc = "requeue" /\ cur' = cur
          /\ UNCHANGED <<pc, thrOp>> \/ \A t \in Thread : pc'[t] = "idle"
          /\ \A p \in Op : dispatch'[p] = "recovery_required" =>
                 dispatch[p] = "recovery_required"
      BY <1>1, <1>t
      DEF submit, Enqueue, Close, Drained, Exit, Crash, LoseMemory, Start, StartupDone,
          StartupSkips, StartupConcludes, set_operation_dispatch_status, vars, TypeOK
    <2>2. \A p \in Op \union {NoOp} : Scheduled(p) => Scheduled(p)'
      BY <2>1 DEF Scheduled, FinishingPending
    <2>3. spc' = "requeue" => Scheduled(cur)'
      BY <2>1 DEF RetryInv, Scheduled, FinishingPending
    <2> QED
      BY <1>a, <2>1, <2>2, <2>3 DEF BudgetHolds
  <1>2. ASSUME NEW o \in Op, resubmit_recovery(o) \/ retry_due(o)
        PROVE  RetryInv' /\ BudgetHolds'
    <2>1. /\ proc = "up" /\ ~Interrupted(o) /\ dispatch' = [dispatch EXCEPT ![o] = "pending"]
          /\ UNCHANGED <<opStatus, finishing, pc, thrOp, spc>>
          /\ \A p \in Op : p # o => attempts'[p] = attempts[p] /\ nextAt'[p] = nextAt[p]
      BY <1>2, <1>t
      DEF resubmit_recovery, retry_due, Requeueable, Enqueue, Interrupted, TypeOK
    <2>2. \A p \in Op : p # o => (Scheduled(p) => Scheduled(p)')
      BY <2>1 DEF Scheduled, FinishingPending
    <2>3. RetryInv'
      BY <1>r, <1>c, <1>t, <2>1, <2>2 DEF RetryInv, TypeOK
    <2>4. BudgetHolds'
      BY SMTT(30), <1>2, <1>t, ConstantsAssumption
      DEF BudgetHolds, resubmit_recovery, retry_due, TypeOK
    <2> QED
      BY <2>3, <2>4
  <1>3. ASSUME NEW o \in Op, BackoffElapses(o) PROVE RetryInv' /\ BudgetHolds'
    <2>1. \A p \in Op : Scheduled(p) => Scheduled(p)'
      BY <1>3, <1>t DEF BackoffElapses, Scheduled, FinishingPending, TypeOK
    <2>2. BudgetHolds'
      BY <1>3, <1>t DEF BackoffElapses, BudgetHolds, TypeOK
    <2>3. spc' = "requeue" => Scheduled(cur)'
      BY <1>3, <1>t, <2>1 DEF BackoffElapses, CarrierInv, TypeOK, RetryInv
    <2> QED
      BY <1>3, <1>a, <2>1, <2>2, <2>3 DEF BackoffElapses
  <1>4. ASSUME NEW o \in Op, StartupSchedules(o) PROVE RetryInv' /\ BudgetHolds'
    <2>1. schedule(o) /\ cur' = o /\ UNCHANGED <<dispatch, pc, thrOp>>
      BY <1>4 DEF StartupSchedules
    <2> QED
      BY <1>a, <1>t, <2>1, ScheduleSchedules
  \* A row that is not finishing work is written.
  <1>b. ASSUME NEW q \in Op, ~FinishingPending(q)',
               \A p \in Op : p # q => opStatus'[p] = opStatus[p],
               UNCHANGED <<finishing, attempts, nextAt, dispatch, pc, thrOp>>,
               spc' = "requeue" => cur' = q
        PROVE  RetryInv' /\ BudgetHolds'
    <2>1. \A p \in Op : Scheduled(p) => Scheduled(p)'
      BY <1>b DEF Scheduled, FinishingPending
    <2>2. Scheduled(q)'
      BY <1>b DEF Scheduled
    <2>3. BudgetHolds'
      BY <1>b DEF BudgetHolds
    <2> QED
      BY <1>a, <1>b, <2>1, <2>2, <2>3
  <1>5. ASSUME NEW o \in Op, StartupPlaces(o) \/ StartupMarksRecovery(o)
        PROVE  RetryInv' /\ BudgetHolds'
    <2>1. /\ ~FinishingPending(o)'
          /\ \A p \in Op : p # o => opStatus'[p] = opStatus[p]
          /\ UNCHANGED <<finishing, attempts, nextAt, dispatch, pc, thrOp>>
          /\ cur' = o
      BY <1>5, <1>t
      DEF StartupPlaces, StartupMarksRecovery, begin_operation, set_status,
          FinishingPending, RowInv, FlagsInv, TypeOK, Unfinished
    <2> QED
      BY <2>1, <1>b
  <1>11. CASE StartupFails
    <2>1. cur \in Op
      BY <1>11, <1>t DEF StartupFails, CarrierInv, TypeOK
    <2>2. /\ ~FinishingPending(cur)
          /\ \A p \in Op : p # cur => opStatus'[p] = opStatus[p]
          /\ opStatus'[cur] = "failed" /\ UNCHANGED finishing
          /\ UNCHANGED <<attempts, nextAt, dispatch, pc, thrOp>> /\ spc' = "finish"
      BY <1>11, <2>1, <1>t
      DEF StartupFails, set_status, TypeOK, PlacedInv, Placeholder, FinishingPending
    <2>3. \A p \in Op : Scheduled(p) => Scheduled(p)'
      BY <2>1, <2>2 DEF Scheduled, FinishingPending, Unfinished
    <2>4. BudgetHolds'
      BY <2>2 DEF BudgetHolds
    <2> QED
      BY <1>a, <2>2, <2>3, <2>4
  <1>6. ASSUME NEW o \in Op, StartupFindsScopeTaken(o) PROVE RetryInv' /\ BudgetHolds'
    <2>1. /\ UNCHANGED <<opStatus, finishing, attempts, nextAt, pc, thrOp, spc, cur>>
          /\ spc = "next" /\ opStatus[o] = "none"
          /\ \A p \in Op : p # o => dispatch'[p] = dispatch[p]
      BY <1>6, <1>t
      DEF StartupFindsScopeTaken, Visiting, set_operation_dispatch_status, TypeOK
    <2>2. /\ \A p \in Op : Scheduled(p) => Scheduled(p)'
          /\ Scheduled(o)'
      BY <2>1 DEF Scheduled, FinishingPending, Unfinished
    <2> QED
      BY <1>a, <2>1, <2>2 DEF BudgetHolds
  <1>7. CASE StartupSetsDispatch
    <2>1. /\ UNCHANGED <<opStatus, finishing, attempts, nextAt, pc, thrOp>>
          /\ spc' = "next"
          /\ \A p \in Op : dispatch'[p] = "recovery_required" =>
                 \/ dispatch[p] = "recovery_required"
                 \/ p = cur /\ spc = "requeue"
      BY <1>7, <1>t DEF StartupSetsDispatch, set_operation_dispatch_status, TypeOK
    <2>2. \A p \in Op : Scheduled(p) => Scheduled(p)'
      BY <2>1 DEF Scheduled, FinishingPending
    <2> QED
      BY <1>a, <2>1, <2>2 DEF BudgetHolds, RetryInv
  <1>8. ASSUME NEW t \in Thread, Reschedule(t) PROVE RetryInv' /\ BudgetHolds'
    <2> DEFINE o == thrOp[t]
    <2>0. /\ pc[t] = "finally" /\ o \in Op /\ Interrupted(o) /\ spc = "next"
          /\ UNCHANGED <<dispatch, thrOp, spc>>
          /\ \A u \in Thread : u # t => pc'[u] = pc[u]
      BY <1>8, <1>c, <1>t DEF Reschedule, Goto, TypeOK
    <2>1. /\ Scheduled(o)' /\ BudgetHolds'
          /\ \A p \in Op : p # o => (Scheduled(p)' <=> Scheduled(p))
      <3>1. CASE FinishingPending(o) /\ schedule(o)
        BY <3>1, <2>0, <1>t, ScheduleSchedules
      <3>2. CASE ~FinishingPending(o) /\ UNCHANGED journal
        BY <3>2, <2>0 DEF Scheduled, FinishingPending, BudgetHolds
      <3> QED
        BY <1>8, <3>1, <3>2 DEF Reschedule
    <2>2. \A p \in Op : dispatch'[p] = "recovery_required" => Scheduled(p)'
      BY <2>0, <2>1 DEF RetryInv, Interrupted
    <2>3. \A u \in Thread : pc'[u] = "conclude" => Scheduled(thrOp[u])'
      BY <2>0, <2>1, <1>c DEF RetryInv
    <2> QED
      BY <2>0, <2>1, <2>2, <2>3 DEF RetryInv
  <1>9. ASSUME NEW t \in Thread, Conclude(t) PROVE RetryInv' /\ BudgetHolds'
    <2>1. /\ pc[t] = "conclude" /\ thrOp[t] \in Op /\ spc = "next"
          /\ UNCHANGED <<opStatus, finishing, attempts, nextAt, spc>>
          /\ \A p \in Op : p # thrOp[t] => dispatch'[p] = dispatch[p]
          /\ \A u \in Thread : pc'[u] = "conclude" =>
                 u # t /\ pc[u] = "conclude" /\ thrOp'[u] = thrOp[u]
      BY <1>9, <1>c, <1>t DEF Conclude, set_operation_dispatch_status, Goto, TypeOK
    <2>2. \A p \in Op : Scheduled(p) => Scheduled(p)'
      BY <2>1 DEF Scheduled, FinishingPending
    <2>3. \A p \in Op : dispatch'[p] = "recovery_required" => Scheduled(p)'
      BY <2>1, <2>2 DEF RetryInv
    <2>4. \A u \in Thread : pc'[u] = "conclude" => Scheduled(thrOp[u])'
      BY <2>1, <2>2, <1>c DEF RetryInv
    <2> QED
      BY <2>1, <2>3, <2>4 DEF RetryInv, BudgetHolds
  <1>10. ASSUME NEW t \in Thread, ThreadStep(t), ~Reschedule(t), ~Conclude(t)
         PROVE  RetryInv' /\ BudgetHolds'
    <2>1. /\ UNCHANGED <<attempts, nextAt, spc, cur>>
          /\ \A p \in Op : p # thrOp[t] /\ KindOf[p] # "child" =>
                opStatus'[p] = opStatus[p] /\ finishing'[p] = finishing[p]
          /\ \A p \in Op : dispatch'[p] = "recovery_required" =>
                dispatch[p] = "recovery_required"
          /\ pc'[t] # "conclude"
          /\ \A u \in Thread : u # t => pc'[u] = pc[u] /\ thrOp'[u] = thrOp[u]
      BY <1>10, <1>t, BeforeReschedule
    <2>2. \A p \in Op : dispatch[p] = "recovery_required" =>
              p # thrOp[t] /\ KindOf[p] # "child"
      BY SMTT(30), <1>c, <1>t, ConstantsAssumption
      DEF CarrierInv, Interrupted, LaneInv, BodyInv, TypeOK
    <2>3. \A p \in Op : p # thrOp[t] /\ KindOf[p] # "child" /\ Scheduled(p) => Scheduled(p)'
      BY <2>1 DEF Scheduled, FinishingPending
    <2>4. \A p \in Op : dispatch'[p] = "recovery_required" => Scheduled(p)'
      BY <2>1, <2>2, <2>3 DEF RetryInv
    <2>5. ASSUME NEW u \in Thread, pc'[u] = "conclude" PROVE Scheduled(thrOp[u])'
      <3>1. u # t /\ pc[u] = "conclude" /\ thrOp'[u] = thrOp[u]
        BY <2>1, <2>5
      <3>2. thrOp[u] \in Op /\ KindOf[thrOp[u]] # "child"
        BY <3>1, <1>c, <1>t DEF LaneInv, BodyInv, Interrupted
      <3>3. thrOp[u] # thrOp[t]
        BY <3>1, <3>2, <1>o, <1>t, ConstantsAssumption DEF CarrierInv
      <3> QED
        BY <3>1, <3>2, <3>3, <2>3 DEF RetryInv
    <2>6. spc' # "requeue"
      BY <1>10, <2>1, <1>t, ThreadRuns DEF CarrierInv
    <2> QED
      BY <2>1, <2>4, <2>5, <2>6 DEF RetryInv, BudgetHolds
  <1> QED
    BY <1>1, <1>2, <1>3, <1>4, <1>5, <1>6, <1>7, <1>8, <1>9, <1>10, <1>11
    DEF Next, StartupStep

\* Accepted work is retried until it ends or its budget is spent, whatever
\* crashes, restarts and manual replays come between.
THEOREM RetriesNeverForgotten == Spec => []RetriesKept
  <1>1. Init => RetryInv /\ BudgetHolds
    BY SMTT(30), ConstantsAssumption DEF Init, RetryInv, BudgetHolds
  <1>2. JournalInv /\ RetryInv /\ BudgetHolds /\ [Next]_vars => RetryInv' /\ BudgetHolds'
    BY RetryStep
  <1>3. RetryInv /\ BudgetHolds => RetriesKept
    BY DEF RetryInv, Scheduled, RetriesKept, RetryNeverForgotten
  <1> QED
    BY <1>1, <1>2, <1>3, JournalInvariant, PTL DEF Spec

-----------------------------------------------------------------------------
Waiting == {o \in Op : queued[o] > 0}
Busy == {t \in Thread : thrOp[t] # NoOp}

SlotInv == SlotsConserved /\ IsFiniteSet(Waiting)

\* The sum, with its parts named.
LEMMA SlotSum ==
  SlotInv <=> /\ IsFiniteSet(Waiting)
              /\ slots + Cardinality(Waiting) + Cardinality(Busy) = Capacity
  BY DEF SlotInv, SlotsConserved, Waiting, Busy

\* A slot is taken with the queue item and returned by the thread that ends it.
LEMMA SlotStep ==
  ASSUME TypeOK, CarrierInv, SlotInv, [Next]_vars
  PROVE  SlotInv'
  <1> USE DEF memory, boot
  <1>s. SlotInv' <=> /\ IsFiniteSet(Waiting')
                     /\ slots' + Cardinality(Waiting') + Cardinality(Busy') = Capacity
    BY DEF SlotInv, SlotsConserved, Waiting, Busy
  <1>0. /\ IsFiniteSet(Waiting) /\ IsFiniteSet(Busy) /\ slots \in Nat /\ Capacity \in Nat
        /\ Cardinality(Waiting) \in Nat /\ Cardinality(Busy) \in Nat
        /\ slots + Cardinality(Waiting) + Cardinality(Busy) = Capacity
    <2>1. IsFiniteSet(Busy)
      BY ConstantsAssumption, FS_Subset DEF Busy
    <2> QED
      BY <2>1, ConstantsAssumption, FS_CardinalityType, SlotSum DEF TypeOK
  <1>1. ASSUME NEW o \in Op, submit(o) \/ resubmit_recovery(o) \/ retry_due(o)
        PROVE  SlotInv'
    <2>0. proc = "up" /\ ~Interrupted(o) /\ Enqueue(o) /\ UNCHANGED thrOp
      BY <1>1 DEF submit, resubmit_recovery, retry_due, Requeueable, Interrupted
    <2>1. queued[o] = 0
      <3>1. queued[o] \in Nat /\ queued[o] <= 1 /\ queued[o] # 1
        BY <2>0 DEF CarrierInv, ExecutedExactlyOnce, TypeOK
      <3> QED
        BY SMTT(30), <3>1
    <2>2. Waiting' = Waiting \union {o} /\ o \notin Waiting /\ slots' = slots - 1 /\ slots > 0
      BY SMTT(30), <2>0, <2>1 DEF Waiting, Enqueue, TypeOK
    <2>3. Busy' = Busy
      BY <2>0 DEF Busy
    <2>4. IsFiniteSet(Waiting') /\ Cardinality(Waiting') = Cardinality(Waiting) + 1
      BY <1>0, <2>2, FS_AddElement
    <2> QED
      BY SMTT(30), <1>0, <1>s, <2>2, <2>3, <2>4
  <1>2. ASSUME NEW t \in Thread, NEW o \in Op, Take(t, o) PROVE SlotInv'
    <2>1. queued[o] = 1 /\ thrOp[t] = NoOp
      BY SMTT(30), <1>2 DEF Take, CarrierInv, ExecutedExactlyOnce, TypeOK
    <2>2. Waiting' = Waiting \ {o} /\ o \in Waiting
      BY SMTT(30), <1>2, <2>1 DEF Take, Waiting, TypeOK
    <2>3. Busy' = Busy \union {t} /\ t \notin Busy /\ slots' = slots
      BY SMTT(30), <1>2, <2>1, ConstantsAssumption DEF Take, Busy, TypeOK
    <2>4. /\ IsFiniteSet(Waiting') /\ Cardinality(Waiting') = Cardinality(Waiting) - 1
          /\ Cardinality(Busy') = Cardinality(Busy) + 1
      BY <1>0, <2>2, <2>3, FS_AddElement, FS_RemoveElement
    <2> QED
      BY SMTT(30), <1>0, <1>s, <2>3, <2>4
  <1>3. ASSUME NEW t \in Thread, Conclude(t) PROVE SlotInv'
    <2>1. thrOp[t] # NoOp
      BY <1>3 DEF Conclude, CarrierInv
    <2>2. /\ Busy' = Busy \ {t} /\ t \in Busy /\ slots' = slots + 1
          /\ Waiting' = Waiting
      BY <1>3, <2>1 DEF Conclude, Busy, Waiting, TypeOK
    <2>3. Cardinality(Busy') = Cardinality(Busy) - 1
      BY <1>0, <2>2, FS_RemoveElement
    <2> QED
      BY SMTT(30), <1>0, <1>s, <2>2, <2>3
  <1>4. CASE Exit \/ Crash
    <2>1. Waiting' = {} /\ Busy' = {} /\ slots' = Capacity
      BY SMTT(30), <1>4 DEF Exit, Crash, LoseMemory, Waiting, Busy
    <2> QED
      BY SMTT(30), <1>0, <1>s, <2>1, FS_EmptySet
  <1>5. CASE UNCHANGED <<queued, slots, thrOp>>
    BY <1>5 DEF SlotInv, SlotsConserved, Waiting
  <1>6. ASSUME NEW t \in Thread, ThreadStep(t), ~(\E o \in Op : Take(t, o)), ~Conclude(t)
        PROVE  UNCHANGED <<queued, slots, thrOp>>
    BY <1>6
    DEF ThreadStep, MarkRunning, AcquireLock, LockBusy, WorkRefuses, WorkIsNoop,
        WorkBegins, WorkResumes, WorkStops, WorkEnds, WorkRaises, WorkAccepts,
        WorkCheckpoints, WorkFinishes, ChildBegins, ChildSucceeds, ChildFails,
        AfterReturn, AfterRaise, SettlePlaceholder, Reschedule
  <1>7. CASE \/ \E o \in Op : BackoffElapses(o)
             \/ Close \/ Drained \/ Start \/ StartupStep \/ UNCHANGED vars
    BY <1>7, <1>5
    DEF BackoffElapses, Close, Drained, Start, StartupStep, vars, StartupSchedules,
        StartupSkips, StartupConcludes, StartupPlaces, StartupFindsScopeTaken,
        StartupMarksRecovery, StartupFails, StartupSetsDispatch, StartupDone
  <1> QED
    BY <1>1, <1>2, <1>3, <1>4, <1>5, <1>6, <1>7 DEF Next

\* Admission never loses capacity: free slots, queue items and busy threads
\* always add up to the semaphore's initial value.
THEOREM CapacityConserved == Spec => []SlotsConserved
  <1>1. Init => SlotInv
    <2> SUFFICES ASSUME Init PROVE SlotInv
      OBVIOUS
    <2>1. Waiting = {} /\ Busy = {} /\ slots = Capacity
      BY SMTT(30) DEF Init, Waiting, Busy
    <2> QED
      BY SMTT(30), <2>1, FS_EmptySet, ConstantsAssumption, SlotSum
  <1>2. JournalInv /\ SlotInv /\ [Next]_vars => SlotInv'
    BY SlotStep DEF JournalInv
  <1>3. SlotInv => SlotsConserved
    BY DEF SlotInv
  <1> QED
    BY <1>1, <1>2, <1>3, JournalInvariant, PTL DEF Spec
=============================================================================
