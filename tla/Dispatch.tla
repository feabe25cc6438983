------------------------------ MODULE Dispatch ------------------------------
(***************************************************************************)
(* The controller's operation journal and its in-process executor.         *)
(*                                                                         *)
(* SQLite holds an operation row (intent, status, phase, finishing lane    *)
(* and retry schedule) and a dispatch row (who must still execute it).     *)
(* Every transition of a row is one short transaction; a crash may fall    *)
(* between any two.  Memory holds the bounded queue, the worker threads    *)
(* and the per-scope file locks; a crash loses all of it.                  *)
(*                                                                         *)
(* The body of an operation (deploy, disable, storage change...) is        *)
(* abstracted to what it does to its own journal row.  The finer modules   *)
(* of this project model the bodies themselves.                            *)
(***************************************************************************)
EXTENDS Naturals, FiniteSets

CONSTANTS
    Op,          \* idempotency keys; a key becomes the operation ID
    Scope,       \* lock and journal scopes: app-<UUID>, infrastructure
    Thread,      \* controller-operation-<n> worker threads
    NoOp,        \* no operation
    NoThread,    \* nobody holds the lock
    KindOf,      \* the request kind of each key
    ScopeOf,     \* the scope of each key
    Capacity,    \* slots of the bounded semaphore
    MaxRetries,  \* automatic finishing attempts: len(RETRY_DELAYS)
    MaxCrashes,  \* bound on controller crashes in a behaviour
    Callers      \* bound: the keys submitted in a behaviour, one of these sets

(***************************************************************************)
(* deploy     app.deploy, whose acceptance leaves finishing work           *)
(* enable     app.enable, likewise; a no-op on a running application       *)
(* disable    app.disable, admitted late in another operation's finishing  *)
(* compatible environment edits, storage verify/rotate/limits, restart     *)
(* exclusive  everything a finishing operation keeps out (delete, ...)     *)
(* migrate    storage.instances.migrate on the infrastructure scope        *)
(* child      the per-application operation a migrate begins by itself     *)
(***************************************************************************)
Kinds == {"deploy", "enable", "disable", "compatible", "exclusive", "migrate",
          "child"}

ASSUME ConstantsAssumption ==
    /\ NoOp \notin Op
    /\ NoThread \notin Thread
    /\ KindOf \in [Op -> Kinds]
    /\ ScopeOf \in [Op -> Scope]
    /\ Capacity \in Nat \ {0}
    /\ IsFiniteSet(Thread) /\ Cardinality(Thread) <= Capacity
    /\ MaxRetries \in Nat
    /\ MaxCrashes \in Nat
    /\ Callers \subseteq SUBSET Op
    /\ \A m, n \in Op : KindOf[m] = "migrate" /\ KindOf[n] = "migrate" => m = n

VARIABLES
    opStatus,           \* operations.status, "none" without a row
    opPhase,            \* operations.phase, as far as anything depends on it
    finishing,          \* operations.finishing
    attempts,           \* refs.finishing_retry.attempts
    nextAt,             \* refs.finishing_retry.next_at
    desired,            \* applications.desired_running of each scope
    dispatch,           \* operation_dispatches.status, "none" without a row
    dispatchFinishing,  \* operation_dispatches.finishing
    queued,             \* how many queue items carry each operation
    slots,              \* free slots of the semaphore
    thrOp,              \* the operation a thread executes
    pc,                 \* where in _run that thread is
    child,              \* the child operation a migrate thread is inside
    lock,               \* file lock holder of each scope
    proc,               \* controller process state
    todo,               \* dispatches _recover_startup has still to visit
    cur,                \* the one it is visiting
    spc,                \* where in that visit it is
    crashes

journal == <<opStatus, opPhase, finishing, attempts, nextAt, desired>>
dispatches == <<dispatch, dispatchFinishing>>
memory == <<queued, slots, thrOp, pc, child, lock>>
boot == <<proc, todo, cur, spc, crashes>>
vars == <<opStatus, opPhase, finishing, attempts, nextAt, desired,
          dispatch, dispatchFinishing, queued, slots, thrOp, pc, child, lock, proc,
          todo, cur, spc, crashes>>

-----------------------------------------------------------------------------
Statuses == {"none", "running", "succeeded", "failed", "recovery_required"}
Unfinished == {"running", "recovery_required"}
Terminal == {"succeeded", "failed"}
DispatchStatuses ==
    {"none", "pending", "running", "finished", "recovery_required"}
\* Phases of rows the executor writes itself, with no domain intent in them.
PlaceholderPhases == {"startup_interrupted", "returned", "rejected"}
\* predecessor_job_absent stands for phase predecessor_cleanup once its
\* references admit a disable: the predecessor's job is gone or never was, and
\* its worker is not the accepted one.
FinishingPhases == {"deployment_healthy", "predecessor_cleanup",
                    "predecessor_job_absent", "accepted"}
Phases == {"none", "domain"} \union PlaceholderPhases \union FinishingPhases
\* "unset": no finishing_retry reference; "null": an empty next_at.
RetryTimes == {"unset", "null", "waiting", "due"}
ThreadStates == {"idle", "taken", "waiting", "locked", "working", "raising",
                 "returned", "raised", "placed_returned", "placed_rejected", "finally",
                 "conclude"}
ProcStates == {"startup", "up", "closing", "draining", "stopped", "crashed"}

TypeOK ==
    /\ opStatus \in [Op -> Statuses]
    /\ opPhase \in [Op -> Phases]
    /\ finishing \in [Op -> BOOLEAN]
    /\ attempts \in [Op -> Nat]
    /\ nextAt \in [Op -> RetryTimes]
    /\ desired \in [Scope -> BOOLEAN]
    /\ dispatch \in [Op -> DispatchStatuses]
    /\ dispatchFinishing \in [Op -> BOOLEAN]
    /\ queued \in [Op -> Nat]
    /\ slots \in Nat
    /\ thrOp \in [Thread -> Op \union {NoOp}]
    /\ pc \in [Thread -> ThreadStates]
    /\ child \in [Thread -> Op \union {NoOp}]
    /\ lock \in [Scope -> Thread \union {NoThread}]
    /\ proc \in ProcStates
    /\ todo \subseteq Op
    /\ cur \in Op \union {NoOp}
    /\ spc \in {"next", "fail", "finish", "requeue"}
    /\ crashes \in Nat

Init ==
    /\ opStatus = [o \in Op |-> "none"]
    /\ opPhase = [o \in Op |-> "none"]
    /\ finishing = [o \in Op |-> FALSE]
    /\ attempts = [o \in Op |-> 0]
    /\ nextAt = [o \in Op |-> "unset"]
    /\ desired \in [Scope -> BOOLEAN]
    /\ dispatch = [o \in Op |-> "none"]
    /\ dispatchFinishing = [o \in Op |-> FALSE]
    /\ queued = [o \in Op |-> 0]
    /\ slots = Capacity
    /\ thrOp = [t \in Thread |-> NoOp]
    /\ pc = [t \in Thread |-> "idle"]
    /\ child = [t \in Thread |-> NoOp]
    /\ lock = [s \in Scope |-> NoThread]
    /\ proc = "up"
    /\ todo = {}
    /\ cur = NoOp
    /\ spc = "next"
    /\ crashes = 0

-----------------------------------------------------------------------------
(***************************************************************************)
(* Journal reads and writes.                                               *)
(***************************************************************************)
get_unfinished_operation(s) ==
    {o \in Op : /\ ScopeOf[o] = s
                /\ opStatus[o] \in Unfinished
                /\ ~finishing[o]}

get_finishing_operation(s) ==
    {o \in Op : /\ ScopeOf[o] = s
                /\ opStatus[o] \in Unfinished
                /\ finishing[o]}

\* Mutant: enable is admitted as a no-op although the application is stopped.
check_finishing_admission_EnablesStopped(s, kind) ==
    \A f \in get_finishing_operation(s) :
        \/ kind \in {"compatible", "enable"}
        \/ /\ kind = "disable"
           /\ opPhase[f] \in {"predecessor_job_absent", "accepted"}

check_finishing_admission(s, kind) ==
    \A f \in get_finishing_operation(s) :
        \/ kind = "compatible"
        \/ /\ kind = "enable"
           /\ opPhase[f] \in FinishingPhases \ {"deployment_healthy"}
           /\ desired[s]
        \/ /\ kind = "disable"
           /\ opPhase[f] \in {"predecessor_job_absent", "accepted"}

\* The guard and the row of begin_operation.
MayBegin(o) ==
    /\ check_finishing_admission(ScopeOf[o], KindOf[o])
    /\ get_unfinished_operation(ScopeOf[o]) = {}

begin_operation(o, phase) ==
    /\ opStatus' = [opStatus EXCEPT ![o] = "running"]
    /\ opPhase' = [opPhase EXCEPT ![o] = phase]
    /\ UNCHANGED <<finishing, attempts, nextAt, desired>>

set_status(o, s) ==
    /\ opStatus' = [opStatus EXCEPT ![o] = s]
    /\ UNCHANGED <<opPhase, finishing, attempts, nextAt, desired>>

set_operation_dispatch_status(o, s) ==
    /\ dispatch' = [dispatch EXCEPT ![o] = s]
    /\ UNCHANGED dispatchFinishing

\* Mutant: the last delay is never used.
schedule_DropsLastDelay(o) ==
    LET again == attempts[o] + 1 < MaxRetries IN
    /\ nextAt' = [nextAt EXCEPT ![o] = IF again THEN "waiting" ELSE "null"]
    /\ opStatus' = [opStatus EXCEPT ![o] =
                        IF again THEN "running" ELSE "recovery_required"]
    /\ UNCHANGED <<opPhase, finishing, attempts, desired>>

\* Mutant: exhaustion is not reported.
schedule_HidesExhaustion(o) ==
    /\ nextAt' = [nextAt EXCEPT ![o] =
                      IF attempts[o] < MaxRetries THEN "waiting" ELSE "null"]
    /\ opStatus' = [opStatus EXCEPT ![o] = "running"]
    /\ UNCHANGED <<opPhase, finishing, attempts, desired>>

\* finishing_retries.schedule on an unfinished finishing operation.
schedule(o) ==
    LET again == attempts[o] < MaxRetries IN
    /\ nextAt' = [nextAt EXCEPT ![o] = IF again THEN "waiting" ELSE "null"]
    /\ opStatus' = [opStatus EXCEPT ![o] =
                        IF again THEN "running" ELSE "recovery_required"]
    /\ UNCHANGED <<opPhase, finishing, attempts, desired>>

active_dispatches(s) ==
    {o \in Op : /\ ScopeOf[o] = s
                /\ dispatch[o] \in {"pending", "running", "recovery_required"}
                /\ ~dispatchFinishing[o]}

-----------------------------------------------------------------------------
(***************************************************************************)
(* The API thread and the retry thread: admission and re-dispatch.  Both   *)
(* run under the executor's _state_lock, so each is one step.              *)
(***************************************************************************)
Enqueue(o) ==
    /\ slots > 0
    /\ slots' = slots - 1
    /\ queued' = [queued EXCEPT ![o] = @ + 1]
    /\ dispatch' = [dispatch EXCEPT ![o] = "pending"]

\* Some set of callers uses this key besides those already admitted.
Asked(o) ==
    \E keys \in Callers : {p \in Op : p = o \/ dispatch[p] # "none"} \subseteq keys

\* Mutant: the finishing operation of the scope is not consulted.
submit_IgnoresFinishing(o) ==
    /\ Asked(o)
    /\ proc = "up"
    /\ KindOf[o] # "child"
    /\ dispatch[o] = "none"
    /\ active_dispatches(ScopeOf[o]) = {}
    /\ get_unfinished_operation(ScopeOf[o]) = {}
    /\ Enqueue(o)
    /\ UNCHANGED <<journal, dispatchFinishing, thrOp, pc, child, lock, boot>>

\* Mutant: the closed check happens outside the critical section.
submit_IgnoresClosed(o) ==
    /\ Asked(o)
    /\ proc \in {"up", "closing", "draining"}
    /\ KindOf[o] # "child"
    /\ dispatch[o] = "none"
    /\ active_dispatches(ScopeOf[o]) = {}
    /\ check_finishing_admission(ScopeOf[o], KindOf[o])
    /\ get_unfinished_operation(ScopeOf[o]) = {}
    /\ Enqueue(o)
    /\ UNCHANGED <<journal, dispatchFinishing, thrOp, pc, child, lock, boot>>

submit(o) ==
    /\ Asked(o)
    /\ proc = "up"
    /\ KindOf[o] # "child"
    /\ dispatch[o] = "none"
    /\ active_dispatches(ScopeOf[o]) = {}
    /\ check_finishing_admission(ScopeOf[o], KindOf[o])
    /\ get_unfinished_operation(ScopeOf[o]) = {}
    /\ Enqueue(o)
    /\ UNCHANGED <<journal, dispatchFinishing, thrOp, pc, child, lock, boot>>

\* Mutant: the dispatch is claimed whatever its status.
Requeueable_IgnoresDispatch(o) ==
    /\ dispatch[o] # "none"
    /\ opStatus[o] \in Unfinished
    /\ opStatus[o] = "recovery_required" \/ finishing[o]

\* requeue_recovery_dispatch: the eligibility shared by both callers.
Requeueable(o) ==
    /\ dispatch[o] = "recovery_required"
    /\ opStatus[o] \in Unfinished
    /\ opStatus[o] = "recovery_required" \/ finishing[o]

\* A caller repeats the identical request with the same key (_external).
resubmit_recovery(o) ==
    /\ proc = "up"
    /\ Requeueable(o)
    /\ Enqueue(o)
    /\ nextAt' = [nextAt EXCEPT ![o] = IF finishing[o] THEN "null" ELSE @]
    /\ UNCHANGED <<opStatus, opPhase, finishing, attempts, desired,
                   dispatchFinishing, thrOp, pc, child, lock, boot>>

\* The retry thread found the operation among finishing_retries.due.
retry_due(o) ==
    /\ proc = "up"
    /\ Requeueable(o)
    /\ finishing[o]
    /\ opStatus[o] = "running"
    /\ nextAt[o] = "due"
    /\ Enqueue(o)
    /\ attempts' = [attempts EXCEPT ![o] = @ + 1]
    /\ nextAt' = [nextAt EXCEPT ![o] = "null"]
    /\ UNCHANGED <<opStatus, opPhase, finishing, desired, dispatchFinishing,
                   thrOp, pc, child, lock, boot>>

\* Wall-clock time reaches next_at, whether or not the controller is up.
BackoffElapses(o) ==
    /\ nextAt[o] = "waiting"
    /\ nextAt' = [nextAt EXCEPT ![o] = "due"]
    /\ UNCHANGED <<opStatus, opPhase, finishing, attempts, desired, dispatches,
                   memory, boot>>

-----------------------------------------------------------------------------
(***************************************************************************)
(* A worker thread: _run around the body of one operation.                 *)
(***************************************************************************)
Goto(t, label) == pc' = [pc EXCEPT ![t] = label]

\* Leaving the body leaves every `with runtime.lock(...)` block of it.
Leave(t, label) ==
    /\ Goto(t, label)
    /\ child' = [child EXCEPT ![t] = NoOp]
    /\ lock' = [s \in Scope |-> IF lock[s] = t THEN NoThread ELSE lock[s]]

Take(t, o) ==
    /\ proc \in {"up", "closing"}
    /\ pc[t] = "idle"
    /\ queued[o] > 0
    /\ queued' = [queued EXCEPT ![o] = @ - 1]
    /\ thrOp' = [thrOp EXCEPT ![t] = o]
    /\ Goto(t, "taken")
    /\ UNCHANGED <<journal, dispatches, slots, child, lock, boot>>

MarkRunning(t) ==
    /\ pc[t] = "taken"
    /\ set_operation_dispatch_status(thrOp[t], "running")
    /\ Goto(t, "waiting")
    /\ UNCHANGED <<journal, queued, slots, thrOp, child, lock, boot>>

AcquireLock(t) ==
    /\ pc[t] = "waiting"
    /\ lock[ScopeOf[thrOp[t]]] = NoThread
    /\ lock' = [lock EXCEPT ![ScopeOf[thrOp[t]]] = t]
    /\ Goto(t, "locked")
    /\ UNCHANGED <<journal, dispatches, queued, slots, thrOp, child, boot>>

\* The lock deadline passes, or validation fails before the lock is taken.
LockBusy(t) ==
    /\ pc[t] = "waiting"
    /\ Goto(t, "raised")
    /\ UNCHANGED <<journal, dispatches, queued, slots, thrOp, child, lock,
                   boot>>

\* Validation under the lock fails, or a resumed row does not match the
\* request: nothing is written.
WorkRefuses(t) ==
    /\ pc[t] = "locked"
    /\ Leave(t, "raised")
    /\ UNCHANGED <<journal, dispatches, queued, slots, thrOp, boot>>

\* Enable of a running or disable of a stopped application writes no row.
WorkIsNoop(t) ==
    LET o == thrOp[t] IN
    /\ pc[t] = "locked"
    /\ opStatus[o] = "none"
    /\ check_finishing_admission(ScopeOf[o], KindOf[o])
    /\ get_unfinished_operation(ScopeOf[o]) = {}
    /\ \/ KindOf[o] = "enable" /\ desired[ScopeOf[o]]
       \/ KindOf[o] = "disable" /\ ~desired[ScopeOf[o]]
    /\ Leave(t, "returned")
    /\ UNCHANGED <<journal, dispatches, queued, slots, thrOp, boot>>

WorkBegins(t) ==
    LET o == thrOp[t] IN
    /\ pc[t] = "locked"
    /\ opStatus[o] = "none"
    /\ KindOf[o] = "enable" => ~desired[ScopeOf[o]]
    /\ KindOf[o] = "disable" => desired[ScopeOf[o]]
    /\ MayBegin(o)
    /\ begin_operation(o, "domain")
    /\ Goto(t, "working")
    /\ UNCHANGED <<dispatches, queued, slots, thrOp, child, lock, boot>>

\* renew_operation_deadline; a placeholder row carries no references, so no
\* body recognises it as its own.
WorkResumes(t) ==
    LET o == thrOp[t] IN
    /\ pc[t] = "locked"
    /\ opStatus[o] \in Unfinished
    /\ opPhase[o] \notin PlaceholderPhases
    /\ set_status(o, "running")
    /\ Goto(t, "working")
    /\ UNCHANGED <<dispatches, queued, slots, thrOp, child, lock, boot>>

\* A disable records the stopped runtime before it succeeds.
WorkStops(t) ==
    LET o == thrOp[t] IN
    /\ pc[t] = "working"
    /\ KindOf[o] = "disable"
    /\ desired[ScopeOf[o]]
    /\ desired' = [desired EXCEPT ![ScopeOf[o]] = FALSE]
    /\ UNCHANGED <<opStatus, opPhase, finishing, attempts, nextAt, dispatches,
                   memory, boot>>

\* Mutant: a migration succeeds without looking at its applications.
MaySucceed_ForgetsChildren(o) ==
    /\ KindOf[o] \notin {"deploy", "enable"}
    /\ KindOf[o] = "disable" => ~desired[ScopeOf[o]]

\* What must be true before the body may record each terminal status.
MaySucceed(o) ==
    /\ KindOf[o] \notin {"deploy", "enable"}
    /\ KindOf[o] = "disable" => ~desired[ScopeOf[o]]
    /\ KindOf[o] = "migrate" =>
          \A c \in Op : KindOf[c] = "child" => opStatus[c] = "succeeded"

MayFail(o) == KindOf[o] \in {"deploy", "compatible", "exclusive"}

\* mark_succeeded or mark_failed by the body of a foreground operation.  A
\* failure may be raised as well (a restart) or returned (a rejected build).
WorkEnds(t) ==
    LET o == thrOp[t] IN
    /\ pc[t] = "working"
    /\ child[t] = NoOp
    /\ ~finishing[o]
    /\ \/ MaySucceed(o) /\ set_status(o, "succeeded") /\ Leave(t, "returned")
       \/ MayFail(o) /\ set_status(o, "failed") /\ Leave(t, "returned")
       \/ MayFail(o) /\ set_status(o, "failed") /\ Leave(t, "raised")
    /\ UNCHANGED <<dispatches, queued, slots, thrOp, boot>>

\* The body raises, having recorded recovery_required itself or not;
\* record_finishing_failure leaves a finishing row running.
WorkRaises(t) ==
    /\ pc[t] \in {"working", "raising"}
    /\ child[t] = NoOp
    /\ \/ UNCHANGED journal
       \/ ~finishing[thrOp[t]] /\ set_status(thrOp[t], "recovery_required")
    /\ Leave(t, "raised")
    /\ UNCHANGED <<dispatches, queued, slots, thrOp, boot>>

\* accept_healthy_deployment, or the last transaction of enable: acceptance
\* and mark_operation_finishing are one transaction over both tables.
WorkAccepts(t) ==
    LET o == thrOp[t] IN
    /\ pc[t] = "working"
    /\ KindOf[o] \in {"deploy", "enable"}
    /\ ~finishing[o]
    /\ finishing' = [finishing EXCEPT ![o] = TRUE]
    /\ dispatchFinishing' = [dispatchFinishing EXCEPT ![o] = TRUE]
    /\ opPhase' = [opPhase EXCEPT ![o] = "deployment_healthy"]
    /\ desired' = [desired EXCEPT ![ScopeOf[o]] = TRUE]
    /\ UNCHANGED <<opStatus, attempts, nextAt, dispatch, memory, boot>>

\* The checkpoints of finish_accepted_operation.  An enable has no
\* predecessor and no registry work.
FinishingOrder(kind) ==
    IF kind = "enable"
      THEN {<<"deployment_healthy", "predecessor_job_absent">>}
      ELSE {<<"deployment_healthy", "predecessor_cleanup">>,
            <<"deployment_healthy", "predecessor_job_absent">>,
            <<"predecessor_cleanup", "predecessor_job_absent">>,
            <<"predecessor_cleanup", "accepted">>,
            <<"predecessor_job_absent", "accepted">>}

FinishingSuccessors(o) ==
    {p \in FinishingPhases : <<opPhase[o], p>> \in FinishingOrder(KindOf[o])}

WorkCheckpoints(t) ==
    LET o == thrOp[t] IN
    /\ pc[t] = "working"
    /\ finishing[o]
    /\ \E next \in FinishingSuccessors(o) :
          opPhase' = [opPhase EXCEPT ![o] = next]
    /\ UNCHANGED <<opStatus, finishing, attempts, nextAt, desired, dispatches,
                   memory, boot>>

\* After the last checkpoint comes mark_succeeded.
WorkFinishes(t) ==
    LET o == thrOp[t] IN
    /\ pc[t] = "working"
    /\ finishing[o]
    /\ FinishingSuccessors(o) = {}
    /\ set_status(o, "succeeded")
    /\ Leave(t, "returned")
    /\ UNCHANGED <<dispatches, queued, slots, thrOp, boot>>

-----------------------------------------------------------------------------
(***************************************************************************)
(* A migrate operation works through applications, taking each             *)
(* application's lock and beginning an operation of its own in that scope, *)
(* for which there is no dispatch.                                         *)
(***************************************************************************)
ChildBegins(t, c) ==
    /\ pc[t] = "working"
    /\ KindOf[thrOp[t]] = "migrate"
    /\ child[t] = NoOp
    /\ KindOf[c] = "child"
    /\ lock[ScopeOf[c]] = NoThread
    /\ \/ opStatus[c] = "none" /\ MayBegin(c) /\ begin_operation(c, "domain")
       \/ opStatus[c] \in Unfinished /\ set_status(c, "running")
    /\ lock' = [lock EXCEPT ![ScopeOf[c]] = t]
    /\ child' = [child EXCEPT ![t] = c]
    /\ UNCHANGED <<dispatches, queued, slots, thrOp, pc, boot>>

ChildSucceeds(t) ==
    /\ pc[t] = "working"
    /\ child[t] # NoOp
    /\ set_status(child[t], "succeeded")
    /\ lock' = [lock EXCEPT ![ScopeOf[child[t]]] = NoThread]
    /\ child' = [child EXCEPT ![t] = NoOp]
    /\ UNCHANGED <<dispatches, queued, slots, thrOp, pc, boot>>

\* The child's failure propagates out of its lock and through the master.
ChildFails(t) ==
    /\ pc[t] = "working"
    /\ child[t] # NoOp
    /\ set_status(child[t], "recovery_required")
    /\ lock' = [lock EXCEPT ![ScopeOf[child[t]]] = NoThread]
    /\ child' = [child EXCEPT ![t] = NoOp]
    /\ Goto(t, "raising")
    /\ UNCHANGED <<dispatches, queued, slots, thrOp, boot>>

-----------------------------------------------------------------------------
(***************************************************************************)
(* The rest of _run, after the body.                                       *)
(***************************************************************************)
\* No row after a normal return: the executor begins one to succeed it.
AfterReturn(t) ==
    LET o == thrOp[t] IN
    /\ pc[t] = "returned"
    /\ \/ opStatus[o] # "none" /\ Goto(t, "finally") /\ UNCHANGED journal
       \/ /\ opStatus[o] = "none" /\ MayBegin(o)
          /\ begin_operation(o, "returned")
          /\ Goto(t, "placed_returned")
       \/ /\ opStatus[o] = "none" /\ ~MayBegin(o)
          /\ Goto(t, "raised")
          /\ UNCHANGED journal
    /\ UNCHANGED <<dispatches, queued, slots, thrOp, child, lock, boot>>

\* except BaseException.  UnfinishedOperationError is passed over.  The other
\* refusal of begin_operation, FinishingOperationConflictError, would end the
\* thread; ConflictNeverKillsWorker shows that it does not arise.
AfterRaise(t) ==
    LET o == thrOp[t] IN
    /\ pc[t] = "raised"
    /\ \/ /\ opStatus[o] = "none" /\ MayBegin(o)
          /\ begin_operation(o, "rejected")
          /\ Goto(t, "placed_rejected")
       \/ /\ opStatus[o] = "running" /\ ~finishing[o]
          /\ set_status(o, "recovery_required")
          /\ Goto(t, "finally")
       \/ /\ \/ opStatus[o] = "none" /\ ~MayBegin(o)
             \/ opStatus[o] = "running" /\ finishing[o]
             \/ opStatus[o] \notin {"none", "running"}
          /\ Goto(t, "finally")
          /\ UNCHANGED journal
    /\ UNCHANGED <<dispatches, queued, slots, thrOp, child, lock, boot>>

\* The placeholder's second transaction.
SettlePlaceholder(t) ==
    /\ \/ pc[t] = "placed_returned" /\ set_status(thrOp[t], "succeeded")
       \/ pc[t] = "placed_rejected" /\ set_status(thrOp[t], "failed")
    /\ Goto(t, "finally")
    /\ UNCHANGED <<dispatches, queued, slots, thrOp, child, lock, boot>>

\* Mutant: any accepted operation counts as pending.
FinishingPending_IgnoresStatus(o) == finishing[o]

FinishingPending(o) == finishing[o] /\ opStatus[o] \in Unfinished

Reschedule(t) ==
    /\ pc[t] = "finally"
    /\ IF FinishingPending(thrOp[t])
         THEN schedule(thrOp[t])
         ELSE UNCHANGED journal
    /\ Goto(t, "conclude")
    /\ UNCHANGED <<dispatches, queued, slots, thrOp, child, lock, boot>>

ConcludedStatus(o) ==
    IF FinishingPending(o) \/ opStatus[o] = "recovery_required"
      THEN "recovery_required"
      ELSE "finished"

\* Mutant: the slot is kept for an operation that will be replayed.
Conclude_LeaksSlot(t) ==
    /\ pc[t] = "conclude"
    /\ set_operation_dispatch_status(thrOp[t], ConcludedStatus(thrOp[t]))
    /\ slots' = IF ConcludedStatus(thrOp[t]) = "finished"
                  THEN slots + 1 ELSE slots
    /\ thrOp' = [thrOp EXCEPT ![t] = NoOp]
    /\ Goto(t, "idle")
    /\ UNCHANGED <<journal, queued, child, lock, boot>>

Conclude(t) ==
    /\ pc[t] = "conclude"
    /\ set_operation_dispatch_status(thrOp[t], ConcludedStatus(thrOp[t]))
    /\ slots' = slots + 1
    /\ thrOp' = [thrOp EXCEPT ![t] = NoOp]
    /\ Goto(t, "idle")
    /\ UNCHANGED <<journal, queued, child, lock, boot>>

-----------------------------------------------------------------------------
(***************************************************************************)
(* close(), crash, and _recover_startup.                                   *)
(***************************************************************************)
Close ==
    /\ proc = "up"
    /\ proc' = "closing"
    /\ UNCHANGED <<journal, dispatches, memory, todo, cur, spc, crashes>>

\* _queue.join() returned; the sentinels go in behind every real item.
Drained ==
    /\ proc = "closing"
    /\ \A o \in Op : queued[o] = 0
    /\ \A t \in Thread : pc[t] = "idle"
    /\ proc' = "draining"
    /\ UNCHANGED <<journal, dispatches, memory, todo, cur, spc, crashes>>

LoseMemory ==
    /\ queued' = [o \in Op |-> 0]
    /\ slots' = Capacity
    /\ thrOp' = [t \in Thread |-> NoOp]
    /\ pc' = [t \in Thread |-> "idle"]
    /\ child' = [t \in Thread |-> NoOp]
    /\ lock' = [s \in Scope |-> NoThread]
    /\ todo' = {}
    /\ cur' = NoOp
    /\ spc' = "next"

Exit ==
    /\ proc = "draining"
    /\ proc' = "stopped"
    /\ LoseMemory
    /\ UNCHANGED <<journal, dispatches, crashes>>

Crash ==
    /\ proc \notin {"stopped", "crashed"}
    /\ crashes < MaxCrashes
    /\ crashes' = crashes + 1
    /\ proc' = "crashed"
    /\ LoseMemory
    /\ UNCHANGED <<journal, dispatches>>

Start ==
    /\ proc \in {"stopped", "crashed"}
    /\ proc' = "startup"
    /\ todo' = {o \in Op : dispatch[o] # "none"}
    /\ UNCHANGED <<journal, dispatches, memory, cur, spc, crashes>>

Visiting(o) == proc = "startup" /\ spc = "next" /\ o \in todo
Interrupted(o) == dispatch[o] \in {"pending", "running"}

StartupSchedules(o) ==
    /\ Visiting(o)
    /\ FinishingPending(o)
    /\ Interrupted(o) \/ nextAt[o] = "unset"
    /\ schedule(o)
    /\ cur' = o
    /\ spc' = "requeue"
    /\ UNCHANGED <<dispatches, memory, proc, todo, crashes>>

\* Mutant: a dispatch that was still queued is left alone.
StartupSkips_Queued(o) ==
    /\ Visiting(o)
    /\ \/ FinishingPending(o) /\ ~Interrupted(o) /\ nextAt[o] # "unset"
       \/ ~FinishingPending(o) /\ dispatch[o] # "running"
    /\ todo' = todo \ {o}
    /\ UNCHANGED <<journal, dispatches, memory, proc, cur, spc, crashes>>

StartupSkips(o) ==
    /\ Visiting(o)
    /\ \/ FinishingPending(o) /\ ~Interrupted(o) /\ nextAt[o] # "unset"
       \/ ~FinishingPending(o) /\ ~Interrupted(o)
    /\ todo' = todo \ {o}
    /\ UNCHANGED <<journal, dispatches, memory, proc, cur, spc, crashes>>

StartupConcludes(o) ==
    /\ Visiting(o)
    /\ Interrupted(o)
    /\ opStatus[o] \in Terminal
    /\ set_operation_dispatch_status(o, "finished")
    /\ todo' = todo \ {o}
    /\ UNCHANGED <<journal, memory, proc, cur, spc, crashes>>

StartupPlaces(o) ==
    /\ Visiting(o)
    /\ Interrupted(o)
    /\ opStatus[o] = "none"
    /\ MayBegin(o)
    /\ begin_operation(o, "startup_interrupted")
    /\ cur' = o
    /\ spc' = "fail"
    /\ UNCHANGED <<dispatches, memory, proc, todo, crashes>>

\* UnfinishedOperationError: the scope belongs to a row with another key.
StartupFindsScopeTaken(o) ==
    /\ Visiting(o)
    /\ Interrupted(o)
    /\ opStatus[o] = "none"
    /\ ~MayBegin(o)
    /\ set_operation_dispatch_status(o, "recovery_required")
    /\ todo' = todo \ {o}
    /\ UNCHANGED <<journal, memory, proc, cur, spc, crashes>>

\* Mutant: an ended operation is marked as well.
StartupMarksRecovery_Ended(o) ==
    /\ Visiting(o)
    /\ ~FinishingPending(o)
    /\ Interrupted(o)
    /\ opStatus[o] # "none"
    /\ set_status(o, "recovery_required")
    /\ cur' = o
    /\ spc' = "requeue"
    /\ UNCHANGED <<dispatches, memory, proc, todo, crashes>>

StartupMarksRecovery(o) ==
    /\ Visiting(o)
    /\ ~FinishingPending(o)
    /\ Interrupted(o)
    /\ opStatus[o] \in Unfinished
    /\ set_status(o, "recovery_required")
    /\ cur' = o
    /\ spc' = "requeue"
    /\ UNCHANGED <<dispatches, memory, proc, todo, crashes>>

StartupFails ==
    /\ proc = "startup" /\ spc = "fail"
    /\ set_status(cur, "failed")
    /\ spc' = "finish"
    /\ UNCHANGED <<dispatches, memory, proc, todo, cur, crashes>>

StartupSetsDispatch ==
    /\ proc = "startup" /\ spc \in {"finish", "requeue"}
    /\ set_operation_dispatch_status(
           cur, IF spc = "finish" THEN "finished" ELSE "recovery_required")
    /\ todo' = todo \ {cur}
    /\ cur' = NoOp
    /\ spc' = "next"
    /\ UNCHANGED <<journal, memory, proc, crashes>>

StartupDone ==
    /\ proc = "startup" /\ spc = "next" /\ todo = {}
    /\ proc' = "up"
    /\ UNCHANGED <<journal, dispatches, memory, todo, cur, spc, crashes>>

-----------------------------------------------------------------------------
ThreadStep(t) ==
    \/ \E o \in Op : Take(t, o)
    \/ MarkRunning(t) \/ AcquireLock(t) \/ LockBusy(t)
    \/ WorkRefuses(t) \/ WorkIsNoop(t) \/ WorkBegins(t) \/ WorkResumes(t)
    \/ WorkStops(t) \/ WorkEnds(t) \/ WorkRaises(t)
    \/ WorkAccepts(t) \/ WorkCheckpoints(t) \/ WorkFinishes(t)
    \/ \E c \in Op : ChildBegins(t, c)
    \/ ChildSucceeds(t) \/ ChildFails(t)
    \/ AfterReturn(t) \/ AfterRaise(t) \/ SettlePlaceholder(t)
    \/ Reschedule(t) \/ Conclude(t)

StartupStep ==
    \/ \E o \in Op :
          \/ StartupSchedules(o) \/ StartupSkips(o) \/ StartupConcludes(o)
          \/ StartupPlaces(o) \/ StartupFindsScopeTaken(o)
          \/ StartupMarksRecovery(o)
    \/ StartupFails \/ StartupSetsDispatch \/ StartupDone

Next ==
    \/ \E o \in Op : submit(o) \/ resubmit_recovery(o) \/ retry_due(o)
                       \/ BackoffElapses(o)
    \/ \E t \in Thread : ThreadStep(t)
    \/ Close \/ Drained \/ Exit \/ Crash \/ Start
    \/ StartupStep

Spec == Init /\ [][Next]_vars

\* Threads and startup run to completion; a stopped controller is started
\* again (its service restarts it); the clock advances and the retry thread
\* polls, and neither is preempted for ever by replays or by restarts.
Fairness ==
    /\ \A t \in Thread : WF_vars(ThreadStep(t))
    /\ WF_vars(StartupStep) /\ WF_vars(Start) /\ WF_vars(Drained)
    /\ WF_vars(Exit)
    /\ \A o \in Op : SF_vars(retry_due(o)) /\ SF_vars(BackoffElapses(o))

FairSpec == Spec /\ Fairness

-----------------------------------------------------------------------------
(***************************************************************************)
(* Properties.                                                             *)
(***************************************************************************)
\* begin_operation and mark_operation_finishing never put two unfinished
\* operations of one scope in the same lane.  The partial unique indexes of
\* the schema would turn a second one into an error; this says they never
\* have to.
OneOperationPerLane ==
    \A o, p \in Op :
        /\ o # p
        /\ ScopeOf[o] = ScopeOf[p]
        /\ opStatus[o] \in Unfinished
        /\ opStatus[p] \in Unfinished
        => finishing[o] # finishing[p]

\* While the executor runs, a dispatch row is pending or running exactly when
\* one queue item or one thread carries it: accepted work is never stranded,
\* and a manual replay racing the retry thread never executes it twice.
ExecutedExactlyOnce ==
    /\ \A o \in Op : /\ queued[o] <= 1
                     /\ queued[o] = 1 => \A t \in Thread : thrOp[t] # o
    /\ \A t, u \in Thread : t # u /\ thrOp[t] = thrOp[u] => thrOp[t] = NoOp
    /\ proc \in {"up", "closing", "draining"} =>
          \A o \in Op :
              Interrupted(o) <=> \/ queued[o] = 1
                                 \/ \E t \in Thread : thrOp[t] = o

\* Every path through submit, resubmit_recovery and _run returns its slot, so
\* admission never loses capacity.
SlotsConserved ==
    slots + Cardinality({o \in Op : queued[o] > 0})
          + Cardinality({t \in Thread : thrOp[t] # NoOp}) = Capacity

\* An operation of a migration has, or had, the scope of o, which has no row.
Crossed(o) ==
    /\ opStatus[o] = "none"
    /\ \E c \in Op : /\ KindOf[c] = "child" /\ ScopeOf[c] = ScopeOf[o]
                     /\ opStatus[c] # "none"

\* A dispatch left in recovery_required has an unfinished operation, so repeating
\* the request resumes it, and a finished one has a terminal operation, so whoever
\* polls it sees a result; except where a migration's child took the scope between
\* the admission of the request and its execution.
LanesReplayable ==
    \A o \in Op :
        /\ dispatch[o] = "recovery_required" => opStatus[o] \in Unfinished \/ Crossed(o)
        /\ dispatch[o] = "finished" => opStatus[o] \in Terminal \/ Crossed(o)

\* Accepted finishing work that is not being executed is either waiting for
\* its next automatic attempt or has used them all up, crash or not.
RetryNeverForgotten ==
    \A o \in Op :
        FinishingPending(o) /\ dispatch[o] = "recovery_required" =>
            \/ opStatus[o] = "running" /\ nextAt[o] \in {"waiting", "due"}
            \/ opStatus[o] = "recovery_required" /\ attempts[o] = MaxRetries

\* The automatic budget holds across crashes and manual replays.
BudgetHolds ==
    \A o \in Op :
        /\ attempts[o] <= MaxRetries
        /\ nextAt[o] \in {"waiting", "due"} => attempts[o] < MaxRetries

\* _run and _recover_startup catch only UnfinishedOperationError around the
\* row they begin themselves.  A finishing conflict there would end a worker
\* thread or the startup; an admitted request never meets one.
ConflictNeverKillsWorker ==
    \A o \in Op :
        Interrupted(o) /\ opStatus[o] = "none" =>
            check_finishing_admission(ScopeOf[o], KindOf[o])

\* Finishing work is neither forgotten nor retried beyond the schedule.
RetriesKept == RetryNeverForgotten /\ BudgetHolds

\* close() drains: an orderly stop leaves no accepted work behind.
StopLeavesNothingBehind ==
    proc = "stopped" => \A o \in Op : ~Interrupted(o)

\* migrate ends only after every application it locked: an unfinished child
\* always has an unfinished master that a replay can complete it through.
MasterOutlivesChild ==
    \A m, c \in Op :
        KindOf[m] = "migrate" /\ KindOf[c] = "child"
        /\ opStatus[c] \in Unfinished => opStatus[m] \in Unfinished

\* Whatever is admitted is settled: its dispatch leaves pending and running.
DispatchSettles == \A o \in Op : Interrupted(o) ~> ~Interrupted(o)

\* Accepted work ends, or exhausts its retries and asks for a human.
FinishingResolves ==
    \A o \in Op :
        finishing[o] ~> opStatus[o] \in {"succeeded", "recovery_required"}

-----------------------------------------------------------------------------
(***************************************************************************)
(* The promise of the journal: what is left of the rows for whoever sees   *)
(* only requests and results.                                              *)
(***************************************************************************)
life ==
    [o \in Op |-> IF opStatus[o] = "none" THEN "unknown"
                  ELSE IF opStatus[o] \in Terminal THEN opStatus[o]
                  ELSE IF finishing[o] THEN "finishing" ELSE "open"]

duty ==
    [o \in Op |-> IF dispatch[o] = "none" THEN "none"
                  ELSE IF dispatch[o] = "finished" THEN "done"
                  ELSE IF dispatch[o] = "recovery_required" THEN "resting"
                  ELSE "held"]

Promise == INSTANCE Operations WITH Inner <- {o \in Op : KindOf[o] = "child"}

\* The executor, its crashes and its restarts implement Operations: an operation
\* begins and ends once, is accepted alone in its scope and then never fails, a
\* request rests only with something to resume, and is done only with a result,
\* unless an instance migration crossed it.
JournalKept == Promise!Spec

-----------------------------------------------------------------------------
(***************************************************************************)
(* Inductive strengthenings, used by the proofs.                           *)
(***************************************************************************)
\* Memory agrees with the dispatch table, and startup has still to visit
\* every dispatch that memory lost.
CarrierInv ==
    /\ ExecutedExactlyOnce
    /\ \A t \in Thread : pc[t] = "idle" <=> thrOp[t] = NoOp
    /\ proc \notin {"up", "closing"} =>
          /\ \A o \in Op : queued[o] = 0
          /\ \A t \in Thread : thrOp[t] = NoOp
    /\ proc = "startup" =>
          /\ \A o \in Op : Interrupted(o) => o \in todo
          /\ \A o \in todo : dispatch[o] # "none"
          /\ spc # "next" => cur \in todo
    /\ proc # "startup" => spc = "next"

\* A thread inside a body owns an unfinished row with domain intent, which no
\* other thread touches; a child is run by the one migrate thread.
BodyInv ==
    /\ \A t \in Thread :
          pc[t] \in {"working", "raising"} =>
              /\ opStatus[thrOp[t]] \in Unfinished
              /\ opPhase[thrOp[t]] \notin PlaceholderPhases
    /\ \A t \in Thread :
          child[t] # NoOp =>
              /\ pc[t] = "working"
              /\ KindOf[thrOp[t]] = "migrate"
              /\ KindOf[child[t]] = "child"
              /\ opStatus[child[t]] \in Unfinished
    /\ \A o \in Op : dispatch[o] # "none" => KindOf[o] # "child"
    /\ \A o \in Op : finishing[o] => opStatus[o] # "none"

\* What acceptance relies on: an operation that may still be accepted has no
\* finishing operation beside it.
AcceptanceInv ==
    \A o, f \in Op :
        /\ ScopeOf[o] = ScopeOf[f]
        /\ opStatus[o] \in Unfinished /\ ~finishing[o]
        /\ KindOf[o] \in {"deploy", "enable"}
        /\ opPhase[o] \notin PlaceholderPhases
        => ~(opStatus[f] \in Unfinished /\ finishing[f])

LaneInv == OneOperationPerLane /\ AcceptanceInv /\ BodyInv

\* A row the executor began and has still to end.
Placeholder(o) ==
    opStatus[o] = "running" /\ ~finishing[o] /\ opPhase[o] \in PlaceholderPhases

\* What _run has done once it leaves its except clauses.
Settled(o) ==
    \/ opStatus[o] \in Terminal \union {"recovery_required"}
    \/ FinishingPending(o)
    \/ Crossed(o)

\* Where a thread or the startup is tells what the row it is about says.
Placed(t) ==
    /\ pc[t] = "returned" => opStatus[thrOp[t]] \in Terminal \union {"none"}
    /\ pc[t] \in {"placed_returned", "placed_rejected"} => Placeholder(thrOp[t])
    /\ pc[t] \in {"finally", "conclude"} => Settled(thrOp[t])

PlacedInv ==
    /\ \A t \in Thread : Placed(t)
    /\ spc = "fail" => Interrupted(cur) /\ Placeholder(cur)
    /\ spc = "finish" => Interrupted(cur) /\ opStatus[cur] \in Terminal
    /\ spc = "requeue" => opStatus[cur] \in Unfinished

\* The two tables agree on what is accepted, which only two kinds ever are.
FlagsInv ==
    \A o \in Op :
        /\ dispatchFinishing[o] = finishing[o]
        /\ finishing[o] => /\ KindOf[o] \in {"deploy", "enable"}
                           /\ opStatus[o] \notin {"none", "failed"}

\* Whoever has not been accepted is the one active request of its scope.
DutyInv ==
    /\ \A o \in Op : KindOf[o] # "child" =>
          /\ opStatus[o] # "none" => dispatch[o] # "none"
          /\ opStatus[o] \in Unfinished => dispatch[o] # "finished"
    /\ \A o, p \in Op :
          o \in active_dispatches(ScopeOf[o]) /\ p \in active_dispatches(ScopeOf[o])
          => o = p

\* The master of an unfinished child has domain intent, so no placeholder's
\* second transaction ends it.
MasterInv ==
    \A m, c \in Op :
        KindOf[m] = "migrate" /\ KindOf[c] = "child" /\ opStatus[c] \in Unfinished
        => opStatus[m] \in Unfinished /\ opPhase[m] \notin PlaceholderPhases

RowInv == FlagsInv /\ DutyInv /\ MasterInv /\ ConflictNeverKillsWorker

\* Finishing work that no thread is about to schedule is scheduled.
Scheduled(o) ==
    FinishingPending(o) =>
        \/ opStatus[o] = "running" /\ nextAt[o] \in {"waiting", "due"}
        \/ opStatus[o] = "recovery_required" /\ attempts[o] = MaxRetries

RetryInv ==
    /\ \A o \in Op : dispatch[o] = "recovery_required" => Scheduled(o)
    /\ \A t \in Thread : pc[t] = "conclude" => Scheduled(thrOp[t])
    /\ spc = "requeue" => Scheduled(cur)

=============================================================================
