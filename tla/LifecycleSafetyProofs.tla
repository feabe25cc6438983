----------------------- MODULE LifecycleSafetyProofs ------------------------
(***************************************************************************)
(* A restart is requested once; a deleted application has nothing left.    *)
(* With these, the invariant of the lifecycle, and what follows from it    *)
(* for an application that is cut over, stopped, superseded, restarted or  *)
(* deleted.                                                                *)
(***************************************************************************)
EXTENDS LifecycleServingProofs, LifecycleJobProofs

\* Most steps are first-order: Zenon is the prover where no other is named.
USE ZenonT(60)

(* Restart.                                                                *)

\* A step outside a restart keeps RestartInv.
LEMMA RestartKept ==
  ASSUME RestartInv, UNCHANGED restarts, pc' \notin {"rReq", "rCall"},
         \A o \in Op : KindOf[o] = "restart" /\ op[o].status # "none" =>
             op'[o].status # "none" /\ op'[o].phase = op[o].phase
  PROVE  RestartInv'
  BY DEF RestartInv

\* A restart calls the scheduler after it is recorded, and once.
LEMMA RestartOwn ==
  ASSUME TypeOK, ExclusionInv, RestartInv, RestartSteps
  PROVE  RestartInv'
  <1>1. cur \in Op /\ KindOf[cur] = "restart" /\ cur \in Unfinished /\ cur' = cur
    BY BodyOf DEF Unfinished, RestartSteps, RestartRequested, RestartTask, Step
  <1>2. pc \in {"rReq", "rCall"} /\ restarts[cur] = 0
    BY <1>1 DEF RestartSteps, RestartRequested, RestartTask, Step, RestartInv
  <1>3. op[cur].status # "none"
    BY <1>1 DEF Unfinished, Open
  <1>4. CASE RestartRequested
    <2>1. /\ op'[cur].phase = "restart_requested" /\ op'[cur].status = op[cur].status
          /\ UNCHANGED restarts /\ \A o \in Op \ {cur} : op'[o] = op[o]
      BY <1>1, <1>4, RestartRequestedWrites DEF Wrote, Holding
    <2>2. pc' = "rCall"
      BY <1>4 DEF RestartRequested, Step
    <2> QED
      BY <1>1, <1>2, <2>1, <2>2 DEF RestartInv
  <1>5. CASE RestartTask
    <2>1. /\ restarts' = [restarts EXCEPT ![cur] = restarts[cur] + 1]
          /\ pc = "rCall" /\ pc' = "rDone" /\ UNCHANGED op
      BY <1>5 DEF RestartTask, Step
    <2>2. restarts'[cur] = 1 /\ \A o \in Op \ {cur} : restarts'[o] = restarts[o]
      BY SMTT(30), <1>1, <1>2, <2>1 DEF TypeOK
    <2>3. op[cur].phase = "restart_requested"
      BY <2>1 DEF RestartInv
    <2> QED
      BY <1>1, <1>3, <2>1, <2>2, <2>3 DEF RestartInv
  <1> QED
    BY <1>4, <1>5 DEF RestartSteps

\* Every step keeps RestartInv: a recorded restart is not called again.
LEMMA RestartStep ==
  ASSUME TypeOK, ExclusionInv, RestartInv, [Next]_vars
  PROVE  RestartInv'
  <1>1. CASE EndSteps
    <2>1. Closed(cur) /\ pc' \in {"idle", "failAttempt"} /\ cur \in Op
      BY <1>1, EndStepCloses, NextLabels
    <2>2. UNCHANGED restarts
      BY <1>1 DEF EndSteps, CreateAttemptRefused, RejectOp, FailOp, Succeed, DisableDone,
         RestartDone, RestartFails, complete_application_deletion, mark, Journal
    <2> QED
      BY <2>1, <2>2, RestartKept DEF Closed
  <1>2. CASE \/ RowSteps \/ QuietDeploySteps \/ FinishSteps \/ DisableSteps \/ EnableSteps
             \/ DeleteSteps \/ AcceptDeployment \/ EnableAccept
    <2>1. BodyStep
      BY <1>2, StepCases DEF QuietDeploySteps
    <2>2. KindOf[cur] # "restart" \/ UNCHANGED op
      BY <1>2, BodyOf, QuietDeployStepsPlace
         DEF ExclusionInv, Finishing, IsDeploy, DeployKinds, QuietDeploySteps
    <2>3. UNCHANGED restarts
      <3>1. ~RestartTask
        BY <1>2, FromLabels, LabelGroups DEF RestartTask, RestartSteps
      <3> QED
        BY <2>1, <3>1, BodyFrame
    <2>4. pc' \notin {"rReq", "rCall"}
      BY <1>2, NextLabels DEF ForwardLabels, DeployLabels, BuildLabels, CutLabels,
         PastCutover, CandidateLabels, FinishLabels, DisableLabels, EnableLabels, DeleteLabels
    <2> QED
      BY <2>1, <2>2, <2>3, <2>4, OwnRow, RestartKept
  <1>3. CASE RestartSteps
    BY <1>3, RestartOwn
  <1>4. CASE Raise \/ Interrupt
    BY <1>4, RestartKept DEF Raise, Interrupt, Quiet
  <1>5. CASE UNCHANGED vars
    BY <1>5 DEF vars, RestartInv
  <1>6. ASSUME NEW o \in Op, Request(o)
        PROVE  RestartInv'
    <2>1. PICK label : Opened(o, label)
      BY <1>6, RequestRuns
    <2>2. restarts[o] # 1
      BY <2>1 DEF Opened, RestartInv
    <2>3. pc' # "rCall"
      BY <1>6 DEF Request, BeginDeploy, BeginDisable, BeginEnable, BeginRestart, BeginDelete,
         Begin
    <2> QED
      BY <2>1, <2>2, <2>3 DEF Opened, RestartInv
  <1>7. ASSUME NEW o \in Op, Resume(o)
        PROVE  RestartInv'
    <2>1. CASE ReplayDeploy(o)
      <3>1. /\ IsDeploy(o) /\ UNCHANGED restarts /\ pc' = RecoveryLabel(op[o].phase)
            /\ \A p \in Op \ {o} : op'[p] = op[p]
        BY <2>1, ReplayDeployWrites DEF ReplayDeploy
      <3>2. KindOf[o] # "restart" /\ pc' \notin {"rReq", "rCall"}
        BY <3>1 DEF IsDeploy, DeployKinds, RecoveryLabel
      <3> QED
        BY <3>1, <3>2, RestartKept
    <2>2. CASE \E label \in {"disJob", "eWorker", "dStop", "finish"} : Resumed(o, label)
      BY <2>2, RestartKept DEF Resumed
    <2>3. CASE Resumed(o, "rReq") /\ op[o].phase # "restart_requested"
      BY <2>3 DEF Resumed, RestartInv
    <2>4. CASE Closed(o) /\ pc = "idle" /\ UNCHANGED <<restarts, pc, cur>>
      BY <2>4, RestartKept DEF Closed
    <2> QED
      BY <1>7, <2>1, <2>2, <2>3, <2>4, ResumeCases
  <1> QED
    BY <1>1, <1>2, <1>3, <1>4, <1>5, <1>6, <1>7, StepCases DEF Next, QuietDeploySteps

(* Delete.                                                                 *)

Deleting == DeleteInv /\ DeletedLeavesNothing

\* A step outside a deletion keeps what the deletion has removed.
LEMMA DeleteKept ==
  ASSUME DeleteInv, ~app'.deleted, UNCHANGED res, cloud'.storage = cloud.storage,
         pc' \notin {"dForget", "dWorkers", "dOff", "dImages"}
  PROVE  Deleting'
  BY DEF DeleteInv, Deleting, DeletedLeavesNothing

\* A deletion goes on only when what it removes before is gone.
LEMMA DeleteOwn ==
  ASSUME TypeOK, DeleteInv, DeleteSteps, ~app'.deleted
  PROVE  Deleting'
  <1>1. cloud \in Clouds
    BY DEF TypeOK, Clouds
  <1>2. CASE DeleteStop
    BY <1>1, <1>2, DeleteKept DEF DeleteStop, Step, Helper, WithoutJob, Clouds
  <1>3. CASE DeleteResource
    <2>1. \A r \in Resource : res'[r] = "gone" => res[r] = "gone"
      BY <1>3 DEF DeleteResource, SetResource, TypeOK
    <2>2. pc' = "dPurge" /\ UNCHANGED cloud
      BY <1>3 DEF DeleteResource, SetResource, Step
    <2> QED
      BY <2>1, <2>2 DEF DeleteInv, Deleting, DeletedLeavesNothing
  <1>4. CASE DeletePurge
    <2>1. /\ cloud'.storage = cloud.storage \ {FirstResource} /\ UNCHANGED res
          /\ pc' = "dForget"
      BY <1>1, <1>4 DEF DeletePurge, Step, Helper, Clouds
    <2>2. FirstResource' = FirstResource
      BY <2>1 DEF FirstResource
    <2> QED
      BY <2>1, <2>2 DEF DeleteInv, Deleting, DeletedLeavesNothing
  <1>5. CASE DeleteForget
    <2>1. /\ \A r \in Resource : res'[r] = "gone" => res[r] = "gone" \/ r = FirstResource
          /\ pc = "dForget" /\ pc' = "dRes" /\ UNCHANGED cloud
      BY <1>5 DEF DeleteForget, SetResource, Step, TypeOK
    <2> QED
      BY <2>1 DEF DeleteInv, Deleting, DeletedLeavesNothing
  <1>6. CASE DeleteRuntime
    <2>1. /\ \A j \in JobId : cloud'.jobs[j] = NoJob
          /\ cloud'.storage = cloud.storage /\ UNCHANGED res /\ pc' = "dWorkers"
          /\ \A r \in Resource : res[r] = "gone"
      BY <1>1, <1>6 DEF DeleteRuntime, Step, Helper, Clouds
    <2> QED
      BY <2>1 DEF DeleteInv, Deleting, DeletedLeavesNothing
  <1>7. CASE DeleteWorkers
    <2>1. /\ cloud'.jobs = cloud.jobs /\ cloud'.workers = {}
          /\ cloud'.storage = cloud.storage /\ UNCHANGED res
          /\ pc = "dWorkers" /\ pc' = "dOff"
      BY <1>1, <1>7 DEF DeleteWorkers, Step, Helper, Clouds
    <2> QED
      BY <2>1 DEF DeleteInv, Deleting, DeletedLeavesNothing
  <1>8. CASE DeleteOff
    <2>1. UNCHANGED <<cloud, res>> /\ pc = "dOff" /\ pc' = "dImages"
      BY <1>8 DEF DeleteOff, Step, set_application_runtime
    <2> QED
      BY <2>1 DEF DeleteInv, Deleting, DeletedLeavesNothing
  <1>9. CASE DeleteImage
    <2>1. /\ cloud'.jobs = cloud.jobs /\ cloud'.workers = cloud.workers
          /\ cloud'.storage = cloud.storage /\ UNCHANGED res
          /\ pc = "dImages" /\ pc' = "dImages"
      BY <1>1, <1>9 DEF DeleteImage, Step, Helper, WithoutImage, Clouds
    <2> QED
      BY <2>1 DEF DeleteInv, Deleting, DeletedLeavesNothing
  <1> QED
    BY <1>2, <1>3, <1>4, <1>5, <1>6, <1>7, <1>8, <1>9 DEF DeleteSteps

\* What the deletion finds done when it is recorded.
LEMMA DeleteCompleted ==
  ASSUME TypeOK, ExclusionInv, DeleteInv, complete_application_deletion
  PROVE  Deleting'
  <1>1. /\ pc = "dImages" /\ pc' = "idle" /\ UNCHANGED <<cloud, res>>
        /\ \A image \in RecordedImages : ~InRegistry(image)
    BY DEF complete_application_deletion, Step
  <1>2. cur \in Op /\ Closed(cur)
    BY EndStepCloses DEF EndSteps
  <1>3. KindOf[cur] = "delete" /\ cur \in Unfinished
    BY <1>1 DEF ExclusionInv, DeleteLabels
  <1>4. Finishing = {} /\ \A o \in Unfinished : o = cur
    BY <1>3 DEF ExclusionInv
  <1>5. \A o \in Op : op'[o].status # "open"
    BY <1>2, <1>4 DEF Closed, Unfinished, Finishing, Open
  <1>6. RecordedImages' = RecordedImages
    <2>1. \A o \in Op : op'[o].candidate = op[o].candidate
      BY <1>2 DEF Closed
    <2> QED
      BY <2>1 DEF RecordedImages, IsDeploy
  <1>7. cloud.storage \subseteq Resource
    BY DEF TypeOK
  <1>8. /\ \A j \in JobId : cloud.jobs[j] = NoJob
        /\ cloud.workers = {} /\ cloud.storage = {}
    BY <1>1, <1>7 DEF DeleteInv
  <1>9. DeleteInv'
    BY <1>1, <1>5 DEF DeleteInv, Open
  <1>10. DeletedLeavesNothing'
    BY <1>1, <1>6, <1>8 DEF DeletedLeavesNothing, InRegistry
  <1> QED
    BY <1>9, <1>10 DEF Deleting

\* Every step keeps DeleteInv: a deletion is recorded when nothing is left.
LEMMA DeletingStep ==
  ASSUME TypeOK, ExclusionInv, Deleting, [Next]_vars
  PROVE  Deleting'
  <1> USE DEF Deleting
  <1>1. CASE BodyStep
    <2>1. ~app.deleted
      BY <1>1, BodyStepped DEF Stepped, DeleteInv
    <2>2. CASE complete_application_deletion
      BY <2>2, DeleteCompleted
    <2>3. CASE ~complete_application_deletion
      <3>1. app'.deleted = FALSE
        BY <1>1, <2>1, <2>3, BodyFrame DEF TypeOK
      <3>2. CASE DeleteSteps
        BY <3>1, <3>2, DeleteOwn
      <3>3. CASE ~DeleteSteps
        <4>1. UNCHANGED res /\ cloud'.storage = cloud.storage
          BY <1>1, <3>3, BodyFrame DEF DeleteSteps
        <4>2. pc' \notin {"dForget", "dWorkers", "dOff", "dImages"}
          BY <1>1, <3>3, StepCases, NextLabels DEF QuietDeploySteps, ForwardLabels,
             DeployLabels, BuildLabels, CutLabels, PastCutover, CandidateLabels, FinishLabels,
             DisableLabels, EnableLabels, RestartLabels
        <4> QED
          BY <3>1, <4>1, <4>2, DeleteKept
      <3> QED
        BY <3>2, <3>3
    <2> QED
      BY <2>2, <2>3
  <1>2. CASE Raise \/ Interrupt
    <2>1. ~app.deleted
      BY <1>2 DEF Raise, Interrupt, DeleteInv
    <2> QED
      BY <1>2, <2>1, DeleteKept DEF Raise, Interrupt, Quiet
  <1>3. CASE UNCHANGED vars
    BY <1>3 DEF vars, DeleteInv, DeletedLeavesNothing, FirstResource, Open, RecordedImages,
       InRegistry, IsDeploy
  <1>4. ASSUME NEW o \in Op, Request(o)
        PROVE  Deleting'
    <2>1. PICK label : Opened(o, label)
      BY <1>4, RequestRuns
    <2>2. ~app.deleted
      BY <1>4 DEF Request, BeginDeploy, BeginDisable, BeginEnable, BeginRestart, BeginDelete,
         MayBegin
    <2>3. pc' \notin {"dForget", "dWorkers", "dOff", "dImages"}
      BY <1>4 DEF Request, BeginDeploy, BeginDisable, BeginEnable, BeginRestart, BeginDelete,
         Begin
    <2> QED
      BY <2>1, <2>2, <2>3, DeleteKept DEF Opened
  <1>5. ASSUME NEW o \in Op, Resume(o)
        PROVE  Deleting'
    <2>1. o \in Unfinished \cup Finishing
      BY <1>5 DEF Resume, ReplayDeploy, ReplayDisable, ReplayEnable, ReplayRestart,
         ReplayDelete, FinishAgain
    <2>2. ~app.deleted
      BY <2>1 DEF DeleteInv, Unfinished, Finishing
    <2>3. UNCHANGED <<app, res, cloud>>
      BY <1>5, ResumeCases DEF Resumed, ReplayDeploy
    <2>4. pc' \notin {"dForget", "dWorkers", "dOff", "dImages"}
      BY <1>5, ResumeCases DEF Resumed, ReplayDeploy, RecoveryLabel
    <2> QED
      BY <2>2, <2>3, <2>4, DeleteKept
  <1> QED
    BY <1>1, <1>2, <1>3, <1>4, <1>5 DEF Next

(* The whole lifecycle.                                                    *)

\* Two processes of a stopped or cut application would have the same owner.
LEMMA NoOverlap ==
  ASSUME TypeOK, ExclusionInv, CandidateInv, StopInv, JobInv
  PROVE  CutoverNeverOverlaps
  <1> SUFFICES ASSUME NEW j \in JobId, NEW i \in JobId \ {j}, cloud.jobs[j].up,
                      cloud.jobs[i].up,
                      \/ ~app.desired
                      \/ cloud.jobs[j].op \in Unfinished /\ Maintenance(cloud.jobs[j].op)
               PROVE  FALSE
    BY DEF CutoverNeverOverlaps
  <1>1. ~app.desired \/ ~HasActive
    BY DEF StopInv
  <1>2. \A o \in Op : ~Superseded(o)
    BY <1>1, JobParts, ConstantsAssumption DEF Superseding, Superseded, Finishing, HasActive
  <1>3. ASSUME NEW k \in JobId, cloud.jobs[k].up
        PROVE  /\ HasActive /\ cloud.jobs[k].op = app.active => k = Active.job /\ Enabling
               /\ \/ HasActive /\ cloud.jobs[k].op = app.active
                  \/ Candidate(cloud.jobs[k].op) /\ k = TargetJob /\ ~Enabling
    <2>1. HasActive /\ cloud.jobs[k].op = app.active => k = Active.job /\ Enabling
      BY <1>1, StopParts DEF AcceptedRuns, AcceptedJob, HasActive, CandidateInv
    <2>2. Candidate(cloud.jobs[k].op) => ~Enabling
      BY DEF Candidate, Enabling, ExclusionInv, IsDeploy, DeployKinds
    <2> QED
      BY <1>2, <1>3, <2>1, <2>2, Owners
  <1> QED
    BY <1>3

\* A stopped application has no owner whose job could run.
LEMMA StoppedSilent ==
  ASSUME TypeOK, ExclusionInv, CandidateInv, StopInv, JobInv
  PROVE  StoppedRunsNothing
  <1> SUFFICES ASSUME Quiescent, ~app.desired, NEW j \in JobId, cloud.jobs[j].up
               PROVE  FALSE
    BY DEF StoppedRunsNothing
  <1>1. Unfinished = {} /\ Finishing = {}
    BY DEF Quiescent, Unfinished, Finishing
  <1>2. ~Enabling /\ \A o \in Op : ~Candidate(o) /\ ~Superseded(o)
    BY <1>1 DEF Enabling, Candidate, Superseded
  <1> QED
    BY <1>2, Owners, StopParts DEF AcceptedRuns, AcceptedJob, HasActive

\* A superseded deployment's route is outranked by one that is up.
LEMMA SupersededSilent ==
  ASSUME TypeOK, ExclusionInv, ActiveInv, CutInv, CandidateInv, JobInv, PriorityInv,
         PredecessorKeepsServing
  PROVE  SupersededNeverServes
  <1> SUFFICES ASSUME NEW k \in Routed,
                      \A i \in Routed : cloud.jobs[i].prio <= cloud.jobs[k].prio,
                      cloud.jobs[k].op \notin {app.active} \cup {o \in Unfinished : IsDeploy(o)}
               PROVE  FALSE
    BY DEF SupersededNeverServes, Serving
  <1> DEFINE o == cloud.jobs[k].op
  <1>1. k \in JobId /\ cloud.jobs[k].up
    BY DEF Routed
  <1>2. o \in Op /\ Superseded(o)
    BY <1>1, Owners DEF Candidate
  <1>3. app.active \in Finishing /\ HasActive
    BY <1>2, ConstantsAssumption DEF Superseded, Finishing, HasActive
  <1>4. Undisturbed
    <2>1. app.desired /\ \A d \in Unfinished : KindOf[d] # "disable"
      BY <1>2, JobParts DEF Superseding
    <2>2. ASSUME NEW d \in Unfinished
          PROVE  op[d].cut = NoOp /\ KindOf[d] \notin {"disable", "delete"}
      <3>1. ~IsDeploy(d) /\ KindOf[d] # "delete"
        BY <1>3 DEF ExclusionInv
      <3>2. ~Maintenance(d)
        BY <3>1 DEF Maintenance, IsDeploy, DeployKinds
      <3> QED
        BY <2>1, <3>1, <3>2 DEF CutInv
    <2>3. ASSUME NEW f \in Finishing
          PROVE  op[f].finishing /\ KindOf[f] \notin {"disable", "delete"}
      BY DEF Finishing, ExclusionInv, IsDeploy, DeployKinds
    <2> QED
      BY <2>1, <2>2, <2>3 DEF Undisturbed, Unfinished, Finishing
  <1>5. Serves /\ Active.job \in JobId
    BY <1>3, <1>4, ServingParts DEF ActiveInv
  <1>6. Active.job \in Routed /\ cloud.jobs[Active.job].prio = Active.prio
    BY <1>3, <1>5 DEF Serves, Routed, PriorityInv, HasActive
  <1>7. cloud.jobs[k].prio < Active.prio
    BY <1>1, <1>2 DEF PriorityInv
  <1>8. cloud.jobs[k].prio \in Nat /\ Active.prio \in Nat
    BY <1>1, <1>6 DEF TypeOK, Jobs, Routed
  <1> QED
    BY SMTT(30), <1>6, <1>7, <1>8

-----------------------------------------------------------------------------
(* The theorems.                                                           *)

\* What a step needs of the state before it.
LifecycleInv ==
    /\ TypeOK /\ TargetInv /\ ServingInv
    /\ PhaseInv /\ RestartInv /\ DeleteInv /\ DeletedLeavesNothing
    /\ StopInv /\ JobInv /\ PriorityInv

\* An application that was never deployed satisfies LifecycleInv.
LEMMA LifecycleInit == Init => LifecycleInv
  <1> SUFFICES ASSUME Init
               PROVE  LifecycleInv
    OBVIOUS
  <1>1. TypeOK /\ TargetInv /\ ServingInv
    BY ServingInit
  <1>2. Unfinished = {} /\ Finishing = {} /\ ~HasActive /\ pc = "idle"
    BY DEF Init, NoRow, Unfinished, Finishing, Open, HasActive
  <1>3. PhaseInv
    BY <1>2 DEF PhaseInv, BuildLabels, CutLabels, CandidateLabels
  <1>4. RestartInv
    BY SMTT(30) DEF Init, RestartInv
  <1>5. DeleteInv /\ DeletedLeavesNothing
    BY DEF Init, DeleteInv, DeletedLeavesNothing
  <1>6. \A j \in JobId : cloud.jobs[j].op = NoOp /\ ~cloud.jobs[j].up
    BY DEF Init, NoJob
  <1>7. StopInv
    BY <1>2, <1>6 DEF StopInv, PastCutover, CandidateLabels
  <1>8. JobInv /\ PriorityInv
    BY <1>2, <1>6, ConstantsAssumption DEF JobInv, PriorityInv, Superseded, Candidate
  <1> QED
    BY <1>1, <1>3, <1>4, <1>5, <1>7, <1>8 DEF LifecycleInv

\* LifecycleInv is inductive.
LEMMA LifecycleInvStep == LifecycleInv /\ [Next]_vars => LifecycleInv'
  <1> SUFFICES ASSUME LifecycleInv, [Next]_vars
               PROVE  LifecycleInv'
    OBVIOUS
  <1> USE DEF LifecycleInv, ServingInv
  <1>1. TypeOK' /\ TargetInv'
    BY TypeStep, TargetStep
  <1>2. ServingInv'
    BY ExclusionStep, ActiveStep, CutStep, CandidateStep, ServingStep
  <1>3. PhaseInv' /\ RestartInv'
    BY PhaseStep, RestartStep
  <1>4. DeleteInv' /\ DeletedLeavesNothing'
    BY DeletingStep DEF Deleting
  <1>5. StopInv'
    BY StopStep
  <1>6. JobInv'
    BY <1>1, JobStep
  <1>7. PriorityInv'
    BY <1>1, PriorityStep
  <1> QED
    BY <1>1, <1>2, <1>3, <1>4, <1>5, <1>6, <1>7

\* A maintenance candidate never runs beside its predecessor, and a stopped
\* application never has two processes, for every set of requests and any number
\* of interruptions (stop_predecessor).
THEOREM CutoverIsExclusive == Spec => []CutoverNeverOverlaps
  <1>1. LifecycleInv => CutoverNeverOverlaps
    BY NoOverlap DEF LifecycleInv, ServingInv
  <1> QED
    BY <1>1, LifecycleInit, LifecycleInvStep, PTL DEF Spec

\* A superseded deployment never serves, a stopped application runs nothing, a
\* restart request restarts once, and a deleted application leaves nothing
\* (check_finishing_admission, disable, restart, complete_application_deletion).
THEOREM LifecycleIsSafe == Spec => []LifecycleSafe
  <1>1. LifecycleInv => LifecycleSafe
    <2> SUFFICES ASSUME LifecycleInv
                 PROVE  LifecycleSafe
      OBVIOUS
    <2>1. SupersededNeverServes
      BY SupersededSilent DEF LifecycleInv, ServingInv
    <2>2. StoppedRunsNothing
      BY StoppedSilent DEF LifecycleInv, ServingInv
    <2>3. RestartedAtMostOnce
      BY SMTT(30) DEF LifecycleInv, RestartInv, RestartedAtMostOnce
    <2> QED
      BY <2>1, <2>2, <2>3 DEF LifecycleInv, LifecycleSafe
  <1> QED
    BY <1>1, LifecycleInit, LifecycleInvStep, PTL DEF Spec
=============================================================================
