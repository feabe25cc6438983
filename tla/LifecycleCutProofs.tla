------------------------- MODULE LifecycleCutProofs -------------------------
(***************************************************************************)
(* A deploy stops its predecessor only after it has said so, and creates   *)
(* its candidate only after the application is marked as stopped; how far  *)
(* a deploy has come.                                                      *)
(***************************************************************************)
EXTENDS LifecycleProofs

\* Most steps are first-order: Zenon is the prover where no other is named.
USE ZenonT(60)

(* What a step leaves alone.                                               *)

Stepped == /\ pc # "idle" /\ pc' \in Labels
           /\ cur' = IF pc' = "idle" THEN NoOp ELSE cur
           /\ UNCHANGED interrupts

\* A running body goes to a label with its operation, or lets the lock go.
LEMMA BodyStepped ==
  ASSUME BodyStep
  PROVE  Stepped
  <1>1. CASE RowSteps
    <2>1. CASE PrepareBuild \/ PlatformBusy \/ BuildRejected \/ ImagePushed \/ CutoverIntent
      BY <2>1 DEF PrepareBuild, PlatformBusy, BuildRejected, ImagePushed, CutoverIntent, Step,
         AfterBuild, AfterCutover, CutoverLabel, Stepped, Labels
    <2>2. CASE \/ Quiesced \/ CutMark \/ PrepareEnvironment \/ PrepareReusedWorker
               \/ PrepareWorker \/ WorkerReady \/ CandidateRemoved \/ DeploymentHealthy
      BY <2>2 DEF Quiesced, CutMark, PrepareEnvironment, PrepareReusedWorker, PrepareWorker,
         WorkerReady, CandidateRemoved, DeploymentHealthy, Step, Stepped, Labels
    <2> QED
      BY <1>1, <2>1, <2>2 DEF RowSteps
  <1>2. CASE CallSteps
    BY SMTT(30), <1>2 DEF CallSteps, BuildSucceeds, Quiesce, CutJob, CutWorker, CreateWorker, SubmitJob,
       PromoteCandidate, DropStop, DropJob, DropWorker, DropImage, Step, Stepped, Labels
  <1>3. CASE ReadSteps \/ AttemptSteps \/ CutOff
    BY <1>3
    DEF ReadSteps, CleanRejected, CutoverSkipped, ObserveHealthy, ObservePublic,
       CandidateUnhealthy, AttemptSteps, CreateAttempt, RejectAttempt, FailAttempt, CutOff,
       AfterCutover, Step, Stepped, Labels
  <1>4. CASE FinishSteps
    BY <1>4 DEF FinishSteps, HandoverDone, RemovePredecessorJob, PredecessorJobAbsent,
       RemovePredecessorWorker, Accepted, RetainImages, FinishLabel, Step, Stepped, Labels
  <1>5. CASE DisableSteps \/ RestartSteps
    BY <1>5
    DEF DisableSteps, DisableJob, DisableWorker, DisableOff, RestartSteps,
       RestartRequested, RestartTask, Step, Stepped, Labels
  <1>6. CASE EnableSteps
    BY <1>6 DEF EnableSteps, EnableWorker, EnableReady, EnableJob, EnableHealthy,
       EnableUnhealthy, EnableDropJob, Step, Stepped, Labels
  <1>7. CASE DeleteSteps
    BY <1>7
    DEF DeleteSteps, DeleteStop, DeleteResource, DeletePurge, DeleteForget,
       DeleteRuntime, DeleteWorkers, DeleteOff, DeleteImage, Step, Stepped, Labels
  <1>8. CASE EndSteps
    BY <1>8 DEF EndSteps, CreateAttemptRefused, RejectOp, FailOp, Succeed, DisableDone,
       RestartDone, RestartFails, complete_application_deletion, Step, Stepped, Labels
  <1>9. CASE AcceptDeployment \/ EnableAccept
    BY <1>9 DEF AcceptDeployment, EnableAccept, Step, Stepped, Labels
  <1> QED
    BY <1>1, <1>2, <1>3, <1>4, <1>5, <1>6, <1>7, <1>8, <1>9, StepCases

\* A body writes no row but its operation's.
LEMMA OwnRow ==
  ASSUME TypeOK, BodyStep
  PROVE  cur \in Op /\ \A o \in Op \ {cur} : op'[o] = op[o]
  <1>1. pc # "idle" /\ cur \in Op
    BY BodyStepped DEF Stepped, TypeOK
  <1>2. CASE RowSteps
    <2>1. PICK row : op' = [op EXCEPT ![cur] = row]
      BY <1>2 DEF RowSteps, PrepareBuild, PlatformBusy, BuildRejected, ImagePushed,
         CutoverIntent, Quiesced, CutMark, PrepareEnvironment, PrepareReusedWorker,
         PrepareWorker, WorkerReady, CandidateRemoved, DeploymentHealthy, Journal,
         checkpoint_operation
    <2> QED
      BY <1>1, <2>1 DEF TypeOK
  <1>3. CASE CallSteps \/ ReadSteps \/ AttemptSteps \/ CutOff
    <2>1. UNCHANGED op
      BY <1>3 DEF CallSteps, BuildSucceeds, Quiesce, CutJob, CutWorker,
         CreateWorker, SubmitJob, PromoteCandidate, DropStop, DropJob, DropWorker, DropImage,
         Helper, ReadSteps, CleanRejected, CutoverSkipped, ObserveHealthy, ObservePublic,
         CandidateUnhealthy, Quiet, AttemptSteps, CreateAttempt, RejectAttempt, FailAttempt,
         checkpoint_deployment_attempt, CutOff, set_application_runtime
    <2> QED
      BY <1>1, <2>1
  <1>4. CASE FinishSteps
    <2>1. UNCHANGED op \/ \E row : op' = [op EXCEPT ![cur] = row]
      BY <1>4 DEF FinishSteps, HandoverDone, RemovePredecessorJob, PredecessorJobAbsent,
         RemovePredecessorWorker, Accepted, RetainImages, Journal, checkpoint_operation, Helper
    <2> QED
      BY <1>1, <2>1 DEF TypeOK
  <1>5. CASE DisableSteps \/ DeleteSteps
    <2>1. UNCHANGED op
      BY <1>5 DEF DisableSteps, DisableJob, DisableWorker, DisableOff, DeleteSteps, DeleteStop,
         DeleteResource, DeletePurge, DeleteForget, DeleteRuntime, DeleteWorkers, DeleteOff,
         DeleteImage, Helper, SetResource, set_application_runtime
    <2> QED
      BY <1>1, <2>1
  <1>6. CASE EnableSteps \/ RestartSteps
    <2>1. UNCHANGED op \/ \E row : op' = [op EXCEPT ![cur] = row]
      BY <1>6 DEF EnableSteps, EnableWorker, EnableReady, EnableJob, EnableHealthy,
         EnableUnhealthy, EnableDropJob, RestartSteps, RestartRequested, RestartTask, Journal,
         checkpoint_operation, Helper, Quiet
    <2> QED
      BY <1>1, <2>1 DEF TypeOK
  <1>7. CASE EndSteps
    BY <1>7, EndStepCloses DEF Closed
  <1>8. CASE AcceptDeployment \/ EnableAccept
    <2>1. \E row : op' = [op EXCEPT ![cur] = row]
      BY <1>8 DEF AcceptDeployment, EnableAccept
    <2> QED
      BY <1>1, <2>1 DEF TypeOK
  <1> QED
    BY <1>2, <1>3, <1>4, <1>5, <1>6, <1>7, <1>8, StepCases

OtherLabels == FinishLabels \cup DisableLabels \cup EnableLabels \cup RestartLabels
               \cup DeleteLabels

\* The steps of a deploy that write no row.
QuietDeploySteps == CallSteps \/ ReadSteps \/ AttemptSteps \/ CutOff

\* The label a step is taken from.
LEMMA FromLabels ==
  ASSUME TypeOK
  PROVE  /\ RowSteps \/ CallSteps \/ ReadSteps \/ CutOff \/ AcceptDeployment =>
                pc \in ForwardLabels
         /\ QuietDeploySteps => pc \in DeployLabels
         /\ FinishSteps => pc \in FinishLabels
         /\ DisableSteps => pc \in DisableLabels
         /\ EnableSteps \/ EnableAccept => pc \in EnableLabels
         /\ RestartSteps => pc \in RestartLabels
         /\ DeleteSteps => pc \in DeleteLabels
         /\ EndSteps => pc \in DeployLabels \cup DisableLabels \cup RestartLabels
                                \cup DeleteLabels \cup {"succeed"}
  <1>1. RowSteps \/ AcceptDeployment => pc \in ForwardLabels
    BY RowStepsInBody DEF AcceptDeployment, Step, ForwardLabels, DeployLabels, PastCutover,
       CandidateLabels
  <1>2. CallSteps => pc \in ForwardLabels
    BY DEF CallSteps, BuildSucceeds, Quiesce, CutJob, CutWorker, CreateWorker, SubmitJob,
       PromoteCandidate, DropStop, DropJob, DropWorker, DropImage, Step, ForwardLabels,
       DeployLabels, BuildLabels, CutLabels, PastCutover, CandidateLabels
  <1>3. ReadSteps \/ CutOff => pc \in ForwardLabels
    BY DEF ReadSteps, CleanRejected, CutoverSkipped, ObserveHealthy, ObservePublic,
       CandidateUnhealthy, CutOff, Step, ForwardLabels, DeployLabels, BuildLabels, CutLabels,
       PastCutover, CandidateLabels
  <1>4. AttemptSteps => pc \in DeployLabels
    BY DEF AttemptSteps, CreateAttempt, RejectAttempt, FailAttempt, Step, DeployLabels,
       BuildLabels
  <1>5. FinishSteps => pc \in FinishLabels
    BY DEF FinishSteps, HandoverDone, RemovePredecessorJob, PredecessorJobAbsent,
       RemovePredecessorWorker, Accepted, RetainImages, Step, FinishLabels
  <1>6. /\ DisableSteps => pc \in DisableLabels
        /\ RestartSteps => pc \in RestartLabels
    BY DEF DisableSteps, DisableJob, DisableWorker, DisableOff, RestartSteps,
       RestartRequested, RestartTask, Step, DisableLabels, RestartLabels
  <1>7. EnableSteps \/ EnableAccept => pc \in EnableLabels
    BY DEF EnableSteps, EnableWorker, EnableReady, EnableJob, EnableHealthy, EnableUnhealthy,
       EnableDropJob, EnableAccept, Step, EnableLabels
  <1>8. DeleteSteps => pc \in DeleteLabels
    BY DEF DeleteSteps, DeleteStop, DeleteResource, DeletePurge, DeleteForget, DeleteRuntime,
       DeleteWorkers, DeleteOff, DeleteImage, Step, DeleteLabels
  <1>9. EndSteps => pc \in {"attempt", "rejectOp", "failOp", "disDone", "rDone", "rCall",
                            "dImages", "succeed"}
    BY DEF EndSteps, CreateAttemptRefused, RejectOp, FailOp, Succeed, DisableDone,
       RestartDone, RestartFails, complete_application_deletion, Step
  <1>10. EndSteps => pc \in DeployLabels \cup DisableLabels \cup RestartLabels
                            \cup DeleteLabels \cup {"succeed"}
    BY <1>9 DEF DeployLabels, BuildLabels, PastCutover, DisableLabels, RestartLabels,
       DeleteLabels
  <1> QED
    BY <1>1, <1>2, <1>3, <1>4, <1>5, <1>6, <1>7, <1>8, <1>10, LabelGroups
       DEF QuietDeploySteps

\* Whose body runs.
LEMMA BodyOf ==
  ASSUME TypeOK, ExclusionInv
  PROVE  /\ RowSteps \/ CallSteps \/ ReadSteps \/ CutOff \/ AcceptDeployment =>
                cur \in Unfinished /\ IsDeploy(cur)
         /\ FinishSteps => cur \in Finishing
         /\ DisableSteps => cur \in Unfinished /\ KindOf[cur] = "disable"
         /\ EnableSteps \/ EnableAccept => cur \in Unfinished /\ KindOf[cur] = "enable"
         /\ RestartSteps => cur \in Unfinished /\ KindOf[cur] = "restart"
         /\ DeleteSteps => cur \in Unfinished /\ KindOf[cur] = "delete"
  <1>1. pc \in ForwardLabels => cur \in Op
    BY DEF ForwardLabels, DeployLabels, BuildLabels, CutLabels, PastCutover,
       CandidateLabels, TypeOK
  <1>2. /\ pc \in ForwardLabels => cur \in Unfinished /\ IsDeploy(cur)
        /\ pc \in FinishLabels => cur \in Finishing
        /\ pc \in DisableLabels => cur \in Unfinished /\ KindOf[cur] = "disable"
        /\ pc \in EnableLabels => cur \in Unfinished /\ KindOf[cur] = "enable"
        /\ pc \in RestartLabels => cur \in Unfinished /\ KindOf[cur] = "restart"
        /\ pc \in DeleteLabels => cur \in Unfinished /\ KindOf[cur] = "delete"
    BY <1>1 DEF ExclusionInv, ForwardLabels, Unfinished
  <1> QED
    BY <1>2, FromLabels

\* The steps that write no row of an unfinished deploy.
OtherSteps ==
    \/ FinishSteps \/ DisableSteps \/ EnableSteps \/ RestartSteps \/ DeleteSteps \/ EndSteps
    \/ EnableAccept \/ Raise \/ Interrupt

\* The other bodies write no row of an unfinished deploy.
LEMMA OtherStepsKeepDeploys ==
  ASSUME TypeOK, ExclusionInv, OtherSteps
  PROVE  /\ Unfinished' \subseteq Unfinished
         /\ \A o \in Unfinished' : IsDeploy(o) => op'[o] = op[o]
  <1>1. CASE FinishSteps
    <2>1. cur \in Finishing /\ Unfinished' = Unfinished
      BY <1>1, BodyOf, FinishStepsContinue, LanesKept
    <2> QED
      BY <1>1, <2>1, OwnRow, StepCases DEF Unfinished, Finishing
  <1>2. CASE DisableSteps \/ EnableSteps \/ RestartSteps \/ DeleteSteps
    <2>1. ~IsDeploy(cur) /\ Unfinished' = Unfinished
      BY <1>2, BodyOf, OtherStepsContinue, LanesKept DEF IsDeploy, DeployKinds
    <2> QED
      BY <1>2, <2>1, OwnRow, StepCases DEF Unfinished
  <1>3. CASE EndSteps
    BY <1>3, EndStepCloses DEF Closed, Unfinished, Open
  <1>4. CASE EnableAccept
    BY <1>4, AcceptLanes
  <1>5. CASE Raise \/ Interrupt
    BY <1>5 DEF Raise, Interrupt, Quiet, Unfinished, Open
  <1> QED
    BY <1>1, <1>2, <1>3, <1>4, <1>5 DEF OtherSteps

\* The other bodies leave the accepted deployment and every attempt in place.
LEMMA OtherStepsPlace ==
  ASSUME TypeOK, ExclusionInv, OtherSteps
  PROVE  /\ pc' \in OtherLabels \cup {"idle", "failAttempt"}
         /\ app'.active = app.active /\ PlacesKept
  <1>1. CASE FinishSteps
    BY <1>1, FinishStepsContinue, PlacesSame DEF OtherLabels, FinishSteps, HandoverDone,
       RemovePredecessorJob, PredecessorJobAbsent, RemovePredecessorWorker, Accepted,
       RetainImages, checkpoint_operation, Journal, Helper
  <1>2. CASE DisableSteps \/ RestartSteps
    BY <1>2, PlacesSame DEF OtherLabels, DisableSteps, DisableJob, DisableWorker, DisableOff,
       RestartSteps, RestartRequested, RestartTask, Step, DisableLabels, RestartLabels,
       checkpoint_operation, Journal, Helper, set_application_runtime, TypeOK
  <1>3. CASE EnableSteps
    BY <1>3, PlacesSame DEF OtherLabels, EnableSteps, EnableWorker, EnableReady, EnableJob,
       EnableHealthy, EnableUnhealthy, EnableDropJob, Step, EnableLabels,
       checkpoint_operation, Journal, Helper, Quiet
  <1>4. CASE DeleteSteps
    BY <1>4, PlacesSame DEF OtherLabels, DeleteSteps, DeleteStop, DeleteResource, DeletePurge,
       DeleteForget, DeleteRuntime, DeleteWorkers, DeleteOff, DeleteImage, Step, DeleteLabels,
       Helper, SetResource, set_application_runtime, TypeOK
  <1>5. CASE EndSteps
    BY <1>5, PlacesSame DEF EndSteps, CreateAttemptRefused, RejectOp, FailOp, Succeed,
       DisableDone, RestartDone, RestartFails, complete_application_deletion, Step, mark,
       Journal, TypeOK
  <1>6. CASE EnableAccept \/ Raise \/ Interrupt
    BY <1>6, PlacesSame DEF EnableAccept, Raise, Interrupt, Quiet, Step, OtherLabels,
       FinishLabels, TypeOK
  <1> QED
    BY <1>1, <1>2, <1>3, <1>4, <1>5, <1>6 DEF OtherSteps

\* A deploy's calls and reads leave the accepted deployment in place.
LEMMA QuietDeployStepsPlace ==
  ASSUME TypeOK, ExclusionInv, QuietDeploySteps
  PROVE  UNCHANGED op /\ app'.active = app.active /\ PlacesKept
  <1>1. CASE CallSteps \/ ReadSteps
    BY <1>1, PlacesSame DEF CallSteps, BuildSucceeds, Quiesce, CutJob, CutWorker,
       CreateWorker, SubmitJob, PromoteCandidate, DropStop, DropJob, DropWorker, DropImage,
       Helper, ReadSteps, CleanRejected, CutoverSkipped, ObserveHealthy, ObservePublic,
       CandidateUnhealthy, Quiet
  <1>2. CASE AttemptSteps
    BY <1>2, AttemptStepsKeepPlaces
  <1>3. CASE CutOff
    BY <1>3, PlacesSame DEF CutOff, set_application_runtime, TypeOK
  <1> QED
    BY <1>1, <1>2, <1>3 DEF QuietDeploySteps

\* The label a body goes on to.
LEMMA NextLabels ==
  ASSUME TypeOK
  PROVE  /\ RowSteps \/ QuietDeploySteps => pc' \in ForwardLabels \cup {"idle"}
         /\ FinishSteps \/ AcceptDeployment \/ EnableAccept => pc' \in FinishLabels
         /\ DisableSteps => pc' \in DisableLabels
         /\ EnableSteps => pc' \in EnableLabels \cup {"idle"}
         /\ RestartSteps => pc' \in RestartLabels
         /\ DeleteSteps => pc' \in DeleteLabels
         /\ EndSteps => pc' \in {"idle", "failAttempt"}
  <1>1. RowSteps \/ QuietDeploySteps => pc' \in ForwardLabels \cup {"idle"}
    BY RowStepsInBody, DeployStepsContinue DEF QuietDeploySteps
  <1>2. FinishSteps \/ AcceptDeployment \/ EnableAccept => pc' \in FinishLabels
    BY FinishStepsContinue DEF AcceptDeployment, EnableAccept, Step, FinishLabels
  <1>3. /\ DisableSteps => pc' \in DisableLabels
        /\ RestartSteps => pc' \in RestartLabels
    BY DEF DisableSteps, DisableJob, DisableWorker, DisableOff, RestartSteps,
       RestartRequested, RestartTask, Step, DisableLabels, RestartLabels
  <1>4. EnableSteps => pc' \in EnableLabels \cup {"idle"}
    BY DEF EnableSteps, EnableWorker, EnableReady, EnableJob, EnableHealthy, EnableUnhealthy,
       EnableDropJob, Step, EnableLabels
  <1>5. DeleteSteps => pc' \in DeleteLabels
    BY DEF DeleteSteps, DeleteStop, DeleteResource, DeletePurge, DeleteForget, DeleteRuntime,
       DeleteWorkers, DeleteOff, DeleteImage, Step, DeleteLabels
  <1>6. EndSteps => pc' \in {"idle", "failAttempt"}
    BY DEF EndSteps, CreateAttemptRefused, RejectOp, FailOp, Succeed, DisableDone,
       RestartDone, RestartFails, complete_application_deletion, Step
  <1> QED
    BY <1>1, <1>2, <1>3, <1>4, <1>5, <1>6

\* What the steps of a deploy that write no row leave alone.
LEMMA QuietFrame ==
  ASSUME QuietDeploySteps
  PROVE  UNCHANGED <<op, res, restarts>> /\ (UNCHANGED app \/ CutOff)
  <1>1. CASE CallSteps
    BY <1>1 DEF CallSteps, BuildSucceeds, Quiesce, CutJob, CutWorker,
       CreateWorker, SubmitJob, PromoteCandidate, DropStop, DropJob, DropWorker, DropImage,
       Helper
  <1>2. CASE ReadSteps \/ AttemptSteps \/ CutOff
    BY <1>2 DEF ReadSteps, CleanRejected, CutoverSkipped, ObserveHealthy, ObservePublic,
       CandidateUnhealthy, Quiet, AttemptSteps, CreateAttempt, RejectAttempt, FailAttempt,
       checkpoint_deployment_attempt, CutOff, set_application_runtime
  <1> QED
    BY <1>1, <1>2 DEF QuietDeploySteps

\* The steps outside a deploy that change the application's row.
LEMMA AppFrame ==
  ASSUME OtherSteps
  PROVE  \/ UNCHANGED app
         \/ DisableOff \/ DeleteOff \/ complete_application_deletion \/ EnableAccept
  <1>1. CASE FinishSteps \/ RestartSteps \/ Raise \/ Interrupt
    BY <1>1 DEF FinishSteps, HandoverDone, RemovePredecessorJob, PredecessorJobAbsent,
       RemovePredecessorWorker, Accepted, RetainImages, RestartSteps, RestartRequested,
       RestartTask, Raise, Interrupt, Journal, checkpoint_operation, Helper, Quiet
  <1>2. CASE DisableSteps \/ EnableSteps
    BY <1>2 DEF DisableSteps, DisableJob, DisableWorker, EnableSteps, EnableWorker,
       EnableReady, EnableJob, EnableHealthy, EnableUnhealthy, EnableDropJob, Journal,
       checkpoint_operation, Helper, Quiet
  <1>3. CASE DeleteSteps \/ EndSteps
    BY <1>3 DEF DeleteSteps, DeleteStop, DeleteResource, DeletePurge, DeleteForget,
       DeleteRuntime, DeleteWorkers, DeleteImage, SetResource, EndSteps, CreateAttemptRefused,
       RejectOp, FailOp, Succeed, DisableDone, RestartDone, RestartFails, mark, Journal, Helper
  <1> QED
    BY <1>1, <1>2, <1>3 DEF OtherSteps

\* What only a restart and a delete change.
LEMMA BodyFrame ==
  ASSUME TypeOK, BodyStep
  PROVE  /\ UNCHANGED restarts \/ RestartTask
         /\ UNCHANGED res \/ DeleteResource \/ DeleteForget
         /\ cloud'.storage = cloud.storage \/ DeletePurge
         /\ app'.deleted = app.deleted \/ complete_application_deletion
  <1>1. cloud \in Clouds /\ app \in AppRows
    BY DEF TypeOK, Clouds, AppRows
  <1>2. CASE RowSteps \/ ReadSteps \/ AttemptSteps
    BY <1>2 DEF RowSteps, PrepareBuild, PlatformBusy, BuildRejected, ImagePushed,
       CutoverIntent, Quiesced, CutMark, PrepareEnvironment, PrepareReusedWorker,
       PrepareWorker, WorkerReady, CandidateRemoved, DeploymentHealthy, Journal,
       checkpoint_operation, ReadSteps, CleanRejected, CutoverSkipped, ObserveHealthy,
       ObservePublic, CandidateUnhealthy, Quiet, AttemptSteps, CreateAttempt, RejectAttempt,
       FailAttempt, checkpoint_deployment_attempt
  <1>3. CASE CallSteps
    BY <1>1, <1>3 DEF CallSteps, BuildSucceeds, Quiesce, CutJob, CutWorker, CreateWorker,
       SubmitJob, PromoteCandidate, DropStop, DropJob, DropWorker, DropImage, Helper, Clouds,
       WithoutJob, WithoutWorker, WithoutImage
  <1>4. CASE FinishSteps
    BY <1>1, <1>4 DEF FinishSteps, HandoverDone, RemovePredecessorJob, PredecessorJobAbsent,
       RemovePredecessorWorker, Accepted, RetainImages, Journal, checkpoint_operation, Helper,
       Clouds, WithoutJob, WithoutWorker
  <1>5. CASE DisableSteps \/ CutOff \/ AcceptDeployment \/ EnableAccept
    BY <1>1, <1>5 DEF DisableSteps, DisableJob, DisableWorker, DisableOff, CutOff, Helper,
       WithoutJob, WithoutWorker, set_application_runtime, AcceptDeployment, EnableAccept,
       Clouds, AppRows
  <1>6. CASE EnableSteps \/ RestartSteps
    BY <1>1, <1>6 DEF EnableSteps, EnableWorker, EnableReady, EnableJob, EnableHealthy,
       EnableUnhealthy, EnableDropJob, RestartSteps, RestartRequested, RestartTask, Journal,
       checkpoint_operation, Helper, Quiet, WithoutJob, Clouds
  <1>7. CASE DeleteSteps
    BY <1>1, <1>7 DEF DeleteSteps, DeleteStop, DeleteResource, DeletePurge, DeleteForget,
       DeleteRuntime, DeleteWorkers, DeleteOff, DeleteImage, Helper, SetResource,
       set_application_runtime, WithoutJob, WithoutImage, Clouds, AppRows
  <1>8. CASE EndSteps
    BY <1>1, <1>8 DEF EndSteps, CreateAttemptRefused, RejectOp, FailOp, Succeed, DisableDone,
       RestartDone, RestartFails, complete_application_deletion, mark, Journal, AppRows
  <1> QED
    BY <1>2, <1>3, <1>4, <1>5, <1>6, <1>7, <1>8, StepCases

-----------------------------------------------------------------------------
(* Cutover.                                                                *)

GonePhases == {"candidate_removed", "deployment_healthy"}
RefusedPhases == {"build_rejected", "platform_busy"}

\* The row of an unfinished operation, as CutInv has it.
CutRow(o, phase, candidate, cut) ==
    /\ cut # NoOp => /\ Maintenance(o) /\ candidate # NoImage
                     /\ phase \in GonePhases => ~app.desired
    /\ phase \in RefusedPhases => candidate = NoImage

\* The row of the operation whose body is at the label, as CutInv has it.
CutBody(label, phase, candidate, cut, desired) ==
    /\ label \in CutLabels => cut # NoOp
    /\ label \in BuildLabels \cup {"attempt"} => candidate = NoImage
    /\ label \in {"cutover"} \cup CutLabels => candidate # NoImage /\ Maintenance(cur)
    /\ label \in PastCutover /\ cut # NoOp => ~desired
    /\ label \in {"attempt", "build", "cutover"} => phase \notin GonePhases

\* CutInv, by rows.
LEMMA CutRows ==
  CutInv <=> /\ \A o \in Unfinished : CutRow(o, op[o].phase, op[o].candidate, op[o].cut)
             /\ CutBody(pc, op[cur].phase, op[cur].candidate, op[cur].cut, app.desired)
  BY DEF CutInv, CutRow, CutBody, GonePhases, RefusedPhases

\* Labels outside the sets that CutBody speaks of.
LEMMA CutElsewhere ==
  ASSUME pc' \in FinishLabels \cup DisableLabels \cup EnableLabels \cup RestartLabels
                 \cup DeleteLabels \cup {"idle", "failAttempt"}
  PROVE  CutBody(pc, op[cur].phase, op[cur].candidate, op[cur].cut, app.desired)'
  <1>1. pc' \notin CutLabels \cup BuildLabels \cup PastCutover \cup {"attempt", "build", "cutover"}
    BY DEF FinishLabels, DisableLabels, EnableLabels, RestartLabels, DeleteLabels, CutLabels,
       BuildLabels, PastCutover, CandidateLabels
  <1> QED
    BY <1>1 DEF CutBody

\* A transaction keeps CutInv when the row it writes satisfies it.
LEMMA CutWritten ==
  ASSUME TypeOK, CutInv, cur \in Op, cur' = cur,
         NEW a, NEW b, NEW c, NEW d, NEW e, NEW f, Wrote(a, b, c, d, e, f),
         cur \in Unfinished => CutRow(cur, a, b, c), CutBody(pc', a, b, c, app.desired)
  PROVE  CutInv'
  <1>1. Unfinished' = Unfinished /\ UNCHANGED app
    BY LanesKept DEF Wrote
  <1>2. /\ \A o \in Op \ {cur} : op'[o] = op[o]
        /\ op'[cur].phase = a /\ op'[cur].candidate = b /\ op'[cur].cut = c
    BY DEF Wrote, Holding
  <1>3. ASSUME NEW o \in Unfinished'
        PROVE  CutRow(o, op[o].phase, op[o].candidate, op[o].cut)'
    <2>1. o \in Unfinished /\ o \in Op
      BY <1>1, <1>3 DEF Unfinished
    <2>2. CASE o = cur
      BY <1>1, <1>2, <2>1, <2>2 DEF CutRow, Maintenance
    <2>3. CASE o # cur
      BY <1>1, <1>2, <2>1, <2>3, CutRows DEF CutRow, Maintenance
    <2> QED
      BY <2>2, <2>3
  <1>4. CutBody(pc, op[cur].phase, op[cur].candidate, op[cur].cut, app.desired)'
    BY <1>1, <1>2 DEF CutBody, Maintenance
  <1>5. CutInv' <=> /\ \A o \in Unfinished' : CutRow(o, op[o].phase, op[o].candidate, op[o].cut)'
                    /\ CutBody(pc, op[cur].phase, op[cur].candidate, op[cur].cut, app.desired)'
    BY DEF CutInv, CutRow, CutBody, GonePhases, RefusedPhases
  <1> QED
    BY <1>3, <1>4, <1>5

\* The rows of the unfinished operations stay, the application at most stops.
LEMMA CutKept ==
  ASSUME TypeOK, CutInv, Unfinished' \subseteq Unfinished,
         \A o \in Unfinished' : op'[o] = op[o],
         app'.desired => app.desired,
         CutBody(pc, op[cur].phase, op[cur].candidate, op[cur].cut, app.desired)'
  PROVE  CutInv'
  <1>1. \A o \in Unfinished' : CutRow(o, op[o].phase, op[o].candidate, op[o].cut)'
    BY CutRows DEF CutRow, Maintenance
  <1>5. CutInv' <=> /\ \A o \in Unfinished' : CutRow(o, op[o].phase, op[o].candidate, op[o].cut)'
                    /\ CutBody(pc, op[cur].phase, op[cur].candidate, op[cur].cut, app.desired)'
    BY DEF CutInv, CutRow, CutBody, GonePhases, RefusedPhases
  <1> QED
    BY <1>1, <1>5

\* The transactions of a deploy keep CutInv.
LEMMA CutRowSteps ==
  ASSUME TypeOK, TargetInv, ExclusionInv, ActiveInv, CutInv, RowSteps
  PROVE  CutInv'
  <1> DEFINE row == op[cur]
  <1>1. cur \in Op /\ cur \in Unfinished /\ cur' = cur
    BY RowStepsInBody DEF ExclusionInv, ForwardLabels, Unfinished
  <1>2. CutRow(cur, row.phase, row.candidate, row.cut)
    BY <1>1, CutRows
  <1>3. CutBody(pc, row.phase, row.candidate, row.cut, app.desired)
    BY CutRows
  <1>4. CASE PrepareBuild
    <2>1. pc = "build" /\ (KindOf[cur] = "rollback" => op[cur].target \in Op)
      BY <1>1, <1>4 DEF PrepareBuild, Step, TargetInv, Unfinished
    <2>2. BuildRetained \/ BuildKept \/ BuildBegins
      BY <1>1, <1>4, <2>1, PrepareBuildWrites
    <2>3. CASE BuildRetained
      <3>1. pc' = "worker" /\ row.cut = NoOp
        BY <1>2, <2>3 DEF BuildRetained, AfterBuild, AfterCutover, CutRow, Maintenance
      <3>2. /\ CutRow(cur, "image_pushed", attempt[op[cur].target].image, row.cut)
            /\ CutBody(pc', "image_pushed", attempt[op[cur].target].image, row.cut, app.desired)
        BY <3>1 DEF CutRow, CutBody, GonePhases, RefusedPhases, CutLabels, BuildLabels
      <3> QED
        BY <1>1, <2>3, <3>2, CutWritten DEF BuildRetained
    <2>4. CASE BuildKept
      <3>1. /\ pc' \in {"cutover", "env", "worker"} /\ row.candidate # NoImage
            /\ IF Maintenance(cur) THEN pc' = "cutover" ELSE row.cut = NoOp /\ pc' # "cutover"
        BY <1>2, <2>4 DEF BuildKept, AfterBuild, AfterCutover, CutRow
      <3>2. CutBody(pc', row.phase, row.candidate, row.cut, app.desired)
        BY <1>3, <2>1, <3>1 DEF CutBody, CutLabels, BuildLabels, PastCutover, CandidateLabels
      <3> QED
        BY <1>1, <1>2, <2>4, <3>2, CutWritten DEF BuildKept
    <2>5. CASE BuildBegins
      <3>1. pc' = "building" /\ row.candidate = NoImage /\ row.cut = NoOp
        BY <1>2, <2>5 DEF BuildBegins, CutRow
      <3>2. /\ CutRow(cur, "builder_creating", row.candidate, row.cut)
            /\ CutBody(pc', "builder_creating", row.candidate, row.cut, app.desired)
        BY <3>1 DEF CutRow, CutBody, CutLabels, GonePhases, RefusedPhases
      <3> QED
        BY <1>1, <2>5, <3>2, CutWritten DEF BuildBegins
    <2> QED
      BY <2>2, <2>3, <2>4, <2>5
  <1>5. CASE PlatformBusy
    <2>1. pc' = "rejectAttempt" /\ row.candidate = NoImage /\ row.cut = NoOp
      BY <1>2, <1>5 DEF PlatformBusy, Step, CutRow
    <2>2. /\ CutRow(cur, "platform_busy", row.candidate, row.cut)
          /\ CutBody(pc', "platform_busy", row.candidate, row.cut, app.desired)
      BY <2>1 DEF CutRow, CutBody, CutLabels
    <2> QED
      BY <1>1, <1>5, <2>2, PlatformBusyWrites, CutWritten
  <1>6. CASE BuildRejected
    <2>1. pc' = "cleanRejected" /\ row.candidate = NoImage /\ row.cut = NoOp
      BY <1>2, <1>3, <1>6 DEF BuildRejected, Step, CutRow, CutBody, BuildLabels
    <2>2. /\ CutRow(cur, "build_rejected", row.candidate, row.cut)
          /\ CutBody(pc', "build_rejected", row.candidate, row.cut, app.desired)
      BY <2>1 DEF CutRow, CutBody, CutLabels
    <2> QED
      BY <1>1, <1>6, <2>2, BuildRejectedWrites, CutWritten
  <1>7. CASE ImagePushed
    <2>1. /\ pc' \in {"cutover", "env", "worker"} /\ row.cut = NoOp
          /\ ~Maintenance(cur) => pc' # "cutover"
      BY <1>2, <1>3, <1>7 DEF ImagePushed, Step, AfterBuild, AfterCutover, CutRow, CutBody,
         BuildLabels
    <2>2. ImageOf[cur] # NoImage
      BY SMTT(30), <1>1, ConstantsAssumption
    <2>3. /\ CutRow(cur, "image_pushed", ImageOf[cur], row.cut)
          /\ CutBody(pc', "image_pushed", ImageOf[cur], row.cut, app.desired)
      BY <2>1, <2>2 DEF CutRow, CutBody, CutLabels, BuildLabels, GonePhases, RefusedPhases
    <2> QED
      BY <1>1, <1>7, <2>3, ImagePushedWrites, CutWritten
  <1>8. CASE CutoverIntent
    <2>1. pc' \in {"quiesce", "cutJob"} /\ row.candidate # NoImage /\ Maintenance(cur)
      BY <1>3, <1>8 DEF CutoverIntent, Step, CutoverLabel, CutBody
    <2>2. app.active # NoOp
      BY <1>8 DEF CutoverIntent, Step, Holds, HasActive
    <2>3. row.phase \notin GonePhases
      BY <1>3, <1>8 DEF CutoverIntent, Step, CutBody
    <2>4. /\ CutRow(cur, row.phase, row.candidate, app.active)
          /\ CutBody(pc', row.phase, row.candidate, app.active, app.desired)
      BY <1>2, <2>1, <2>2, <2>3 DEF CutRow, CutBody, BuildLabels, PastCutover, CandidateLabels
    <2> QED
      BY <1>1, <1>8, <2>4, CutoverIntentWrites, CutWritten
  <1>9. CASE Quiesced \/ CutMark
    <2>1. pc \in CutLabels /\ pc' \in {"cutJob", "cutOff"}
      BY <1>9 DEF Quiesced, CutMark, Step, CutLabels
    <2>2. row.cut # NoOp /\ row.candidate # NoImage /\ Maintenance(cur)
      BY <1>3, <2>1 DEF CutBody
    <2>3. CutBody(pc', row.phase, row.candidate, row.cut, app.desired)
      BY <2>1, <2>2 DEF CutBody, BuildLabels, PastCutover, CandidateLabels
    <2> QED
      BY <1>1, <1>2, <1>9, <2>3, QuiescedWrites, CutMarkWrites, CutWritten
  <1>10. CASE \/ PrepareEnvironment \/ PrepareReusedWorker \/ PrepareWorker \/ WorkerReady
              \/ CandidateRemoved \/ DeploymentHealthy
    <2>1. pc \in PastCutover /\ pc' \in PastCutover
      BY <1>10 DEF PrepareEnvironment, PrepareReusedWorker, PrepareWorker, WorkerReady,
         CandidateRemoved, DeploymentHealthy, Step, PastCutover, CandidateLabels
    <2>2. row.cut # NoOp => ~app.desired
      BY <1>3, <2>1 DEF CutBody
    <2>3. \A phase : CutBody(pc', phase, row.candidate, row.cut, app.desired)
      BY <2>1, <2>2 DEF CutBody, PastCutover, CandidateLabels, CutLabels, BuildLabels
    <2>4. \A phase : phase \notin RefusedPhases => CutRow(cur, phase, row.candidate, row.cut)
      BY <1>2, <2>2 DEF CutRow
    <2>5. /\ {"platform_environment", "worker_ready", "worker_creating", "candidate_removed",
              "deployment_healthy"} \cap RefusedPhases = {}
      BY DEF RefusedPhases
    <2>6. CASE PrepareEnvironment
      BY <1>1, <2>3, <2>4, <2>5, <2>6, PrepareEnvironmentWrites, CutWritten
    <2>7. CASE PrepareReusedWorker
      BY <1>1, <2>3, <2>4, <2>5, <2>7, PrepareReusedWorkerWrites, ReusedSlot, CutWritten
    <2>8. CASE PrepareWorker
      BY <1>1, <2>3, <2>4, <2>5, <2>8, PrepareWorkerWrites, CutWritten
    <2>9. CASE WorkerReady
      BY <1>1, <2>3, <2>4, <2>5, <2>9, WorkerReadyWrites, CutWritten
    <2>10. CASE CandidateRemoved
      BY <1>1, <2>3, <2>4, <2>5, <2>10, CandidateRemovedWrites, CutWritten
    <2>11. CASE DeploymentHealthy
      BY <1>1, <2>3, <2>4, <2>5, <2>11, DeploymentHealthyWrites, CutWritten
    <2> QED
      BY <1>10, <2>6, <2>7, <2>8, <2>9, <2>10, <2>11
  <1> QED
    BY <1>4, <1>5, <1>6, <1>7, <1>8, <1>9, <1>10 DEF RowSteps

\* The labels between which a step that writes no row may go.
LEMMA CutMoves ==
  ASSUME CutInv, UNCHANGED op, cur' = cur, app'.desired => app.desired,
         pc' \in CutLabels => pc \in CutLabels,
         pc' \in BuildLabels \cup {"attempt"} => pc \in BuildLabels \cup {"attempt"},
         pc' \notin {"attempt", "cutover"},
         pc' \in PastCutover => \/ pc \in PastCutover
                                \/ op[cur].cut = NoOp \/ ~app'.desired,
         pc' = "build" => pc = "attempt"
  PROVE  CutBody(pc, op[cur].phase, op[cur].candidate, op[cur].cut, app.desired)'
  BY CutRows DEF CutBody, Maintenance

\* The calls and reads of a deploy keep CutInv.
LEMMA CutDeploySteps ==
  ASSUME TypeOK, ExclusionInv, CutInv, CallSteps \/ ReadSteps \/ AttemptSteps \/ CutOff
  PROVE  CutInv'
  <1>1. UNCHANGED op /\ (app'.desired => app.desired) /\ (app' = app \/ CutOff)
    BY DEF CallSteps, BuildSucceeds, Quiesce, CutJob, CutWorker,
       CreateWorker, SubmitJob, PromoteCandidate, DropStop, DropJob, DropWorker, DropImage,
       Helper, ReadSteps, CleanRejected, CutoverSkipped, ObserveHealthy, ObservePublic,
       CandidateUnhealthy, Quiet, AttemptSteps, CreateAttempt, RejectAttempt, FailAttempt,
       checkpoint_deployment_attempt, CutOff, set_application_runtime, TypeOK
  <1>2. Unfinished' = Unfinished
    BY <1>1 DEF Unfinished, Open
  <1>3. CutBody(pc, op[cur].phase, op[cur].candidate, op[cur].cut, app.desired)'
    <2>1. CASE BuildSucceeds \/ Quiesce \/ CutJob \/ CutWorker
      BY <1>1, <2>1, CutMoves DEF BuildSucceeds, Quiesce, CutJob, CutWorker, Step, CutLabels,
         BuildLabels, PastCutover, CandidateLabels
    <2>2. CASE \/ CreateWorker \/ SubmitJob \/ PromoteCandidate \/ DropStop \/ DropJob
               \/ DropWorker \/ DropImage
      BY <1>1, <2>2, CutMoves DEF CreateWorker, SubmitJob, PromoteCandidate, DropStop, DropJob,
         DropWorker, DropImage, Step, CutLabels, BuildLabels, PastCutover, CandidateLabels
    <2>3. CASE CleanRejected \/ ObserveHealthy \/ ObservePublic \/ CandidateUnhealthy
      BY <1>1, <2>3, CutMoves DEF CleanRejected, ObserveHealthy, ObservePublic,
         CandidateUnhealthy, Step, CutLabels, BuildLabels, PastCutover, CandidateLabels
    <2>4. CASE CutoverSkipped
      <3>1. pc' \in {"env", "worker"} /\ cur' = cur /\ (op[cur].cut = NoOp \/ ~app.desired)
        BY <2>4 DEF CutoverSkipped, Step, AfterCutover
      <3> QED
        BY <1>1, <3>1, CutMoves DEF CutLabels, BuildLabels
    <2>5. CASE CreateAttempt \/ RejectAttempt
      BY <1>1, <2>5, CutMoves DEF CreateAttempt, RejectAttempt, Step, CutLabels, BuildLabels,
         PastCutover, CandidateLabels
    <2>6. CASE FailAttempt
      BY <2>6, CutElsewhere DEF FailAttempt, Step
    <2>7. CASE CutOff
      <3>1. pc' \in {"env", "worker"} /\ cur' = cur /\ ~app'.desired
        BY <2>7 DEF CutOff, Step, AfterCutover, set_application_runtime, TypeOK
      <3> QED
        BY <1>1, <3>1, CutMoves DEF CutLabels, BuildLabels
    <2> QED
      BY <2>1, <2>2, <2>3, <2>4, <2>5, <2>6, <2>7 DEF CallSteps, ReadSteps, AttemptSteps
  <1> QED
    BY <1>1, <1>2, <1>3, CutKept DEF Unfinished

\* Bodies other than deploy.
LEMMA CutOtherSteps ==
  ASSUME TypeOK, ExclusionInv, ActiveInv, CutInv,
         \/ FinishSteps \/ DisableSteps \/ EnableSteps \/ RestartSteps \/ DeleteSteps
         \/ Raise \/ Interrupt
  PROVE  CutInv'
  <1>1. CutBody(pc, op[cur].phase, op[cur].candidate, op[cur].cut, app.desired)'
    <2>1. CASE FinishSteps
      BY <2>1, FinishStepsContinue, CutElsewhere
    <2>2. CASE DisableSteps \/ RestartSteps
      BY <2>2, CutElsewhere DEF DisableSteps, DisableJob, DisableWorker, DisableOff,
         RestartSteps, RestartRequested, RestartTask, Step, DisableLabels, RestartLabels
    <2>3. CASE EnableSteps
      BY <2>3, CutElsewhere DEF EnableSteps, EnableWorker, EnableReady, EnableJob,
         EnableHealthy, EnableUnhealthy, EnableDropJob, Step, EnableLabels
    <2>4. CASE DeleteSteps
      BY <2>4, CutElsewhere DEF DeleteSteps, DeleteStop, DeleteResource, DeletePurge,
         DeleteForget, DeleteRuntime, DeleteWorkers, DeleteOff, DeleteImage, Step, DeleteLabels
    <2>5. CASE Raise \/ Interrupt
      BY <2>5, CutElsewhere DEF Raise, Interrupt
    <2> QED
      BY <2>1, <2>2, <2>3, <2>4, <2>5
  <1>2. CASE HandoverDone \/ PredecessorJobAbsent \/ Accepted
    <2>1. cur \in Finishing /\ cur \in Op
      BY <1>2 DEF HandoverDone, PredecessorJobAbsent, Accepted, Step, ExclusionInv,
         FinishLabels, Finishing
    <2>2. /\ Unfinished' = Unfinished /\ UNCHANGED app
          /\ \A o \in Op \ {cur} : op'[o] = op[o]
      BY <1>2, <2>1, HandoverDoneWrites, PredecessorJobAbsentWrites, AcceptedWrites, LanesKept
         DEF Wrote
    <2>3. \A o \in Unfinished' : op'[o] = op[o]
      BY <2>1, <2>2 DEF Unfinished, Finishing
    <2> QED
      BY <1>1, <2>2, <2>3, CutKept
  <1>3. CASE EnableReady \/ EnableHealthy \/ RestartRequested
    <2>1. cur \in Op /\ cur' = cur
      BY <1>3 DEF EnableReady, EnableHealthy, RestartRequested, Step, TypeOK
    <2>2. KindOf[cur] \in {"enable", "restart"} /\ cur \in Unfinished
      BY <1>3 DEF EnableReady, EnableHealthy, RestartRequested, Step, ExclusionInv,
         EnableLabels, RestartLabels
    <2>3. op[cur].cut = NoOp
      BY <2>2, CutRows DEF CutRow, Maintenance
    <2>4. \A phase : phase \notin RefusedPhases =>
             CutRow(cur, phase, op[cur].candidate, op[cur].cut)
      BY <2>3 DEF CutRow
    <2>5. pc' \in {"eJob", "eAccept", "rCall"}
      BY <1>3 DEF EnableReady, EnableHealthy, RestartRequested, Step
    <2>6. \A phase : CutBody(pc', phase, op[cur].candidate, op[cur].cut, app.desired)
      BY <2>5 DEF CutBody, CutLabels, BuildLabels, PastCutover, CandidateLabels
    <2>7. /\ "worker_ready" \notin RefusedPhases /\ "deployment_healthy" \notin RefusedPhases
          /\ "restart_requested" \notin RefusedPhases
      BY DEF RefusedPhases
    <2> QED
      BY <1>3, <2>1, <2>4, <2>6, <2>7, EnableReadyWrites, EnableHealthyWrites,
         RestartRequestedWrites, CutWritten
  <1>4. CASE UNCHANGED op /\ (app'.desired => app.desired)
    <2>1. Unfinished' = Unfinished
      BY <1>4 DEF Unfinished, Open
    <2> QED
      BY <1>1, <1>4, <2>1, CutKept
  <1>5. \/ HandoverDone \/ PredecessorJobAbsent \/ Accepted
        \/ EnableReady \/ EnableHealthy \/ RestartRequested
        \/ UNCHANGED op /\ (app'.desired => app.desired)
    <2>1. CASE DisableSteps \/ DeleteSteps
      BY <2>1 DEF DisableSteps, DisableJob, DisableWorker, DisableOff, DeleteSteps, DeleteStop,
         DeleteResource, DeletePurge, DeleteForget, DeleteRuntime, DeleteWorkers, DeleteOff,
         DeleteImage, Helper, SetResource, set_application_runtime, TypeOK
    <2>2. CASE FinishSteps \/ EnableSteps \/ RestartSteps \/ Raise \/ Interrupt
      BY <2>2 DEF FinishSteps, RemovePredecessorJob, RemovePredecessorWorker, RetainImages,
         EnableSteps, EnableWorker, EnableJob, EnableUnhealthy, EnableDropJob, RestartSteps,
         RestartTask, Raise, Interrupt, Helper, Quiet
    <2> QED
      BY <2>1, <2>2
  <1> QED
    BY <1>2, <1>3, <1>4, <1>5

\* The end of an operation keeps CutInv.
LEMMA CutEnded ==
  ASSUME TypeOK, CutInv, NEW o \in Op, Closed(o), app'.desired => app.desired,
         pc' \in {"idle", "failAttempt"}
  PROVE  CutInv'
  <1>1. Unfinished' \subseteq Unfinished /\ \A p \in Unfinished' : op'[p] = op[p]
    BY DEF Closed, Unfinished, Open
  <1>2. CutBody(pc, op[cur].phase, op[cur].candidate, op[cur].cut, app.desired)'
    BY CutElsewhere
  <1> QED
    BY <1>1, <1>2, CutKept

\* The replay of a deploy keeps CutInv: the cut stays recorded.
LEMMA CutReplayed ==
  ASSUME TypeOK, CutInv, NEW o \in Op, ReplayDeploy(o)
  PROVE  CutInv'
  <1>1. o \in Unfinished /\ cur' = o /\ UNCHANGED app /\ pc' = RecoveryLabel(op[o].phase)
    BY DEF ReplayDeploy
  <1>2. /\ \A p \in Op \ {o} : op'[p] = op[p]
        /\ op'[o].phase = RecoveryPhase(op[o].phase) /\ op'[o].candidate = op[o].candidate
        /\ op'[o].cut = op[o].cut
    BY ReplayDeployWrites DEF Holding
  <1>3. Unfinished' = Unfinished
    BY ReplayDeployWrites, LanesKept DEF Holding, LanesSame
  <1>4. CutRow(o, op[o].phase, op[o].candidate, op[o].cut)
    BY <1>1, CutRows
  <1>5. CutRow(o, op'[o].phase, op'[o].candidate, op'[o].cut)
    BY <1>2, <1>4 DEF CutRow, RecoveryPhase, GonePhases, RefusedPhases
  <1>6. \A p \in Unfinished' : CutRow(p, op[p].phase, op[p].candidate, op[p].cut)'
    BY <1>1, <1>2, <1>3, <1>5, CutRows DEF CutRow, Maintenance, Unfinished
  <1>7. CutBody(pc, op[cur].phase, op[cur].candidate, op[cur].cut, app.desired)'
    BY <1>1, <1>2, <1>4 DEF CutBody, CutRow, RecoveryLabel, RecoveryPhase, GonePhases,
       RefusedPhases, CutLabels, BuildLabels, PastCutover, CandidateLabels
  <1> QED
    BY <1>6, <1>7 DEF CutInv, CutRow, CutBody, GonePhases, RefusedPhases

\* A request that begins keeps CutInv: nothing is cut yet.
LEMMA CutOpened ==
  ASSUME TypeOK, CutInv, NEW o \in Op, Request(o)
  PROVE  CutInv'
  <1>1. PICK label : Opened(o, label) /\ RunsFrom(o, label)
    BY RequestRuns
  <1>2. Unfinished' = {o}
    BY <1>1 DEF Opened, Unfinished, Open
  <1>3. pc' \in {"attempt", "disJob", "eWorker", "rReq", "dStop"}
    BY DEF Request, BeginDeploy, BeginDisable, BeginEnable, BeginRestart, BeginDelete, Begin
  <1>4. /\ op'[o].phase = "validated" /\ op'[o].candidate = NoImage /\ op'[o].cut = NoOp
        /\ cur' = o
    BY <1>1 DEF Opened
  <1> QED
    BY <1>2, <1>3, <1>4 DEF CutInv, CutLabels, BuildLabels, PastCutover, CandidateLabels

\* A replay keeps CutInv.
LEMMA CutResumed ==
  ASSUME TypeOK, CutInv, NEW o \in Op, Resume(o)
  PROVE  CutInv'
  <1>1. CASE ReplayRestart(o) /\ op[o].phase = "restart_requested"
    <2>1. /\ op' = [op EXCEPT ![o] = [op[o] EXCEPT !.status = "failed"]]
          /\ pc' = "idle" /\ UNCHANGED app
      BY <1>1 DEF ReplayRestart
    <2> QED
      BY <2>1, StatusSet, CutEnded
  <1>2. CASE \/ ReplayDisable(o) \/ ReplayEnable(o) \/ ReplayDelete(o) \/ FinishAgain(o)
             \/ (ReplayRestart(o) /\ op[o].phase # "restart_requested")
    <2>1. UNCHANGED <<op, app>> /\ pc' \in {"disJob", "eWorker", "dStop", "finish", "rReq"}
      BY <1>2, ReplayResumes DEF Resumed
    <2>2. Unfinished' = Unfinished
      BY <2>1 DEF Unfinished, Open
    <2>3. CutBody(pc, op[cur].phase, op[cur].candidate, op[cur].cut, app.desired)'
      BY <2>1, CutElsewhere DEF DisableLabels, EnableLabels, DeleteLabels, FinishLabels,
         RestartLabels
    <2> QED
      BY <2>1, <2>2, <2>3, CutKept
  <1> QED
    BY <1>1, <1>2, CutReplayed DEF Resume

\* Every step keeps CutInv: a predecessor is stopped only in a recorded cutover.
LEMMA CutStep ==
  ASSUME TypeOK, TargetInv, ExclusionInv, ActiveInv, CutInv, [Next]_vars
  PROVE  CutInv'
  <1>1. CASE EndSteps
    <2>1. app'.desired => app.desired
      BY <1>1 DEF EndSteps, CreateAttemptRefused, RejectOp, FailOp, Succeed, DisableDone,
         RestartDone, RestartFails, complete_application_deletion, mark, Journal, TypeOK
    <2>2. pc' \in {"idle", "failAttempt"}
      BY <1>1 DEF EndSteps, CreateAttemptRefused, RejectOp, FailOp, Succeed, DisableDone,
         RestartDone, RestartFails, complete_application_deletion, Step
    <2> QED
      BY <1>1, <2>1, <2>2, EndStepCloses, CutEnded
  <1>2. CASE AcceptDeployment \/ EnableAccept
    <2>1. Unfinished' = {} /\ pc' = "finish"
      BY <1>2, AcceptLanes, AcceptStepFinishes
    <2> QED
      BY <2>1 DEF CutInv, CutLabels, BuildLabels, PastCutover, CandidateLabels
  <1>3. CASE UNCHANGED vars
    BY <1>3 DEF vars, CutInv, Unfinished, Open, Maintenance
  <1>4. ASSUME NEW o \in Op, Request(o) \/ Resume(o)
        PROVE  CutInv'
    BY <1>4, CutOpened, CutResumed
  <1>5. CASE RowSteps
    BY <1>5, CutRowSteps
  <1>6. CASE CallSteps \/ ReadSteps \/ AttemptSteps \/ CutOff
    BY <1>6, CutDeploySteps
  <1>7. CASE \/ FinishSteps \/ DisableSteps \/ EnableSteps \/ RestartSteps \/ DeleteSteps
             \/ Raise \/ Interrupt
    BY <1>7, CutOtherSteps
  <1> QED
    BY <1>1, <1>2, <1>3, <1>4, <1>5, <1>6, <1>7, StepCases DEF Next

-----------------------------------------------------------------------------
(* How far a deploy has come.                                              *)

\* The early, late and removed phases of a deploy do not overlap.
LEMMA PhaseGroups ==
  /\ EarlyPhases \cap (LatePhases \cup {"candidate_removed"}) = {}
  /\ "candidate_removed" \notin LatePhases
  /\ {"image_pushed", "platform_environment", "worker_creating", "worker_ready",
      "deployment_healthy"} \subseteq LatePhases
  /\ {"validated", "builder_creating", "build_rejected", "platform_busy"} \subseteq EarlyPhases
  BY DEF EarlyPhases, LatePhases

\* The row of an unfinished operation, as PhaseInv has it.
PhaseRow(o, phase, candidate, pred, direct, predGone) ==
    IsDeploy(o) =>
        /\ candidate # NoImage => phase \in LatePhases \cup {"candidate_removed"}
        /\ phase \in LatePhases /\ KindOf[o] # "rollback" => candidate # NoImage
        /\ phase = "deployment_healthy" => pred = app.active
        /\ direct => ReusesWorker(o)
        /\ ~predGone

\* The row of the operation whose body is at the label, as PhaseInv has it.
PhaseBody(label, phase) ==
    /\ label \in BuildLabels \cup {"attempt"} => phase \in EarlyPhases
    /\ label \in {"cutover", "env", "worker", "dropped"} \cup CutLabels \cup CandidateLabels =>
          phase \in LatePhases
    /\ label \in {"dropImage", "failOp"} => phase = "candidate_removed"

\* PhaseInv, by rows.
LEMMA PhaseRows ==
  PhaseInv <=> /\ \A o \in Unfinished : PhaseRow(o, op[o].phase, op[o].candidate, op[o].pred,
                                                 op[o].direct, op[o].predGone)
               /\ PhaseBody(pc, op[cur].phase)
  BY DEF PhaseInv, PhaseRow, PhaseBody

\* PhaseInv after a step, by rows.
LEMMA PhaseRowsNext ==
  ASSUME \A o \in Unfinished' : PhaseRow(o, op[o].phase, op[o].candidate, op[o].pred,
                                         op[o].direct, op[o].predGone)',
         PhaseBody(pc, op[cur].phase)'
  PROVE  PhaseInv'
  BY DEF PhaseInv, PhaseRow, PhaseBody

\* Outside the forward body of a deploy PhaseInv asks nothing of the label.
LEMMA PhaseElsewhere ==
  ASSUME pc' \in FinishLabels \cup DisableLabels \cup EnableLabels \cup RestartLabels
                 \cup DeleteLabels \cup {"idle", "failAttempt"}
  PROVE  PhaseBody(pc, op[cur].phase)'
  BY DEF PhaseBody, FinishLabels, DisableLabels, EnableLabels, RestartLabels, DeleteLabels,
     BuildLabels, CutLabels, CandidateLabels

\* A step that leaves the unfinished deploys alone keeps PhaseInv.
LEMMA PhaseKept ==
  ASSUME PhaseInv, Unfinished' \subseteq Unfinished,
         \A o \in Unfinished' : IsDeploy(o) => op'[o] = op[o],
         app'.active = app.active,
         PhaseBody(pc, op[cur].phase)'
  PROVE  PhaseInv'
  <1>1. ASSUME NEW o \in Unfinished'
        PROVE  PhaseRow(o, op[o].phase, op[o].candidate, op[o].pred, op[o].direct,
                        op[o].predGone)'
    <2>1. PhaseRow(o, op[o].phase, op[o].candidate, op[o].pred, op[o].direct, op[o].predGone)
      BY <1>1, PhaseRows
    <2> QED
      BY <1>1, <2>1 DEF PhaseRow, IsDeploy, ReusesWorker
  <1> QED
    BY <1>1, PhaseRowsNext

\* The flags of a row that the steps of a deploy write.
LEMMA JournalRow ==
  ASSUME TypeOK, cur \in Op, NEW row, Journal(row)
  PROVE  op'[cur] = row
  BY DEF Journal, TypeOK

DirectChosen == /\ ReusesWorker(cur) /\ op[cur].phase = "validated" /\ KindOf[cur] # "rollback"
                /\ PrepareBuild

\* The forward body of a deploy never marks its predecessor as gone, and chooses
\* the route only when it begins to build.
LEMMA FlagsKept ==
  ASSUME TypeOK, cur \in Op, RowSteps
  PROVE  /\ op'[cur].predGone = op[cur].predGone
         /\ op'[cur].direct = op[cur].direct \/ DirectChosen
  <1> DEFINE row == op[cur]
  <1>1. row \in Rows
    BY DEF TypeOK
  <1>2. CASE PrepareBuild
    <2> DEFINE direct == row.direct \/ (ReusesWorker(cur) /\ row.phase = "validated"
                                          /\ app.desired)
    <2>1. direct \in BOOLEAN
      BY <1>1 DEF Rows, ReusesWorker
    <2> HIDE DEF direct
    <2>2. op'[cur].direct = direct /\ op'[cur].predGone = row.predGone
      <3>1. CASE Journal([row EXCEPT !.direct = direct, !.phase = "image_pushed",
                                     !.candidate = attempt[row.target].image])
        BY <1>1, <2>1, <3>1, JournalRow DEF Rows
      <3>2. CASE Journal([row EXCEPT !.direct = direct])
        BY <1>1, <2>1, <3>2, JournalRow DEF Rows
      <3>3. CASE Journal([row EXCEPT !.direct = direct, !.phase = "builder_creating"])
        BY <1>1, <2>1, <3>3, JournalRow DEF Rows
      <3> QED
        BY <1>2, <3>1, <3>2, <3>3 DEF PrepareBuild, direct
    <2> QED
      BY <1>1, <1>2, <2>2 DEF DirectChosen, ReusesWorker, Rows, direct
  <1>3. CASE PlatformBusy
    BY <1>1, <1>3, JournalRow DEF PlatformBusy, checkpoint_operation, Rows
  <1>4. CASE BuildRejected
    BY <1>1, <1>4, JournalRow DEF BuildRejected, checkpoint_operation, Rows
  <1>5. CASE ImagePushed
    BY <1>1, <1>5, JournalRow DEF ImagePushed, Rows
  <1>6. CASE CutoverIntent
    BY <1>1, <1>6, JournalRow DEF CutoverIntent, Rows
  <1>7. CASE Quiesced
    BY <1>1, <1>7, JournalRow DEF Quiesced, Rows
  <1>8. CASE CutMark
    BY <1>1, <1>8, JournalRow DEF CutMark, Rows
  <1>9. CASE PrepareEnvironment
    BY <1>1, <1>9, JournalRow DEF PrepareEnvironment, checkpoint_operation, Rows
  <1>10. CASE PrepareReusedWorker
    BY <1>1, <1>10, JournalRow DEF PrepareReusedWorker, Rows
  <1>11. CASE PrepareWorker
    BY <1>1, <1>11, JournalRow DEF PrepareWorker, Rows
  <1>12. CASE WorkerReady
    BY <1>1, <1>12, JournalRow DEF WorkerReady, checkpoint_operation, Rows
  <1>13. CASE CandidateRemoved
    BY <1>1, <1>13, JournalRow DEF CandidateRemoved, checkpoint_operation, Rows
  <1>14. CASE DeploymentHealthy
    BY <1>1, <1>14, JournalRow DEF DeploymentHealthy, Rows
  <1> QED
    BY <1>2, <1>3, <1>4, <1>5, <1>6, <1>7, <1>8, <1>9, <1>10, <1>11, <1>12, <1>13, <1>14
       DEF RowSteps

\* A step that writes the row of the running deploy.
LEMMA PhaseWritten ==
  ASSUME TypeOK, ExclusionInv, PhaseInv, RowSteps, cur \in Unfinished,
         NEW a, NEW b, NEW c, NEW d, NEW e, NEW f, Wrote(a, b, c, d, e, f),
         b # NoImage => a \in LatePhases \cup {"candidate_removed"},
         a \in LatePhases /\ KindOf[cur] # "rollback" => b # NoImage,
         a = "deployment_healthy" => f = app.active,
         PhaseBody(pc', a)
  PROVE  PhaseInv'
  <1>1. cur \in Op /\ cur' = cur
    BY RowStepsInBody
  <1>2. /\ op'[cur].phase = a /\ op'[cur].candidate = b /\ op'[cur].pred = f
        /\ UNCHANGED app /\ \A o \in Op \ {cur} : op'[o] = op[o]
    BY <1>1 DEF Wrote, Holding
  <1>3. Unfinished' = Unfinished
    BY LanesKept DEF Wrote
  <1>4. PhaseRow(cur, op[cur].phase, op[cur].candidate, op[cur].pred, op[cur].direct,
                 op[cur].predGone)
    BY PhaseRows
  <1>5. /\ op'[cur].predGone = op[cur].predGone
        /\ op'[cur].direct => op[cur].direct \/ ReusesWorker(cur)
    BY <1>1, FlagsKept DEF DirectChosen
  <1>6. ASSUME NEW o \in Unfinished'
        PROVE  PhaseRow(o, op[o].phase, op[o].candidate, op[o].pred, op[o].direct,
                        op[o].predGone)'
    <2>1. CASE o = cur
      BY <1>2, <1>4, <1>5, <2>1 DEF PhaseRow, IsDeploy, ReusesWorker
    <2>2. CASE o # cur
      <3>1. o \in Unfinished /\ op'[o] = op[o]
        BY <1>2, <1>3, <1>6, <2>2 DEF Unfinished
      <3>2. PhaseRow(o, op[o].phase, op[o].candidate, op[o].pred, op[o].direct,
                     op[o].predGone)
        BY <3>1, PhaseRows
      <3> QED
        BY <1>2, <3>1, <3>2 DEF PhaseRow, IsDeploy, ReusesWorker
    <2> QED
      BY <2>1, <2>2
  <1>7. PhaseBody(pc, op[cur].phase)'
    BY <1>1, <1>2 DEF PhaseBody
  <1> QED
    BY <1>6, <1>7, PhaseRowsNext

\* The transactions of a deploy keep PhaseInv.
LEMMA PhaseRowSteps ==
  ASSUME TypeOK, TargetInv, ExclusionInv, ActiveInv, CutInv, PhaseInv, RowSteps
  PROVE  PhaseInv'
  <1> DEFINE row == op[cur]
             late == {"cutover", "env", "worker", "dropped"} \cup CutLabels \cup CandidateLabels
  <1>1. cur \in Op /\ cur \in Unfinished /\ IsDeploy(cur) /\ row \in Rows
    BY RowStepsInBody DEF ExclusionInv, ForwardLabels, Unfinished, TypeOK
  <1>2. PhaseRow(cur, row.phase, row.candidate, row.pred, row.direct, row.predGone)
    BY <1>1, PhaseRows
  <1>3. PhaseBody(pc, row.phase)
    BY PhaseRows
  <1>4. \A phase \in LatePhases : \A label \in late : PhaseBody(label, phase)
    BY DEF PhaseBody, BuildLabels, CutLabels, CandidateLabels
  <1>5. CASE PrepareBuild
    <2>1. pc = "build" /\ AfterBuild(cur) \in {"cutover", "env", "worker"}
      BY <1>5 DEF PrepareBuild, Step, AfterBuild, AfterCutover
    <2>2. row.phase \notin GonePhases
      BY <2>1, CutRows DEF CutBody
    <2>3. CASE BuildRetained
      BY <1>1, <1>4, <2>1, <2>3, PhaseGroups, PhaseWritten DEF BuildRetained
    <2>4. CASE BuildKept
      <3>1. row.phase \in LatePhases
        BY <1>1, <1>2, <2>2, <2>4 DEF BuildKept, PhaseRow, GonePhases
      <3> QED
        BY <1>1, <1>2, <1>4, <2>1, <2>4, <3>1, PhaseWritten DEF BuildKept, PhaseRow
    <2>5. CASE BuildBegins
      <3>1. PhaseBody(pc', "builder_creating")
        BY <2>5 DEF BuildBegins, PhaseBody, EarlyPhases, CutLabels, CandidateLabels
      <3> QED
        BY <1>1, <2>5, <3>1, PhaseGroups, PhaseWritten DEF BuildBegins
    <2>6. KindOf[cur] = "rollback" => row.target \in Op
      BY <1>1 DEF TargetInv, Unfinished
    <2> QED
      BY <1>1, <1>5, <2>3, <2>4, <2>5, <2>6, PrepareBuildWrites
  <1>6. CASE PlatformBusy
    <2>1. row.candidate = NoImage /\ PhaseBody(pc', "platform_busy")
      BY <1>6 DEF PlatformBusy, Step, PhaseBody, EarlyPhases, CutLabels, CandidateLabels
    <2> QED
      BY <1>1, <1>6, <2>1, PhaseGroups, PlatformBusyWrites, PhaseWritten
  <1>7. CASE BuildRejected
    <2>1. PhaseBody(pc', "build_rejected")
      BY <1>7 DEF BuildRejected, Step, PhaseBody, EarlyPhases, CutLabels, CandidateLabels
    <2>2. row.candidate = NoImage
      BY <1>7, CutRows DEF BuildRejected, Step, CutBody, BuildLabels
    <2> QED
      BY <1>1, <1>7, <2>1, <2>2, PhaseGroups, BuildRejectedWrites, PhaseWritten
  <1>8. CASE ImagePushed
    <2>1. pc' \in late
      BY <1>8 DEF ImagePushed, Step, AfterBuild, AfterCutover
    <2>2. ImageOf[cur] # NoImage
      BY SMTT(30), <1>1, ConstantsAssumption
    <2> QED
      BY <1>1, <1>4, <1>8, <2>1, <2>2, PhaseGroups, ImagePushedWrites, PhaseWritten
  <1>9. CASE CutoverIntent \/ Quiesced \/ CutMark
    <2>1. pc \in late /\ pc' \in late
      BY <1>9 DEF CutoverIntent, Quiesced, CutMark, Step, CutoverLabel, CutLabels
    <2>2. row.phase \in LatePhases
      BY <1>3, <2>1 DEF PhaseBody
    <2> QED
      BY <1>1, <1>2, <1>4, <1>9, <2>1, <2>2, CutoverIntentWrites, QuiescedWrites,
         CutMarkWrites, PhaseWritten DEF PhaseRow
  <1>10. CASE \/ PrepareEnvironment \/ PrepareReusedWorker \/ PrepareWorker \/ WorkerReady
              \/ DeploymentHealthy \/ CandidateRemoved
    <2>1. pc \in late /\ (pc' \in late \/ CandidateRemoved)
      BY <1>10 DEF PrepareEnvironment, PrepareReusedWorker, PrepareWorker, WorkerReady,
         DeploymentHealthy, CandidateRemoved, Step, CandidateLabels
    <2>2. row.phase \in LatePhases
      BY <1>3, <2>1 DEF PhaseBody
    <2>3. KindOf[cur] # "rollback" => row.candidate # NoImage
      BY <1>1, <1>2, <2>2 DEF PhaseRow
    <2>4. CASE PrepareEnvironment
      BY <1>1, <1>4, <2>1, <2>3, <2>4, PhaseGroups, PrepareEnvironmentWrites, PhaseWritten
         DEF CandidateRemoved, PrepareEnvironment, Step
    <2>5. CASE PrepareReusedWorker
      BY <1>1, <1>4, <2>1, <2>3, <2>5, PhaseGroups, ReusedSlot, PrepareReusedWorkerWrites,
         PhaseWritten DEF CandidateRemoved, PrepareReusedWorker, Step
    <2>6. CASE PrepareWorker
      BY <1>1, <1>4, <2>1, <2>3, <2>6, PhaseGroups, PrepareWorkerWrites, PhaseWritten
         DEF CandidateRemoved, PrepareWorker, Step
    <2>7. CASE WorkerReady
      BY <1>1, <1>4, <2>1, <2>3, <2>7, PhaseGroups, WorkerReadyWrites, PhaseWritten
         DEF CandidateRemoved, WorkerReady, Step
    <2>8. CASE DeploymentHealthy
      BY <1>1, <1>4, <2>1, <2>3, <2>8, PhaseGroups, DeploymentHealthyWrites, PhaseWritten
         DEF CandidateRemoved, DeploymentHealthy, Step
    <2>9. CASE CandidateRemoved
      <3>1. PhaseBody(pc', "candidate_removed")
        BY <2>9 DEF CandidateRemoved, Step, PhaseBody, BuildLabels, CutLabels, CandidateLabels
      <3> QED
        BY <1>1, <2>9, <3>1, PhaseGroups, CandidateRemovedWrites, PhaseWritten
    <2> QED
      BY <1>10, <2>4, <2>5, <2>6, <2>7, <2>8, <2>9
  <1> QED
    BY <1>5, <1>6, <1>7, <1>8, <1>9, <1>10 DEF RowSteps

\* The labels between which a step that writes no row may go.
LEMMA PhaseQuietSteps ==
  ASSUME TypeOK, ExclusionInv, PhaseInv, QuietDeploySteps
  PROVE  PhaseInv'
  <1>1. UNCHANGED op /\ app'.active = app.active /\ Unfinished' = Unfinished
    BY QuietDeployStepsPlace DEF Unfinished, Open
  <1>2. PhaseBody(pc, op[cur].phase)
    BY PhaseRows
  <1>3. PhaseBody(pc, op[cur].phase)'
    <2>1. CASE BuildSucceeds \/ Quiesce \/ CutJob \/ CutWorker
      BY <1>1, <1>2, <2>1 DEF BuildSucceeds, Quiesce, CutJob, CutWorker, Step, PhaseBody,
         BuildLabels, CutLabels, CandidateLabels
    <2>2. CASE \/ CreateWorker \/ SubmitJob \/ PromoteCandidate \/ DropStop \/ DropJob
               \/ DropWorker \/ DropImage
      BY <1>1, <1>2, <2>2 DEF CreateWorker, SubmitJob, PromoteCandidate, DropStop, DropJob,
         DropWorker, DropImage, Step, PhaseBody, BuildLabels, CutLabels, CandidateLabels
    <2>3. CASE ReadSteps
      BY <1>1, <1>2, <2>3 DEF ReadSteps, CleanRejected, CutoverSkipped, ObserveHealthy,
         ObservePublic, CandidateUnhealthy, Step, AfterCutover, PhaseBody, BuildLabels,
         CutLabels, CandidateLabels
    <2>4. CASE AttemptSteps \/ CutOff
      BY <1>1, <1>2, <2>4 DEF AttemptSteps, CreateAttempt, RejectAttempt, FailAttempt, CutOff,
         Step, AfterCutover, PhaseBody, BuildLabels, CutLabels, CandidateLabels
    <2> QED
      BY <2>1, <2>2, <2>3, <2>4 DEF QuietDeploySteps, CallSteps
  <1> QED
    BY <1>1, <1>3, PhaseKept DEF Unfinished

\* The replay of a deploy keeps PhaseInv.
LEMMA PhaseReplayed ==
  ASSUME TypeOK, PhaseInv, NEW o \in Op, ReplayDeploy(o)
  PROVE  PhaseInv'
  <1>1. o \in Unfinished /\ cur' = o /\ UNCHANGED app /\ pc' = RecoveryLabel(op[o].phase)
    BY DEF ReplayDeploy
  <1>2. /\ \A p \in Op \ {o} : op'[p] = op[p]
        /\ op'[o].phase = RecoveryPhase(op[o].phase) /\ op'[o].candidate = op[o].candidate
        /\ op'[o].pred = op[o].pred
        /\ op'[o].direct = op[o].direct /\ op'[o].predGone = op[o].predGone
    BY ReplayDeployWrites DEF Holding
  <1>3. Unfinished' = Unfinished
    BY ReplayDeployWrites, LanesKept DEF Holding, LanesSame
  <1>4. \A p \in Unfinished : PhaseRow(p, op[p].phase, op[p].candidate, op[p].pred,
                                       op[p].direct, op[p].predGone)
    BY PhaseRows
  <1>5. PhaseRow(o, op[o].phase, op[o].candidate, op[o].pred, op[o].direct, op[o].predGone)'
    BY <1>1, <1>2, <1>4 DEF PhaseRow, RecoveryPhase, LatePhases, IsDeploy, ReusesWorker
  <1>6. ASSUME NEW p \in Unfinished'
        PROVE  PhaseRow(p, op[p].phase, op[p].candidate, op[p].pred, op[p].direct,
                        op[p].predGone)'
    <2>1. CASE p # o
      BY <1>1, <1>2, <1>3, <1>4, <1>6, <2>1 DEF PhaseRow, Unfinished, IsDeploy, ReusesWorker
    <2> QED
      BY <1>5, <2>1
  <1>7. PhaseBody(pc, op[cur].phase)'
    BY <1>1, <1>2 DEF PhaseBody, RecoveryLabel, RecoveryPhase, EarlyPhases, LatePhases,
       CutLabels, BuildLabels, CandidateLabels
  <1> QED
    BY <1>6, <1>7, PhaseRowsNext

\* A request that begins establishes PhaseInv.
LEMMA PhaseOpened ==
  ASSUME TypeOK, NEW o \in Op, Request(o)
  PROVE  PhaseInv'
  <1>1. PICK label : Opened(o, label) /\ RunsFrom(o, label)
    BY RequestRuns
  <1>2. Unfinished' = {o}
    BY <1>1 DEF Opened, Unfinished, Open
  <1>3. pc' \in {"attempt", "disJob", "eWorker", "rReq", "dStop"}
    BY DEF Request, BeginDeploy, BeginDisable, BeginEnable, BeginRestart, BeginDelete, Begin
  <1>4. /\ op'[o].phase = "validated" /\ op'[o].candidate = NoImage
        /\ op'[o].direct = FALSE /\ op'[o].predGone = FALSE /\ cur' = o
    BY <1>1 DEF Opened
  <1>5. PhaseRow(o, op[o].phase, op[o].candidate, op[o].pred, op[o].direct, op[o].predGone)'
    BY <1>4 DEF PhaseRow, LatePhases
  <1>6. PhaseBody(pc, op[cur].phase)'
    BY <1>3, <1>4 DEF PhaseBody, EarlyPhases, CutLabels, BuildLabels, CandidateLabels
  <1> QED
    BY <1>2, <1>5, <1>6, PhaseRowsNext

\* Every step keeps PhaseInv: the phase tells how far the deploy has come.
LEMMA PhaseStep ==
  ASSUME TypeOK, TargetInv, ExclusionInv, ActiveInv, CutInv, PhaseInv, [Next]_vars
  PROVE  PhaseInv'
  <1>1. CASE OtherSteps
    BY <1>1, OtherStepsKeepDeploys, OtherStepsPlace, PhaseElsewhere, PhaseKept DEF OtherLabels
  <1>2. CASE AcceptDeployment
    <2>1. Unfinished' = {} /\ pc' = "finish"
      BY <1>2, AcceptLanes, AcceptStepFinishes
    <2>2. PhaseBody(pc, op[cur].phase)'
      BY <2>1, PhaseElsewhere DEF FinishLabels
    <2> QED
      BY <2>1, <2>2, PhaseRowsNext
  <1>3. CASE UNCHANGED vars
    BY <1>3 DEF vars, PhaseInv, Unfinished, Open, IsDeploy, ReusesWorker
  <1>4. ASSUME NEW o \in Op, Resume(o)
        PROVE  PhaseInv'
    <2>1. CASE \E label \in {"disJob", "eWorker", "dStop", "rReq", "finish"} :
                  Resumed(o, label)
      <3>1. /\ UNCHANGED <<op, app>> /\ Unfinished' = Unfinished
            /\ pc' \in {"disJob", "eWorker", "dStop", "rReq", "finish"}
        BY <2>1 DEF Resumed, Unfinished, Open
      <3>2. PhaseBody(pc, op[cur].phase)'
        BY <3>1, PhaseElsewhere DEF FinishLabels, DisableLabels, EnableLabels, RestartLabels,
           DeleteLabels
      <3> QED
        BY <3>1, <3>2, PhaseKept
    <2>2. CASE Closed(o) /\ pc = "idle" /\ UNCHANGED <<app, pc, cur>>
      <3>1. Unfinished' \subseteq Unfinished /\ \A p \in Unfinished' : op'[p] = op[p]
        BY <2>2 DEF Closed, Unfinished, Open
      <3>2. PhaseBody(pc, op[cur].phase)'
        BY <2>2, PhaseElsewhere
      <3> QED
        BY <2>2, <3>1, <3>2, PhaseKept
    <2> QED
      BY <1>4, <2>1, <2>2, ResumeCases, PhaseReplayed
  <1>5. CASE RowSteps
    BY <1>5, PhaseRowSteps
  <1>6. CASE QuietDeploySteps
    BY <1>6, PhaseQuietSteps
  <1> QED
    BY <1>1, <1>2, <1>3, <1>4, <1>5, <1>6, PhaseOpened, StepCases
       DEF Next, OtherSteps, QuietDeploySteps
=============================================================================
