----------------------- MODULE LifecycleServingProofs -----------------------
(***************************************************************************)
(* A stopped application has no accepted job, every step keeps the types,  *)
(* and the accepted deployment of a running application keeps serving, for *)
(* every set of requests and images and any number of interruptions.       *)
(***************************************************************************)
EXTENDS LifecycleCutProofs, LifecycleCandidateProofs

\* Most steps are first-order: Zenon is the prover where no other is named.
USE ZenonT(60)

(* A stopped application.                                                  *)

StoppingLabels == {"cutWorker", "cutMark", "cutOff", "disWorker", "disOff"}
Enabling == \E o \in Unfinished : KindOf[o] = "enable"
AcceptedJob == \E j \in JobId : cloud.jobs[j].op # NoOp /\ cloud.jobs[j].op = app.active
Inactive == ~app.desired \/ ~HasActive

\* The accepted deployment has a job only if the application runs or is enabled.
AcceptedRuns == AcceptedJob => (app.desired \/ Enabling) /\ pc \notin StoppingLabels

\* The candidate of a maintenance deployment has the application stopped.
Cutting(o) ==
    Maintenance(o) => /\ (\E j \in JobId : cloud.jobs[j].op = o) => Inactive
                      /\ op[o].phase \in GonePhases => Inactive

\* StopInv, by the accepted deployment, the unfinished rows and the running body.
LEMMA StopParts ==
  StopInv <=> /\ AcceptedRuns
              /\ \A o \in Unfinished : Cutting(o)
              /\ pc \in PastCutover /\ Maintenance(cur) => Inactive
  BY DEF StopInv, AcceptedRuns, AcceptedJob, Enabling, StoppingLabels, Cutting, Inactive,
     GonePhases

\* StopInv after a step, by its parts.
LEMMA StopPartsNext ==
  ASSUME AcceptedRuns', \A o \in Unfinished' : Cutting(o)',
         pc' \in PastCutover /\ Maintenance(cur') => Inactive'
  PROVE  StopInv'
  BY DEF StopInv, AcceptedRuns, AcceptedJob, Enabling, StoppingLabels, Cutting, Inactive,
     GonePhases, Maintenance

\* A step that submits nothing for the accepted deployment keeps AcceptedRuns.
LEMMA AcceptedKept ==
  ASSUME TypeOK, ExclusionInv, ActiveInv, AcceptedRuns, JobsKept, app'.active = app.active,
         pc # "eJob", app.desired => app'.desired \/ ~AcceptedJob,
         \A o \in Unfinished : KindOf[o] = "enable" => o \in Unfinished' \/ app'.desired,
         pc' \in StoppingLabels => pc \in StoppingLabels \/ ~AcceptedJob'
  PROVE  AcceptedRuns'
  <1>1. ASSUME AcceptedJob'
        PROVE  AcceptedJob
    <2>1. PICK j \in JobId : cloud'.jobs[j].op # NoOp /\ cloud'.jobs[j].op = app.active
      BY <1>1 DEF AcceptedJob
    <2>2. app.active \notin Unfinished
      BY <2>1 DEF ActiveInv, HasActive, Unfinished
    <2>3. cloud.jobs[j].op = cloud'.jobs[j].op
      BY <2>1, <2>2 DEF JobsKept
    <2> QED
      BY <2>1, <2>3 DEF AcceptedJob
  <1> QED
    BY <1>1 DEF AcceptedRuns, Enabling

\* A step that does not restart the application keeps Cutting of a row.
LEMMA CuttingKept ==
  ASSUME TypeOK, ExclusionInv, ActiveInv, StopInv, JobsKept, app'.active = app.active,
         app'.desired => app.desired, NEW o \in Unfinished,
         Maintenance(o) /\ op'[o].phase \in GonePhases =>
             op[o].phase \in GonePhases \/ (o = cur /\ pc \in PastCutover)
  PROVE  Cutting(o)'
  <1>1. Inactive => Inactive'
    BY DEF Inactive, HasActive
  <1>2. Cutting(o) /\ (o = cur /\ pc \in PastCutover /\ Maintenance(o) => Inactive)
    BY StopParts
  <1>3. o # app.active /\ o \in Op /\ o # NoOp
    BY ConstantsAssumption DEF ActiveInv, HasActive, Unfinished
  <1>4. ASSUME Maintenance(o), NEW j \in JobId, cloud'.jobs[j].op = o
        PROVE  Inactive
    <2>1. cloud.jobs[j].op = o \/ (o = cur /\ pc \in PastCutover)
      BY <1>3, <1>4 DEF JobsKept, PastCutover, CandidateLabels
    <2> QED
      BY <1>2, <1>4, <2>1 DEF Cutting
  <1>5. Maintenance(o) /\ op'[o].phase \in GonePhases => Inactive
    BY <1>2 DEF Cutting
  <1> QED
    BY <1>1, <1>4, <1>5 DEF Cutting, Maintenance, GonePhases

\* The steps that write a row bring a deploy past the cutover only in order.
LEMMA RowPhases ==
  ASSUME TypeOK, TargetInv, ExclusionInv, ActiveInv, RowSteps
  PROVE  /\ op'[cur].phase \in GonePhases => op[cur].phase \in GonePhases \/ pc \in PastCutover
         /\ pc' \in PastCutover => pc \in PastCutover \/ ~Maintenance(cur)
         /\ pc' \in StoppingLabels => pc \in StoppingLabels
  <1>1. cur \in Op /\ cur \in Unfinished
    BY RowStepsInBody, BodyOf
  <1>2. CASE PrepareBuild
    <2>1. KindOf[cur] = "rollback" => op[cur].target \in Op
      BY <1>1 DEF TargetInv, Unfinished
    <2>2. BuildRetained \/ BuildKept \/ BuildBegins
      BY <1>1, <1>2, <2>1, PrepareBuildWrites
    <2>3. op'[cur].phase \in {"image_pushed", op[cur].phase, "builder_creating"}
      BY <2>2 DEF BuildRetained, BuildKept, BuildBegins, Wrote, Holding
    <2>4. pc' = "building" \/ pc' = AfterBuild(cur)
      BY <2>2 DEF BuildRetained, BuildKept, BuildBegins
    <2> QED
      BY <2>3, <2>4 DEF AfterBuild, AfterCutover, GonePhases, StoppingLabels, PastCutover,
         CandidateLabels
  <1>3. CASE PlatformBusy \/ BuildRejected \/ ImagePushed
    <2>1. op'[cur].phase \in {"platform_busy", "build_rejected", "image_pushed"}
      BY <1>1, <1>3, PlatformBusyWrites, BuildRejectedWrites, ImagePushedWrites
         DEF Wrote, Holding
    <2> QED
      BY <1>3, <2>1 DEF PlatformBusy, BuildRejected, ImagePushed, Step, AfterBuild,
         AfterCutover, GonePhases, StoppingLabels, PastCutover, CandidateLabels
  <1>4. CASE CutoverIntent \/ Quiesced \/ CutMark
    <2>1. op'[cur].phase = op[cur].phase
      BY <1>1, <1>4, CutoverIntentWrites, QuiescedWrites, CutMarkWrites DEF Wrote, Holding
    <2> QED
      BY <1>4, <2>1 DEF CutoverIntent, Quiesced, CutMark, Step, CutoverLabel, StoppingLabels,
         PastCutover, CandidateLabels
  <1>5. CASE \/ PrepareEnvironment \/ PrepareReusedWorker \/ PrepareWorker \/ WorkerReady
             \/ CandidateRemoved \/ DeploymentHealthy
    BY <1>5 DEF PrepareEnvironment, PrepareReusedWorker, PrepareWorker, WorkerReady,
       CandidateRemoved, DeploymentHealthy, Step, StoppingLabels, PastCutover, CandidateLabels
  <1> QED
    BY <1>2, <1>3, <1>4, <1>5 DEF RowSteps

\* A step that does not restart the application keeps StopInv.
LEMMA StopKept ==
  ASSUME TypeOK, ExclusionInv, ActiveInv, StopInv, JobsKept, app'.active = app.active,
         app'.desired => app.desired, Unfinished' \subseteq Unfinished,
         \A o \in Unfinished' : Maintenance(o) /\ op'[o].phase \in GonePhases =>
             op[o].phase \in GonePhases \/ (o = cur /\ pc \in PastCutover),
         AcceptedRuns', pc' \in PastCutover /\ Maintenance(cur') => Inactive'
  PROVE  StopInv'
  BY CuttingKept, StopPartsNext

\* The transactions of a deploy keep StopInv.
LEMMA StopRowSteps ==
  ASSUME TypeOK, TargetInv, ExclusionInv, ActiveInv, StopInv, RowSteps
  PROVE  StopInv'
  <1>1. cur \in Unfinished /\ IsDeploy(cur) /\ cur' = cur /\ pc # "eJob"
    <2>1. cur \in Unfinished /\ IsDeploy(cur) /\ cur' = cur /\ pc \in ForwardLabels
      BY BodyOf, RowStepsInBody
    <2> QED
      BY <2>1, LabelGroups DEF EnableLabels
  <1>2. UNCHANGED <<app, cloud>> /\ JobsKept
    BY JobsSame DEF RowSteps, PrepareBuild, PlatformBusy, BuildRejected, ImagePushed,
       CutoverIntent, Quiesced, CutMark, PrepareEnvironment, PrepareReusedWorker,
       PrepareWorker, WorkerReady, CandidateRemoved, DeploymentHealthy, Journal,
       checkpoint_operation
  <1>3. Unfinished' = Unfinished
    BY RowStepsLanes DEF LanesSame, Unfinished, Open
  <1>4. AcceptedRuns'
    BY <1>1, <1>2, <1>3, RowPhases, StopParts, AcceptedKept DEF AcceptedJob
  <1>5. \A o \in Unfinished' : op'[o].phase = op[o].phase \/ o = cur
    BY <1>3, OwnRow, StepCases DEF Unfinished
  <1>6. pc' \in PastCutover /\ Maintenance(cur') => Inactive'
    BY <1>1, <1>2, RowPhases, StopParts DEF Inactive, HasActive
  <1> QED
    BY <1>1, <1>2, <1>3, <1>4, <1>5, <1>6, RowPhases, StopKept

\* Removing the accepted deployment's job leaves it none.
LEMMA AcceptedStopped ==
  ASSUME TypeOK, CandidateInv, CutJob \/ DisableJob
  PROVE  ~AcceptedJob'
  <1>1. UNCHANGED app /\ cloud' = WithoutJob(Active.job)
    BY DEF CutJob, DisableJob, Helper
  <1>2. \A j \in JobId : cloud'.jobs[j] = IF j = Active.job THEN NoJob ELSE cloud.jobs[j]
    BY <1>1, JobGone
  <1>3. \A j \in JobId : JobPlaced(j)
    BY CandidateParts
  <1> QED
    BY SMTT(30), <1>1, <1>2, <1>3 DEF AcceptedJob, JobPlaced, HasActive, NoJob

\* The calls and reads of a deploy keep StopInv.
LEMMA StopQuietSteps ==
  ASSUME TypeOK, ExclusionInv, ActiveInv, CandidateInv, StopInv, QuietDeploySteps
  PROVE  StopInv'
  <1>1. UNCHANGED op /\ app'.active = app.active /\ Unfinished' = Unfinished
    BY QuietDeployStepsPlace DEF Unfinished, Open
  <1>2. JobsKept
    BY CutCallsPlace, CandidateCallsPlace, JobsSame DEF QuietDeploySteps, CallSteps, CutCalls,
       CandidateCalls, ReadSteps, CleanRejected, CutoverSkipped, ObserveHealthy, ObservePublic,
       CandidateUnhealthy, Quiet, AttemptSteps, CreateAttempt, RejectAttempt, FailAttempt,
       checkpoint_deployment_attempt, CutOff, set_application_runtime
  <1>3. pc # "eJob"
    BY FromLabels, LabelGroups DEF EnableLabels
  <1>4. \/ UNCHANGED app
        \/ pc = "cutOff" /\ ~app'.desired
    BY QuietFrame DEF CutOff, set_application_runtime, Step, TypeOK
  <1>5. pc' \in StoppingLabels => pc \in StoppingLabels \/ ~AcceptedJob'
    <2>1. pc' \in StoppingLabels => pc \in StoppingLabels \/ CutJob
      BY DEF QuietDeploySteps, CallSteps, Quiesce, CutWorker,
         BuildSucceeds, CreateWorker, SubmitJob, PromoteCandidate, DropStop, DropJob,
         DropWorker, DropImage, ReadSteps, CleanRejected, CutoverSkipped, ObserveHealthy,
         ObservePublic, CandidateUnhealthy, AttemptSteps, CreateAttempt, RejectAttempt,
         FailAttempt, CutOff, AfterCutover, Step, StoppingLabels
    <2> QED
      BY <2>1, AcceptedStopped
  <1>6. pc' \in PastCutover =>
            \/ pc \in PastCutover /\ UNCHANGED app
            \/ CutoverSkipped \/ CutOff
    BY DEF QuietDeploySteps, CallSteps, Quiesce, CutJob, CutWorker,
       BuildSucceeds, CreateWorker, SubmitJob, PromoteCandidate, DropStop, DropJob, DropWorker,
       DropImage, ReadSteps, CleanRejected, ObserveHealthy, ObservePublic, Helper, Quiet,
       CandidateUnhealthy, AttemptSteps, CreateAttempt, RejectAttempt, FailAttempt, Step,
       PastCutover, CandidateLabels
  <1>7. CutoverSkipped \/ CutOff => Inactive'
    BY DEF CutoverSkipped, CutOff, set_application_runtime, Quiet, Inactive, HasActive, TypeOK
  <1>8. pc' = "idle" \/ cur' = cur
    BY StepCases, BodyStepped DEF QuietDeploySteps, Stepped
  <1>9. pc' \in PastCutover /\ Maintenance(cur') => Inactive'
    BY <1>6, <1>7, <1>8, StopParts DEF Inactive, HasActive, PastCutover, CandidateLabels
  <1>10. AcceptedRuns'
    BY <1>1, <1>2, <1>3, <1>4, <1>5, StopParts, AcceptedKept DEF AcceptedRuns, StoppingLabels
  <1> QED
    BY <1>1, <1>2, <1>4, <1>9, <1>10, StopKept

\* The steps of finishing, disables, enables, restarts and deletions.
LEMMA StopOtherSteps ==
  ASSUME TypeOK, ExclusionInv, ActiveInv, CandidateInv, DeleteInv, StopInv, OtherSteps,
         ~EnableAccept
  PROVE  StopInv'
  <1>1. /\ Unfinished' \subseteq Unfinished
        /\ \A o \in Unfinished' : IsDeploy(o) => op'[o] = op[o]
        /\ pc' \in OtherLabels \cup {"idle", "failAttempt"} /\ app'.active = app.active
    BY OtherStepsKeepDeploys, OtherStepsPlace
  <1>2. JobsKept
    BY JobsStep, StepCases DEF OtherSteps, Next
  <1>3. pc' \notin PastCutover
    BY <1>1 DEF OtherLabels, FinishLabels, DisableLabels, EnableLabels, RestartLabels,
       DeleteLabels, PastCutover, CandidateLabels
  <1>4. \A o \in Op : Maintenance(o) => IsDeploy(o)
    BY DEF Maintenance, IsDeploy, DeployKinds
  <1>5. (~app'.desired /\ pc \in {"disOff", "dOff"}) \/ app'.desired = app.desired
    BY AppFrame DEF DisableOff, DeleteOff, complete_application_deletion,
       set_application_runtime, Step, TypeOK
  <1>6. pc = "dOff" => ~AcceptedJob
    BY SMTT(30) DEF DeleteInv, AcceptedJob, NoJob
  <1>7. pc = "disOff" => ~AcceptedJob
    BY StopParts DEF AcceptedRuns, StoppingLabels
  <1>8. app.desired => app'.desired \/ ~AcceptedJob
    BY <1>5, <1>6, <1>7
  <1>9. app'.desired => app.desired
    BY <1>5
  <1>10. pc' \in StoppingLabels => DisableSteps
    BY NextLabels DEF OtherSteps, FinishLabels, EnableLabels, RestartLabels, DeleteLabels,
       StoppingLabels, Raise, Interrupt
  <1>14. pc' \in StoppingLabels => pc \in StoppingLabels \/ ~AcceptedJob'
    <2>1. DisableSteps => DisableJob \/ pc \in StoppingLabels
      BY DEF DisableSteps, DisableWorker, DisableOff, Step, StoppingLabels
    <2> QED
      BY <1>10, <2>1, AcceptedStopped
  <1>15. \A o \in Unfinished' : Maintenance(o) => op'[o].phase = op[o].phase
    BY <1>1, <1>4 DEF Unfinished
  <1>11. \A o \in Unfinished : KindOf[o] = "enable" => o \in Unfinished'
    <2>1. CASE EndSteps
      <3>1. Closed(cur) /\ cur \in Op /\ (cur \in Unfinished => KindOf[cur] # "enable")
        <4>1. Closed(cur) /\ cur \in Op
          BY <2>1, EndStepCloses
        <4>2. pc \in FinishLabels => cur \notin Unfinished
          BY DEF ExclusionInv, Finishing, Unfinished
        <4>3. \/ IsDeploy(cur) \/ KindOf[cur] \in {"disable", "restart", "delete"}
              \/ pc \in FinishLabels
          BY <2>1, FromLabels DEF ExclusionInv, FinishLabels
        <4> QED
          BY <4>1, <4>2, <4>3 DEF IsDeploy, DeployKinds
      <3> QED
        BY <3>1 DEF Closed, Unfinished, Open
    <2>2. CASE ~EndSteps
      <3>1. LanesSame
        BY <2>2, OtherStepsContinue, FinishStepsContinue DEF OtherSteps, Raise, Interrupt,
           Quiet, LanesSame
      <3> QED
        BY <3>1 DEF LanesSame, Unfinished, Open
    <2> QED
      BY <2>1, <2>2
  <1>12. CASE pc # "eJob"
    <2>1. AcceptedRuns'
      BY <1>1, <1>2, <1>8, <1>11, <1>12, <1>14, StopParts, AcceptedKept
    <2> QED
      BY <1>1, <1>2, <1>3, <1>9, <1>15, <2>1, StopKept
  <1>13. CASE pc = "eJob"
    <2>1. Enabling /\ pc \notin StoppingLabels
      BY <1>13 DEF ExclusionInv, EnableLabels, Enabling, StoppingLabels
    <2>2. pc' \notin StoppingLabels /\ Enabling'
      <3>1. ~DisableSteps
        BY <1>13, FromLabels DEF DisableLabels
      <3> QED
        BY <1>10, <1>11, <2>1, <3>1 DEF Enabling
    <2>3. AcceptedRuns'
      BY <2>2 DEF AcceptedRuns
    <2> QED
      BY <1>1, <1>2, <1>3, <1>9, <1>15, <2>3, StopKept
  <1> QED
    BY <1>12, <1>13

\* The replay of a deploy keeps StopInv.
LEMMA StopReplayed ==
  ASSUME TypeOK, ExclusionInv, ActiveInv, StopInv, NEW o \in Op, ReplayDeploy(o)
  PROVE  StopInv'
  <1>1. /\ pc' = RecoveryLabel(op[o].phase) /\ cur' = o /\ UNCHANGED <<app, cloud>>
        /\ o \in Unfinished
    BY DEF ReplayDeploy
  <1>2. /\ op'[o].phase = RecoveryPhase(op[o].phase) /\ LanesSame
        /\ \A p \in Op \ {o} : op'[p] = op[p]
    BY ReplayDeployWrites DEF Holding, LanesSame
  <1>3. Unfinished' = Unfinished
    BY <1>2, LanesKept
  <1>4. AcceptedRuns'
    <2>1. pc # "eJob" /\ pc' \notin StoppingLabels
      BY <1>1 DEF ReplayDeploy, RecoveryLabel, StoppingLabels
    <2> QED
      BY <1>1, <1>3, <2>1, JobsSame, StopParts, AcceptedKept
  <1>5. \A p \in Unfinished' : op'[p].phase \in GonePhases => op[p].phase \in GonePhases
    BY <1>2, <1>3 DEF RecoveryPhase, GonePhases, Unfinished
  <1>6. pc' \in PastCutover => op[o].phase \in GonePhases
    BY <1>1 DEF RecoveryLabel, PastCutover, CandidateLabels, GonePhases
  <1>7. pc' \in PastCutover /\ Maintenance(cur') => Inactive'
    BY <1>1, <1>6, StopParts DEF Cutting, Inactive, HasActive
  <1> QED
    BY <1>1, <1>3, <1>4, <1>5, <1>7, JobsSame, StopKept

\* A request that begins keeps StopInv.
LEMMA StopOpened ==
  ASSUME TypeOK, ExclusionInv, ActiveInv, CandidateInv, StopInv, NEW o \in Op, Request(o)
  PROVE  StopInv'
  <1>1. /\ Unfinished = {} /\ Unfinished' = {o} /\ op[o].status = "none"
        /\ op'[o].phase = "validated" /\ UNCHANGED <<app, cloud>>
        /\ pc' \in {"attempt", "disJob", "eWorker", "rReq", "dStop"}
    BY RequestOpens
  <1>2. AcceptedRuns'
    BY <1>1, StopParts DEF AcceptedRuns, AcceptedJob, Enabling, StoppingLabels
  <1>3. \A j \in JobId : cloud.jobs[j].op # o
    BY <1>1, ConstantsAssumption DEF CandidateInv
  <1>4. Cutting(o)'
    BY <1>1, <1>3 DEF Cutting, GonePhases
  <1>5. pc' \notin PastCutover
    BY <1>1 DEF PastCutover, CandidateLabels
  <1> QED
    BY <1>1, <1>2, <1>4, <1>5, StopPartsNext

\* The replay of another operation keeps StopInv.
LEMMA StopResumed ==
  ASSUME TypeOK, ExclusionInv, ActiveInv, StopInv, NEW o \in Op, NEW label,
         label \in {"disJob", "eWorker", "dStop", "rReq", "finish"}, Resumed(o, label)
  PROVE  StopInv'
  <1>1. UNCHANGED <<op, app, cloud>> /\ pc' = label /\ pc = "idle"
    BY DEF Resumed
  <1>2. Unfinished' = Unfinished
    BY <1>1 DEF Unfinished, Open
  <1>3. pc' \notin PastCutover /\ pc' \notin StoppingLabels
    BY <1>1 DEF PastCutover, CandidateLabels, StoppingLabels
  <1>4. AcceptedRuns'
    BY <1>1, <1>2, <1>3, JobsSame, StopParts, AcceptedKept
  <1> QED
    BY <1>1, <1>2, <1>3, <1>4, JobsSame, StopKept

\* An acceptance establishes StopInv: nothing is unfinished and the application
\* runs.
LEMMA StopAccepted ==
  ASSUME TypeOK, ExclusionInv, AcceptDeployment \/ EnableAccept
  PROVE  StopInv'
  <1>1. app'.desired /\ pc' = "finish"
    BY DEF AcceptDeployment, EnableAccept, Step, TypeOK
  <1>2. Unfinished' = {}
    BY AcceptLanes
  <1>3. AcceptedRuns' /\ pc' \notin PastCutover
    BY <1>1 DEF AcceptedRuns, StoppingLabels, PastCutover, CandidateLabels
  <1> QED
    BY <1>2, <1>3, StopPartsNext

\* Every step keeps StopInv: a stopped application has no accepted job, and a
\* maintenance candidate finds it stopped.
LEMMA StopStep ==
  ASSUME TypeOK, TargetInv, ExclusionInv, ActiveInv, CandidateInv, DeleteInv, StopInv,
         [Next]_vars
  PROVE  StopInv'
  <1>1. CASE RowSteps
    BY <1>1, StopRowSteps
  <1>2. CASE QuietDeploySteps
    BY <1>2, StopQuietSteps
  <1>3. CASE OtherSteps /\ ~EnableAccept
    BY <1>3, StopOtherSteps
  <1>4. CASE AcceptDeployment \/ EnableAccept
    BY <1>4, StopAccepted
  <1>5. ASSUME NEW o \in Op, Request(o)
        PROVE  StopInv'
    BY <1>5, StopOpened
  <1>6. ASSUME NEW o \in Op, Resume(o)
        PROVE  StopInv'
    <2>1. CASE ReplayDeploy(o)
      BY <2>1, StopReplayed
    <2>2. CASE \E label \in {"disJob", "eWorker", "dStop", "rReq", "finish"} :
                   Resumed(o, label)
      BY <2>2, StopResumed
    <2>3. CASE /\ o \in Unfinished /\ KindOf[o] = "restart" /\ Closed(o) /\ pc = "idle"
               /\ UNCHANGED <<attempt, app, res, accepted, cloud, restarts, pc, cur>>
      <3>1. /\ Unfinished' \subseteq Unfinished /\ \A p \in Unfinished' : op'[p] = op[p]
            /\ \A p \in Unfinished : KindOf[p] = "enable" => p \in Unfinished'
        BY <2>3 DEF Closed, Unfinished, Open
      <3>2. AcceptedRuns'
        BY <2>3, <3>1, JobsSame, StopParts, AcceptedKept
      <3>3. pc' \notin PastCutover
        BY <2>3 DEF PastCutover, CandidateLabels
      <3> QED
        BY <2>3, <3>1, <3>2, <3>3, JobsSame, StopKept
    <2> QED
      BY <1>6, <2>1, <2>2, <2>3, ResumeCases
  <1>7. CASE UNCHANGED vars
    BY <1>7 DEF vars, StopInv, Unfinished, Open, Maintenance, HasActive
  <1> QED
    BY <1>1, <1>2, <1>3, <1>4, <1>5, <1>6, <1>7, StepCases DEF Next, OtherSteps,
       QuietDeploySteps

(* Types.                                                                  *)

\* Every row keeps its target, unless its operation begins or ends.
RowsTyped ==
    /\ op' \in [Op -> Rows]
    /\ \A o \in Op : op'[o].status = "open" =>
          \/ op[o].status = "open" /\ op'[o].target = op[o].target
          \/ KindOf[o] = "rollback" => op'[o].target \in Op

\* A transaction of a deploy keeps the rows in their type.
LEMMA WroteTyped ==
  ASSUME NEW a, NEW b, NEW c, NEW d, NEW e, NEW f, Wrote(a, b, c, d, e, f)
  PROVE  RowsTyped
  BY DEF Wrote, Holding, RowsTyped

\* The end of an operation keeps the rows in their type.
LEMMA ClosedTyped ==
  ASSUME NEW o \in Op, Closed(o)
  PROVE  RowsTyped
  BY DEF Closed, RowsTyped

\* Every step keeps the rows in their type.
LEMMA RowsStep ==
  ASSUME TypeOK, TargetInv, ExclusionInv, ActiveInv, [Next]_vars
  PROVE  RowsTyped
  <1>1. CASE UNCHANGED op
    BY <1>1 DEF TypeOK, RowsTyped
  <1>2. CASE RowSteps
    <2>1. cur \in Op /\ Open(cur)
      BY <1>2, RowStepsInBody DEF ExclusionInv, ForwardLabels
    <2>2. KindOf[cur] = "rollback" => op[cur].target \in Op
      BY <2>1 DEF TargetInv
    <2>3. CASE PrepareBuild
      BY <2>1, <2>2, <2>3, PrepareBuildWrites, WroteTyped
         DEF BuildRetained, BuildKept, BuildBegins
    <2>4. CASE PrepareReusedWorker
      BY <2>1, <2>4, PrepareReusedWorkerWrites, ReusedSlot, WroteTyped
    <2>5. CASE PlatformBusy \/ BuildRejected \/ ImagePushed \/ CutoverIntent \/ Quiesced
               \/ CutMark
      BY <2>1, <2>5, PlatformBusyWrites, BuildRejectedWrites, ImagePushedWrites,
         CutoverIntentWrites, QuiescedWrites, CutMarkWrites, WroteTyped
    <2>6. CASE \/ PrepareEnvironment \/ PrepareWorker \/ WorkerReady
               \/ CandidateRemoved \/ DeploymentHealthy
      BY <2>1, <2>6, PrepareEnvironmentWrites, PrepareWorkerWrites, WorkerReadyWrites,
         CandidateRemovedWrites, DeploymentHealthyWrites, WroteTyped
    <2> QED
      BY <1>2, <2>3, <2>4, <2>5, <2>6 DEF RowSteps
  <1>3. CASE CallSteps \/ ReadSteps \/ AttemptSteps \/ CutOff
    BY <1>1, <1>3 DEF CallSteps, BuildSucceeds, Quiesce, CutJob, CutWorker,
       CreateWorker, SubmitJob, PromoteCandidate, DropStop, DropJob, DropWorker, DropImage,
       Helper, ReadSteps, CleanRejected, CutoverSkipped, ObserveHealthy, ObservePublic,
       CandidateUnhealthy, Quiet, AttemptSteps, CreateAttempt, RejectAttempt, FailAttempt,
       checkpoint_deployment_attempt, CutOff, set_application_runtime
  <1>4. CASE FinishSteps
    <2>1. cur \in Op
      BY <1>4, FinishStepsContinue
    <2> QED
      BY <1>1, <1>4, <2>1, HandoverDoneWrites, PredecessorJobAbsentWrites, AcceptedWrites,
         WroteTyped DEF FinishSteps, RemovePredecessorJob, RemovePredecessorWorker,
         RetainImages, Helper
  <1>5. CASE DisableSteps \/ DeleteSteps \/ Raise \/ Interrupt
    BY <1>1, <1>5 DEF DisableSteps, DisableJob, DisableWorker, DisableOff, DeleteSteps,
       DeleteStop, DeleteResource, DeletePurge, DeleteForget, DeleteRuntime, DeleteWorkers,
       DeleteOff, DeleteImage, Helper, SetResource, set_application_runtime, Raise, Interrupt,
       Quiet
  <1>6. CASE EnableSteps \/ RestartSteps
    <2>1. cur \in Op
      BY <1>6 DEF EnableSteps, EnableWorker, EnableReady, EnableJob, EnableHealthy,
         EnableUnhealthy, EnableDropJob, RestartSteps, RestartRequested, RestartTask, Step,
         TypeOK
    <2> QED
      BY <1>1, <1>6, <2>1, EnableReadyWrites, EnableHealthyWrites, RestartRequestedWrites,
         WroteTyped DEF EnableSteps, EnableWorker, EnableJob, EnableUnhealthy, EnableDropJob,
         RestartSteps, RestartTask, Helper, Quiet
  <1>7. CASE EndSteps
    BY <1>7, EndStepCloses, ClosedTyped
  <1>8. CASE AcceptDeployment \/ EnableAccept
    BY <1>8, AcceptStepFinishes, FinishingSet DEF Unfinished, RowsTyped
  <1>9. ASSUME NEW o \in Op, Request(o)
        PROVE  RowsTyped
    <2>1. PICK label : Opened(o, label)
      BY <1>9, RequestRuns
    <2> QED
      BY <2>1 DEF Opened, RowsTyped
  <1>10. ASSUME NEW o \in Op, Resume(o)
         PROVE  RowsTyped
    <2>1. CASE ReplayDeploy(o)
      BY <2>1, ReplayDeployWrites DEF Holding, RowsTyped
    <2>2. CASE ReplayRestart(o) /\ op[o].phase = "restart_requested"
      BY <2>2, StatusSet, ClosedTyped DEF ReplayRestart
    <2> QED
      BY <1>1, <1>10, <2>1, <2>2, ReplayResumes DEF Resume, Resumed
  <1> QED
    BY <1>1, <1>2, <1>3, <1>4, <1>5, <1>6, <1>7, <1>8, <1>9, <1>10, StepCases DEF Next, vars

\* Every step keeps TargetInv: an open rollback has a target.
LEMMA TargetStep ==
  ASSUME TypeOK, TargetInv, ExclusionInv, ActiveInv, [Next]_vars
  PROVE  TargetInv'
  BY RowsStep DEF RowsTyped, TargetInv, Open

\* The body has reached a label, or let the lock go.
BodyTyped ==
    /\ pc' \in Labels /\ cur' \in Op \cup {NoOp} /\ (pc' = "idle" <=> cur' = NoOp)
    /\ interrupts' \in 0 .. MaxInterrupts

\* Every step leaves the body at a label and counts its interruptions.
LEMMA BodyTypedStep ==
  ASSUME TypeOK, [Next]_vars
  PROVE  BodyTyped
  <1>1. CASE BodyStep
    BY <1>1, BodyStepped DEF Stepped, BodyTyped, TypeOK
  <1>2. CASE Raise
    BY <1>2 DEF Raise, BodyTyped, TypeOK, Labels
  <1>3. CASE Interrupt
    <2>1. interrupts' \in 0 .. MaxInterrupts
      BY SMTT(30), <1>3, ConstantsAssumption DEF Interrupt, TypeOK
    <2> QED
      BY <1>3, <2>1 DEF Interrupt, BodyTyped, Labels
  <1>4. ASSUME NEW o \in Op, Request(o)
        PROVE  BodyTyped
    <2>1. cur' = o /\ UNCHANGED interrupts
      BY <1>4, RequestRuns DEF Opened
    <2>2. pc' \in {"attempt", "disJob", "eWorker", "rReq", "dStop"}
      BY <1>4 DEF Request, BeginDeploy, BeginDisable, BeginEnable, BeginRestart, BeginDelete,
         Begin
    <2> QED
      BY <2>1, <2>2, ConstantsAssumption DEF BodyTyped, TypeOK, Labels
  <1>5. ASSUME NEW o \in Op, Resume(o)
        PROVE  BodyTyped
    <2>1. CASE ReplayDeploy(o)
      BY <2>1, ConstantsAssumption DEF ReplayDeploy, RecoveryLabel, BodyTyped, TypeOK, Labels
    <2>2. CASE ReplayRestart(o) /\ op[o].phase = "restart_requested"
      BY <2>2 DEF ReplayRestart, BodyTyped, TypeOK
    <2>3. CASE \/ ReplayDisable(o) \/ ReplayEnable(o) \/ ReplayDelete(o) \/ FinishAgain(o)
               \/ (ReplayRestart(o) /\ op[o].phase # "restart_requested")
      BY SMTT(30), <2>3, ReplayResumes, ConstantsAssumption
      DEF Resumed, BodyTyped, TypeOK, Labels
    <2> QED
      BY <1>5, <2>1, <2>2, <2>3 DEF Resume
  <1>6. CASE UNCHANGED vars
    BY <1>6 DEF vars, BodyTyped, TypeOK
  <1> QED
    BY <1>1, <1>2, <1>3, <1>4, <1>5, <1>6 DEF Next

RestTyped ==
    /\ attempt' \in [Op -> Attempts]
    /\ app' \in AppRows
    /\ res' \in [Resource -> {"active", "removing", "gone"}]
    /\ accepted' \in Seq(Op)
    /\ cloud' \in Clouds
    /\ restarts' \in [Op -> Nat]

\* A step that writes no other table keeps it in its type.
LEMMA RestSame ==
  ASSUME TypeOK, UNCHANGED <<attempt, app, res, accepted, cloud, restarts>>
  PROVE  RestTyped
  BY DEF RestTyped, TypeOK, AppRows, Clouds

\* A call keeps the observations in their type.
LEMMA CloudTyped ==
  ASSUME TypeOK, cloud' \in Clouds, UNCHANGED <<attempt, app, res, accepted, restarts>>
  PROVE  RestTyped
  BY DEF RestTyped, TypeOK, AppRows

\* A write of the application's row keeps it in its type.
LEMMA AppTyped ==
  ASSUME TypeOK, app' \in AppRows, UNCHANGED <<attempt, res, accepted, cloud, restarts>>
  PROVE  RestTyped
  BY DEF RestTyped, TypeOK, Clouds

\* The steps of a deploy keep the other tables and the observations in type.
LEMMA DeployRestTyped ==
  ASSUME TypeOK, ExclusionInv, ActiveInv, CandidateInv,
         RowSteps \/ CallSteps \/ ReadSteps \/ AttemptSteps \/ CutOff \/ AcceptDeployment
  PROVE  RestTyped
  <1>1. CASE RowSteps \/ ReadSteps
    BY <1>1, RestSame DEF RowSteps, PrepareBuild, PlatformBusy, BuildRejected, ImagePushed,
       CutoverIntent, Quiesced, CutMark, PrepareEnvironment, PrepareReusedWorker,
       PrepareWorker, WorkerReady, CandidateRemoved, DeploymentHealthy, Journal,
       checkpoint_operation, ReadSteps, CleanRejected, CutoverSkipped, ObserveHealthy,
       ObservePublic, CandidateUnhealthy, Quiet
  <1>2. CASE CallSteps
    <2>1. UNCHANGED <<attempt, app, res, accepted, restarts>>
      BY <1>2 DEF CallSteps, BuildSucceeds, Quiesce, CutJob, CutWorker, CreateWorker, SubmitJob,
         PromoteCandidate, DropStop, DropJob, DropWorker, DropImage, Helper
    <2>2. cloud' \in Clouds
      BY <1>2, CutCallsPlace, CandidateCallsPlace DEF CallSteps, CutCalls, CandidateCalls
    <2> QED
      BY <2>1, <2>2, CloudTyped
  <1>3. CASE AttemptSteps
    <2>1. UNCHANGED <<app, res, accepted, cloud, restarts>>
      BY <1>3 DEF AttemptSteps, CreateAttempt, RejectAttempt, FailAttempt,
         checkpoint_deployment_attempt
    <2> QED
      BY <1>3, <2>1, AttemptStepsKeepPlaces DEF PlacesKept, RestTyped, TypeOK, AppRows, Clouds
  <1>4. CASE CutOff
    <2>1. UNCHANGED <<attempt, res, accepted, cloud, restarts>>
      BY <1>4 DEF CutOff, set_application_runtime
    <2> QED
      BY <1>4, <2>1, ActiveStopped, AppTyped DEF AppRows
  <1>5. CASE AcceptDeployment
    <2>1. accepted' = <<cur>> \o accepted /\ UNCHANGED <<res, cloud, restarts>>
      BY <1>5 DEF AcceptDeployment
    <2>2. attempt' \in [Op -> Attempts] /\ app' \in AppRows /\ cur \in Op
      BY <1>5, AcceptedPlace DEF AppRows
    <2>3. accepted' \in Seq(Op)
      BY SMTT(30), <2>1, <2>2 DEF TypeOK
    <2> QED
      BY <2>1, <2>2, <2>3 DEF RestTyped, TypeOK, Clouds
  <1> QED
    BY <1>1, <1>2, <1>3, <1>4, <1>5

\* The steps of the other bodies keep the other tables and observations in type.
LEMMA OtherRestTyped ==
  ASSUME TypeOK, ExclusionInv, ActiveInv, CandidateInv,
         \/ FinishSteps \/ DisableSteps \/ EnableSteps \/ RestartSteps \/ DeleteSteps
         \/ EnableAccept
  PROVE  RestTyped
  <1>1. CASE FinishSteps
    <2>1. CASE HandoverDone \/ PredecessorJobAbsent \/ Accepted
      BY <2>1, RestSame DEF HandoverDone, PredecessorJobAbsent, Accepted,
         checkpoint_operation, Journal
    <2>2. CASE RemovePredecessorJob \/ RemovePredecessorWorker \/ RetainImages
      BY <2>2, FinishCallsPlace, CloudTyped DEF RemovePredecessorJob,
         RemovePredecessorWorker, RetainImages, Helper
    <2> QED
      BY <1>1, <2>1, <2>2 DEF FinishSteps
  <1>2. CASE DisableSteps
    <2>1. CASE DisableOff
      BY <2>1, ActiveStopped, AppTyped DEF DisableOff, set_application_runtime, AppRows
    <2>2. CASE DisableJob \/ DisableWorker
      BY <2>2, DisableCallsPlace, CloudTyped DEF DisableJob, DisableWorker, Helper
    <2> QED
      BY <1>2, <2>1, <2>2 DEF DisableSteps
  <1>3. CASE EnableSteps
    <2>1. CASE EnableReady \/ EnableHealthy \/ EnableUnhealthy
      BY <2>1, RestSame DEF EnableReady, EnableHealthy, EnableUnhealthy,
         checkpoint_operation, Journal, Quiet
    <2>2. CASE EnableWorker \/ EnableJob \/ EnableDropJob
      BY <2>2, EnableCallsPlace, CloudTyped DEF EnableWorker, EnableJob, EnableDropJob, Helper
    <2> QED
      BY <1>3, <2>1, <2>2 DEF EnableSteps
  <1>4. CASE RestartSteps
    <2>1. CASE RestartRequested
      BY <2>1, RestSame DEF RestartRequested, checkpoint_operation, Journal
    <2>2. CASE RestartTask
      <3>1. restarts' = [restarts EXCEPT ![cur] = @ + 1]
            /\ UNCHANGED <<attempt, app, res, accepted, cloud>>
        BY <2>2 DEF RestartTask
      <3>2. cur \in Op /\ restarts \in [Op -> Nat] /\ restarts[cur] + 1 \in Nat
        BY SMTT(30), <2>2 DEF RestartTask, Step, TypeOK
      <3>3. restarts' \in [Op -> Nat]
        BY <3>1, <3>2
      <3> QED
        BY <3>1, <3>3 DEF RestTyped, TypeOK, AppRows, Clouds
    <2> QED
      BY <1>4, <2>1, <2>2 DEF RestartSteps
  <1>5. CASE DeleteSteps
    <2>1. CASE DeleteOff
      BY <2>1, ActiveStopped, AppTyped DEF DeleteOff, set_application_runtime, AppRows
    <2>2. CASE DeleteCalls
      BY <2>2, DeleteCallsPlace, CloudTyped DEF DeleteCalls, DeleteStop, DeletePurge,
         DeleteRuntime, DeleteWorkers, DeleteImage, Helper
    <2>3. CASE DeleteResource \/ DeleteForget
      <3>1. PICK s \in {"removing", "gone"} : SetResource(s)
        BY <2>3 DEF DeleteResource, DeleteForget
      <3>2. res' \in [Resource -> {"active", "removing", "gone"}]
        BY <3>1 DEF SetResource, TypeOK
      <3> QED
        BY <3>1, <3>2 DEF SetResource, RestTyped, TypeOK, AppRows, Clouds
    <2> QED
      BY <1>5, <2>1, <2>2, <2>3 DEF DeleteSteps, DeleteCalls
  <1>6. CASE EnableAccept
    BY <1>6, EnableAccepted, AppTyped DEF EnableAccept, AppRows
  <1> QED
    BY <1>1, <1>2, <1>3, <1>4, <1>5, <1>6

\* Every step keeps the other tables and the observations in their type.
LEMMA RestTypedStep ==
  ASSUME TypeOK, ExclusionInv, ActiveInv, CandidateInv, [Next]_vars
  PROVE  RestTyped
  <1>1. CASE EndSteps
    <2>1. CASE complete_application_deletion
      <3>1. app' \in AppRows
        BY <2>1 DEF complete_application_deletion, TypeOK, AppRows
      <3> QED
        BY <2>1, <3>1, AppTyped DEF complete_application_deletion
    <2>2. CASE \/ CreateAttemptRefused \/ RejectOp \/ FailOp \/ Succeed \/ DisableDone
               \/ RestartDone \/ RestartFails
      BY <2>2, RestSame DEF CreateAttemptRefused, RejectOp, FailOp, Succeed, DisableDone,
         RestartDone, RestartFails, mark, Journal
    <2> QED
      BY <1>1, <2>1, <2>2 DEF EndSteps
  <1>2. CASE Raise \/ Interrupt \/ UNCHANGED vars
    BY <1>2, RestSame DEF Raise, Interrupt, Quiet, vars
  <1>3. ASSUME NEW o \in Op, Request(o)
        PROVE  RestTyped
    BY <1>3, RequestRuns, RestSame DEF Opened
  <1>4. ASSUME NEW o \in Op, Resume(o)
        PROVE  RestTyped
    <2>1. CASE ReplayDeploy(o)
      <3>1. UNCHANGED <<app, res, accepted, cloud, restarts>>
        BY <2>1 DEF ReplayDeploy
      <3> QED
        BY <2>1, <3>1, ReplayDeployKeepsPlaces DEF PlacesKept, RestTyped, TypeOK, AppRows,
           Clouds
    <2>2. CASE ReplayRestart(o) /\ op[o].phase = "restart_requested"
      BY <2>2, RestSame DEF ReplayRestart
    <2>3. CASE \/ ReplayDisable(o) \/ ReplayEnable(o) \/ ReplayDelete(o) \/ FinishAgain(o)
               \/ (ReplayRestart(o) /\ op[o].phase # "restart_requested")
      BY <2>3, ReplayResumes, RestSame DEF Resumed
    <2> QED
      BY <1>4, <2>1, <2>2, <2>3 DEF Resume
  <1> QED
    BY <1>1, <1>2, <1>3, <1>4, DeployRestTyped, OtherRestTyped, StepCases DEF Next

\* Every step keeps the types.
LEMMA TypeStep ==
  ASSUME TypeOK, TargetInv, ExclusionInv, ActiveInv, CandidateInv, [Next]_vars
  PROVE  TypeOK'
  BY RowsStep, BodyTypedStep, RestTypedStep DEF RowsTyped, BodyTyped, RestTyped, TypeOK,
     AppRows, Clouds

(* Serving.                                                                *)

\* Nothing in progress may take the accepted deployment down.
Undisturbed ==
    /\ app.desired
    /\ \A o \in Op : Open(o) => /\ op[o].cut = NoOp \/ op[o].finishing
                                /\ KindOf[o] \notin {"disable", "delete"}

Serves ==
    /\ cloud.jobs[Active.job].op = app.active /\ cloud.jobs[Active.job].up
    /\ cloud.jobs[Active.job].route = "public"
    /\ cloud.jobs[Active.job].slot = app.worker /\ app.worker \in cloud.workers

\* PredecessorKeepsServing, before and after a step, by its two halves.
LEMMA ServingParts ==
  /\ PredecessorKeepsServing <=> (Undisturbed => Serves)
  /\ PredecessorKeepsServing' <=> (Undisturbed' => Serves')
  BY DEF PredecessorKeepsServing, Undisturbed, Serves

\* A step that spares the accepted deployment and ends no disturbance keeps it
\* serving.
LEMMA ServingKept ==
  ASSUME ActiveInv, PredecessorKeepsServing, ActiveSame, Spared,
         app.desired /\ app'.desired => app'.worker = app.worker,
         Undisturbed' => Undisturbed
  PROVE  PredecessorKeepsServing'
  <1>1. SUFFICES ASSUME Undisturbed'
                 PROVE  Serves'
    BY ServingParts
  <1>2. Undisturbed /\ app.desired /\ app'.desired
    BY <1>1 DEF Undisturbed
  <1>3. HasActive /\ app.worker = Active.slot /\ app'.worker = app.worker
    BY <1>2 DEF ActiveInv
  <1>4. Serves
    BY <1>2, ServingParts
  <1> QED
    BY <1>3, <1>4 DEF Serves, Spared, ActiveSame

\* No row is opened or closed, and a cut that was recorded stays recorded.
LEMMA Disturbance ==
  ASSUME LanesSame, app'.desired => app.desired,
         \A o \in Op : op'[o].cut = NoOp => op[o].cut = NoOp
  PROVE  Undisturbed' => Undisturbed
  BY DEF LanesSame, Undisturbed, Open

\* A transaction that takes back no recorded cut keeps it serving.
LEMMA ServingWritten ==
  ASSUME TypeOK, ActiveInv, PredecessorKeepsServing, cur \in Op,
         NEW a, NEW b, NEW c, NEW d, NEW e, NEW f, Wrote(a, b, c, d, e, f),
         c = NoOp => op[cur].cut = NoOp
  PROVE  PredecessorKeepsServing'
  <1>1. /\ LanesSame /\ UNCHANGED <<app, attempt, cloud>>
        /\ \A o \in Op : op'[o].cut = NoOp => op[o].cut = NoOp
    BY DEF Wrote, Holding
  <1>2. ActiveSame /\ Spared
    BY <1>1, PlacesSame, ActivePlace DEF Spared
  <1> QED
    BY <1>1, <1>2, Disturbance, ServingKept

\* The transactions of a deploy keep the accepted deployment serving.
LEMMA ServingRowSteps ==
  ASSUME TypeOK, TargetInv, ExclusionInv, ActiveInv, PredecessorKeepsServing, RowSteps
  PROVE  PredecessorKeepsServing'
  <1>1. cur \in Op /\ Open(cur)
    BY RowStepsInBody DEF ExclusionInv, ForwardLabels
  <1>2. KindOf[cur] = "rollback" => op[cur].target \in Op
    BY <1>1 DEF TargetInv
  <1>3. CASE PrepareBuild
    BY <1>1, <1>2, <1>3, PrepareBuildWrites, ServingWritten
       DEF BuildRetained, BuildKept, BuildBegins
  <1>4. CASE PrepareReusedWorker
    BY <1>1, <1>4, PrepareReusedWorkerWrites, ReusedSlot, ServingWritten
  <1>5. CASE CutoverIntent
    <2>1. app.active # NoOp
      BY <1>5 DEF CutoverIntent, Step, Holds, HasActive
    <2> QED
      BY <1>1, <1>5, <2>1, CutoverIntentWrites, ServingWritten
  <1>6. CASE PlatformBusy \/ BuildRejected \/ ImagePushed \/ Quiesced \/ CutMark
    BY <1>1, <1>6, PlatformBusyWrites, BuildRejectedWrites, ImagePushedWrites,
       QuiescedWrites, CutMarkWrites, ServingWritten
  <1>7. CASE \/ PrepareEnvironment \/ PrepareWorker \/ WorkerReady
             \/ CandidateRemoved \/ DeploymentHealthy
    BY <1>1, <1>7, PrepareEnvironmentWrites, PrepareWorkerWrites, WorkerReadyWrites,
       CandidateRemovedWrites, DeploymentHealthyWrites, ServingWritten
  <1> QED
    BY <1>3, <1>4, <1>5, <1>6, <1>7 DEF RowSteps

\* A cutover in progress has been recorded.
LEMMA CutDisturbs ==
  ASSUME TypeOK, ExclusionInv, CutInv, pc \in CutLabels, UNCHANGED op
  PROVE  ~Undisturbed'
  <1>1. pc \in DeployLabels /\ pc # "failAttempt" /\ cur \in Op
    BY DEF CutLabels, DeployLabels, TypeOK
  <1>2. Open(cur) /\ ~op[cur].finishing /\ op[cur].cut # NoOp
    BY <1>1 DEF ExclusionInv, CutInv
  <1> QED
    BY <1>1, <1>2 DEF Undisturbed, Open

\* The calls and reads of a deploy keep the accepted deployment serving.
LEMMA ServingDeploySteps ==
  ASSUME TypeOK, ExclusionInv, ActiveInv, CutInv, CandidateInv, PredecessorKeepsServing,
         CallSteps \/ ReadSteps \/ AttemptSteps \/ CutOff
  PROVE  PredecessorKeepsServing'
  <1>1. CASE CutCalls \/ CutOff
    <2>1. pc \in CutLabels /\ UNCHANGED op
      BY <1>1 DEF CutCalls, Quiesce, CutJob, CutWorker, CutOff, Step, CutLabels, Helper,
         set_application_runtime
    <2> QED
      BY <2>1, CutDisturbs, ServingParts
  <1>2. CASE CandidateCalls
    <2>1. UNCHANGED <<op, app, attempt>>
      BY <1>2 DEF CandidateCalls, BuildSucceeds, CreateWorker, SubmitJob,
         PromoteCandidate, DropStop, DropJob, DropWorker, DropImage, Helper
    <2>2. ActiveSame /\ Spared
      BY <1>2, <2>1, CandidateCallsPlace, PlacesSame, ActivePlace
    <2>3. LanesSame
      BY <2>1 DEF LanesSame
    <2> QED
      BY <2>1, <2>2, <2>3, Disturbance, ServingKept
  <1>3. CASE ReadSteps \/ AttemptSteps
    <2>1. UNCHANGED <<op, app, cloud>>
      BY <1>3 DEF ReadSteps, CleanRejected, CutoverSkipped, ObserveHealthy, ObservePublic,
         CandidateUnhealthy, Quiet, AttemptSteps, CreateAttempt, RejectAttempt, FailAttempt,
         checkpoint_deployment_attempt
    <2>2. PlacesKept
      BY <1>3, AttemptStepsKeepPlaces, PlacesSame DEF ReadSteps, CleanRejected, CutoverSkipped,
         ObserveHealthy, ObservePublic, CandidateUnhealthy, Quiet
    <2>3. ActiveSame /\ Spared /\ LanesSame
      BY <2>1, <2>2, ActivePlace DEF Spared, LanesSame
    <2> QED
      BY <2>1, <2>3, Disturbance, ServingKept
  <1> QED
    BY <1>1, <1>2, <1>3 DEF CallSteps, CutCalls, CandidateCalls

\* The cleanup after an acceptance keeps the accepted deployment serving.
LEMMA ServingFinishSteps ==
  ASSUME TypeOK, ExclusionInv, ActiveInv, CandidateInv, PredecessorKeepsServing, FinishSteps
  PROVE  PredecessorKeepsServing'
  <1>1. CASE HandoverDone \/ PredecessorJobAbsent \/ Accepted
    <2>1. cur \in Op
      BY <1>1, FinishStepsContinue DEF FinishSteps
    <2> QED
      BY <1>1, <2>1, HandoverDoneWrites, PredecessorJobAbsentWrites, AcceptedWrites,
         ServingWritten
  <1>2. CASE RemovePredecessorJob \/ RemovePredecessorWorker \/ RetainImages
    <2>1. UNCHANGED <<op, app, attempt>>
      BY <1>2 DEF RemovePredecessorJob, RemovePredecessorWorker, RetainImages, Helper
    <2>2. ActiveSame /\ Spared /\ LanesSame
      BY <1>2, <2>1, FinishCallsPlace, PlacesSame, ActivePlace DEF LanesSame
    <2> QED
      BY <2>1, <2>2, Disturbance, ServingKept
  <1> QED
    BY <1>1, <1>2 DEF FinishSteps

\* While a disable, an enable or a delete is unfinished nothing is promised.
LEMMA OthersDisturb ==
  ASSUME TypeOK, ExclusionInv, ActiveInv, LanesSame, app'.desired => app.desired,
         pc \in DisableLabels \cup EnableLabels \cup DeleteLabels
  PROVE  ~Undisturbed'
  <1>1. cur \in Unfinished /\ KindOf[cur] \in {"disable", "enable", "delete"}
    BY DEF ExclusionInv
  <1>2. cur \in Op /\ op'[cur].status = "open"
    BY <1>1 DEF LanesSame, Unfinished, Open
  <1>3. KindOf[cur] = "enable" => ~app.desired
    BY <1>1 DEF ActiveInv
  <1> QED
    BY <1>1, <1>2, <1>3 DEF Undisturbed, Open

\* Disables, enables, restarts and deletes disturb only what they say they do.
LEMMA ServingOtherSteps ==
  ASSUME TypeOK, ExclusionInv, ActiveInv, PredecessorKeepsServing,
         \/ DisableSteps \/ EnableSteps \/ RestartSteps \/ DeleteSteps \/ Raise \/ Interrupt
  PROVE  PredecessorKeepsServing'
  <1>1. CASE DisableSteps \/ EnableSteps \/ DeleteSteps
    <2>1. LanesSame
      BY <1>1, OtherStepsContinue
    <2>2. app'.desired => app.desired
      <3>1. CASE DisableSteps \/ DeleteSteps
        BY <3>1 DEF DisableSteps, DisableJob, DisableWorker, DisableOff, DeleteSteps,
           DeleteStop, DeleteResource, DeletePurge, DeleteForget, DeleteRuntime, DeleteWorkers,
           DeleteOff, DeleteImage, Helper, SetResource, set_application_runtime, TypeOK
      <3>2. CASE EnableSteps
        BY <3>2 DEF EnableSteps, EnableWorker, EnableReady, EnableJob, EnableHealthy,
           EnableUnhealthy, EnableDropJob, Helper, Journal, checkpoint_operation, Quiet
      <3> QED
        BY <1>1, <3>1, <3>2
    <2>3. pc \in DisableLabels \cup EnableLabels \cup DeleteLabels
      BY <1>1 DEF DisableSteps, DisableJob, DisableWorker, DisableOff, EnableSteps,
         EnableWorker, EnableReady, EnableJob, EnableHealthy, EnableUnhealthy, EnableDropJob,
         DeleteSteps, DeleteStop, DeleteResource, DeletePurge, DeleteForget, DeleteRuntime,
         DeleteWorkers, DeleteOff, DeleteImage, Step, DisableLabels, EnableLabels, DeleteLabels
    <2> QED
      BY <2>1, <2>2, <2>3, OthersDisturb, ServingParts
  <1>2. CASE RestartRequested
    <2>1. cur \in Op
      BY <1>2 DEF RestartRequested, Step, TypeOK
    <2> QED
      BY <1>2, <2>1, RestartRequestedWrites, ServingWritten
  <1>3. CASE RestartTask \/ Raise \/ Interrupt
    <2>1. UNCHANGED <<op, app, attempt, cloud>>
      BY <1>3 DEF RestartTask, Raise, Interrupt, Quiet
    <2>2. ActiveSame /\ Spared /\ LanesSame
      BY <2>1, PlacesSame, ActivePlace DEF LanesSame, Spared
    <2> QED
      BY <2>1, <2>2, Disturbance, ServingKept
  <1> QED
    BY <1>1, <1>2, <1>3 DEF RestartSteps

\* An operation that ends was no disturbance, or has left the application stopped.
LEMMA ServingClosed ==
  ASSUME TypeOK, ActiveInv, PredecessorKeepsServing, NEW o \in Op, Closed(o),
         UNCHANGED <<attempt, cloud>>, app'.active = app.active, app'.desired = app.desired,
         app'.worker = app.worker,
         app.desired => /\ op[o].cut = NoOp \/ op[o].finishing
                        /\ KindOf[o] \notin {"disable", "delete"}
  PROVE  PredecessorKeepsServing'
  <1>1. ActiveSame /\ Spared
    BY PlacesSame, ActivePlace DEF Spared
  <1>2. Undisturbed' => Undisturbed
    BY DEF Undisturbed, Closed, Open
  <1> QED
    BY <1>1, <1>2, ServingKept

\* A failed deploy leaves the accepted deployment serving, or stopped as recorded.
LEMMA ServingEnded ==
  ASSUME TypeOK, ExclusionInv, ActiveInv, CutInv, PredecessorKeepsServing, EndSteps
  PROVE  PredecessorKeepsServing'
  <1>1. cur \in Op /\ Closed(cur)
    BY EndStepCloses
  <1>2. /\ UNCHANGED <<attempt, cloud>> /\ app'.active = app.active
        /\ app'.desired = app.desired /\ app'.worker = app.worker
    BY DEF EndSteps, CreateAttemptRefused, RejectOp, FailOp, Succeed, DisableDone,
       RestartDone, RestartFails, complete_application_deletion, mark, Journal, TypeOK
  <1>3. app.desired => /\ op[cur].cut = NoOp \/ op[cur].finishing
                       /\ KindOf[cur] \notin {"disable", "delete"}
    <2>1. CASE CreateAttemptRefused \/ RejectOp \/ FailOp
      <3>1. pc \in {"attempt", "rejectOp", "failOp"}
        BY <2>1 DEF CreateAttemptRefused, RejectOp, FailOp, Step
      <3>2. pc \in DeployLabels /\ pc # "failAttempt"
        BY <3>1 DEF DeployLabels, BuildLabels, PastCutover
      <3>3. cur \in Unfinished /\ IsDeploy(cur)
        BY <1>1, <3>2 DEF ExclusionInv, Unfinished
      <3>4. app.desired => op[cur].cut = NoOp
        BY <3>1, <3>3, CutRows DEF CutRow, CutBody, BuildLabels, PastCutover
      <3> QED
        BY <3>3, <3>4 DEF IsDeploy, DeployKinds
    <2>2. CASE Succeed
      <3>1. cur \in Finishing
        BY <2>2 DEF Succeed, Step, ExclusionInv, FinishLabels
      <3> QED
        BY <1>1, <3>1 DEF ExclusionInv, Finishing, IsDeploy, DeployKinds
    <2>3. CASE DisableDone \/ complete_application_deletion
      BY <2>3 DEF DisableDone, complete_application_deletion, Step, ActiveInv
    <2>4. CASE RestartDone \/ RestartFails
      <3>1. cur \in Unfinished /\ KindOf[cur] = "restart"
        BY <2>4 DEF RestartDone, RestartFails, Step, ExclusionInv, RestartLabels
      <3> QED
        BY <3>1, CutRows DEF CutRow, Maintenance
    <2> QED
      BY <2>1, <2>2, <2>3, <2>4 DEF EndSteps
  <1> QED
    BY <1>1, <1>2, <1>3, ServingClosed

\* Exact health: the public route answers for the deployment only.
LEMMA HealthyRouted ==
  ASSUME NEW o, Healthy(o)
  PROVE  \E j \in JobId : /\ cloud.jobs[j].op = o /\ cloud.jobs[j].up
                          /\ cloud.jobs[j].route = "public"
                          /\ cloud.jobs[j].slot \in cloud.workers
  BY DEF Healthy, Serving, Routed

\* The candidate that is accepted serves from the acceptance on.
LEMMA ServingAccepted ==
  ASSUME TypeOK, ExclusionInv, ActiveInv, CandidateInv, AcceptDeployment
  PROVE  PredecessorKeepsServing'
  <1>1. /\ cur \in Unfinished /\ IsDeploy(cur) /\ Healthy(cur) /\ UNCHANGED cloud
    <2>1. pc = "accept" /\ UNCHANGED cloud /\ Healthy(cur)
      BY DEF AcceptDeployment, Step, Holds
    <2> QED
      BY <2>1, AcceptStepFinishes DEF Unfinished, ExclusionInv, DeployLabels, PastCutover,
         CandidateLabels
  <1>2. PICK j \in JobId : /\ cloud.jobs[j].op = cur /\ cloud.jobs[j].up
                           /\ cloud.jobs[j].route = "public"
                           /\ cloud.jobs[j].slot \in cloud.workers
    BY <1>1, HealthyRouted
  <1>3. j = TargetJob /\ cloud.jobs[j].slot = SlotOf(cur)
    BY <1>1, <1>2, CandidateParts DEF JobPlaced
  <1>4. /\ app'.active = cur /\ Active'.job = TargetJob
        /\ app'.worker = SlotOf(cur)
    BY AcceptedPlace DEF Active
  <1>5. Serves'
    BY <1>1, <1>2, <1>3, <1>4 DEF Serves
  <1> QED
    BY <1>5, ServingParts

\* The deployment that an enable accepts serves from the acceptance on.
LEMMA ServingEnabled ==
  ASSUME TypeOK, ExclusionInv, ActiveInv, CandidateInv, EnableAccept
  PROVE  PredecessorKeepsServing'
  <1>1. Healthy(app.active) /\ HasActive
    BY CandidateParts, EnableAccepted DEF EnableAccept, Step, BodyPlaced
  <1>2. PICK j \in JobId : /\ cloud.jobs[j].op = app.active /\ cloud.jobs[j].up
                           /\ cloud.jobs[j].route = "public"
                           /\ cloud.jobs[j].slot \in cloud.workers
    BY <1>1, HealthyRouted
  <1>3. j = Active.job /\ cloud.jobs[j].slot = Active.slot
    BY <1>1, <1>2, CandidateParts DEF JobPlaced
  <1>4. Serves'
    BY <1>1, <1>2, <1>3, EnableAccepted DEF Serves, ActiveSame
  <1> QED
    BY <1>4, ServingParts

\* A request or its replay keeps the accepted deployment serving.
LEMMA ServingRequested ==
  ASSUME TypeOK, ActiveInv, CutInv, PredecessorKeepsServing, NEW o \in Op,
         Request(o) \/ Resume(o)
  PROVE  PredecessorKeepsServing'
  <1>1. CASE Request(o)
    <2>1. PICK label : Opened(o, label)
      BY <1>1, RequestRuns
    <2>2. UNCHANGED <<app, attempt, cloud>> /\ (Undisturbed' => Undisturbed)
      BY <2>1 DEF Opened, Undisturbed, Open
    <2>3. ActiveSame /\ Spared
      BY <2>2, PlacesSame, ActivePlace DEF Spared
    <2> QED
      BY <2>2, <2>3, ServingKept
  <1>2. CASE ReplayDeploy(o)
    <2>1. LanesSame /\ \A p \in Op : op'[p].cut = op[p].cut
      BY <1>2, ReplayDeployWrites DEF Holding, LanesSame
    <2>2. UNCHANGED <<app, cloud>> /\ ActiveSame /\ Spared
      BY <1>2, ReplayDeployKeepsPlaces, ActivePlace DEF Spared
    <2> QED
      BY <2>1, <2>2, Disturbance, ServingKept
  <1>3. CASE ReplayRestart(o) /\ op[o].phase = "restart_requested"
    <2>1. /\ op' = [op EXCEPT ![o] = [op[o] EXCEPT !.status = "failed"]]
          /\ UNCHANGED <<app, attempt, cloud>>
      BY <1>3 DEF ReplayRestart
    <2>2. o \in Unfinished /\ KindOf[o] = "restart"
      BY <1>3 DEF ReplayRestart
    <2>3. op[o].cut = NoOp
      BY <2>2, CutRows DEF CutRow, Maintenance
    <2> QED
      BY <2>1, <2>2, <2>3, StatusSet, ServingClosed
  <1>4. CASE \/ ReplayDisable(o) \/ ReplayEnable(o) \/ ReplayDelete(o) \/ FinishAgain(o)
             \/ (ReplayRestart(o) /\ op[o].phase # "restart_requested")
    <2>1. UNCHANGED <<op, app, attempt, cloud>>
      BY <1>4, ReplayResumes DEF Resumed
    <2>2. ActiveSame /\ Spared /\ LanesSame
      BY <2>1, PlacesSame, ActivePlace DEF Spared, LanesSame
    <2> QED
      BY <2>1, <2>2, Disturbance, ServingKept
  <1> QED
    BY <1>1, <1>2, <1>3, <1>4 DEF Resume

\* Every step keeps the accepted deployment serving.
LEMMA ServingStep ==
  ASSUME TypeOK, TargetInv, ServingInv, [Next]_vars
  PROVE  PredecessorKeepsServing'
  <1> USE DEF ServingInv
  <1>1. CASE UNCHANGED vars
    <2>1. ActiveSame /\ Spared /\ LanesSame
      BY <1>1, PlacesSame, ActivePlace DEF Spared, LanesSame, vars
    <2> QED
      BY <1>1, <2>1, Disturbance, ServingKept DEF vars
  <1>2. CASE BodyStep
    BY <1>2, ServingRowSteps, ServingDeploySteps, ServingFinishSteps, ServingOtherSteps,
       ServingEnded, ServingAccepted, ServingEnabled, StepCases
  <1>3. CASE Raise \/ Interrupt
    BY <1>3, ServingOtherSteps
  <1> QED
    BY <1>1, <1>2, <1>3, ServingRequested DEF Next

\* An application that was never deployed satisfies the invariant.
LEMMA ServingInit == Init => TypeOK /\ TargetInv /\ ServingInv
  <1> SUFFICES ASSUME Init
               PROVE  TypeOK /\ TargetInv /\ ServingInv
    OBVIOUS
  <1>1. TypeOK
    <2>1. NoRow \in Rows
      BY DEF NoRow, Rows, Phases
    <2>2. NoAttempt \in Attempts
      BY DEF NoAttempt, Attempts
    <2>3. NoJob \in Jobs
      BY DEF NoJob, Jobs, Slot
    <2>4. [j \in JobId |-> NoJob] \in [JobId -> Jobs]
      BY <2>3
    <2>5. interrupts \in 0 .. MaxInterrupts /\ restarts \in [Op -> Nat] /\ pc \in Labels
          /\ res \in [Resource -> {"active", "removing", "gone"}] /\ accepted \in Seq(Op)
      BY SMTT(30), ConstantsAssumption DEF Init, Labels
    <2>6. app \in AppRows /\ cloud \in Clouds
      BY <2>4 DEF Init, AppRows, Clouds
    <2>7. op \in [Op -> Rows] /\ attempt \in [Op -> Attempts]
      BY <2>1, <2>2 DEF Init
    <2> QED
      BY <2>5, <2>6, <2>7 DEF Init, TypeOK, AppRows, Clouds
  <1>2. Unfinished = {} /\ Finishing = {} /\ \A o \in Op : ~op[o].finishing
    BY DEF Init, Unfinished, Finishing, Open, NoRow
  <1>3. pc = "idle" /\ ~HasActive /\ ~app.desired /\ \A j \in JobId : cloud.jobs[j].op = NoOp
    BY DEF Init, HasActive, NoJob
  <1>4. TargetInv
    BY DEF Init, TargetInv, Open, NoRow
  <1>5. ExclusionInv
    BY <1>2, <1>3, LabelGroups DEF ExclusionInv
  <1>6. ActiveInv /\ CutInv
    BY <1>2, <1>3, LabelGroups DEF ActiveInv, CutInv, CutLabels, BuildLabels, PastCutover,
       CandidateLabels
  <1>7. CandidateInv
    BY <1>2, <1>3 DEF CandidateInv, CandidateLabels
  <1>8. PredecessorKeepsServing
    BY <1>3 DEF PredecessorKeepsServing
  <1> QED
    BY <1>1, <1>4, <1>5, <1>6, <1>7, <1>8 DEF ServingInv

-----------------------------------------------------------------------------
\* The rows, snapshots and observations keep their shape, and the accepted
\* deployment of a running application keeps its job, its public route and its
\* worker through every deploy, failed deploy, crash, replay and cleanup,
\* except in a recorded cutover, a disable or a delete
\* (_prepare_deployment_worker, _cleanup_deployment, stop_predecessor).
THEOREM PredecessorServes ==
  Spec => [](TypeOK /\ PredecessorKeepsServing)
  <1> DEFINE IInv == TypeOK /\ TargetInv /\ ServingInv
  <1>1. IInv /\ [Next]_vars => IInv'
    BY TypeStep, TargetStep, ExclusionStep, ActiveStep, CutStep, CandidateStep, ServingStep
       DEF ServingInv
  <1>2. IInv => TypeOK /\ PredecessorKeepsServing
    BY DEF ServingInv
  <1> QED
    BY <1>1, <1>2, ServingInit, PTL DEF Spec

=============================================================================
