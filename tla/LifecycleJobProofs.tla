------------------------- MODULE LifecycleJobProofs -------------------------
(***************************************************************************)
(* Whose a job is: the accepted deployment's, a candidate's or, until its  *)
(* cleanup, the predecessor's; and which of them the router would choose.  *)
(***************************************************************************)
EXTENDS LifecycleCutProofs, LifecycleCandidateProofs

\* Most steps are first-order: Zenon is the prover where no other is named.
USE ZenonT(60)

(* Whose a job is.                                                         *)

\* The job of a slot belongs to an operation that may have one.
Owned(j) ==
    LET job == cloud.jobs[j]
    IN  /\ job.op = NoOp => ~job.up
        /\ job.op # NoOp => \/ job.op = app.active
                            \/ Candidate(job.op)
                            \/ Superseded(job.op) /\ ~Cleaned /\ j = attempt[job.op].job

Superseding ==
    \A o \in Op : Superseded(o) =>
        app.desired /\ \A d \in Unfinished : KindOf[d] # "disable"

\* JobInv, by its parts.
LEMMA JobParts ==
  JobInv <=> /\ \A f \in Finishing : IsDeploy(f) => f = app.active
             /\ \A j \in JobId : Owned(j)
             /\ Superseding
  BY DEF JobInv, Owned, Superseding

\* JobInv after a step, by its parts.
LEMMA JobPartsNext ==
  ASSUME \A f \in Finishing' : IsDeploy(f) => f = app'.active,
         \A j \in JobId : Owned(j)', Superseding'
  PROVE  JobInv'
  BY DEF JobInv, Owned, Superseding, IsDeploy

\* An operation with a job stays a candidate, or the predecessor to clean up.
OwnersKept ==
    \A j \in JobId : \A o \in Op : cloud'.jobs[j].op = o =>
        /\ Candidate(o) => Candidate(o)'
        /\ Superseded(o) /\ ~Cleaned /\ j = attempt[o].job =>
               Superseded(o)' /\ ~Cleaned' /\ j = attempt'[o].job

\* A job that is kept is still somebody's while owners are kept.
LEMMA OwnedKept ==
  ASSUME TypeOK, PhaseInv, JobInv, JobsKept, OwnersKept, app'.active = app.active,
         cloud'.jobs \in [JobId -> Jobs], NEW j \in JobId
  PROVE  Owned(j)'
  <1>1. Owned(j)
    BY JobParts
  <1>2. cloud'.jobs[j].op \in Op \cup {NoOp}
    BY DEF Jobs
  <1>3. CASE cloud'.jobs[j].op = NoOp
    <2>1. cloud.jobs[j].op = NoOp => ~cloud.jobs[j].up
      BY <1>1 DEF Owned
    <2>2. ~cloud'.jobs[j].up
      BY <1>3, <2>1, ConstantsAssumption DEF JobsKept, Unfinished, HasActive
    <2> QED
      BY <1>3, <2>2 DEF Owned
  <1>4. CASE cloud'.jobs[j].op # NoOp /\ cloud'.jobs[j].op = cloud.jobs[j].op
    BY <1>1, <1>2, <1>4 DEF Owned, OwnersKept
  <1>5. CASE /\ cur \in Unfinished /\ IsDeploy(cur) /\ pc \in {"submit", "promote"}
             /\ cloud'.jobs[j].op = cur
    <2>1. Candidate(cur)
      BY <1>5 DEF Candidate, PhaseInv, CandidateLabels
    <2>2. cur \in Op
      BY <1>5 DEF Unfinished
    <2> QED
      BY <1>5, <2>1, <2>2, ConstantsAssumption DEF Owned, OwnersKept
  <1>6. CASE HasActive /\ cloud'.jobs[j].op = app.active
    BY <1>6 DEF Owned, HasActive
  <1> QED
    BY <1>3, <1>4, <1>5, <1>6 DEF JobsKept

\* A step that keeps jobs and owners and supersedes nothing keeps JobInv.
LEMMA JobKept ==
  ASSUME TypeOK, PhaseInv, JobInv, JobsKept, OwnersKept, app'.active = app.active,
         cloud'.jobs \in [JobId -> Jobs],
         \A f \in Finishing' : IsDeploy(f) => f \in Finishing,
         \A o \in Op : Superseded(o)' =>
             /\ Superseded(o) /\ app'.desired = app.desired
             /\ \A d \in Unfinished' : KindOf[d] = "disable" => d \in Unfinished
  PROVE  JobInv'
  <1>1. Superseding'
    BY JobParts DEF Superseding
  <1>2. \A f \in Finishing' : IsDeploy(f) => f = app'.active
    BY JobParts
  <1> QED
    BY <1>1, <1>2, OwnedKept, JobPartsNext

\* Beside a deploy, an enable or a delete nothing finishes; beside another
\* operation, or with nothing unfinished, there is no candidate.
LEMMA Alone ==
  ASSUME TypeOK, ExclusionInv
  PROVE  /\ \A d \in Unfinished : IsDeploy(d) \/ KindOf[d] \in {"enable", "delete"} =>
                \A o \in Op : ~Superseded(o)
         /\ \A d \in Unfinished : \A o \in Op : Candidate(o) => o = d /\ IsDeploy(d)
         /\ \A f \in Finishing : \A o \in Op : ~Candidate(o)
  BY DEF ExclusionInv, Superseded, Candidate

\* A step that writes the running deploy's row keeps it a candidate.
LEMMA RowCandidate ==
  ASSUME TypeOK, TargetInv, ExclusionInv, ActiveInv, CutInv, PhaseInv, RowSteps,
         Candidate(cur)
  PROVE  op'[cur].phase \in LatePhases /\ pc' \notin {"dropWorker", "dropped"}
  <1> DEFINE onward == {"cutover", "env", "worker", "create", "submit", "accept"} \cup CutLabels
  <1>1. cur \in Unfinished /\ IsDeploy(cur) /\ cur' = cur
    BY BodyOf, RowStepsInBody
  <1>2. op[cur].phase \in LatePhases /\ pc # "dropped" /\ op[cur].phase \notin EarlyPhases
    BY PhaseGroups DEF Candidate
  <1>3. pc \notin BuildLabels /\ (KindOf[cur] # "rollback" => op[cur].candidate # NoImage)
    BY <1>1, <1>2 DEF PhaseInv
  <1>4. PrepareBuild => pc' \in onward
    BY <1>3 DEF PrepareBuild, AfterBuild, AfterCutover, Step
  <1>5. ~(PlatformBusy \/ BuildRejected \/ ImagePushed \/ CandidateRemoved)
    BY <1>2, <1>3 DEF PlatformBusy, BuildRejected, ImagePushed, CandidateRemoved, Step,
       BuildLabels, EarlyPhases
  <1>6. CutoverIntent \/ Quiesced \/ CutMark => pc' \in onward
    BY DEF CutoverIntent, Quiesced, CutMark, Step, CutoverLabel, CutLabels
  <1>7. PrepareEnvironment \/ PrepareReusedWorker \/ PrepareWorker \/ WorkerReady
        \/ DeploymentHealthy => pc' \in onward
    BY DEF PrepareEnvironment, PrepareReusedWorker, PrepareWorker, WorkerReady,
       DeploymentHealthy, Step
  <1>8. pc' \in onward
    BY <1>4, <1>5, <1>6, <1>7 DEF RowSteps
  <1> QED
    BY <1>1, <1>8, PhaseRowSteps DEF PhaseInv, CutLabels, CandidateLabels

\* A transaction of a deploy writes no attempt, application row or observation.
LEMMA RowFrame ==
  ASSUME RowSteps
  PROVE  UNCHANGED <<attempt, app, cloud>>
  BY DEF RowSteps, PrepareBuild, PlatformBusy, BuildRejected, ImagePushed, CutoverIntent,
     Quiesced, CutMark, PrepareEnvironment, PrepareReusedWorker, PrepareWorker, WorkerReady,
     CandidateRemoved, DeploymentHealthy, Journal, checkpoint_operation

\* The accepted deployment changes only by an acceptance.
LEMMA PlacesStep ==
  ASSUME TypeOK, TargetInv, ExclusionInv, ActiveInv, [Next]_vars, ~AcceptDeployment
  PROVE  app'.active = app.active /\ PlacesKept
  <1>1. CASE RowSteps
    BY <1>1, RowFrame, PlacesSame
  <1>2. CASE QuietDeploySteps
    BY <1>2, QuietDeployStepsPlace
  <1>3. CASE OtherSteps
    BY <1>3, OtherStepsPlace
  <1>4. ASSUME NEW o \in Op, Request(o)
        PROVE  app'.active = app.active /\ PlacesKept
    BY <1>4, RequestOpens, PlacesSame
  <1>5. ASSUME NEW o \in Op, Resume(o)
        PROVE  app'.active = app.active /\ PlacesKept
    <2>1. CASE ReplayDeploy(o)
      BY <2>1, ReplayDeployKeepsPlaces
    <2>2. CASE ~ReplayDeploy(o)
      BY <1>5, <2>2, ResumeCases, PlacesSame DEF Resumed
    <2> QED
      BY <2>1, <2>2
  <1>6. CASE UNCHANGED vars
    BY <1>6, PlacesSame DEF vars
  <1> QED
    BY <1>1, <1>2, <1>3, <1>4, <1>5, <1>6, StepCases DEF Next, OtherSteps, QuietDeploySteps

\* The running operation is the accepted deployment only while it is finished.
LEMMA FinishingBody ==
  ASSUME TypeOK, ExclusionInv, OtherSteps, cur \in Finishing
  PROVE  FinishSteps \/ Succeed \/ (UNCHANGED <<op, app, cloud>> /\ pc' = "idle")
  <1>1. cur \notin Unfinished
    BY DEF Finishing, Unfinished
  <1>2. CASE EndSteps
    BY <1>1, <1>2 DEF EndSteps, CreateAttemptRefused, RejectOp, FailOp, DisableDone,
       RestartDone, RestartFails, complete_application_deletion, Step, ExclusionInv, Finishing,
       DeployLabels, BuildLabels, PastCutover, DisableLabels, RestartLabels, DeleteLabels
  <1>3. CASE Raise \/ Interrupt
    BY <1>3 DEF Raise, Interrupt, Quiet
  <1> QED
    BY <1>1, <1>2, <1>3, BodyOf DEF OtherSteps

\* The same deployments are superseded while the accepted one's row is the same.
LEMMA SupersededSame ==
  ASSUME TypeOK, app'.active = app.active,
         app.active \in Op => op'[app.active] = op[app.active], NEW o \in Op
  PROVE  Superseded(o)' <=> Superseded(o)
  BY DEF Superseded, Finishing, Open, IsDeploy, ReusesWorker

\* What finishing does to the row of the accepted deployment.
LEMMA FinishWrites ==
  ASSUME TypeOK, ExclusionInv, FinishSteps
  PROVE  /\ cur \in Op /\ cur' = cur
         /\ HandoverDone =>
                /\ op'[cur].phase = IF op[cur].phase = "deployment_healthy"
                                    THEN "predecessor_cleanup" ELSE op[cur].phase
                /\ op'[cur].pred = op[cur].pred /\ op'[cur].predGone = op[cur].predGone
         /\ PredecessorJobAbsent => op'[cur].predGone
         /\ Accepted => op'[cur].phase = "accepted"
         /\ HandoverDone \/ PredecessorJobAbsent \/ Accepted \/ UNCHANGED op
  <1>1. cur \in Op
    BY FinishStepsContinue
  <1>2. cur' = cur
    BY <1>1, LabelGroups, FinishStepsContinue DEF Continues
  <1>3. op[cur] \in Rows
    BY <1>1 DEF TypeOK
  <1>4. HandoverDone =>
            /\ op'[cur].phase = IF op[cur].phase = "deployment_healthy"
                                THEN "predecessor_cleanup" ELSE op[cur].phase
            /\ op'[cur].pred = op[cur].pred /\ op'[cur].predGone = op[cur].predGone
    BY <1>1, <1>3, JournalRow DEF HandoverDone, checkpoint_operation, Rows
  <1>5. /\ PredecessorJobAbsent => op'[cur].predGone
        /\ Accepted => op'[cur].phase = "accepted"
    BY <1>1, <1>3, JournalRow DEF PredecessorJobAbsent, Accepted, checkpoint_operation, Rows
  <1>6. HandoverDone \/ PredecessorJobAbsent \/ Accepted \/ UNCHANGED op
    BY DEF FinishSteps, RemovePredecessorJob, RemovePredecessorWorker, RetainImages, Helper
  <1> QED
    BY <1>1, <1>2, <1>4, <1>5, <1>6

\* Only an acceptance supersedes a deployment.
LEMMA SupersededBack ==
  ASSUME TypeOK, TargetInv, ExclusionInv, ActiveInv, [Next]_vars, ~AcceptDeployment,
         NEW o \in Op, Superseded(o)'
  PROVE  Superseded(o)
  <1>1. app'.active = app.active
    BY PlacesStep
  <1>2. app.active \in Finishing' /\ app.active \in Op
    BY <1>1 DEF Superseded, Finishing
  <1>3. CASE op'[app.active] = op[app.active]
    BY <1>1, <1>3, SupersededSame
  <1>4. CASE cur = app.active /\ RowSteps
    <2>1. cur \in Unfinished
      BY <1>4, BodyOf
    <2> QED
      BY <1>2, <1>4, <2>1, RowStepsLanes, LanesKept DEF Unfinished, Finishing
  <1>5. CASE cur = app.active /\ FinishSteps
    <2>1. /\ op'[cur].pred = o /\ ~op'[cur].predGone
          /\ op'[cur].phase \in {"deployment_healthy", "predecessor_cleanup"}
          /\ IsDeploy(cur) /\ ~ReusesWorker(cur)
      BY <1>1, <1>5 DEF Superseded, IsDeploy, ReusesWorker
    <2>2. cur \in Finishing
      BY <1>5, BodyOf
    <2>3. op[cur].pred = o /\ ~op[cur].predGone
          /\ op[cur].phase \in {"deployment_healthy", "predecessor_cleanup"}
      BY <1>5, <2>1, FinishWrites
    <2> QED
      BY <1>5, <2>1, <2>2, <2>3, ConstantsAssumption DEF Superseded
  <1>6. CASE EndSteps /\ cur = app.active
    <2>1. op'[cur].status # "open"
      BY <1>6, EndStepCloses DEF Closed
    <2> QED
      BY <1>2, <1>6, <2>1 DEF Finishing, Open
  <1>7. CASE EnableAccept /\ cur = app.active
    BY <1>1, <1>7, BodyOf DEF Superseded, IsDeploy, DeployKinds
  <1>8. CASE /\ cur = app.active
             /\ DisableSteps \/ EnableSteps \/ RestartSteps \/ DeleteSteps
    <2>1. cur \in Unfinished
      BY <1>8, BodyOf
    <2> QED
      BY <1>2, <1>8, <2>1, OtherStepsContinue, LanesKept DEF Unfinished, Finishing
  <1>9. CASE QuietDeploySteps \/ Raise \/ Interrupt \/ UNCHANGED vars
    BY <1>3, <1>9, QuietFrame DEF Raise, Interrupt, Quiet, vars
  <1>10. CASE BodyStep /\ cur # app.active
    BY <1>2, <1>3, <1>10, OwnRow
  <1>11. ASSUME NEW p \in Op, Request(p)
         PROVE  Superseded(o)
    <2>1. /\ op[p].status = "none" /\ \A q \in Op \ {p} : op'[q] = op[q]
      BY <1>11, RequestOpens
    <2>2. p # app.active
      BY <1>2, <2>1, ConstantsAssumption DEF ActiveInv, ExclusionInv, HasActive
    <2> QED
      BY <1>2, <1>3, <2>1, <2>2
  <1>12. ASSUME NEW p \in Op, Resume(p)
         PROVE  Superseded(o)
    <2>1. CASE ReplayDeploy(p)
      <3>1. \A q \in Op \ {p} : op'[q] = op[q]
        BY <2>1, ReplayDeployWrites
      <3>2. p \in Unfinished
        BY <2>1 DEF ReplayDeploy
      <3>3. p # app.active
        BY <1>2, <3>2, ConstantsAssumption DEF ActiveInv, HasActive, Unfinished
      <3> QED
        BY <1>2, <1>3, <3>1, <3>3
    <2>2. CASE \E label : Resumed(p, label)
      BY <1>3, <2>2 DEF Resumed
    <2>3. CASE p \in Unfinished /\ Closed(p)
      <3>1. p # app.active
        BY <1>2, <2>3, ConstantsAssumption DEF ActiveInv, HasActive, Unfinished
      <3> QED
        BY <1>2, <1>3, <2>3, <3>1 DEF Closed
    <2> QED
      BY <1>12, <2>1, <2>2, <2>3, ResumeCases
  <1> QED
    BY <1>4, <1>5, <1>6, <1>7, <1>8, <1>9, <1>10, <1>11, <1>12, StepCases
       DEF Next, QuietDeploySteps

\* A candidate was an unfinished deploy, whose route was already chosen.
LEMMA CandidateBack ==
  ASSUME TypeOK, TargetInv, ExclusionInv, ActiveInv, CutInv, PhaseInv, [Next]_vars,
         NEW o \in Op, Candidate(o)'
  PROVE  o \in Unfinished /\ op'[o].direct = op[o].direct
  <1>1. o \in Unfinished' /\ IsDeploy(o) /\ op'[o].phase \in LatePhases
    BY DEF Candidate, IsDeploy
  <1>2. CASE RowSteps
    <2>1. Unfinished' = Unfinished /\ cur \in Unfinished /\ cur \in Op
      BY <1>2, RowStepsLanes, LanesKept, BodyOf, RowStepsInBody
    <2>2. o = cur
      BY <1>1, <2>1 DEF ExclusionInv
    <2>3. CASE DirectChosen
      <3>1. op[cur].candidate = NoImage
        BY <2>1, <2>2, <1>1, <2>3, PhaseGroups DEF DirectChosen, PhaseInv
      <3>2. BuildRetained \/ BuildKept \/ BuildBegins
        BY <2>1, <2>3, PrepareBuildWrites DEF DirectChosen
      <3>3. op'[cur].phase = "builder_creating"
        BY <2>3, <3>1, <3>2 DEF DirectChosen, BuildRetained, BuildKept, BuildBegins, Wrote,
           Holding
      <3> QED
        BY <1>1, <2>2, <3>3, PhaseGroups
    <2> QED
      BY <1>2, <2>1, <2>2, <2>3, FlagsKept
  <1>3. CASE QuietDeploySteps \/ UNCHANGED vars
    BY <1>1, <1>3, QuietFrame DEF Unfinished, Open, vars
  <1>4. CASE OtherSteps
    BY <1>1, <1>4, OtherStepsKeepDeploys
  <1>5. CASE AcceptDeployment
    BY <1>1, <1>5, AcceptLanes
  <1>6. ASSUME NEW p \in Op, Request(p)
        PROVE  o \in Unfinished /\ op'[o].direct = op[o].direct
    <2>1. op'[o].phase = "validated"
      BY <1>1, <1>6, RequestOpens
    <2> QED
      BY <1>1, <2>1, PhaseGroups
  <1>7. ASSUME NEW p \in Op, Resume(p)
        PROVE  o \in Unfinished /\ op'[o].direct = op[o].direct
    <2>1. CASE ReplayDeploy(p)
      <3>1. LanesSame /\ op'[o].direct = op[o].direct
        BY <2>1, ReplayDeployWrites DEF Holding, LanesSame
      <3> QED
        BY <1>1, <3>1, LanesKept
    <2>2. CASE \E label : Resumed(p, label)
      BY <1>1, <2>2 DEF Resumed, Unfinished, Open
    <2>3. CASE p \in Unfinished /\ Closed(p)
      BY <1>1, <2>3 DEF Closed, Unfinished, Open
    <2> QED
      BY <1>7, <2>1, <2>2, <2>3, ResumeCases
  <1> QED
    BY <1>2, <1>3, <1>4, <1>5, <1>6, <1>7, StepCases DEF Next, OtherSteps, QuietDeploySteps

\* Among the steps that write no row, only these have removed the candidate.
LEMMA QuietLabels ==
  ASSUME QuietDeploySteps, ~DropJob, ~DropWorker
  PROVE  pc' \notin {"dropWorker", "dropped"}
  <1>1. CASE CallSteps
    BY <1>1 DEF CallSteps, BuildSucceeds, Quiesce, CutJob, CutWorker, CreateWorker, SubmitJob,
       PromoteCandidate, DropStop, DropImage, Step
  <1>2. CASE ReadSteps
    BY <1>2 DEF ReadSteps, CleanRejected, CutoverSkipped, ObserveHealthy, ObservePublic,
       CandidateUnhealthy, AfterCutover, Step
  <1>3. CASE AttemptSteps \/ CutOff
    BY <1>3 DEF AttemptSteps, CreateAttempt, RejectAttempt, FailAttempt, CutOff, AfterCutover,
       Step
  <1> QED
    BY <1>1, <1>2, <1>3 DEF QuietDeploySteps

\* The transactions of a deploy keep the owners of the jobs.
LEMMA JobRowSteps ==
  ASSUME TypeOK, TargetInv, ExclusionInv, ActiveInv, CutInv, PhaseInv, JobInv, RowSteps
  PROVE  OwnersKept
  <1>1. cur \in Unfinished /\ IsDeploy(cur) /\ cur' = cur /\ cur \in Op
    BY BodyOf, RowStepsInBody
  <1>2. Unfinished' = Unfinished
    BY RowStepsLanes, LanesKept
  <1>3. \A o \in Op : (Candidate(o) => o = cur) /\ ~Superseded(o)
    BY <1>1, Alone
  <1>4. ASSUME NEW o \in Op, o = cur, Candidate(o)
        PROVE  Candidate(o)'
    BY <1>1, <1>2, <1>4, RowCandidate DEF Candidate, IsDeploy
  <1> QED
    BY <1>3, <1>4 DEF OwnersKept

\* The calls and reads of a deploy keep the owners of the jobs there are.
LEMMA JobQuietSteps ==
  ASSUME TypeOK, ExclusionInv, ActiveInv, CandidateInv, JobInv, QuietDeploySteps
  PROVE  OwnersKept
  <1>1. UNCHANGED op /\ app'.active = app.active /\ PlacesKept
    BY QuietDeployStepsPlace
  <1>2. pc' \in ForwardLabels \cup {"idle"}
    BY NextLabels
  <1>3. cur' \in {cur, NoOp}
    BY BodyStepped, StepCases DEF QuietDeploySteps, Stepped
  <1>4. \A o \in Op : Superseded(o) /\ ~Cleaned => Superseded(o)' /\ ~Cleaned'
    <2>1. ~Cleaned'
      BY <1>2, LabelGroups DEF Cleaned, FinishLabels
    <2> QED
      BY <1>1, <2>1, SupersededSame
  <1>5. ASSUME NEW j \in JobId, NEW o \in Op, cloud'.jobs[j].op = o, Candidate(o)
        PROVE  Candidate(o)'
    <2>1. o \in Unfinished' /\ IsDeploy(o) /\ op'[o].phase \in LatePhases
      BY <1>1, <1>5 DEF Candidate, Unfinished, Open
    <2>2. CASE DropJob
      <3>1. cur \in Unfinished /\ IsDeploy(cur)
        BY <2>2, BodyOf DEF CallSteps
      <3>2. \A i \in JobId : cloud'.jobs[i] = IF i = TargetJob THEN NoJob ELSE cloud.jobs[i]
        BY <2>2, JobGone DEF DropJob, Helper
      <3>3. o = cur
        BY <1>5, <3>1, Alone
      <3>4. cloud.jobs[j].op = cur => j = TargetJob
        BY <3>1 DEF CandidateInv
      <3> QED
        BY SMTT(30), <1>5, <3>2, <3>3, <3>4, ConstantsAssumption DEF NoJob
    <2>3. CASE DropWorker
      <3>1. o # cur
        BY <1>5, <2>3 DEF DropWorker, Step, Candidate
      <3>2. cur \in Unfinished
        BY <2>3, BodyOf DEF CallSteps
      <3> QED
        BY <1>5, <3>1, <3>2, Alone
    <2>4. CASE ~DropJob /\ ~DropWorker
      <3>1. pc' \notin {"dropWorker", "dropped"}
        BY <2>4, QuietLabels
      <3> QED
        BY <2>1, <3>1 DEF Candidate, IsDeploy
    <2> QED
      BY <2>2, <2>3, <2>4
  <1> QED
    BY <1>1, <1>4, <1>5 DEF OwnersKept, PlacesKept

\* The candidate of a deploy that ends has been removed.
LEMMA EndedCandidate ==
  ASSUME TypeOK, ExclusionInv, PhaseInv, EndSteps
  PROVE  ~Candidate(cur)
  <1>1. CASE CreateAttemptRefused \/ RejectOp \/ FailOp
    <2>1. op[cur].phase \in EarlyPhases \cup {"candidate_removed"}
      BY <1>1 DEF CreateAttemptRefused, RejectOp, FailOp, Step, PhaseInv, BuildLabels
    <2> QED
      BY <2>1, PhaseGroups DEF Candidate
  <1>2. CASE Succeed
    BY <1>2 DEF Succeed, Step, ExclusionInv, FinishLabels, Finishing, Unfinished, Candidate
  <1>3. CASE DisableDone \/ RestartDone \/ RestartFails \/ complete_application_deletion
    BY <1>3 DEF DisableDone, RestartDone, RestartFails, complete_application_deletion, Step,
       ExclusionInv, DisableLabels, RestartLabels, DeleteLabels, Candidate, IsDeploy,
       DeployKinds
  <1> QED
    BY <1>1, <1>2, <1>3 DEF EndSteps

\* Finishing removes the predecessor's job before it forgets the predecessor.
LEMMA FinishOwners ==
  ASSUME TypeOK, ExclusionInv, JobInv, FinishSteps \/ Succeed, cur = app.active,
         app'.active = app.active, NEW j \in JobId, NEW o \in Op, cloud'.jobs[j].op = o,
         Superseded(o), ~Cleaned, j = attempt[o].job
  PROVE  Superseded(o)' /\ ~Cleaned'
  <1>1. /\ op[cur].pred = o /\ o # NoOp /\ ~op[cur].predGone
        /\ op[cur].phase \in {"deployment_healthy", "predecessor_cleanup"}
        /\ IsDeploy(cur) /\ ~ReusesWorker(cur) /\ cur \in Finishing
    BY DEF Superseded
  <1>2. pc \notin {"predGone", "predWorker", "accepted", "retain", "succeed"}
    BY DEF Cleaned
  <1>3. HandoverDone \/ RemovePredecessorJob
    BY <1>2 DEF FinishSteps, PredecessorJobAbsent, RemovePredecessorWorker, Accepted,
       RetainImages, Succeed, Step
  <1>4. CASE RemovePredecessorJob
    <2>1. cloud' = WithoutJob(attempt[o].job)
      BY <1>1, <1>4 DEF RemovePredecessorJob, Helper, Predecessor
    <2>2. cloud'.jobs[j] = NoJob
      BY <2>1, JobGone
    <2> QED
      BY SMTT(30), <2>2, ConstantsAssumption DEF NoJob
  <1>5. CASE HandoverDone
    <2>1. KindOf[cur] # "enable"
      BY <1>1 DEF IsDeploy, DeployKinds
    <2>2. pc' = "predJob"
      BY <1>1, <1>5, <2>1 DEF HandoverDone, Step, FinishLabel
    <2>3. /\ op'[cur].phase \in {"deployment_healthy", "predecessor_cleanup"}
          /\ op'[cur].pred = o /\ ~op'[cur].predGone
      BY <1>1, <1>5, FinishWrites DEF FinishSteps
    <2>4. cur \in Finishing'
      BY <1>1, <1>5, FinishStepsContinue, LanesKept DEF FinishSteps
    <2>5. Superseded(o)'
      BY <1>1, <2>3, <2>4 DEF Superseded, IsDeploy, ReusesWorker
    <2> QED
      BY <2>2, <2>5 DEF Cleaned
  <1> QED
    BY <1>3, <1>4, <1>5

\* Cleanup, disables, enables, restarts, deletes and ends keep the owners of the
\* jobs there are.
LEMMA JobOtherSteps ==
  ASSUME TypeOK, ExclusionInv, ActiveInv, PhaseInv, JobInv, OtherSteps
  PROVE  OwnersKept
  <1>1. /\ Unfinished' \subseteq Unfinished
        /\ \A o \in Unfinished' : IsDeploy(o) => op'[o] = op[o]
        /\ pc' \in OtherLabels \cup {"idle", "failAttempt"} /\ app'.active = app.active
        /\ PlacesKept
    BY OtherStepsKeepDeploys, OtherStepsPlace
  <1>2. pc' \notin {"dropWorker", "dropped"}
    BY <1>1 DEF OtherLabels, FinishLabels, DisableLabels, EnableLabels, RestartLabels,
       DeleteLabels
  <1>3. ASSUME NEW o \in Op, Candidate(o)
        PROVE  Candidate(o)'
    <2>1. o \in Unfinished /\ IsDeploy(o)
      BY <1>3 DEF Candidate
    <2>2. o \in Unfinished'
      <3>1. CASE EndSteps
        <4>1. Closed(cur) /\ o # cur
          BY <1>3, <3>1, EndStepCloses, EndedCandidate
        <4> QED
          BY <2>1, <4>1 DEF Closed, Unfinished, Open
      <3>2. CASE EnableAccept
        <4>1. cur \in Unfinished /\ KindOf[cur] = "enable"
          BY <3>2, BodyOf
        <4> QED
          BY <2>1, <4>1 DEF ExclusionInv, IsDeploy, DeployKinds
      <3>3. CASE ~EndSteps /\ ~EnableAccept
        <4>1. LanesSame
          BY <3>3, OtherStepsContinue, FinishStepsContinue DEF OtherSteps, Raise, Interrupt,
             Quiet, LanesSame
        <4> QED
          BY <2>1, <4>1, LanesKept
      <3> QED
        BY <3>1, <3>2, <3>3
    <2> QED
      BY <1>1, <1>2, <1>3, <2>1, <2>2 DEF Candidate, IsDeploy
  <1>4. ASSUME NEW j \in JobId, NEW o \in Op, cloud'.jobs[j].op = o,
               Superseded(o), ~Cleaned, j = attempt[o].job
        PROVE  Superseded(o)' /\ ~Cleaned'
    <2>1. app.active \in Finishing /\ app.active \in Op /\ app.active # NoOp
      BY <1>4, ConstantsAssumption DEF Superseded, Finishing
    <2>2. CASE cur # app.active
      <3>1. cur' \in {cur, NoOp}
        BY BodyStepped, StepCases DEF OtherSteps, Stepped, Raise, Interrupt
      <3>2. op'[app.active] = op[app.active]
        BY <2>1, <2>2, OwnRow, StepCases DEF OtherSteps, Raise, Interrupt, Quiet
      <3> QED
        BY <1>1, <1>4, <2>1, <2>2, <3>1, <3>2, SupersededSame DEF Cleaned
    <2>3. CASE cur = app.active
      <3>1. CASE FinishSteps \/ Succeed
        BY <1>1, <1>4, <2>3, <3>1, FinishOwners
      <3>2. CASE UNCHANGED <<op, app, cloud>> /\ pc' = "idle"
        BY <1>1, <1>4, <3>2, SupersededSame DEF Cleaned
      <3> QED
        BY <2>1, <2>3, <3>1, <3>2, FinishingBody
    <2> QED
      BY <2>2, <2>3
  <1> QED
    BY <1>1, <1>3, <1>4 DEF OwnersKept, PlacesKept

\* A request keeps the owners, and no disable begins beside a predecessor.
LEMMA JobRequested ==
  ASSUME TypeOK, ExclusionInv, ActiveInv, NEW p \in Op, Request(p)
  PROVE  OwnersKept /\ \A o \in Op : Superseded(o) => KindOf[p] # "disable"
  <1>1. /\ cur' = p /\ UNCHANGED <<attempt, app, cloud>> /\ op[p].status = "none"
        /\ Unfinished = {} /\ \A q \in Op \ {p} : op'[q] = op[q]
        /\ check_finishing_admission(KindOf[p])
    BY RequestOpens
  <1>2. \A o \in Op : ~Candidate(o)
    BY <1>1 DEF Candidate
  <1>3. ASSUME NEW o \in Op, Superseded(o)
        PROVE  Superseded(o)' /\ ~Cleaned' /\ KindOf[p] # "disable"
    <2>1. /\ app.active \in Finishing /\ app.active \in Op
          /\ op[app.active].pred = o /\ o # NoOp /\ ~op[app.active].predGone
          /\ op[app.active].phase \in {"deployment_healthy", "predecessor_cleanup"}
      BY <1>3 DEF Superseded, Finishing
    <2>2. p # app.active
      BY <1>1, <2>1 DEF Finishing, Open
    <2>3. Superseded(o)'
      BY <1>1, <1>3, <2>1, <2>2, SupersededSame
    <2>4. KindOf[p] # "disable"
      BY <1>1, <2>1 DEF check_finishing_admission
    <2> QED
      BY <1>1, <2>2, <2>3, <2>4 DEF Cleaned
  <1> QED
    BY <1>1, <1>2, <1>3 DEF OwnersKept

\* A replay keeps the owners.
LEMMA JobResumed ==
  ASSUME TypeOK, ExclusionInv, ActiveInv, NEW p \in Op, Resume(p)
  PROVE  OwnersKept
  <1>1. CASE ReplayDeploy(p)
    <2>1. /\ p \in Unfinished /\ IsDeploy(p) /\ cur' = p
          /\ pc' \notin {"dropWorker", "dropped"}
      BY <1>1 DEF ReplayDeploy, RecoveryLabel
    <2>2. LanesSame /\ op'[p].phase = RecoveryPhase(op[p].phase)
      BY <1>1, ReplayDeployWrites DEF Holding, LanesSame
    <2>3. \A o \in Op : (Candidate(o) => o = p) /\ ~Superseded(o)
      BY <2>1, Alone
    <2>4. op[p].phase \in LatePhases => op'[p].phase \in LatePhases
      BY <2>2 DEF RecoveryPhase, LatePhases
    <2>5. Candidate(p) => Candidate(p)'
      BY <2>1, <2>2, <2>4, LanesKept DEF Candidate, IsDeploy
    <2> QED
      BY <2>3, <2>5 DEF OwnersKept
  <1>2. CASE \E label \in {"disJob", "eWorker", "dStop", "rReq", "finish"} : Resumed(p, label)
    <2>1. UNCHANGED <<op, attempt, app, cloud>>
      BY <1>2 DEF Resumed
    <2>2. pc' \notin {"dropWorker", "dropped"} /\ ~Cleaned'
      BY <1>2 DEF Resumed, Cleaned
    <2>3. \A o \in Op : Candidate(o) => Candidate(o)'
      BY <2>1, <2>2 DEF Candidate, Unfinished, Open, IsDeploy
    <2> QED
      BY <2>1, <2>2, <2>3, SupersededSame DEF OwnersKept
  <1>3. CASE /\ p \in Unfinished /\ KindOf[p] = "restart" /\ Closed(p) /\ pc = "idle"
             /\ UNCHANGED <<attempt, app, res, accepted, cloud, restarts, pc, cur>>
    <2>1. \A o \in Op : ~Candidate(o)
      BY <1>3, Alone DEF IsDeploy, DeployKinds
    <2>2. ~Cleaned'
      BY <1>3 DEF Cleaned
    <2>3. ASSUME NEW o \in Op, Superseded(o)
          PROVE  Superseded(o)'
      <3>1. app.active \in Finishing /\ p # app.active
        BY <1>3, <2>3 DEF Superseded, Finishing, Unfinished
      <3>2. op'[app.active] = op[app.active]
        BY <1>3, <3>1 DEF Closed, Finishing
      <3> QED
        BY <1>3, <2>3, <3>2, SupersededSame
    <2> QED
      BY <1>3, <2>1, <2>2, <2>3 DEF OwnersKept
  <1> QED
    BY <1>1, <1>2, <1>3, ResumeCases

\* Every step but an acceptance keeps the owners of the jobs there are.
LEMMA OwnersStep ==
  ASSUME TypeOK, TargetInv, ExclusionInv, ActiveInv, CutInv, CandidateInv, PhaseInv, JobInv,
         [Next]_vars, ~AcceptDeployment
  PROVE  OwnersKept
  <1>1. CASE RowSteps
    BY <1>1, JobRowSteps
  <1>2. CASE QuietDeploySteps
    BY <1>2, JobQuietSteps
  <1>3. CASE OtherSteps
    BY <1>3, JobOtherSteps
  <1>4. ASSUME NEW o \in Op, Request(o) \/ Resume(o)
        PROVE  OwnersKept
    BY <1>4, JobRequested, JobResumed
  <1>5. CASE UNCHANGED vars
    BY <1>5 DEF vars, OwnersKept, Candidate, Superseded, Cleaned, Unfinished, Finishing, Open
  <1> QED
    BY <1>1, <1>2, <1>3, <1>4, <1>5, StepCases DEF Next, OtherSteps, QuietDeploySteps

\* Only an acceptance makes a deploy finishing.
LEMMA FinishingBack ==
  ASSUME TypeOK, TargetInv, ExclusionInv, ActiveInv, [Next]_vars, ~AcceptDeployment,
         NEW f \in Finishing', IsDeploy(f)
  PROVE  f \in Finishing
  <1>1. f \in Op /\ op'[f].status = "open" /\ op'[f].finishing
    BY DEF Finishing, Open
  <1>2. CASE op'[f] = op[f] \/ LanesSame
    BY <1>1, <1>2 DEF Finishing, Open, LanesSame
  <1>3. CASE RowSteps
    BY <1>2, <1>3, RowStepsLanes
  <1>4. CASE QuietDeploySteps \/ Raise \/ Interrupt \/ UNCHANGED vars
    BY <1>2, <1>4, QuietFrame DEF Raise, Interrupt, Quiet, vars
  <1>5. CASE FinishSteps \/ DisableSteps \/ EnableSteps \/ RestartSteps \/ DeleteSteps
    BY <1>2, <1>5, FinishStepsContinue, OtherStepsContinue
  <1>6. CASE EndSteps
    <2>1. f # cur /\ Closed(cur)
      BY <1>1, <1>6, EndStepCloses DEF Closed
    <2> QED
      BY <1>1, <1>2, <2>1 DEF Closed
  <1>7. CASE EnableAccept
    <2>1. KindOf[cur] = "enable"
      BY <1>7, BodyOf
    <2>2. f # cur
      BY <2>1 DEF IsDeploy, DeployKinds
    <2>3. op'[f] = op[f]
      BY <1>1, <1>7, <2>2, OwnRow, StepCases
    <2> QED
      BY <1>2, <2>3
  <1>8. ASSUME NEW p \in Op, Request(p)
        PROVE  f \in Finishing
    BY <1>1, <1>2, <1>8, RequestOpens
  <1>9. ASSUME NEW p \in Op, Resume(p)
        PROVE  f \in Finishing
    <2>1. CASE ReplayDeploy(p)
      BY <1>2, <2>1, ReplayDeployWrites DEF Holding, LanesSame
    <2>2. CASE \E label : Resumed(p, label)
      BY <1>2, <2>2 DEF Resumed
    <2>3. CASE Closed(p)
      BY <1>1, <1>2, <2>3 DEF Closed
    <2> QED
      BY <1>9, <2>1, <2>2, <2>3, ResumeCases
  <1> QED
    BY <1>3, <1>4, <1>5, <1>6, <1>7, <1>8, <1>9, StepCases DEF Next, QuietDeploySteps

\* While a predecessor waits for its cleanup the application stays running and
\* no disable begins.
LEMMA SupersedingKept ==
  ASSUME TypeOK, TargetInv, ExclusionInv, ActiveInv, JobInv, [Next]_vars, ~AcceptDeployment,
         NEW o \in Op, Superseded(o)
  PROVE  /\ app'.desired = app.desired
         /\ \A d \in Unfinished' : KindOf[d] = "disable" => d \in Unfinished
  <1>1. /\ \A d \in Unfinished : KindOf[d] # "disable"
        /\ \A d \in Unfinished : ~IsDeploy(d) /\ KindOf[d] \notin {"enable", "delete"}
    BY JobParts, Alone DEF Superseding
  <1>2. CASE RowSteps
    BY <1>2, RowFrame, RowStepsLanes, LanesKept
  <1>3. CASE QuietDeploySteps
    <2>1. ~CutOff
      BY <1>1, BodyOf
    <2> QED
      BY <1>3, <2>1, QuietFrame DEF Unfinished, Open
  <1>4. CASE OtherSteps
    <2>1. ~DisableOff /\ ~DeleteOff /\ ~EnableAccept
      BY <1>1, BodyOf DEF DisableSteps, DeleteSteps
    <2>2. complete_application_deletion => app'.desired = app.desired
      BY DEF complete_application_deletion, TypeOK
    <2>3. app'.desired = app.desired
      BY <1>4, <2>1, <2>2, AppFrame
    <2> QED
      BY <1>4, <2>3, OtherStepsKeepDeploys
  <1>5. ASSUME NEW p \in Op, Request(p)
        PROVE  /\ app'.desired = app.desired
               /\ \A d \in Unfinished' : KindOf[d] = "disable" => d \in Unfinished
    BY <1>5, RequestOpens, JobRequested
  <1>6. ASSUME NEW p \in Op, Resume(p)
        PROVE  /\ app'.desired = app.desired
               /\ \A d \in Unfinished' : KindOf[d] = "disable" => d \in Unfinished
    <2>1. CASE ReplayDeploy(p)
      BY <1>1, <2>1 DEF ReplayDeploy
    <2>2. CASE \E label : Resumed(p, label)
      BY <2>2 DEF Resumed, Unfinished, Open
    <2>3. CASE Closed(p) /\ UNCHANGED app
      BY <2>3 DEF Closed, Unfinished, Open
    <2> QED
      BY <1>6, <2>1, <2>2, <2>3, ResumeCases
  <1>7. CASE UNCHANGED vars
    BY <1>7 DEF vars, Unfinished, Open
  <1> QED
    BY <1>2, <1>3, <1>4, <1>5, <1>6, <1>7, StepCases DEF Next, OtherSteps, QuietDeploySteps

\* The acceptance makes the accepted deployment the predecessor.
LEMMA AcceptSupersedes ==
  ASSUME TypeOK, ExclusionInv, ActiveInv, CandidateInv, PhaseInv, AcceptDeployment
  PROVE  /\ cur \in Unfinished /\ IsDeploy(cur) /\ cur \in Op /\ cur # app.active
         /\ app'.active = cur /\ app'.desired /\ Unfinished' = {}
         /\ Finishing = {} /\ Finishing' = {cur} /\ UNCHANGED cloud
         /\ op'[cur].pred = app.active /\ ~op'[cur].predGone
         /\ op'[cur].phase = "deployment_healthy" /\ ~Cleaned'
         /\ op[cur].direct => ReusesWorker(cur)
         /\ \A o \in Op \ {cur} : attempt'[o] = attempt[o]
         /\ attempt'[cur].prio = RoutePriority(cur)
  <1>1. cur \in Unfinished /\ IsDeploy(cur) /\ cur \in Op
    BY BodyOf DEF Unfinished
  <1>2. Finishing = {} /\ cur # app.active
    BY <1>1, ConstantsAssumption DEF ExclusionInv, ActiveInv, HasActive, Unfinished
  <1>3. pc = "accept" /\ pc' = "finish" /\ UNCHANGED cloud
    BY DEF AcceptDeployment, Step
  <1>4. /\ op' \in [Op -> Rows] /\ \A p \in Op \ {cur} : op'[p] = op[p]
        /\ op'[cur].finishing = TRUE /\ op'[cur].status = op[cur].status
        /\ op'[cur].phase = op[cur].phase /\ op'[cur].pred = op[cur].pred
        /\ op'[cur].predGone = op[cur].predGone
    BY <1>1, AcceptStepFinishes, FinishingSet
  <1>5. Finishing' = {cur}
    BY <1>1, <1>2, <1>4 DEF Finishing, Unfinished, Open
  <1>6. op[cur].phase = "deployment_healthy"
    BY <1>3 DEF CandidateInv
  <1>7. /\ op[cur].pred = app.active /\ ~op[cur].predGone
        /\ op[cur].direct => ReusesWorker(cur)
    BY <1>1, <1>6 DEF PhaseInv
  <1>8. /\ app'.active = cur /\ app'.desired
        /\ \A o \in Op \ {cur} : attempt'[o] = attempt[o]
    BY AcceptedPlace
  <1>9. attempt'[cur].prio = RoutePriority(cur)
    BY <1>1 DEF AcceptDeployment, TypeOK
  <1> QED
    BY <1>1, <1>2, <1>3, <1>4, <1>5, <1>6, <1>7, <1>8, <1>9, AcceptLanes DEF Cleaned

\* An acceptance makes the candidate's job the accepted one and the accepted one
\* the predecessor's.
LEMMA JobAccepted ==
  ASSUME TypeOK, ExclusionInv, ActiveInv, CandidateInv, PhaseInv, StopInv, JobInv,
         AcceptDeployment
  PROVE  JobInv'
  <1>1. /\ cur \in Unfinished /\ IsDeploy(cur) /\ cur \in Op /\ cur # app.active
        /\ app'.active = cur /\ app'.desired /\ Unfinished' = {}
        /\ Finishing = {} /\ Finishing' = {cur} /\ UNCHANGED cloud
        /\ op'[cur].pred = app.active /\ ~op'[cur].predGone
        /\ op'[cur].phase = "deployment_healthy" /\ ~Cleaned'
        /\ \A o \in Op \ {cur} : attempt'[o] = attempt[o]
    BY AcceptSupersedes
  <1>2. Superseding'
    BY <1>1 DEF Superseding
  <1>3. ASSUME NEW j \in JobId, NEW old \in Op, old = app.active, cloud.jobs[j].op = old
        PROVE  Superseded(old)' /\ j = attempt'[old].job
    <2>1. HasActive
      BY <1>3, ConstantsAssumption DEF HasActive
    <2>2. ~Maintenance(cur)
      <3>1. pc \in PastCutover
        BY DEF AcceptDeployment, Step, PastCutover, CandidateLabels
      <3>2. \A o \in Unfinished : KindOf[o] # "enable"
        BY <1>1 DEF ExclusionInv, IsDeploy, DeployKinds
      <3>3. app.desired
        BY <1>3, <2>1, <3>2 DEF StopInv, HasActive
      <3> QED
        BY <2>1, <3>1, <3>3 DEF StopInv
    <2>3. Superseded(old)'
      BY <1>1, <1>3, <2>1, <2>2 DEF Superseded, HasActive, IsDeploy, Maintenance, ReusesWorker
    <2>4. j = attempt[old].job
      BY <1>3, <2>1 DEF CandidateInv, Active
    <2> QED
      BY <1>1, <1>3, <2>3, <2>4
  <1>4. ASSUME NEW j \in JobId
        PROVE  Owned(j)'
    <2>1. Owned(j) /\ cloud.jobs[j].op \in Op \cup {NoOp}
      BY JobParts DEF TypeOK, Jobs
    <2>2. \A o \in Op : (Candidate(o) => o = cur) /\ ~Superseded(o)
      BY <1>1, Alone
    <2>3. CASE cloud.jobs[j].op = NoOp \/ cloud.jobs[j].op = cur
      BY <1>1, <2>1, <2>3, ConstantsAssumption DEF Owned
    <2>4. CASE cloud.jobs[j].op \in Op /\ cloud.jobs[j].op = app.active
      BY <1>1, <1>3, <2>4, ConstantsAssumption DEF Owned
    <2> QED
      BY <2>1, <2>2, <2>3, <2>4 DEF Owned
  <1>5. \A f \in Finishing' : IsDeploy(f) => f = app'.active
    BY <1>1
  <1> QED
    BY <1>2, <1>4, <1>5, JobPartsNext

\* Every step keeps JobInv: no job outlives the operation it belongs to.
LEMMA JobStep ==
  ASSUME TypeOK, TypeOK', TargetInv, ExclusionInv, ActiveInv, CutInv, CandidateInv, PhaseInv,
         StopInv, JobInv, [Next]_vars
  PROVE  JobInv'
  <1>1. CASE AcceptDeployment
    BY <1>1, JobAccepted
  <1>2. CASE ~AcceptDeployment
    <2>1. OwnersKept /\ JobsKept /\ app'.active = app.active
      BY <1>2, OwnersStep, JobsStep, PlacesStep
    <2>2. cloud'.jobs \in [JobId -> Jobs]
      BY DEF TypeOK
    <2>3. \A f \in Finishing' : IsDeploy(f) => f \in Finishing
      BY <1>2, FinishingBack
    <2>4. \A o \in Op : Superseded(o)' =>
             /\ Superseded(o) /\ app'.desired = app.desired
             /\ \A d \in Unfinished' : KindOf[d] = "disable" => d \in Unfinished
      BY <1>2, SupersededBack, SupersedingKept
    <2> QED
      BY <2>1, <2>2, <2>3, <2>4, JobKept
  <1> QED
    BY <1>1, <1>2

(* Priorities.                                                             *)

\* The priority of the job of a slot, by whose it is.
Ranked(j) ==
    LET job == cloud.jobs[j]
    IN  /\ job.op # NoOp /\ job.op = app.active => job.prio = Active.prio
        /\ Candidate(job.op) => job.prio = RoutePriority(job.op)
        /\ Superseded(job.op) => job.prio < Active.prio

\* PriorityInv, before and after a step, by jobs.
LEMMA PriorityParts ==
  /\ PriorityInv <=> \A j \in JobId : Ranked(j)
  /\ PriorityInv' <=> \A j \in JobId : Ranked(j)'
  BY DEF PriorityInv, Ranked

\* Nobody is both the accepted deployment and an unfinished one.
LEMMA RankKept ==
  ASSUME TypeOK, ExclusionInv, ActiveInv, JobInv, PriorityInv, JobsKept, PlacesKept,
         app'.active = app.active, cloud'.jobs \in [JobId -> Jobs],
         \A o \in Op : Candidate(o)' => o \in Unfinished /\ op'[o].direct = op[o].direct,
         \A o \in Op : Superseded(o)' => Superseded(o),
         NEW j \in JobId
  PROVE  Ranked(j)'
  <1>1. Ranked(j) /\ Owned(j)
    BY JobParts, PriorityParts
  <1>2. cloud'.jobs[j].op \in Op \cup {NoOp} /\ cloud'.jobs[j].prio \in Nat
    BY DEF Jobs
  <1>3. HasActive => /\ app.active \in Op /\ app.active \notin Unfinished
                     /\ Active'.prio = Active.prio /\ Active.prio \in Nat
    <2>1. HasActive => app.active \in Op /\ op[app.active].finishing
      BY DEF HasActive, ActiveInv, TypeOK
    <2>2. \A o \in Op : attempt'[o].prio = attempt[o].prio /\ attempt[o].prio \in Nat
      BY DEF PlacesKept, TypeOK, Attempts
    <2> QED
      BY <2>1, <2>2 DEF Active, Unfinished
  <1>4. \A o \in Op : Candidate(o)' => /\ IsDeploy(o) /\ o \in Unfinished
                                       /\ RoutePriority(o)' = RoutePriority(o)
    BY <1>3 DEF RoutePriority, NeedsPromotion, HasActive, Candidate, IsDeploy
  <1>5. CASE cloud'.jobs[j].op = NoOp
    BY <1>5, ConstantsAssumption DEF Ranked, Candidate, Superseded, Unfinished
  <1>6. ASSUME NEW o \in Op, cloud'.jobs[j].op = o, cloud.jobs[j].op = o,
               cloud'.jobs[j].prio = cloud.jobs[j].prio
        PROVE  Ranked(j)'
    <2>1. o = app.active => cloud'.jobs[j].prio = Active'.prio
      BY <1>1, <1>3, <1>6, ConstantsAssumption DEF Ranked, HasActive
    <2>2. Candidate(o)' => cloud'.jobs[j].prio = RoutePriority(o)'
      <3>1. Candidate(o)' => o # app.active /\ ~Superseded(o)
        BY <1>3, <1>4, Alone, ConstantsAssumption DEF HasActive
      <3>2. Candidate(o)' => Candidate(o)
        BY <1>1, <1>6, <3>1, ConstantsAssumption DEF Owned
      <3> QED
        BY <1>1, <1>4, <1>6, <3>2 DEF Ranked
    <2>3. Superseded(o)' => cloud'.jobs[j].prio < Active'.prio
      <3>1. Superseded(o) => HasActive
        BY ConstantsAssumption DEF Superseded, Finishing, HasActive
      <3> QED
        BY <1>1, <1>3, <1>6, <3>1 DEF Ranked
    <2> QED
      BY <1>6, <2>1, <2>2, <2>3 DEF Ranked
  <1>7. ASSUME NEW o \in Op, cloud'.jobs[j].op = o, o \in Unfinished, IsDeploy(o),
               cloud'.jobs[j].prio = RoutePriority(o)
        PROVE  Ranked(j)'
    <2>1. o # app.active /\ ~Superseded(o)
      BY <1>3, <1>7, Alone, ConstantsAssumption DEF HasActive
    <2>2. ~Superseded(o)'
      BY <2>1
    <2> QED
      BY <1>4, <1>7, <2>1, <2>2 DEF Ranked
  <1>8. ASSUME NEW o \in Op, cloud'.jobs[j].op = o, HasActive, o = app.active, pc = "eJob",
               cloud'.jobs[j].prio = Active.prio
        PROVE  Ranked(j)'
    <2>1. ~Superseded(o) /\ o \notin Unfinished
      BY <1>3, <1>8, Alone DEF ExclusionInv, EnableLabels
    <2>2. ~Superseded(o)' /\ ~Candidate(o)'
      BY <2>1
    <2> QED
      BY <1>3, <1>8, <2>2 DEF Ranked
  <1>9. CASE /\ cur \in Unfinished /\ IsDeploy(cur) /\ cloud'.jobs[j].op = cur
             /\ cloud'.jobs[j].prio = RoutePriority(cur)
    BY <1>7, <1>9 DEF Unfinished
  <1> QED
    BY <1>2, <1>3, <1>5, <1>6, <1>8, <1>9 DEF JobsKept

\* After an acceptance the predecessor's route ranks below the accepted one's.
LEMMA RankAccepted ==
  ASSUME TypeOK, ExclusionInv, ActiveInv, CandidateInv, PhaseInv, JobInv, PriorityInv,
         AcceptDeployment, NEW j \in JobId
  PROVE  Ranked(j)'
  <1>1. /\ cur \in Unfinished /\ IsDeploy(cur) /\ cur \in Op /\ cur # app.active
        /\ app'.active = cur /\ Unfinished' = {} /\ UNCHANGED cloud
        /\ op'[cur].pred = app.active /\ (op[cur].direct => ReusesWorker(cur))
        /\ attempt'[cur].prio = RoutePriority(cur)
    BY AcceptSupersedes
  <1>2. Ranked(j) /\ Owned(j) /\ Active'.prio = RoutePriority(cur)
    BY <1>1, JobParts, PriorityParts DEF Active
  <1>3. cloud.jobs[j].op \in Op \cup {NoOp}
    BY DEF TypeOK, Jobs
  <1>4. ASSUME NEW o \in Op, cloud.jobs[j].op = o
        PROVE  /\ o = cur => cloud.jobs[j].prio = RoutePriority(cur)
               /\ ~Candidate(o)'
               /\ Superseded(o)' => cloud.jobs[j].prio < RoutePriority(cur)
    <2>1. o = cur => Candidate(o)
      BY <1>1, <1>2, <1>4, Alone, ConstantsAssumption DEF Owned
    <2>2. o = cur => cloud.jobs[j].prio = RoutePriority(cur)
      BY <1>2, <1>4, <2>1 DEF Ranked
    <2>3. ~Candidate(o)'
      BY <1>1 DEF Candidate
    <2>4. ASSUME Superseded(o)'
          PROVE  cloud.jobs[j].prio < RoutePriority(cur)
      <3>1. o = app.active /\ ~ReusesWorker(cur)
        BY <1>1, <2>4 DEF Superseded, ReusesWorker
      <3>2. HasActive /\ cloud.jobs[j].prio = Active.prio /\ Active.prio \in Nat
        BY SMTT(30), <1>2, <1>4, <3>1, ConstantsAssumption
        DEF Ranked, HasActive, Active, TypeOK, Attempts
      <3>3. RoutePriority(cur) = Active.prio + 1
        BY <1>1, <3>1, <3>2 DEF RoutePriority, NeedsPromotion
      <3> QED
        BY SMTT(30), <3>2, <3>3
    <2> QED
      BY <2>2, <2>3, <2>4
  <1>5. CASE cloud.jobs[j].op = NoOp
    BY <1>1, <1>5, ConstantsAssumption DEF Ranked, Candidate, Superseded
  <1>6. CASE cloud.jobs[j].op \in Op
    BY <1>1, <1>2, <1>4, <1>6 DEF Ranked
  <1> QED
    BY <1>3, <1>5, <1>6

\* Every step keeps PriorityInv: a candidate's route outranks what it replaces
\* (nomad_route_priority).
LEMMA PriorityStep ==
  ASSUME TypeOK, TypeOK', TargetInv, ExclusionInv, ActiveInv, CutInv, CandidateInv, PhaseInv,
         JobInv, PriorityInv, [Next]_vars
  PROVE  PriorityInv'
  <1>1. CASE AcceptDeployment
    BY <1>1, RankAccepted, PriorityParts
  <1>2. CASE ~AcceptDeployment
    <2>1. JobsKept /\ PlacesKept /\ app'.active = app.active
      BY <1>2, JobsStep, PlacesStep
    <2>2. cloud'.jobs \in [JobId -> Jobs]
      BY DEF TypeOK
    <2>3. \A o \in Op : Candidate(o)' => o \in Unfinished /\ op'[o].direct = op[o].direct
      BY CandidateBack
    <2>4. \A o \in Op : Superseded(o)' => Superseded(o)
      BY <1>2, SupersededBack
    <2>5. \A j \in JobId : Ranked(j)'
      BY <2>1, <2>2, <2>3, <2>4, RankKept
    <2> QED
      BY <2>5, PriorityParts
  <1> QED
    BY <1>1, <1>2

\* A job that runs belongs to somebody; two do not have the same owner.
LEMMA Owners ==
  ASSUME TypeOK, ExclusionInv, CandidateInv, JobInv, NEW j \in JobId, cloud.jobs[j].up
  PROVE  /\ cloud.jobs[j].op \in Op
         /\ \/ HasActive /\ cloud.jobs[j].op = app.active /\ j = Active.job
            \/ Candidate(cloud.jobs[j].op) /\ j = TargetJob
            \/ Superseded(cloud.jobs[j].op) /\ ~Cleaned
  <1>1. Owned(j) /\ cloud.jobs[j].op \in Op \cup {NoOp}
    BY JobParts DEF TypeOK, Jobs
  <1>2. cloud.jobs[j].op \in Op /\ cloud.jobs[j].op # NoOp
    BY <1>1, ConstantsAssumption DEF Owned
  <1>3. HasActive /\ cloud.jobs[j].op = app.active => j = Active.job
    BY DEF CandidateInv
  <1>4. Candidate(cloud.jobs[j].op) => j = TargetJob
    BY DEF CandidateInv, Candidate
  <1> QED
    BY <1>1, <1>2, <1>3, <1>4 DEF Owned, HasActive
=============================================================================
