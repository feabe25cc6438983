--------------------------- MODULE LifecycleProofs --------------------------
(***************************************************************************)
(* What each step of an application's life writes; one unfinished          *)
(* operation at a time; the accepted deployment has a job and a worker.    *)
(***************************************************************************)
EXTENDS Lifecycle, TLAPS

\* Most steps are first-order: Zenon is the prover where no other is named.
USE ZenonT(60)

(* The steps of a body, by what they write.                                *)

RowSteps ==
    \/ PrepareBuild \/ PlatformBusy \/ BuildRejected \/ ImagePushed \/ CutoverIntent
    \/ Quiesced \/ CutMark \/ PrepareEnvironment \/ PrepareReusedWorker \/ PrepareWorker
    \/ WorkerReady \/ CandidateRemoved \/ DeploymentHealthy

CallSteps ==
    \/ BuildSucceeds \/ Quiesce \/ CutJob \/ CutWorker \/ CreateWorker \/ SubmitJob
    \/ PromoteCandidate \/ DropStop \/ DropJob \/ DropWorker \/ DropImage

ReadSteps ==
    CleanRejected \/ CutoverSkipped \/ ObserveHealthy \/ ObservePublic \/ CandidateUnhealthy

AttemptSteps == CreateAttempt \/ RejectAttempt \/ FailAttempt

FinishSteps ==
    \/ HandoverDone \/ RemovePredecessorJob \/ PredecessorJobAbsent
    \/ RemovePredecessorWorker \/ Accepted \/ RetainImages

DisableSteps == DisableJob \/ DisableWorker \/ DisableOff

EnableSteps ==
    \/ EnableWorker \/ EnableReady \/ EnableJob \/ EnableHealthy \/ EnableUnhealthy
    \/ EnableDropJob

RestartSteps == RestartRequested \/ RestartTask

DeleteSteps ==
    \/ DeleteStop \/ DeleteResource \/ DeletePurge \/ DeleteForget \/ DeleteRuntime
    \/ DeleteWorkers \/ DeleteOff \/ DeleteImage

\* The operation ends, in one transaction.
EndSteps ==
    \/ CreateAttemptRefused \/ RejectOp \/ FailOp \/ Succeed \/ DisableDone
    \/ RestartDone \/ RestartFails \/ complete_application_deletion

\* A step of a running body is a transaction on its row, a call, a read, a write
\* of its attempt, an acceptance or an end.
LEMMA StepCases ==
  BodyStep <=> \/ RowSteps \/ CallSteps \/ ReadSteps \/ AttemptSteps \/ CutOff \/ FinishSteps
               \/ DisableSteps \/ EnableSteps \/ RestartSteps \/ DeleteSteps \/ EndSteps
               \/ AcceptDeployment \/ EnableAccept
  BY DEF BodyStep, DeployStep, FinishStep, LifecycleStep, RowSteps, CallSteps, ReadSteps,
     AttemptSteps, FinishSteps, DisableSteps, EnableSteps, RestartSteps, DeleteSteps, EndSteps

-----------------------------------------------------------------------------
ForwardLabels == DeployLabels \ {"failAttempt"}

LanesSame ==
    \A o \in Op : op'[o].status = op[o].status /\ op'[o].finishing = op[o].finishing

\* A step within one body, or out of it.
Continues ==
    \/ pc' = "idle"
    \/ /\ cur' = cur
       /\ \/ pc \in ForwardLabels /\ pc' \in ForwardLabels
          \/ pc \in FinishLabels /\ pc' \in FinishLabels
          \/ pc \in DisableLabels /\ pc' \in DisableLabels
          \/ pc \in EnableLabels /\ pc' \in EnableLabels
          \/ pc \in RestartLabels /\ pc' \in RestartLabels
          \/ pc \in DeleteLabels /\ pc' \in DeleteLabels

\* The groups of labels do not overlap.
LEMMA LabelGroups ==
  /\ "idle" \notin DeployLabels \cup FinishLabels \cup DisableLabels \cup EnableLabels
                   \cup RestartLabels \cup DeleteLabels
  /\ DeployLabels \cap (FinishLabels \cup DisableLabels \cup EnableLabels
                        \cup RestartLabels \cup DeleteLabels) = {}
  /\ FinishLabels \cap (DisableLabels \cup EnableLabels \cup RestartLabels
                        \cup DeleteLabels) = {}
  /\ DisableLabels \cap (EnableLabels \cup RestartLabels \cup DeleteLabels) = {}
  /\ EnableLabels \cap (RestartLabels \cup DeleteLabels) = {}
  /\ RestartLabels \cap DeleteLabels = {}
  /\ ForwardLabels \subseteq DeployLabels /\ "failAttempt" \notin ForwardLabels
  BY DEF DeployLabels, BuildLabels, CutLabels, PastCutover, CandidateLabels, FinishLabels,
         DisableLabels, EnableLabels, RestartLabels, DeleteLabels, ForwardLabels

\* The rows keep their lanes, and the body goes on or ends.
LEMMA ExclusionKept ==
  ASSUME ExclusionInv, TypeOK, Continues, LanesSame
  PROVE  ExclusionInv'
  <1>1. \A o \in Op : /\ Open(o)' = Open(o) /\ op'[o].finishing = op[o].finishing
                      /\ op'[o].status = op[o].status
    BY DEF Open, LanesSame
  <1>2. Unfinished' = Unfinished /\ Finishing' = Finishing
    BY <1>1 DEF Unfinished, Finishing
  <1>3. CASE pc' = "idle"
    BY <1>1, <1>2, <1>3, LabelGroups DEF ExclusionInv, ForwardLabels
  <1>4. CASE pc' # "idle"
    <2>1. cur' = cur /\ cur \in Op
      BY <1>4, LabelGroups DEF Continues, TypeOK
    <2>2. CASE pc \in ForwardLabels /\ pc' \in ForwardLabels
      BY <1>1, <1>2, <2>1, <2>2, LabelGroups DEF ExclusionInv, ForwardLabels
    <2>3. CASE pc' \notin ForwardLabels
      <3>1. /\ pc' \notin DeployLabels
            /\ pc' \in FinishLabels => pc \in FinishLabels
            /\ pc' \in DisableLabels => pc \in DisableLabels
            /\ pc' \in EnableLabels => pc \in EnableLabels
            /\ pc' \in RestartLabels => pc \in RestartLabels
            /\ pc' \in DeleteLabels => pc \in DeleteLabels
        BY <1>4, <2>3, LabelGroups DEF Continues
      <3> QED
        BY <1>1, <1>2, <2>1, <3>1 DEF ExclusionInv
    <2> QED
      BY <1>4, <2>2, <2>3, LabelGroups DEF Continues
  <1> QED
    BY <1>3, <1>4

(* What the transactions write into the operation's row.                   *)

\* The row s is r with these values, of the same operation in the same lane.
Holding(s, r, phase, candidate, cut, slot, job, pred) ==
    /\ s \in Rows
    /\ s.status = r.status /\ s.finishing = r.finishing /\ s.target = r.target
    /\ s.phase = phase /\ s.candidate = candidate /\ s.cut = cut
    /\ s.slot = slot /\ s.job = job /\ s.pred = pred

Wrote(phase, candidate, cut, slot, job, pred) ==
    /\ LanesSame
    /\ op' \in [Op -> Rows]
    /\ \A o \in Op \ {cur} : op'[o] = op[o]
    /\ Holding(op'[cur], op[cur], phase, candidate, cut, slot, job, pred)
    /\ UNCHANGED <<attempt, app, res, accepted, cloud, restarts>>

\* A transaction that puts row in place of the operation's row writes
\* its values.
LEMMA RowWritten ==
  ASSUME TypeOK, cur \in Op, NEW row, Journal(row),
         NEW a, NEW b, NEW c, NEW d, NEW e, NEW f,
         Holding(row, op[cur], a, b, c, d, e, f)
  PROVE  Wrote(a, b, c, d, e, f)
  <1>1. row \in Rows
    BY DEF Holding
  <1>2. op' = [op EXCEPT ![cur] = row] /\ op \in [Op -> Rows]
    BY DEF Journal, TypeOK
  <1>3. op' \in [Op -> Rows] /\ op'[cur] = row /\ \A o \in Op \ {cur} : op'[o] = op[o]
    BY <1>1, <1>2
  <1>4. LanesSame
    BY <1>3 DEF LanesSame, Holding
  <1> QED
    BY <1>3, <1>4 DEF Wrote, Journal

\* A checkpoint that advances the phase and keeps the other columns.
LEMMA PhaseSet ==
  ASSUME NEW r \in Rows, NEW v0 \in Phases
  PROVE  Holding([r EXCEPT !.phase = v0], r,
                 v0, r.candidate, r.cut, r.slot, r.job, r.pred)
  BY DEF Rows, Holding

\* A checkpoint that advances the phase and records the candidate image.
LEMMA PhaseCandidateSet ==
  ASSUME NEW r \in Rows, NEW v0 \in Phases, NEW v1 \in Image \cup {NoImage}
  PROVE  Holding([r EXCEPT !.phase = v0, !.candidate = v1], r,
                 v0, v1, r.cut, r.slot, r.job, r.pred)
  BY DEF Rows, Holding

\* A checkpoint that advances the phase and records the worker slot.
LEMMA PhaseSlotSet ==
  ASSUME NEW r \in Rows, NEW v0 \in Phases, NEW v1 \in Slot \cup {"none"}
  PROVE  Holding([r EXCEPT !.phase = v0, !.slot = v1], r,
                 v0, r.candidate, r.cut, v1, r.job, r.pred)
  BY DEF Rows, Holding

\* A checkpoint that advances the phase and records the job and the predecessor.
LEMMA PhaseJobPredSet ==
  ASSUME NEW r \in Rows,
         NEW v0 \in Phases, NEW v1 \in JobId \cup {"none"}, NEW v2 \in Op \cup {NoOp}
  PROVE  Holding([r EXCEPT !.phase = v0, !.job = v1, !.pred = v2], r,
                 v0, r.candidate, r.cut, r.slot, v1, v2)
  BY DEF Rows, Holding

\* A checkpoint that records which deployment is cut over.
LEMMA CutSet ==
  ASSUME NEW r \in Rows, NEW v0 \in Op \cup {NoOp}
  PROVE  Holding([r EXCEPT !.cut = v0], r,
                 r.phase, r.candidate, v0, r.slot, r.job, r.pred)
  BY DEF Rows, Holding

\* A checkpoint that records the predecessor as quiesced.
LEMMA QuiescedSet ==
  ASSUME NEW r \in Rows, NEW v0 \in BOOLEAN
  PROVE  Holding([r EXCEPT !.quiesced = v0], r,
                 r.phase, r.candidate, r.cut, r.slot, r.job, r.pred)
  BY DEF Rows, Holding

\* A checkpoint that records the predecessor as stopped.
LEMMA StoppedSet ==
  ASSUME NEW r \in Rows, NEW v0 \in BOOLEAN
  PROVE  Holding([r EXCEPT !.stopped = v0], r,
                 r.phase, r.candidate, r.cut, r.slot, r.job, r.pred)
  BY DEF Rows, Holding

\* A checkpoint that records the predecessor's job as removed.
LEMMA PredGoneSet ==
  ASSUME NEW r \in Rows, NEW v0 \in BOOLEAN
  PROVE  Holding([r EXCEPT !.predGone = v0], r,
                 r.phase, r.candidate, r.cut, r.slot, r.job, r.pred)
  BY DEF Rows, Holding

\* A checkpoint that records whether the candidate is public from the start.
LEMMA DirectSet ==
  ASSUME NEW r \in Rows, NEW v0 \in BOOLEAN
  PROVE  Holding([r EXCEPT !.direct = v0], r,
                 r.phase, r.candidate, r.cut, r.slot, r.job, r.pred)
  BY DEF Rows, Holding

\* A checkpoint that records the route and advances the phase.
LEMMA DirectPhaseSet ==
  ASSUME NEW r \in Rows, NEW v0 \in BOOLEAN, NEW v1 \in Phases
  PROVE  Holding([r EXCEPT !.direct = v0, !.phase = v1], r,
                 v1, r.candidate, r.cut, r.slot, r.job, r.pred)
  BY DEF Rows, Holding

\* A checkpoint that records the route and the image and advances the phase.
LEMMA DirectPhaseCandidateSet ==
  ASSUME NEW r \in Rows,
         NEW v0 \in BOOLEAN, NEW v1 \in Phases, NEW v2 \in Image \cup {NoImage}
  PROVE  Holding([r EXCEPT !.direct = v0, !.phase = v1, !.candidate = v2], r,
                 v1, v2, r.cut, r.slot, r.job, r.pred)
  BY DEF Rows, Holding

\* A deploy that the platform cannot host moves to platform_busy.
LEMMA PlatformBusyWrites ==
  ASSUME TypeOK, cur \in Op, PlatformBusy
  PROVE  Wrote("platform_busy", op[cur].candidate, op[cur].cut,
               op[cur].slot, op[cur].job, op[cur].pred)
  <1>1. Holding([op[cur] EXCEPT !.phase = "platform_busy"], op[cur],
                "platform_busy", op[cur].candidate, op[cur].cut,
                op[cur].slot, op[cur].job, op[cur].pred)
    BY PhaseSet DEF TypeOK, Phases
  <1> QED
    BY <1>1, RowWritten DEF PlatformBusy, checkpoint_operation

\* A rejected build moves the deploy to build_rejected.
LEMMA BuildRejectedWrites ==
  ASSUME TypeOK, cur \in Op, BuildRejected
  PROVE  Wrote("build_rejected", op[cur].candidate, op[cur].cut,
               op[cur].slot, op[cur].job, op[cur].pred)
  <1>1. Holding([op[cur] EXCEPT !.phase = "build_rejected"], op[cur],
                "build_rejected", op[cur].candidate, op[cur].cut,
                op[cur].slot, op[cur].job, op[cur].pred)
    BY PhaseSet DEF TypeOK, Phases
  <1> QED
    BY <1>1, RowWritten DEF BuildRejected, checkpoint_operation

\* A pushed image moves the deploy to image_pushed, with its candidate.
LEMMA ImagePushedWrites ==
  ASSUME TypeOK, cur \in Op, ImagePushed
  PROVE  Wrote("image_pushed", ImageOf[cur], op[cur].cut,
               op[cur].slot, op[cur].job, op[cur].pred)
  <1>1. Holding([op[cur] EXCEPT !.phase = "image_pushed", !.candidate = ImageOf[cur]], op[cur],
                "image_pushed", ImageOf[cur], op[cur].cut,
                op[cur].slot, op[cur].job, op[cur].pred)
    BY ConstantsAssumption, PhaseCandidateSet DEF TypeOK, Phases
  <1> QED
    BY <1>1, RowWritten DEF ImagePushed

\* The cutover records the deployment it is about to stop.
LEMMA CutoverIntentWrites ==
  ASSUME TypeOK, cur \in Op, CutoverIntent
  PROVE  Wrote(op[cur].phase, op[cur].candidate, app.active,
               op[cur].slot, op[cur].job, op[cur].pred)
  <1>1. Holding([op[cur] EXCEPT !.cut = app.active], op[cur],
                op[cur].phase, op[cur].candidate, app.active,
                op[cur].slot, op[cur].job, op[cur].pred)
    BY CutSet DEF TypeOK
  <1> QED
    BY <1>1, RowWritten DEF CutoverIntent

\* The record of the quiesce changes no other column.
LEMMA QuiescedWrites ==
  ASSUME TypeOK, cur \in Op, Quiesced
  PROVE  Wrote(op[cur].phase, op[cur].candidate, op[cur].cut,
               op[cur].slot, op[cur].job, op[cur].pred)
  <1>1. Holding([op[cur] EXCEPT !.quiesced = TRUE], op[cur],
                op[cur].phase, op[cur].candidate, op[cur].cut,
                op[cur].slot, op[cur].job, op[cur].pred)
    BY QuiescedSet DEF TypeOK
  <1> QED
    BY <1>1, RowWritten DEF Quiesced

\* The record of the stop changes no other column.
LEMMA CutMarkWrites ==
  ASSUME TypeOK, cur \in Op, CutMark
  PROVE  Wrote(op[cur].phase, op[cur].candidate, op[cur].cut,
               op[cur].slot, op[cur].job, op[cur].pred)
  <1>1. Holding([op[cur] EXCEPT !.stopped = TRUE], op[cur],
                op[cur].phase, op[cur].candidate, op[cur].cut,
                op[cur].slot, op[cur].job, op[cur].pred)
    BY StoppedSet DEF TypeOK
  <1> QED
    BY <1>1, RowWritten DEF CutMark

\* The environment's checkpoint moves the deploy to platform_environment.
LEMMA PrepareEnvironmentWrites ==
  ASSUME TypeOK, cur \in Op, PrepareEnvironment
  PROVE  Wrote("platform_environment", op[cur].candidate, op[cur].cut,
               op[cur].slot, op[cur].job, op[cur].pred)
  <1>1. Holding([op[cur] EXCEPT !.phase = "platform_environment"], op[cur],
                "platform_environment", op[cur].candidate, op[cur].cut,
                op[cur].slot, op[cur].job, op[cur].pred)
    BY PhaseSet DEF TypeOK, Phases
  <1> QED
    BY <1>1, RowWritten DEF PrepareEnvironment, checkpoint_operation

\* A deploy onto the worker of the accepted deployment takes its slot.
LEMMA PrepareReusedWorkerWrites ==
  ASSUME TypeOK, cur \in Op, PrepareReusedWorker, Active.slot \in Slot
  PROVE  Wrote("worker_ready", op[cur].candidate, op[cur].cut,
               Active.slot, op[cur].job, op[cur].pred)
  <1>1. Holding([op[cur] EXCEPT !.phase = "worker_ready", !.slot = Active.slot], op[cur],
                "worker_ready", op[cur].candidate, op[cur].cut,
                Active.slot, op[cur].job, op[cur].pred)
    BY PhaseSlotSet DEF TypeOK, Phases
  <1> QED
    BY <1>1, RowWritten DEF PrepareReusedWorker

\* A deploy onto a new worker takes the other slot before it is created.
LEMMA PrepareWorkerWrites ==
  ASSUME TypeOK, cur \in Op, PrepareWorker
  PROVE  Wrote("worker_creating", op[cur].candidate, op[cur].cut,
               TargetSlot, op[cur].job, op[cur].pred)
  <1>1. Holding([op[cur] EXCEPT !.phase = "worker_creating", !.slot = TargetSlot], op[cur],
                "worker_creating", op[cur].candidate, op[cur].cut,
                TargetSlot, op[cur].job, op[cur].pred)
    BY PhaseSlotSet DEF TypeOK, Phases, TargetSlot, Slot
  <1> QED
    BY <1>1, RowWritten DEF PrepareWorker

\* A worker that is ready moves the deploy to worker_ready.
LEMMA WorkerReadyWrites ==
  ASSUME TypeOK, cur \in Op, WorkerReady
  PROVE  Wrote("worker_ready", op[cur].candidate, op[cur].cut,
               op[cur].slot, op[cur].job, op[cur].pred)
  <1>1. Holding([op[cur] EXCEPT !.phase = "worker_ready"], op[cur],
                "worker_ready", op[cur].candidate, op[cur].cut,
                op[cur].slot, op[cur].job, op[cur].pred)
    BY PhaseSet DEF TypeOK, Phases
  <1> QED
    BY <1>1, RowWritten DEF WorkerReady, checkpoint_operation

\* The compensation of a failed deploy moves it to candidate_removed.
LEMMA CandidateRemovedWrites ==
  ASSUME TypeOK, cur \in Op, CandidateRemoved
  PROVE  Wrote("candidate_removed", op[cur].candidate, op[cur].cut,
               op[cur].slot, op[cur].job, op[cur].pred)
  <1>1. Holding([op[cur] EXCEPT !.phase = "candidate_removed"], op[cur],
                "candidate_removed", op[cur].candidate, op[cur].cut,
                op[cur].slot, op[cur].job, op[cur].pred)
    BY PhaseSet DEF TypeOK, Phases
  <1> QED
    BY <1>1, RowWritten DEF CandidateRemoved, checkpoint_operation

\* A healthy candidate moves the deploy to deployment_healthy, with its job and
\* its predecessor.
LEMMA DeploymentHealthyWrites ==
  ASSUME TypeOK, cur \in Op, DeploymentHealthy
  PROVE  Wrote("deployment_healthy", op[cur].candidate, op[cur].cut,
               op[cur].slot, TargetJob, app.active)
  <1>1. Holding([op[cur] EXCEPT !.phase = "deployment_healthy", !.job = TargetJob, !.pred = app.active], op[cur],
                "deployment_healthy", op[cur].candidate, op[cur].cut,
                op[cur].slot, TargetJob, app.active)
    BY PhaseJobPredSet DEF TypeOK, Phases, TargetJob, JobId
  <1> QED
    BY <1>1, RowWritten DEF DeploymentHealthy

\* The record of the predecessor's removal changes no other column.
LEMMA PredecessorJobAbsentWrites ==
  ASSUME TypeOK, cur \in Op, PredecessorJobAbsent
  PROVE  Wrote(op[cur].phase, op[cur].candidate, op[cur].cut,
               op[cur].slot, op[cur].job, op[cur].pred)
  <1>1. Holding([op[cur] EXCEPT !.predGone = TRUE], op[cur],
                op[cur].phase, op[cur].candidate, op[cur].cut,
                op[cur].slot, op[cur].job, op[cur].pred)
    BY PredGoneSet DEF TypeOK
  <1> QED
    BY <1>1, RowWritten DEF PredecessorJobAbsent

\* The end of the cleanup moves the deploy to accepted.
LEMMA AcceptedWrites ==
  ASSUME TypeOK, cur \in Op, Accepted
  PROVE  Wrote("accepted", op[cur].candidate, op[cur].cut,
               op[cur].slot, op[cur].job, op[cur].pred)
  <1>1. Holding([op[cur] EXCEPT !.phase = "accepted"], op[cur],
                "accepted", op[cur].candidate, op[cur].cut,
                op[cur].slot, op[cur].job, op[cur].pred)
    BY PhaseSet DEF TypeOK, Phases
  <1> QED
    BY <1>1, RowWritten DEF Accepted, checkpoint_operation

\* A worker that is ready moves the enable to worker_ready.
LEMMA EnableReadyWrites ==
  ASSUME TypeOK, cur \in Op, EnableReady
  PROVE  Wrote("worker_ready", op[cur].candidate, op[cur].cut,
               op[cur].slot, op[cur].job, op[cur].pred)
  <1>1. Holding([op[cur] EXCEPT !.phase = "worker_ready"], op[cur],
                "worker_ready", op[cur].candidate, op[cur].cut,
                op[cur].slot, op[cur].job, op[cur].pred)
    BY PhaseSet DEF TypeOK, Phases
  <1> QED
    BY <1>1, RowWritten DEF EnableReady, checkpoint_operation

\* A healthy deployment moves the enable to deployment_healthy.
LEMMA EnableHealthyWrites ==
  ASSUME TypeOK, cur \in Op, EnableHealthy
  PROVE  Wrote("deployment_healthy", op[cur].candidate, op[cur].cut,
               op[cur].slot, op[cur].job, op[cur].pred)
  <1>1. Holding([op[cur] EXCEPT !.phase = "deployment_healthy"], op[cur],
                "deployment_healthy", op[cur].candidate, op[cur].cut,
                op[cur].slot, op[cur].job, op[cur].pred)
    BY PhaseSet DEF TypeOK, Phases
  <1> QED
    BY <1>1, RowWritten DEF EnableHealthy, checkpoint_operation

\* A restart is recorded as requested before it is called.
LEMMA RestartRequestedWrites ==
  ASSUME TypeOK, cur \in Op, RestartRequested
  PROVE  Wrote("restart_requested", op[cur].candidate, op[cur].cut,
               op[cur].slot, op[cur].job, op[cur].pred)
  <1>1. Holding([op[cur] EXCEPT !.phase = "restart_requested"], op[cur],
                "restart_requested", op[cur].candidate, op[cur].cut,
                op[cur].slot, op[cur].job, op[cur].pred)
    BY PhaseSet DEF TypeOK, Phases
  <1> QED
    BY <1>1, RowWritten DEF RestartRequested, checkpoint_operation

\* The handover changes at most the phase of the row.
LEMMA HandoverDoneWrites ==
  ASSUME TypeOK, cur \in Op, HandoverDone
  PROVE  \E phase : Wrote(phase, op[cur].candidate, op[cur].cut, op[cur].slot,
                          op[cur].job, op[cur].pred)
  <1> DEFINE phase == IF op[cur].phase = "deployment_healthy" THEN "predecessor_cleanup"
                                                              ELSE op[cur].phase
  <1>1. op[cur] \in Rows /\ phase \in Phases
    BY DEF TypeOK, Rows, Phases
  <1> HIDE DEF phase
  <1>2. Holding([op[cur] EXCEPT !.phase = phase], op[cur],
                phase, op[cur].candidate, op[cur].cut, op[cur].slot, op[cur].job, op[cur].pred)
    BY <1>1, PhaseSet
  <1>3. Journal([op[cur] EXCEPT !.phase = phase])
    BY DEF HandoverDone, checkpoint_operation, phase
  <1> QED
    BY <1>2, <1>3, RowWritten

\* The three ways through the build label.
BuildRetained ==
    /\ pc' = AfterBuild(cur) /\ KindOf[cur] = "rollback"
    /\ Wrote("image_pushed", attempt[op[cur].target].image, op[cur].cut, op[cur].slot,
             op[cur].job, op[cur].pred)
BuildKept ==
    /\ pc' = AfterBuild(cur) /\ op[cur].candidate # NoImage
    /\ Wrote(op[cur].phase, op[cur].candidate, op[cur].cut, op[cur].slot, op[cur].job,
             op[cur].pred)
BuildBegins ==
    /\ pc' = "building" /\ KindOf[cur] # "rollback" /\ op[cur].candidate = NoImage
    /\ Wrote("builder_creating", op[cur].candidate, op[cur].cut, op[cur].slot, op[cur].job,
             op[cur].pred)

\* The build label takes over a retained image, keeps the recorded one or begins
\* to build.
LEMMA PrepareBuildWrites ==
  ASSUME TypeOK, cur \in Op, PrepareBuild,
         KindOf[cur] = "rollback" => op[cur].target \in Op
  PROVE  BuildRetained \/ BuildKept \/ BuildBegins
  <1> DEFINE direct == op[cur].direct \/ (ReusesWorker(cur) /\ op[cur].phase = "validated"
                                            /\ app.desired)
  <1>1. op[cur] \in Rows /\ direct \in BOOLEAN
    BY DEF TypeOK, Rows, ReusesWorker
  <1>2. CASE /\ Step("build", AfterBuild(cur))
             /\ KindOf[cur] = "rollback"
             /\ Journal([op[cur] EXCEPT !.direct = direct, !.phase = "image_pushed",
                                        !.candidate = attempt[op[cur].target].image])
    <2>1. attempt[op[cur].target].image \in Image \cup {NoImage} /\ "image_pushed" \in Phases
      BY <1>2 DEF TypeOK, Attempts, Phases
    <2> HIDE DEF direct
    <2>2. Holding([op[cur] EXCEPT !.direct = direct, !.phase = "image_pushed",
                                  !.candidate = attempt[op[cur].target].image], op[cur],
                  "image_pushed", attempt[op[cur].target].image, op[cur].cut,
                  op[cur].slot, op[cur].job, op[cur].pred)
      BY <1>1, <2>1, DirectPhaseCandidateSet
    <2> QED
      BY <1>2, <2>2, RowWritten DEF BuildRetained, Step
  <1>3. CASE /\ Step("build", AfterBuild(cur))
             /\ KindOf[cur] # "rollback" /\ op[cur].candidate # NoImage
             /\ Journal([op[cur] EXCEPT !.direct = direct])
    <2> HIDE DEF direct
    <2>2. Holding([op[cur] EXCEPT !.direct = direct], op[cur],
                  op[cur].phase, op[cur].candidate, op[cur].cut,
                  op[cur].slot, op[cur].job, op[cur].pred)
      BY <1>1, DirectSet
    <2> QED
      BY <1>3, <2>2, RowWritten DEF BuildKept, Step
  <1>4. CASE /\ Step("build", "building")
             /\ KindOf[cur] # "rollback" /\ op[cur].candidate = NoImage
             /\ Journal([op[cur] EXCEPT !.direct = direct, !.phase = "builder_creating"])
    <2> HIDE DEF direct
    <2>2. Holding([op[cur] EXCEPT !.direct = direct, !.phase = "builder_creating"], op[cur],
                  "builder_creating", op[cur].candidate, op[cur].cut,
                  op[cur].slot, op[cur].job, op[cur].pred)
      BY <1>1, DirectPhaseSet DEF Phases
    <2> QED
      BY <1>4, <2>2, RowWritten DEF BuildBegins, Step
  <1> QED
    BY <1>2, <1>3, <1>4 DEF PrepareBuild

-----------------------------------------------------------------------------
(* How a request begins and is resumed, and how an operation ends.         *)

Opened(o, label) ==
    /\ pc = "idle" /\ pc' = label /\ cur' = o
    /\ op[o].status = "none" /\ Unfinished = {} /\ check_finishing_admission(KindOf[o])
    /\ op' \in [Op -> Rows]
    /\ \A p \in Op \ {o} : op'[p] = op[p]
    /\ op'[o].status = "open" /\ op'[o].finishing = FALSE
    /\ op'[o].phase = "validated" /\ op'[o].candidate = NoImage /\ op'[o].cut = NoOp
    /\ op'[o].direct = FALSE /\ op'[o].predGone = FALSE
    /\ KindOf[o] = "rollback" => op'[o].target \in Op
    /\ UNCHANGED <<attempt, app, res, accepted, cloud, restarts, interrupts>>

Resumed(o, label) ==
    /\ pc = "idle" /\ pc' = label /\ cur' = o
    /\ UNCHANGED <<op, attempt, app, res, accepted, cloud, restarts, interrupts>>

Closed(o) ==
    /\ op' \in [Op -> Rows]
    /\ \A p \in Op \ {o} : op'[p] = op[p]
    /\ op'[o].status \in {"succeeded", "failed"}
    /\ op'[o].finishing = op[o].finishing
    /\ op'[o].phase = op[o].phase /\ op'[o].candidate = op[o].candidate

\* The row a request begins with.
LEMMA NewRow ==
  ASSUME NEW s \in Slot \cup {"none"}, NEW t \in Op \cup {NoOp}
  PROVE  /\ [NoRow EXCEPT !.status = "open", !.server = s] \in Rows
         /\ [NoRow EXCEPT !.status = "open", !.target = t] \in Rows
         /\ [NoRow EXCEPT !.status = "open"] \in Rows
  BY DEF Rows, NoRow, Phases

\* An admitted request opens its row, validated and empty, and runs its body.
LEMMA BeginOpens ==
  ASSUME TypeOK, NEW o \in Op, NEW label, NEW row \in Rows, Begin(o, label, row), MayBegin(o),
         row.status = "open", row.finishing = FALSE, row.phase = "validated",
         row.candidate = NoImage, row.cut = NoOp, row.direct = FALSE, row.predGone = FALSE,
         KindOf[o] = "rollback" => row.target \in Op
  PROVE  Opened(o, label)
  <1>1. op' = [op EXCEPT ![o] = row] /\ op \in [Op -> Rows]
    BY DEF Begin, TypeOK
  <1>2. op' \in [Op -> Rows] /\ op'[o] = row /\ \A p \in Op \ {o} : op'[p] = op[p]
    BY <1>1
  <1> QED
    BY <1>2 DEF Opened, Begin, MayBegin

\* A deploy, redeploy or rollback opens its row and creates its attempt first.
LEMMA BeginDeployOpens ==
  ASSUME TypeOK, NEW o \in Op, BeginDeploy(o)
  PROVE  Opened(o, "attempt")
  <1>1. PICK target \in Op \cup {NoOp} :
           /\ KindOf[o] = "rollback" => target \in Op
           /\ Begin(o, "attempt", [NoRow EXCEPT !.status = "open", !.target = target])
    BY DEF BeginDeploy
  <1> DEFINE row == [NoRow EXCEPT !.status = "open", !.target = target]
  <1>2. /\ row.status = "open" /\ row.finishing = FALSE /\ row.phase = "validated"
        /\ row.candidate = NoImage /\ row.cut = NoOp /\ row.target = target
        /\ row.direct = FALSE /\ row.predGone = FALSE
    BY DEF NoRow
  <1>3. row \in Rows
    BY NewRow DEF Slot
  <1>4. MayBegin(o)
    BY DEF BeginDeploy
  <1> QED
    BY <1>1, <1>2, <1>3, <1>4, BeginOpens

\* A disable, enable, restart or delete opens its row at its body's first label.
LEMMA BeginOtherOpens ==
  ASSUME TypeOK, NEW o \in Op
  PROVE  /\ BeginDisable(o) => Opened(o, "disJob")
         /\ BeginEnable(o) => Opened(o, "eWorker")
         /\ BeginRestart(o) => Opened(o, "rReq")
         /\ BeginDelete(o) => Opened(o, "dStop")
  <1> DEFINE row == [NoRow EXCEPT !.status = "open"]
             named == [NoRow EXCEPT !.status = "open", !.server = app.worker]
  <1>1. row \in Rows /\ named \in Rows
    BY NewRow DEF TypeOK
  <1>2. /\ row.status = "open" /\ row.finishing = FALSE /\ row.phase = "validated"
        /\ row.candidate = NoImage /\ row.cut = NoOp
        /\ row.direct = FALSE /\ row.predGone = FALSE
        /\ named.status = "open" /\ named.finishing = FALSE /\ named.phase = "validated"
        /\ named.candidate = NoImage /\ named.cut = NoOp
        /\ named.direct = FALSE /\ named.predGone = FALSE
    BY DEF NoRow
  <1> HIDE DEF row, named
  <1>3. BeginDisable(o) => /\ Begin(o, "disJob", named) /\ MayBegin(o)
                           /\ KindOf[o] # "rollback"
    BY DEF BeginDisable, named
  <1>4. /\ BeginEnable(o) => /\ Begin(o, "eWorker", row) /\ MayBegin(o)
                             /\ KindOf[o] # "rollback"
        /\ BeginRestart(o) => /\ Begin(o, "rReq", row) /\ MayBegin(o)
                              /\ KindOf[o] # "rollback"
        /\ BeginDelete(o) => /\ Begin(o, "dStop", row) /\ MayBegin(o)
                             /\ KindOf[o] # "rollback"
    BY DEF BeginEnable, BeginRestart, BeginDelete, row
  <1> QED
    BY <1>1, <1>2, <1>3, <1>4, BeginOpens

\* A replay takes up the row as it is.
LEMMA ReplayResumes ==
  ASSUME TypeOK, NEW o \in Op
  PROVE  /\ ReplayDisable(o) => Resumed(o, "disJob")
         /\ ReplayEnable(o) => Resumed(o, "eWorker")
         /\ ReplayDelete(o) => Resumed(o, "dStop")
         /\ FinishAgain(o) => Resumed(o, "finish")
         /\ ReplayRestart(o) /\ op[o].phase # "restart_requested" => Resumed(o, "rReq")
  <1>1. [op EXCEPT ![o] = op[o]] = op
    BY DEF TypeOK
  <1> QED
    BY <1>1 DEF ReplayDisable, ReplayEnable, ReplayDelete, FinishAgain, ReplayRestart, Begin,
       Resumed

\* Writing a terminal status closes the row and keeps its other columns.
LEMMA StatusSet ==
  ASSUME TypeOK, NEW o \in Op, NEW s \in {"succeeded", "failed"},
         op' = [op EXCEPT ![o] = [op[o] EXCEPT !.status = s]]
  PROVE  Closed(o)
  <1>1. op[o] \in Rows /\ op \in [Op -> Rows]
    BY DEF TypeOK
  <1>2. /\ [op[o] EXCEPT !.status = s] \in Rows
        /\ [op[o] EXCEPT !.status = s].status = s
        /\ [op[o] EXCEPT !.status = s].finishing = op[o].finishing
        /\ [op[o] EXCEPT !.status = s].phase = op[o].phase
        /\ [op[o] EXCEPT !.status = s].candidate = op[o].candidate
    BY SMTT(30), <1>1 DEF Rows
  <1>3. op' \in [Op -> Rows] /\ op'[o] = [op[o] EXCEPT !.status = s]
        /\ \A p \in Op \ {o} : op'[p] = op[p]
    BY <1>1, <1>2
  <1> QED
    BY <1>2, <1>3 DEF Closed

\* Every end of an operation closes the row of the running operation.
LEMMA EndStepCloses ==
  ASSUME TypeOK, EndSteps
  PROVE  cur \in Op /\ Closed(cur)
  <1>1. cur \in Op
    BY DEF TypeOK, EndSteps, CreateAttemptRefused, RejectOp, FailOp, Succeed, DisableDone,
       RestartDone, RestartFails, complete_application_deletion, Step
  <1>2. PICK s \in {"succeeded", "failed"} : op' = [op EXCEPT ![cur] = [op[cur] EXCEPT !.status = s]]
    BY DEF EndSteps, CreateAttemptRefused, RejectOp, FailOp, Succeed, DisableDone,
       RestartDone, RestartFails, complete_application_deletion, mark, Journal
  <1> QED
    BY <1>1, <1>2, StatusSet

(* Exclusion.                                                              *)

\* A worker is reused only beside an accepted deployment, which has a slot.
LEMMA ReusedSlot ==
  ASSUME ActiveInv, PrepareReusedWorker
  PROVE  Active.slot \in Slot
  BY DEF PrepareReusedWorker, Step, Holds, ReusedWorkerReady, ActiveInv

\* A transaction of a deploy is within its forward body.
LEMMA RowStepsInBody ==
  ASSUME TypeOK, RowSteps
  PROVE  cur \in Op /\ pc \in ForwardLabels /\ pc' \in ForwardLabels /\ cur' = cur
  <1>1. CASE PrepareBuild \/ PlatformBusy \/ BuildRejected \/ ImagePushed
    BY <1>1 DEF PrepareBuild, PlatformBusy, BuildRejected, ImagePushed, Step, AfterBuild,
       AfterCutover, ForwardLabels, DeployLabels, BuildLabels, PastCutover, TypeOK
  <1>2. CASE CutoverIntent \/ Quiesced \/ CutMark
    BY <1>2 DEF CutoverIntent, Quiesced, CutMark, Step, CutoverLabel, ForwardLabels,
       DeployLabels, CutLabels, TypeOK
  <1>3. CASE \/ PrepareEnvironment \/ PrepareReusedWorker \/ PrepareWorker \/ WorkerReady
             \/ CandidateRemoved \/ DeploymentHealthy
    BY <1>3 DEF PrepareEnvironment, PrepareReusedWorker, PrepareWorker, WorkerReady,
       CandidateRemoved, DeploymentHealthy, Step, ForwardLabels, DeployLabels, PastCutover,
       CandidateLabels, TypeOK
  <1> QED
    BY <1>1, <1>2, <1>3 DEF RowSteps

\* A transaction of a deploy changes neither a status nor a finishing flag.
LEMMA RowStepsLanes ==
  ASSUME TypeOK, TargetInv, ExclusionInv, ActiveInv, RowSteps
  PROVE  LanesSame
  <1>1. cur \in Op /\ Open(cur)
    BY RowStepsInBody DEF ExclusionInv, ForwardLabels
  <1>2. KindOf[cur] = "rollback" => op[cur].target \in Op
    BY <1>1 DEF TargetInv
  <1>3. CASE PrepareBuild
    BY <1>1, <1>2, <1>3, PrepareBuildWrites DEF Wrote, BuildRetained, BuildKept, BuildBegins
  <1>4. CASE PrepareReusedWorker
    BY <1>1, <1>4, PrepareReusedWorkerWrites, ReusedSlot DEF Wrote
  <1>5. CASE PlatformBusy \/ BuildRejected \/ ImagePushed \/ CutoverIntent \/ Quiesced \/ CutMark
    BY <1>1, <1>5, PlatformBusyWrites, BuildRejectedWrites, ImagePushedWrites,
       CutoverIntentWrites, QuiescedWrites, CutMarkWrites DEF Wrote
  <1>6. CASE \/ PrepareEnvironment \/ PrepareWorker \/ WorkerReady
             \/ CandidateRemoved \/ DeploymentHealthy
    BY <1>1, <1>6, PrepareEnvironmentWrites, PrepareWorkerWrites, WorkerReadyWrites,
       CandidateRemovedWrites, DeploymentHealthyWrites DEF Wrote
  <1> QED
    BY <1>3, <1>4, <1>5, <1>6 DEF RowSteps

\* Steps that do not write the operations table.
LEMMA DeployStepsContinue ==
  ASSUME TypeOK, CallSteps \/ ReadSteps \/ AttemptSteps \/ CutOff
  PROVE  Continues /\ LanesSame /\ pc' \in ForwardLabels \cup {"idle"}
  <1>1. CASE CallSteps
    <2>1. UNCHANGED op
      BY <1>1 DEF CallSteps, BuildSucceeds, Quiesce, CutJob, CutWorker, CreateWorker, SubmitJob,
         PromoteCandidate, DropStop, DropJob, DropWorker, DropImage, Helper
    <2>2. pc \in ForwardLabels /\ pc' \in ForwardLabels /\ cur' = cur
      <3>1. CASE BuildSucceeds \/ Quiesce \/ CutJob \/ CutWorker \/ CreateWorker
        BY <3>1 DEF BuildSucceeds, Quiesce, CutJob, CutWorker, CreateWorker, Step,
           ForwardLabels, DeployLabels, BuildLabels, CutLabels, PastCutover, CandidateLabels
      <3>2. CASE \/ SubmitJob \/ PromoteCandidate \/ DropStop \/ DropJob \/ DropWorker
                 \/ DropImage
        BY <3>2 DEF SubmitJob, PromoteCandidate, DropStop, DropJob, DropWorker, DropImage, Step,
           ForwardLabels, DeployLabels, PastCutover, CandidateLabels
      <3> QED
        BY <1>1, <3>1, <3>2 DEF CallSteps
    <2> QED
      BY <2>1, <2>2 DEF Continues, LanesSame
  <1>2. CASE ReadSteps
    <2>1. UNCHANGED op
      BY <1>2 DEF ReadSteps, CleanRejected, CutoverSkipped, ObserveHealthy, ObservePublic,
         CandidateUnhealthy, Quiet
    <2>2. pc \in ForwardLabels /\ pc' \in ForwardLabels /\ cur' = cur
      BY <1>2 DEF ReadSteps, CleanRejected, CutoverSkipped, ObserveHealthy, ObservePublic,
         CandidateUnhealthy, Step, AfterCutover, ForwardLabels, DeployLabels, BuildLabels,
         PastCutover, CandidateLabels
    <2> QED
      BY <2>1, <2>2 DEF Continues, LanesSame
  <1>3. CASE AttemptSteps \/ CutOff
    <2>1. UNCHANGED op
      BY <1>3 DEF AttemptSteps, CreateAttempt, RejectAttempt, FailAttempt, CutOff,
         checkpoint_deployment_attempt, set_application_runtime
    <2>2. pc' = "idle" \/ (pc \in ForwardLabels /\ pc' \in ForwardLabels /\ cur' = cur)
      BY <1>3 DEF AttemptSteps, CreateAttempt, RejectAttempt, FailAttempt, CutOff, Step,
         AfterCutover, ForwardLabels, DeployLabels, BuildLabels, CutLabels, PastCutover
    <2> QED
      BY <2>1, <2>2 DEF Continues, LanesSame
  <1> QED
    BY <1>1, <1>2, <1>3

\* Finishing goes on with the same operation and leaves the lanes as they are.
LEMMA FinishStepsContinue ==
  ASSUME TypeOK, FinishSteps
  PROVE  Continues /\ LanesSame /\ cur \in Op /\ pc' \in FinishLabels
  <1>1. cur \in Op /\ pc \in FinishLabels /\ pc' \in FinishLabels /\ cur' = cur
    BY DEF FinishSteps, HandoverDone, RemovePredecessorJob, PredecessorJobAbsent,
       RemovePredecessorWorker, Accepted, RetainImages, Step, FinishLabel, FinishLabels, TypeOK
  <1>2. CASE HandoverDone \/ PredecessorJobAbsent \/ Accepted
    BY <1>1, <1>2, HandoverDoneWrites, PredecessorJobAbsentWrites, AcceptedWrites
       DEF Wrote, Continues
  <1>3. CASE RemovePredecessorJob \/ RemovePredecessorWorker \/ RetainImages
    BY <1>1, <1>3 DEF RemovePredecessorJob, RemovePredecessorWorker, RetainImages, Helper,
       LanesSame, Continues
  <1> QED
    BY <1>1, <1>2, <1>3 DEF FinishSteps

\* The other bodies go on with their operation and leave the lanes as they are.
LEMMA OtherStepsContinue ==
  ASSUME TypeOK, DisableSteps \/ EnableSteps \/ RestartSteps \/ DeleteSteps
  PROVE  Continues /\ LanesSame
  <1>1. CASE DisableSteps
    BY <1>1 DEF DisableSteps, DisableJob, DisableWorker, DisableOff, Step, Helper,
       set_application_runtime, DisableLabels, Continues, LanesSame
  <1>2. CASE EnableSteps
    <2>1. cur \in Op /\ (\/ pc' = "idle"
                         \/ pc \in EnableLabels /\ pc' \in EnableLabels /\ cur' = cur)
      BY <1>2 DEF EnableSteps, EnableWorker, EnableReady, EnableJob, EnableHealthy,
         EnableUnhealthy, EnableDropJob, Step, EnableLabels, TypeOK
    <2>2. CASE EnableReady \/ EnableHealthy
      BY <2>1, <2>2, EnableReadyWrites, EnableHealthyWrites DEF Wrote, Continues
    <2>3. CASE EnableWorker \/ EnableJob \/ EnableUnhealthy \/ EnableDropJob
      BY <2>1, <2>3 DEF EnableWorker, EnableJob, EnableUnhealthy, EnableDropJob, Helper, Quiet,
         LanesSame, Continues
    <2> QED
      BY <1>2, <2>2, <2>3 DEF EnableSteps
  <1>3. CASE RestartSteps
    <2>1. cur \in Op /\ pc \in RestartLabels /\ pc' \in RestartLabels /\ cur' = cur
      BY <1>3 DEF RestartSteps, RestartRequested, RestartTask, Step, RestartLabels, TypeOK
    <2>2. LanesSame
      BY <1>3, <2>1, RestartRequestedWrites DEF RestartSteps, RestartTask, Wrote, LanesSame
    <2> QED
      BY <2>1, <2>2 DEF Continues
  <1>4. CASE DeleteSteps
    BY <1>4 DEF DeleteSteps, DeleteStop, DeleteResource, DeletePurge, DeleteForget,
       DeleteRuntime, DeleteWorkers, DeleteOff, DeleteImage, Step, Helper, SetResource,
       set_application_runtime, DeleteLabels, Continues, LanesSame
  <1> QED
    BY <1>1, <1>2, <1>3, <1>4

\* Exclusion survives the end of an operation.
LEMMA ExclusionClosed ==
  ASSUME TypeOK, ExclusionInv, NEW o \in Op, Closed(o),
         \/ pc' = "idle"
         \/ pc' = "failAttempt" /\ cur' = o /\ IsDeploy(o) /\ ~op[o].finishing
  PROVE  ExclusionInv'
  <1>1. Unfinished' = Unfinished \ {o} /\ Finishing' = Finishing \ {o}
    BY DEF Closed, Unfinished, Finishing, Open
  <1>2. \A p \in Op : op'[p].finishing => op[p].finishing /\ op'[p].status # "none"
    BY DEF Closed, ExclusionInv
  <1>3. pc' \in {"idle", "failAttempt"} /\ (pc' # "idle" => pc' \in DeployLabels)
    BY DEF DeployLabels
  <1>4. /\ pc' \notin ForwardLabels \cup FinishLabels \cup DisableLabels \cup EnableLabels
                       \cup RestartLabels \cup DeleteLabels
    BY <1>3, LabelGroups DEF ForwardLabels
  <1>5. pc' \in DeployLabels => IsDeploy(cur)' /\ ~op'[cur'].finishing
    BY <1>3, LabelGroups DEF Closed, IsDeploy
  <1> QED
    BY <1>1, <1>2, <1>4, <1>5 DEF ExclusionInv, ForwardLabels, IsDeploy

\* The body that a request of the kind runs.
RunsFrom(o, label) ==
    \/ IsDeploy(o) /\ label \in ForwardLabels
    \/ KindOf[o] = "disable" /\ label \in DisableLabels
    \/ KindOf[o] = "enable" /\ label \in EnableLabels
    \/ KindOf[o] = "restart" /\ label \in RestartLabels
    \/ KindOf[o] = "delete" /\ label \in DeleteLabels

\* Exclusion holds when the one unfinished operation runs its own body.
LEMMA ExclusionPlaced ==
  ASSUME RunsFrom(cur, pc)', cur' \in Unfinished',
         \A o, p \in Unfinished' : o = p,
         \A o \in Unfinished' :
             IsDeploy(o) \/ KindOf[o] \in {"enable", "delete"} => Finishing' = {},
         \A o \in Op : op'[o].finishing => /\ IsDeploy(o) \/ KindOf[o] = "enable"
                                           /\ op'[o].status # "none"
  PROVE  ExclusionInv'
  <1>1. Open(cur)' /\ ~op'[cur'].finishing
    BY DEF Unfinished
  <1>2. CASE IsDeploy(cur)' /\ pc' \in ForwardLabels
    BY <1>1, <1>2, LabelGroups DEF ExclusionInv, IsDeploy
  <1>3. CASE pc' \notin ForwardLabels /\ RunsFrom(cur, pc)'
    <2>1. pc' \notin DeployLabels \cup FinishLabels
      BY <1>3, LabelGroups DEF RunsFrom
    <2>2. /\ pc' \in DisableLabels => KindOf[cur'] = "disable"
          /\ pc' \in EnableLabels => KindOf[cur'] = "enable"
          /\ pc' \in RestartLabels => KindOf[cur'] = "restart"
          /\ pc' \in DeleteLabels => KindOf[cur'] = "delete"
      BY <1>3, LabelGroups DEF RunsFrom
    <2> QED
      BY <2>1, <2>2 DEF ExclusionInv, ForwardLabels, IsDeploy
  <1> QED
    BY <1>2, <1>3, LabelGroups DEF RunsFrom

\* Exclusion survives the begin of an operation that was admitted.
LEMMA ExclusionOpened ==
  ASSUME TypeOK, ExclusionInv, NEW o \in Op, NEW label, Opened(o, label), RunsFrom(o, label),
         IsDeploy(o) \/ KindOf[o] \in {"enable", "delete"} => Finishing = {}
  PROVE  ExclusionInv'
  <1>1. Unfinished' = {o}
    BY DEF Opened, Unfinished, Open
  <1>2. Finishing' = Finishing
    BY DEF Opened, Finishing, Open
  <1>3. \A p \in Op : op'[p].finishing => p # o /\ op[p].finishing /\ op'[p].status # "none"
    BY DEF Opened, ExclusionInv
  <1>4. RunsFrom(cur, pc)' /\ cur' = o
    BY DEF Opened, RunsFrom, IsDeploy
  <1> QED
    BY <1>1, <1>2, <1>3, <1>4, ExclusionPlaced DEF ExclusionInv

\* Exclusion survives the replay of the unfinished operation.
LEMMA ExclusionResumed ==
  ASSUME TypeOK, ExclusionInv, NEW o \in Unfinished, LanesSame, cur' = o, RunsFrom(o, pc')
  PROVE  ExclusionInv'
  <1>1. Unfinished' = Unfinished /\ Finishing' = Finishing
    BY DEF LanesSame, Unfinished, Finishing, Open
  <1>2. RunsFrom(cur, pc)'
    BY DEF RunsFrom, IsDeploy
  <1>3. \A p \in Op : op'[p].finishing = op[p].finishing /\ op'[p].status = op[p].status
    BY DEF LanesSame
  <1> QED
    BY <1>1, <1>2, <1>3, ExclusionPlaced DEF ExclusionInv

\* An acceptance: the operation is finishing from now on.
LEMMA FinishingSet ==
  ASSUME TypeOK, cur \in Op, op' = [op EXCEPT ![cur] = [op[cur] EXCEPT !.finishing = TRUE]]
  PROVE  /\ op' \in [Op -> Rows]
         /\ \A p \in Op \ {cur} : op'[p] = op[p]
         /\ op'[cur].finishing = TRUE /\ op'[cur].status = op[cur].status
         /\ op'[cur].target = op[cur].target /\ op'[cur].phase = op[cur].phase
         /\ op'[cur].pred = op[cur].pred /\ op'[cur].predGone = op[cur].predGone
         /\ op'[cur].candidate = op[cur].candidate
  <1>1. op[cur] \in Rows /\ op \in [Op -> Rows]
    BY DEF TypeOK
  <1>2. /\ [op[cur] EXCEPT !.finishing = TRUE] \in Rows
        /\ [op[cur] EXCEPT !.finishing = TRUE].finishing = TRUE
        /\ [op[cur] EXCEPT !.finishing = TRUE].status = op[cur].status
        /\ [op[cur] EXCEPT !.finishing = TRUE].target = op[cur].target
        /\ [op[cur] EXCEPT !.finishing = TRUE].phase = op[cur].phase
        /\ [op[cur] EXCEPT !.finishing = TRUE].pred = op[cur].pred
        /\ [op[cur] EXCEPT !.finishing = TRUE].predGone = op[cur].predGone
        /\ [op[cur] EXCEPT !.finishing = TRUE].candidate = op[cur].candidate
    BY <1>1 DEF Rows
  <1>3. /\ op' \in [Op -> Rows] /\ op'[cur] = [op[cur] EXCEPT !.finishing = TRUE]
        /\ \A p \in Op \ {cur} : op'[p] = op[p]
    BY <1>1, <1>2
  <1> QED
    BY <1>2, <1>3

\* An acceptance marks the running deploy or enable as finishing.
LEMMA AcceptStepFinishes ==
  ASSUME TypeOK, ExclusionInv, AcceptDeployment \/ EnableAccept
  PROVE  /\ cur \in Unfinished /\ (IsDeploy(cur) \/ KindOf[cur] = "enable")
         /\ op' = [op EXCEPT ![cur] = [op[cur] EXCEPT !.finishing = TRUE]]
         /\ pc' = "finish" /\ cur' = cur
  <1>1. op' = [op EXCEPT ![cur] = [op[cur] EXCEPT !.finishing = TRUE]]
    BY DEF AcceptDeployment, EnableAccept
  <1>2. /\ pc \in {"accept", "eAccept"} /\ pc' = "finish" /\ cur' = cur /\ cur \in Op
    BY DEF AcceptDeployment, EnableAccept, Step, TypeOK
  <1>3. "accept" \in ForwardLabels /\ "accept" \in DeployLabels /\ "eAccept" \in EnableLabels
    BY DEF ForwardLabels, DeployLabels, PastCutover, CandidateLabels, EnableLabels
  <1> QED
    BY <1>1, <1>2, <1>3 DEF ExclusionInv, ForwardLabels, Unfinished

\* After an acceptance nothing is unfinished.
LEMMA AcceptLanes ==
  ASSUME TypeOK, ExclusionInv, AcceptDeployment \/ EnableAccept
  PROVE  Unfinished' = {} /\ cur \in Finishing'
  <1>1. /\ op' \in [Op -> Rows] /\ op'[cur].finishing = TRUE /\ op'[cur].status = op[cur].status
        /\ \A p \in Op \ {cur} : op'[p] = op[p]
    BY AcceptStepFinishes, FinishingSet DEF Unfinished
  <1>2. cur \in Unfinished /\ \A p \in Unfinished : p = cur
    BY AcceptStepFinishes DEF ExclusionInv
  <1> QED
    BY <1>1, <1>2 DEF Unfinished, Finishing, Open

\* Exclusion survives an acceptance.
LEMMA ExclusionAccepted ==
  ASSUME TypeOK, ExclusionInv, AcceptDeployment \/ EnableAccept
  PROVE  ExclusionInv'
  <1>1. /\ op'[cur].finishing = TRUE /\ op'[cur].status = op[cur].status
        /\ \A p \in Op \ {cur} : op'[p] = op[p]
    BY AcceptStepFinishes, FinishingSet DEF Unfinished
  <1>2. /\ cur \in Op /\ op[cur].status = "open" /\ (IsDeploy(cur) \/ KindOf[cur] = "enable")
        /\ pc' = "finish" /\ cur' = cur
    BY AcceptStepFinishes DEF Unfinished, Open
  <1>3. pc' \in FinishLabels
    BY <1>2 DEF FinishLabels
  <1>4. pc' \notin DeployLabels \cup DisableLabels \cup EnableLabels \cup RestartLabels
                   \cup DeleteLabels
    BY <1>3, LabelGroups
  <1>5. \A o \in Op : op'[o].finishing => /\ IsDeploy(o) \/ KindOf[o] = "enable"
                                          /\ op'[o].status # "none"
    BY <1>1, <1>2 DEF ExclusionInv
  <1> QED
    BY <1>2, <1>4, <1>5, AcceptLanes DEF ExclusionInv, IsDeploy

\* What a request finds when it is admitted.
LEMMA Admission ==
  ASSUME NEW o \in Op, check_finishing_admission(KindOf[o]),
         \/ IsDeploy(o) \/ KindOf[o] = "delete"
         \/ KindOf[o] = "enable" /\ ~app.desired
  PROVE  Finishing = {}
  BY DEF check_finishing_admission, IsDeploy, DeployKinds

\* A request opens its row at a label of its own body, and is admitted beside
\* what finishes.
LEMMA RequestRuns ==
  ASSUME TypeOK, NEW o \in Op, Request(o)
  PROVE  \E label : /\ Opened(o, label) /\ RunsFrom(o, label)
                    /\ IsDeploy(o) \/ KindOf[o] \in {"enable", "delete"} => Finishing = {}
  <1>1. /\ "attempt" \in ForwardLabels /\ "disJob" \in DisableLabels
        /\ "eWorker" \in EnableLabels /\ "rReq" \in RestartLabels /\ "dStop" \in DeleteLabels
    BY DEF ForwardLabels, DeployLabels, DisableLabels, EnableLabels, RestartLabels, DeleteLabels
  <1>2. CASE BeginDeploy(o)
    <2>1. IsDeploy(o) /\ check_finishing_admission(KindOf[o])
      BY <1>2 DEF BeginDeploy, MayBegin
    <2> QED
      BY <1>1, <1>2, <2>1, Admission, BeginDeployOpens DEF RunsFrom
  <1>3. CASE BeginDisable(o)
    <2>1. KindOf[o] = "disable"
      BY <1>3 DEF BeginDisable
    <2> QED
      BY <1>1, <1>3, <2>1, BeginOtherOpens DEF RunsFrom, IsDeploy, DeployKinds
  <1>4. CASE BeginEnable(o)
    <2>1. KindOf[o] = "enable" /\ ~app.desired /\ check_finishing_admission(KindOf[o])
      BY <1>4 DEF BeginEnable, MayBegin
    <2> QED
      BY <1>1, <1>4, <2>1, Admission, BeginOtherOpens DEF RunsFrom
  <1>5. CASE BeginRestart(o)
    <2>1. KindOf[o] = "restart"
      BY <1>5 DEF BeginRestart
    <2> QED
      BY <1>1, <1>5, <2>1, BeginOtherOpens DEF RunsFrom, IsDeploy, DeployKinds
  <1>6. CASE BeginDelete(o)
    <2>1. KindOf[o] = "delete" /\ check_finishing_admission(KindOf[o])
      BY <1>6 DEF BeginDelete, MayBegin
    <2> QED
      BY <1>1, <1>6, <2>1, Admission, BeginOtherOpens DEF RunsFrom
  <1> QED
    BY <1>2, <1>3, <1>4, <1>5, <1>6 DEF Request

\* The replay of a deploy sets its phase back to where it can be resumed, and
\* keeps its other columns.
LEMMA ReplayDeployWrites ==
  ASSUME TypeOK, NEW o \in Op, ReplayDeploy(o)
  PROVE  /\ op' \in [Op -> Rows]
         /\ \A p \in Op \ {o} : op'[p] = op[p]
         /\ Holding(op'[o], op[o], RecoveryPhase(op[o].phase), op[o].candidate, op[o].cut,
                    op[o].slot, op[o].job, op[o].pred)
         /\ op'[o].direct = op[o].direct /\ op'[o].predGone = op[o].predGone
  <1> DEFINE phase == RecoveryPhase(op[o].phase)
  <1>1. op[o] \in Rows /\ op \in [Op -> Rows] /\ phase \in Phases
    BY DEF TypeOK, Rows, RecoveryPhase, Phases
  <1>2. op' = [op EXCEPT ![o] = [op[o] EXCEPT !.phase = phase]]
    BY DEF ReplayDeploy
  <1> HIDE DEF phase
  <1>3. Holding([op[o] EXCEPT !.phase = phase], op[o], phase, op[o].candidate, op[o].cut,
                op[o].slot, op[o].job, op[o].pred)
    BY <1>1, PhaseSet
  <1>4. [op[o] EXCEPT !.phase = phase] \in Rows
    BY <1>3 DEF Holding
  <1>5. /\ op' \in [Op -> Rows] /\ op'[o] = [op[o] EXCEPT !.phase = phase]
        /\ \A p \in Op \ {o} : op'[p] = op[p]
    BY <1>1, <1>2, <1>4
  <1>6. /\ [op[o] EXCEPT !.phase = phase].direct = op[o].direct
        /\ [op[o] EXCEPT !.phase = phase].predGone = op[o].predGone
    BY <1>1 DEF Rows
  <1> QED
    BY <1>3, <1>5, <1>6 DEF phase

\* Every step keeps exclusion: one unfinished operation, which runs its own body.
LEMMA ExclusionStep ==
  ASSUME TypeOK, TargetInv, ExclusionInv, ActiveInv, [Next]_vars
  PROVE  ExclusionInv'
  <1>1. CASE RowSteps
    BY <1>1, RowStepsInBody, RowStepsLanes, ExclusionKept DEF Continues
  <1>2. CASE \/ CallSteps \/ ReadSteps \/ AttemptSteps \/ CutOff \/ FinishSteps
             \/ DisableSteps \/ EnableSteps \/ RestartSteps \/ DeleteSteps
    BY <1>2, DeployStepsContinue, FinishStepsContinue, OtherStepsContinue, ExclusionKept
  <1>3. CASE EndSteps
    <2>1. cur \in Op /\ Closed(cur)
      BY <1>3, EndStepCloses
    <2>2. CASE FailOp
      <3>1. pc = "failOp" /\ pc' = "failAttempt" /\ cur' = cur
        BY <2>2 DEF FailOp, Step
      <3>2. IsDeploy(cur) /\ ~op[cur].finishing
        BY <3>1 DEF ExclusionInv, DeployLabels, PastCutover
      <3> QED
        BY <2>1, <3>1, <3>2, ExclusionClosed
    <2>3. CASE pc' = "idle"
      BY <2>1, <2>3, ExclusionClosed
    <2> QED
      BY <1>3, <2>2, <2>3 DEF EndSteps, CreateAttemptRefused, RejectOp, Succeed, DisableDone,
         RestartDone, RestartFails, complete_application_deletion, Step
  <1>4. CASE AcceptDeployment \/ EnableAccept
    BY <1>4, ExclusionAccepted
  <1>5. CASE Raise \/ Interrupt
    <2>1. Continues /\ LanesSame
      BY <1>5 DEF Raise, Interrupt, Quiet, Continues, LanesSame
    <2> QED
      BY <2>1, ExclusionKept
  <1>6. ASSUME NEW o \in Op, Request(o)
        PROVE  ExclusionInv'
    BY <1>6, RequestRuns, ExclusionOpened
  <1>7. ASSUME NEW o \in Op, Resume(o)
        PROVE  ExclusionInv'
    <2>1. CASE ReplayDeploy(o)
      <3>1. LanesSame
        BY <2>1, ReplayDeployWrites DEF Holding, LanesSame
      <3>2. /\ o \in Unfinished /\ IsDeploy(o) /\ cur' = o
            /\ pc' \in {"cleanRejected", "rejectAttempt", "dropImage", "accept", "build"}
        BY <2>1 DEF ReplayDeploy, RecoveryLabel
      <3>3. pc' \in ForwardLabels
        BY <3>2 DEF ForwardLabels, DeployLabels, BuildLabels, PastCutover, CandidateLabels
      <3> QED
        BY <3>1, <3>2, <3>3, ExclusionResumed DEF RunsFrom
    <2>2. CASE FinishAgain(o)
      <3>1. pc' = "finish" /\ cur' = o /\ UNCHANGED op /\ o \in Finishing
        BY <2>2, ReplayResumes DEF Resumed, FinishAgain
      <3>2. Unfinished' = Unfinished /\ Finishing' = Finishing
        BY <3>1 DEF Unfinished, Finishing, Open
      <3>3. pc' \in FinishLabels
        BY <3>1 DEF FinishLabels
      <3> QED
        BY <3>1, <3>2, <3>3, LabelGroups DEF ExclusionInv, IsDeploy
    <2>3. CASE ReplayRestart(o) /\ op[o].phase = "restart_requested"
      <3>1. /\ op' = [op EXCEPT ![o] = [op[o] EXCEPT !.status = "failed"]]
            /\ pc' = "idle"
        BY <2>3 DEF ReplayRestart
      <3> QED
        BY <3>1, StatusSet, ExclusionClosed
    <2>4. CASE ReplayDisable(o) \/ ReplayEnable(o) \/ ReplayDelete(o)
               \/ (ReplayRestart(o) /\ op[o].phase # "restart_requested")
      <3>1. o \in Unfinished /\ cur' = o /\ UNCHANGED op
        BY <2>4, ReplayResumes DEF ReplayDisable, ReplayEnable, ReplayDelete, ReplayRestart,
           Resumed
      <3>2. RunsFrom(o, pc')
        BY <2>4, ReplayResumes DEF ReplayDisable, ReplayEnable, ReplayDelete, ReplayRestart,
           Resumed, RunsFrom, DisableLabels, EnableLabels, RestartLabels, DeleteLabels
      <3>3. LanesSame
        BY <3>1 DEF LanesSame
      <3> QED
        BY <3>1, <3>2, <3>3, ExclusionResumed
    <2> QED
      BY <1>7, <2>1, <2>2, <2>3, <2>4 DEF Resume
  <1>8. CASE UNCHANGED vars
    BY <1>8, ExclusionKept DEF vars, ExclusionInv, Unfinished, Finishing, Open, IsDeploy
  <1> QED
    BY <1>1, <1>2, <1>3, <1>4, <1>5, <1>6, <1>7, <1>8, StepCases DEF Next

-----------------------------------------------------------------------------
(* The accepted deployment.                                                *)

\* No attempt moves: only statuses are written.
PlacesKept ==
    /\ attempt' \in [Op -> Attempts]
    /\ \A o \in Op : /\ attempt'[o].job = attempt[o].job /\ attempt'[o].slot = attempt[o].slot
                     /\ attempt'[o].prio = attempt[o].prio
                     /\ attempt'[o].image = attempt[o].image

\* Writing an attempt's status moves no attempt.
LEMMA StatusWritten ==
  ASSUME TypeOK, NEW o \in Op, NEW s \in {"none", "open", "succeeded", "failed"},
         attempt' = [attempt EXCEPT ![o] = [attempt[o] EXCEPT !.status = s]]
  PROVE  PlacesKept
  <1>1. attempt \in [Op -> Attempts] /\ attempt[o] \in Attempts
    BY DEF TypeOK
  <1> DEFINE row == [attempt[o] EXCEPT !.status = s]
  <1>2. /\ row \in Attempts /\ row.job = attempt[o].job /\ row.slot = attempt[o].slot
        /\ row.prio = attempt[o].prio /\ row.image = attempt[o].image
    BY <1>1 DEF Attempts
  <1> HIDE DEF row
  <1>3. attempt' \in [Op -> Attempts] /\ attempt'[o] = row
        /\ \A p \in Op \ {o} : attempt'[p] = attempt[p]
    BY <1>1, <1>2 DEF row
  <1> QED
    BY <1>2, <1>3 DEF PlacesKept

\* The steps that write an attempt move none.
LEMMA AttemptStepsKeepPlaces ==
  ASSUME TypeOK, AttemptSteps
  PROVE  PlacesKept /\ UNCHANGED <<op, app, cloud>> /\ cur \in Op
  <1>1. cur \in Op /\ UNCHANGED <<op, app, cloud>>
    BY DEF AttemptSteps, CreateAttempt, RejectAttempt, FailAttempt, Step, TypeOK,
       checkpoint_deployment_attempt
  <1>2. \E s \in {"open", "failed"} :
           attempt' = [attempt EXCEPT ![cur] = [attempt[cur] EXCEPT !.status = s]]
    BY DEF AttemptSteps, CreateAttempt, RejectAttempt, FailAttempt,
       checkpoint_deployment_attempt
  <1> QED
    BY <1>1, <1>2, StatusWritten

\* The replay of a deploy moves no attempt.
LEMMA ReplayDeployKeepsPlaces ==
  ASSUME TypeOK, NEW o \in Op, ReplayDeploy(o)
  PROVE  PlacesKept /\ UNCHANGED <<app, cloud>>
  <1> DEFINE s == IF attempt[o].status = "none" THEN "open" ELSE attempt[o].status
  <1>1. attempt' = [attempt EXCEPT ![o] = [attempt[o] EXCEPT !.status = s]]
    BY DEF ReplayDeploy
  <1>2. s \in {"none", "open", "succeeded", "failed"}
    BY DEF TypeOK, Attempts
  <1> QED
    BY <1>1, <1>2, StatusWritten DEF ReplayDeploy

\* A step that writes no attempt moves none.
LEMMA PlacesSame == ASSUME TypeOK, UNCHANGED attempt PROVE PlacesKept
  BY DEF TypeOK, PlacesKept

\* The accepted deployment stays accepted, in its place.
ActiveSame == /\ HasActive' = HasActive /\ app'.active = app.active
              /\ HasActive => Active'.job = Active.job /\ Active'.slot = Active.slot

\* While the accepted deployment is the same, so are its job and its slot.
LEMMA ActivePlace ==
  ASSUME TypeOK, PlacesKept, app'.active = app.active
  PROVE  ActiveSame
  BY DEF TypeOK, PlacesKept, HasActive, Active, ActiveSame

\* Nothing about the application row changes, and no operation begins.
LEMMA ActiveKept ==
  ASSUME TypeOK, ActiveInv, UNCHANGED app, PlacesKept,
         \A o \in Op : op[o].finishing => op'[o].finishing,
         Unfinished' \subseteq Unfinished,
         pc' \in DisableLabels \cup EnableLabels => HasActive,
         pc' \in {"disDone", "dImages"} => ~app.desired
  PROVE  ActiveInv'
  <1>1. ActiveSame
    BY ActivePlace
  <1>2. HasActive => app.active \in Op
    BY DEF TypeOK, HasActive
  <1> QED
    BY <1>1, <1>2 DEF ActiveInv, ActiveSame

\* With the lanes the same, the same operations are unfinished and finishing.
LEMMA LanesKept ==
  ASSUME LanesSame
  PROVE  /\ Unfinished' = Unfinished /\ Finishing' = Finishing
         /\ \A o \in Op : op[o].finishing => op'[o].finishing
  BY DEF LanesSame, Unfinished, Finishing, Open

\* Deploys and their cleanup keep what is known of the accepted deployment.
LEMMA ActiveBodySteps ==
  ASSUME TypeOK, TargetInv, ExclusionInv, ActiveInv,
         \/ RowSteps \/ CallSteps \/ ReadSteps \/ AttemptSteps \/ FinishSteps
         \/ RestartSteps \/ Raise \/ Interrupt
  PROVE  ActiveInv'
  <1>1. /\ LanesSame
        /\ pc' \in ForwardLabels \cup FinishLabels \cup RestartLabels \cup {"idle"}
    <2>1. CASE RowSteps
      BY <2>1, RowStepsInBody, RowStepsLanes
    <2>2. CASE CallSteps \/ ReadSteps \/ AttemptSteps
      BY <2>2, DeployStepsContinue
    <2>3. CASE FinishSteps
      BY <2>3, FinishStepsContinue
    <2>4. CASE RestartSteps
      BY <2>4, OtherStepsContinue DEF RestartSteps, RestartRequested, RestartTask, Step,
         RestartLabels
    <2>5. CASE Raise \/ Interrupt
      BY <2>5 DEF Raise, Interrupt, Quiet, LanesSame
    <2> QED
      BY <2>1, <2>2, <2>3, <2>4, <2>5
  <1>2. /\ pc' \notin DisableLabels \cup EnableLabels
        /\ pc' \notin {"disDone", "dImages"}
    BY <1>1, LabelGroups DEF DisableLabels, DeleteLabels
  <1>3. UNCHANGED app /\ PlacesKept
    <2>1. CASE RowSteps
      BY <2>1, PlacesSame DEF RowSteps, PrepareBuild, PlatformBusy, BuildRejected, ImagePushed,
         CutoverIntent, Quiesced, CutMark, PrepareEnvironment, PrepareReusedWorker,
         PrepareWorker, WorkerReady, CandidateRemoved, DeploymentHealthy, Journal,
         checkpoint_operation
    <2>2. CASE CallSteps \/ ReadSteps
      BY <2>2, PlacesSame DEF CallSteps, BuildSucceeds, Quiesce, CutJob, CutWorker,
         CreateWorker, SubmitJob, PromoteCandidate, DropStop, DropJob, DropWorker, DropImage,
         Helper, ReadSteps, CleanRejected, CutoverSkipped, ObserveHealthy, ObservePublic,
         CandidateUnhealthy, Quiet
    <2>3. CASE AttemptSteps
      BY <2>3, AttemptStepsKeepPlaces
    <2>4. CASE FinishSteps \/ RestartSteps \/ Raise \/ Interrupt
      BY <2>4, PlacesSame DEF FinishSteps, HandoverDone, RemovePredecessorJob,
         PredecessorJobAbsent, RemovePredecessorWorker, Accepted, RetainImages, RestartSteps,
         RestartRequested, RestartTask, Raise, Interrupt, Helper, Journal,
         checkpoint_operation, Quiet
    <2> QED
      BY <2>1, <2>2, <2>3, <2>4
  <1> QED
    BY <1>1, <1>2, <1>3, LanesKept, ActiveKept

\* Disables, enables and deletes keep what is known of the accepted deployment.
LEMMA ActiveLifecycleSteps ==
  ASSUME TypeOK, ExclusionInv, ActiveInv,
         \/ DisableJob \/ DisableWorker \/ EnableSteps
         \/ DeleteStop \/ DeleteResource \/ DeletePurge \/ DeleteForget \/ DeleteRuntime
         \/ DeleteWorkers \/ DeleteImage
  PROVE  ActiveInv'
  <1>1. LanesSame /\ Continues
    BY OtherStepsContinue DEF DisableSteps, DeleteSteps
  <1>2. pc' \in DisableLabels \cup EnableLabels => HasActive
    BY <1>1, LabelGroups DEF ActiveInv, Continues
  <1>3. UNCHANGED <<app, attempt>> /\ (pc' \in {"disDone", "dImages"} => pc = "dImages")
    <2>1. CASE DisableJob \/ DisableWorker \/ EnableSteps
      BY <2>1 DEF DisableJob, DisableWorker, EnableSteps, EnableWorker, EnableReady, EnableJob,
         EnableHealthy, EnableUnhealthy, EnableDropJob, Helper, Journal, checkpoint_operation,
         Quiet, Step
    <2>2. CASE \/ DeleteStop \/ DeleteResource \/ DeletePurge \/ DeleteForget \/ DeleteRuntime
               \/ DeleteWorkers \/ DeleteImage
      BY <2>2 DEF DeleteStop, DeleteResource, DeletePurge, DeleteForget, DeleteRuntime,
         DeleteWorkers, DeleteImage, Helper, SetResource, Step
    <2> QED
      BY <2>1, <2>2
  <1> QED
    BY <1>1, <1>2, <1>3, PlacesSame, LanesKept, ActiveKept DEF ActiveInv

\* The application is marked as stopped.
LEMMA ActiveStopped ==
  ASSUME TypeOK, ExclusionInv, ActiveInv, CutOff \/ DisableOff \/ DeleteOff
  PROVE  /\ ActiveInv' /\ LanesSame /\ UNCHANGED <<op, attempt, cloud>>
         /\ app'.desired = FALSE /\ app'.active = app.active
         /\ app' \in [desired : BOOLEAN, worker : Slot \cup {"none"},
                      active : Op \cup {NoOp}, deleted : BOOLEAN]
  <1>1. LanesSame /\ Continues
    BY DeployStepsContinue, OtherStepsContinue DEF DisableSteps, DeleteSteps
  <1>2. \E w \in Slot \cup {"none"} :
           /\ app' = [app EXCEPT !.desired = FALSE, !.worker = w]
           /\ UNCHANGED <<op, attempt, cloud>>
    BY DEF CutOff, DisableOff, DeleteOff, set_application_runtime, TypeOK
  <1>3. /\ app'.desired = FALSE /\ app'.active = app.active
        /\ app' \in [desired : BOOLEAN, worker : Slot \cup {"none"},
                     active : Op \cup {NoOp}, deleted : BOOLEAN]
    BY <1>2 DEF TypeOK
  <1>4. ActiveSame /\ (HasActive => app.active \in Op)
    BY <1>2, <1>3, PlacesSame, ActivePlace DEF TypeOK, HasActive
  <1>5. pc' \in DisableLabels \cup EnableLabels => HasActive
    BY <1>1, LabelGroups DEF ActiveInv, Continues
  <1>6. ActiveInv'
    BY <1>1, <1>3, <1>4, <1>5, LanesKept DEF ActiveInv, ActiveSame
  <1> QED
    BY <1>1, <1>2, <1>3, <1>6

\* The target's job and slot exist and are not the accepted deployment's.
LEMMA TargetPlace ==
  ASSUME ActiveInv
  PROVE  /\ TargetJob \in JobId /\ TargetSlot \in Slot
         /\ HasActive => TargetJob # Active.job /\ TargetSlot # Active.slot
         /\ \A o \in Op : (ReusesWorker(o) => HasActive) => SlotOf(o) \in Slot
  BY DEF ActiveInv, TargetJob, TargetSlot, SlotOf, JobId, Slot

\* What a deploy is accepted with.
LEMMA AcceptedPlace ==
  ASSUME TypeOK, ExclusionInv, ActiveInv, CandidateInv, AcceptDeployment
  PROVE  /\ cur \in Op /\ op[cur].job = TargetJob /\ op[cur].slot = SlotOf(cur)
         /\ op[cur].slot \in Slot /\ op[cur].job \in JobId
         /\ app'.desired = TRUE /\ app'.worker = op[cur].slot /\ app'.active = cur
         /\ app' \in [desired : BOOLEAN, worker : Slot \cup {"none"},
                      active : Op \cup {NoOp}, deleted : BOOLEAN]
         /\ attempt' \in [Op -> Attempts]
         /\ attempt'[cur].job = op[cur].job /\ attempt'[cur].slot = op[cur].slot
         /\ \A o \in Op \ {cur} : attempt'[o] = attempt[o]
  <1>1. cur \in Unfinished /\ cur \in Op /\ IsDeploy(cur) /\ pc = "accept"
    <2>1. pc = "accept" /\ cur \in Op
      BY DEF AcceptDeployment, Step, TypeOK
    <2>2. "accept" \in DeployLabels \ {"failAttempt"}
      BY DEF DeployLabels, PastCutover, CandidateLabels
    <2> QED
      BY <2>1, <2>2 DEF ExclusionInv, Unfinished
  <1>2. /\ op[cur].job = TargetJob /\ op[cur].slot = SlotOf(cur)
        /\ ReusesWorker(cur) => HasActive
    BY <1>1 DEF CandidateInv
  <1>3. op[cur].slot \in Slot /\ op[cur].job \in JobId
    BY <1>1, <1>2, TargetPlace
  <1>4. RoutePriority(cur) \in Nat /\ op[cur].candidate \in Image \cup {NoImage}
    BY SMTT(30), <1>1 DEF RoutePriority, NeedsPromotion, HasActive, Active, TypeOK, Attempts, Rows
  <1> DEFINE row == [status |-> "succeeded", job |-> op[cur].job, slot |-> op[cur].slot,
                     prio |-> RoutePriority(cur), image |-> op[cur].candidate]
  <1>5. row \in Attempts /\ row.job = op[cur].job /\ row.slot = op[cur].slot
    BY <1>3, <1>4 DEF Attempts
  <1>6. attempt' = [attempt EXCEPT ![cur] = row] /\ attempt \in [Op -> Attempts]
    BY DEF AcceptDeployment, TypeOK
  <1> HIDE DEF row
  <1>7. /\ attempt' \in [Op -> Attempts] /\ attempt'[cur] = row
        /\ \A o \in Op \ {cur} : attempt'[o] = attempt[o]
    BY <1>1, <1>5, <1>6
  <1>8. /\ app'.desired = TRUE /\ app'.worker = op[cur].slot /\ app'.active = cur
        /\ app' \in [desired : BOOLEAN, worker : Slot \cup {"none"},
                     active : Op \cup {NoOp}, deleted : BOOLEAN]
    BY <1>1, <1>3 DEF AcceptDeployment, TypeOK
  <1> QED
    BY <1>1, <1>2, <1>3, <1>5, <1>7, <1>8

\* The accepted candidate has a job and a slot.
LEMMA ActiveAccepted ==
  ASSUME TypeOK, ExclusionInv, ActiveInv, CandidateInv, AcceptDeployment
  PROVE  ActiveInv'
  <1>1. cur \in Op /\ op'[cur].finishing
    BY AcceptStepFinishes, FinishingSet DEF Unfinished
  <1>2. HasActive' /\ Active' = attempt'[cur]
    BY <1>1, AcceptedPlace, ConstantsAssumption DEF HasActive, Active
  <1>3. pc' = "finish" /\ pc' \notin DisableLabels \cup EnableLabels
    BY AcceptStepFinishes DEF DisableLabels, EnableLabels
  <1> QED
    BY <1>1, <1>2, <1>3, AcceptedPlace, AcceptLanes DEF ActiveInv

\* The acceptance of an enable marks the application as running on the slot of
\* its accepted deployment, and moves nothing.
LEMMA EnableAccepted ==
  ASSUME TypeOK, ExclusionInv, ActiveInv, EnableAccept
  PROVE  /\ HasActive /\ cur \in Op /\ ActiveSame /\ UNCHANGED <<attempt, cloud>>
         /\ app'.desired = TRUE /\ app'.worker = Active.slot
         /\ app' \in [desired : BOOLEAN, worker : Slot \cup {"none"},
                      active : Op \cup {NoOp}, deleted : BOOLEAN]
  <1>1. pc = "eAccept" /\ cur \in Op /\ UNCHANGED <<attempt, cloud>>
    BY DEF EnableAccept, Step, TypeOK
  <1>2. HasActive /\ Active.slot \in Slot
    BY <1>1 DEF ActiveInv, EnableLabels
  <1>3. /\ app'.desired = TRUE /\ app'.worker = Active.slot /\ app'.active = app.active
        /\ app' \in [desired : BOOLEAN, worker : Slot \cup {"none"},
                     active : Op \cup {NoOp}, deleted : BOOLEAN]
    BY <1>2 DEF EnableAccept, TypeOK
  <1>4. ActiveSame
    BY <1>1, <1>3, PlacesSame, ActivePlace
  <1> QED
    BY <1>1, <1>2, <1>3, <1>4

\* What is known of the accepted deployment survives the acceptance of an enable.
LEMMA ActiveEnabled ==
  ASSUME TypeOK, ExclusionInv, ActiveInv, EnableAccept
  PROVE  ActiveInv'
  <1>1. \A o \in Op : op[o].finishing => op'[o].finishing
    BY AcceptStepFinishes, FinishingSet DEF Unfinished
  <1>2. pc' = "finish" /\ pc' \notin DisableLabels \cup EnableLabels
    BY AcceptStepFinishes DEF DisableLabels, EnableLabels
  <1>3. app.active \in Op
    BY EnableAccepted DEF TypeOK, HasActive
  <1> QED
    BY <1>1, <1>2, <1>3, AcceptLanes, EnableAccepted DEF ActiveInv, ActiveSame

\* What is known of the accepted deployment survives the end of an operation.
LEMMA ActiveEnded ==
  ASSUME TypeOK, ExclusionInv, ActiveInv, NEW o \in Op, Closed(o),
         UNCHANGED attempt, app' = app \/ app' = [app EXCEPT !.deleted = TRUE],
         pc' \in {"idle", "failAttempt"}
  PROVE  ActiveInv'
  <1>1. Unfinished' \subseteq Unfinished /\ \A p \in Op : op[p].finishing => op'[p].finishing
    BY DEF Closed, Unfinished, Open
  <1>2. pc' \notin DisableLabels \cup EnableLabels
    BY DEF DisableLabels, EnableLabels
  <1>3. /\ app'.active = app.active /\ app'.desired = app.desired /\ app'.worker = app.worker
        /\ HasActive => app.active \in Op
    BY DEF TypeOK, HasActive
  <1>4. ActiveSame
    BY <1>3, PlacesSame, ActivePlace
  <1> QED
    BY <1>1, <1>2, <1>3, <1>4 DEF ActiveInv, ActiveSame

\* What is known of the accepted deployment survives the begin of an operation.
LEMMA ActiveOpened ==
  ASSUME TypeOK, ExclusionInv, ActiveInv, NEW o \in Op, Request(o)
  PROVE  ActiveInv'
  <1>1. PICK label : Opened(o, label) /\ RunsFrom(o, label)
    BY RequestRuns
  <1>2. Unfinished' = {o} /\ \A p \in Op : op[p].finishing => op'[p].finishing
    <2>1. /\ op' \in [Op -> Rows] /\ op'[o].status = "open" /\ ~op'[o].finishing
          /\ \A p \in Op \ {o} : op'[p] = op[p]
          /\ Unfinished = {} /\ op[o].status = "none"
      BY <1>1 DEF Opened
    <2> QED
      BY SMTT(30), <2>1 DEF Unfinished, Open, ExclusionInv
  <1>3. /\ KindOf[o] \in {"disable", "enable"} => HasActive
        /\ KindOf[o] = "enable" => ~app.desired
        /\ pc' \notin {"disDone", "dImages"}
    BY DEF Request, BeginDeploy, BeginDisable, BeginEnable, BeginRestart, BeginDelete, Begin,
       IsDeploy, DeployKinds
  <1>4. pc' \in DisableLabels \cup EnableLabels => KindOf[o] \in {"disable", "enable"}
    BY <1>1, LabelGroups DEF Opened, RunsFrom
  <1>5. UNCHANGED <<app, attempt>> /\ ActiveSame /\ (HasActive => app.active \in Op)
    BY <1>1, PlacesSame, ActivePlace DEF Opened, TypeOK, HasActive
  <1> QED
    BY <1>2, <1>3, <1>4, <1>5 DEF ActiveInv, ActiveSame

\* What is known of the accepted deployment survives a replay.
LEMMA ActiveResumed ==
  ASSUME TypeOK, ExclusionInv, ActiveInv, NEW o \in Op, Resume(o)
  PROVE  ActiveInv'
  <1>1. CASE ReplayDeploy(o)
    <2>1. LanesSame
      BY <1>1, ReplayDeployWrites DEF Holding, LanesSame
    <2>2. pc' \in {"cleanRejected", "rejectAttempt", "dropImage", "accept", "build"}
      BY <1>1 DEF ReplayDeploy, RecoveryLabel
    <2>3. pc' \notin DisableLabels \cup EnableLabels
      BY <2>2 DEF DisableLabels, EnableLabels
    <2> QED
      BY <1>1, <2>1, <2>2, <2>3, ReplayDeployKeepsPlaces, LanesKept, ActiveKept
  <1>2. CASE ReplayRestart(o) /\ op[o].phase = "restart_requested"
    <2>1. /\ op' = [op EXCEPT ![o] = [op[o] EXCEPT !.status = "failed"]]
          /\ pc' = "idle" /\ UNCHANGED <<attempt, app>>
      BY <1>2 DEF ReplayRestart
    <2> QED
      BY <2>1, StatusSet, ActiveEnded
  <1>3. CASE \/ ReplayDisable(o) \/ ReplayEnable(o) \/ ReplayDelete(o) \/ FinishAgain(o)
             \/ (ReplayRestart(o) /\ op[o].phase # "restart_requested")
    <2>1. UNCHANGED <<op, attempt, app>> /\ pc' \in {"disJob", "eWorker", "dStop", "finish", "rReq"}
      BY <1>3, ReplayResumes DEF Resumed
    <2>2. pc' \in DisableLabels \cup EnableLabels => HasActive
      BY <1>3, <2>1, ReplayResumes DEF Resumed, ReplayDisable, ReplayEnable, ActiveInv,
         DisableLabels, EnableLabels
    <2>3. Unfinished' = Unfinished
      BY <2>1 DEF Unfinished, Open
    <2> QED
      BY <2>1, <2>2, <2>3, PlacesSame, ActiveKept
  <1> QED
    BY <1>1, <1>2, <1>3 DEF Resume

\* Every step keeps what is known of the accepted deployment.
LEMMA ActiveStep ==
  ASSUME TypeOK, TargetInv, ExclusionInv, ActiveInv, CandidateInv, [Next]_vars
  PROVE  ActiveInv'
  <1>1. CASE EndSteps
    <2>1. UNCHANGED attempt /\ (app' = app \/ app' = [app EXCEPT !.deleted = TRUE])
      BY <1>1 DEF EndSteps, CreateAttemptRefused, RejectOp, FailOp, Succeed, DisableDone,
         RestartDone, RestartFails, complete_application_deletion, mark, Journal
    <2>2. pc' \in {"idle", "failAttempt"}
      BY <1>1 DEF EndSteps, CreateAttemptRefused, RejectOp, FailOp, Succeed, DisableDone,
         RestartDone, RestartFails, complete_application_deletion, Step
    <2> QED
      BY <1>1, <2>1, <2>2, EndStepCloses, ActiveEnded
  <1>2. CASE DisableSteps \/ EnableSteps \/ DeleteSteps \/ CutOff
    BY <1>2, ActiveLifecycleSteps, ActiveStopped DEF DisableSteps, DeleteSteps
  <1>3. CASE UNCHANGED vars
    <2>1. Unfinished' = Unfinished
      BY <1>3 DEF vars, Unfinished, Open
    <2> QED
      BY <1>3, <2>1, PlacesSame, ActiveKept DEF vars, ActiveInv
  <1>4. ASSUME NEW o \in Op, Request(o) \/ Resume(o)
        PROVE  ActiveInv'
    BY <1>4, ActiveOpened, ActiveResumed
  <1>5. CASE \/ RowSteps \/ CallSteps \/ ReadSteps \/ AttemptSteps \/ FinishSteps
             \/ RestartSteps \/ Raise \/ Interrupt
    BY <1>5, ActiveBodySteps
  <1>6. CASE AcceptDeployment \/ EnableAccept
    BY <1>6, ActiveAccepted, ActiveEnabled
  <1> QED
    BY <1>1, <1>2, <1>3, <1>4, <1>5, <1>6, StepCases DEF Next

Clouds == [jobs : [JobId -> Jobs], workers : SUBSET Slot, pushed : SUBSET Op,
           storage : SUBSET Resource]

\* What the steps write outside the operations table.
AppRows == [desired : BOOLEAN, worker : Slot \cup {"none"}, active : Op \cup {NoOp},
            deleted : BOOLEAN]

\* What a repeated request does.
LEMMA ResumeCases ==
  ASSUME TypeOK, NEW o \in Op, Resume(o)
  PROVE  \/ ReplayDeploy(o)
         \/ /\ o \in Unfinished /\ KindOf[o] = "disable" /\ Resumed(o, "disJob")
         \/ /\ o \in Unfinished /\ KindOf[o] = "enable" /\ Resumed(o, "eWorker")
         \/ /\ o \in Unfinished /\ KindOf[o] = "delete" /\ Resumed(o, "dStop")
         \/ /\ o \in Unfinished /\ KindOf[o] = "restart" /\ Resumed(o, "rReq")
            /\ op[o].phase # "restart_requested"
         \/ o \in Finishing /\ Resumed(o, "finish")
         \/ /\ o \in Unfinished /\ KindOf[o] = "restart" /\ Closed(o) /\ pc = "idle"
            /\ UNCHANGED <<attempt, app, res, accepted, cloud, restarts, pc, cur>>
  <1>1. CASE ReplayRestart(o) /\ op[o].phase = "restart_requested"
    <2>1. /\ op' = [op EXCEPT ![o] = [op[o] EXCEPT !.status = "failed"]]
          /\ o \in Unfinished /\ KindOf[o] = "restart" /\ pc = "idle"
          /\ UNCHANGED <<attempt, app, res, accepted, cloud, restarts, pc, cur>>
      BY <1>1 DEF ReplayRestart
    <2> QED
      BY <2>1, StatusSet
  <1>2. CASE ReplayRestart(o) /\ op[o].phase # "restart_requested"
    BY <1>2, ReplayResumes DEF ReplayRestart
  <1>3. CASE ReplayDisable(o) \/ ReplayEnable(o) \/ ReplayDelete(o) \/ FinishAgain(o)
    BY <1>3, ReplayResumes DEF ReplayDisable, ReplayEnable, ReplayDelete, FinishAgain
  <1> QED
    BY <1>1, <1>2, <1>3 DEF Resume

\* What a request writes: one open row, validated, and nothing else.
LEMMA RequestOpens ==
  ASSUME TypeOK, NEW o \in Op, Request(o)
  PROVE  /\ pc' \in {"attempt", "disJob", "eWorker", "rReq", "dStop"} /\ cur' = o
         /\ UNCHANGED <<attempt, app, cloud>>
         /\ op[o].status = "none" /\ Unfinished = {} /\ Unfinished' = {o}
         /\ \A p \in Op \ {o} : op'[p] = op[p]
         /\ op'[o].phase = "validated" /\ op'[o].finishing = FALSE
         /\ check_finishing_admission(KindOf[o])
  <1>1. PICK label : Opened(o, label)
    BY RequestRuns
  <1>2. pc' \in {"attempt", "disJob", "eWorker", "rReq", "dStop"}
    BY DEF Request, BeginDeploy, BeginDisable, BeginEnable, BeginRestart, BeginDelete, Begin
  <1>3. Unfinished' = {o}
    BY <1>1 DEF Opened, Unfinished, Open
  <1> QED
    BY <1>1, <1>2, <1>3 DEF Opened
=============================================================================
