---------------------- MODULE LifecycleCandidateProofs ----------------------
(***************************************************************************)
(* A candidate is put where the accepted deployment is not.                *)
(***************************************************************************)
EXTENDS LifecycleProofs

\* Most steps are first-order: Zenon is the prover where no other is named.
USE ZenonT(60)

(* Candidates.                                                             *)

\* What CandidateInv says of the row and the job of an unfinished deploy, and
\* of the jobs.
RowPlaced(o, phase, slot, job) ==
    phase = "deployment_healthy" => slot = SlotOf(o) /\ job = TargetJob

JobPlaced(j) ==
    /\ \A o \in Unfinished : IsDeploy(o) /\ cloud.jobs[j].op = o =>
          j = TargetJob /\ cloud.jobs[j].slot = SlotOf(o)
    /\ HasActive /\ cloud.jobs[j].op = app.active =>
          j = Active.job /\ cloud.jobs[j].slot = Active.slot
    /\ cloud.jobs[j].op # NoOp => op[cloud.jobs[j].op].status # "none"

BodyPlaced ==
    /\ pc \in CandidateLabels => op[cur].slot = SlotOf(cur)
    /\ pc = "dropWorker" => ~ReusesWorker(cur)
    /\ pc = "accept" => op[cur].phase = "deployment_healthy"
    /\ pc = "eAccept" => Healthy(app.active)
    /\ pc \in {"predGone", "predWorker"} => Predecessor.slot # Active.slot

\* CandidateInv, by rows, jobs and the running body.
LEMMA CandidateParts ==
  CandidateInv <=> /\ \A o \in Unfinished : IsDeploy(o) =>
                         /\ ReusesWorker(o) => HasActive
                         /\ RowPlaced(o, op[o].phase, op[o].slot, op[o].job)
                   /\ \A j \in JobId : JobPlaced(j)
                   /\ BodyPlaced
  BY DEF CandidateInv, RowPlaced, JobPlaced, BodyPlaced

\* CandidateInv after a step, by its parts.
LEMMA CandidatePartsNext ==
  ASSUME \A o \in Unfinished' : IsDeploy(o) =>
            /\ ReusesWorker(o) => HasActive'
            /\ RowPlaced(o, op[o].phase, op[o].slot, op[o].job)',
         \A j \in JobId : JobPlaced(j)',
         BodyPlaced'
  PROVE  CandidateInv'
  BY DEF CandidateInv, RowPlaced, JobPlaced, BodyPlaced, IsDeploy, ReusesWorker

\* The places a deploy may take depend on the accepted deployment only.
LEMMA PlacesStay ==
  ASSUME ActiveSame
  PROVE  /\ TargetJob' = TargetJob /\ TargetSlot' = TargetSlot
         /\ \A o \in Op : (ReusesWorker(o) => HasActive) => SlotOf(o)' = SlotOf(o)
  BY DEF ActiveSame, TargetJob, TargetSlot, SlotOf, ReusesWorker

\* The jobs after a step: gone, in place, the candidate's or the accepted one's.
JobsKept ==
    \A j \in JobId :
        \/ cloud'.jobs[j].op = NoOp /\ ~cloud'.jobs[j].up
        \/ /\ cloud'.jobs[j].op = cloud.jobs[j].op /\ cloud'.jobs[j].slot = cloud.jobs[j].slot
           /\ cloud'.jobs[j].prio = cloud.jobs[j].prio
           /\ cloud'.jobs[j].up => cloud.jobs[j].up
        \/ /\ cur \in Unfinished /\ IsDeploy(cur) /\ j = TargetJob
           /\ pc \in {"submit", "promote"}
           /\ cloud'.jobs[j].op = cur /\ cloud'.jobs[j].slot = SlotOf(cur)
           /\ cloud'.jobs[j].prio = RoutePriority(cur)
        \/ /\ HasActive /\ j = Active.job /\ pc = "eJob"
           /\ cloud'.jobs[j].op = app.active /\ cloud'.jobs[j].slot = Active.slot
           /\ cloud'.jobs[j].prio = Active.prio

\* Jobs that are kept stay in their places while the accepted deployment does.
LEMMA JobsStayPlaced ==
  ASSUME TypeOK, ExclusionInv, ActiveInv, CandidateInv, ActiveSame, JobsKept,
         Unfinished' \subseteq Unfinished,
         \A o \in Op : op[o].status # "none" => op'[o].status # "none",
         NEW j \in JobId
  PROVE  JobPlaced(j)'
  <1>1. NoOp \notin Op /\ NoOp \notin Unfinished /\ Unfinished \subseteq Op
    BY ConstantsAssumption DEF Unfinished
  <1>2. HasActive => /\ app.active \in Op /\ app.active \notin Unfinished
                     /\ op[app.active].status # "none"
    BY DEF TypeOK, HasActive, ActiveInv, Unfinished, ExclusionInv
  <1>3. cloud.jobs[j].op \in Op \cup {NoOp}
    BY DEF TypeOK, Jobs
  <1>4. \A o \in Unfinished : IsDeploy(o) => (ReusesWorker(o) => HasActive)
    BY CandidateParts
  <1>5. HasActive' = HasActive /\ app'.active = app.active
    BY DEF ActiveSame
  <1>6. CASE cloud'.jobs[j].op = NoOp
    BY <1>1, <1>2, <1>5, <1>6 DEF JobPlaced
  <1>7. CASE cloud'.jobs[j].op = cloud.jobs[j].op /\ cloud'.jobs[j].slot = cloud.jobs[j].slot
    BY SMTT(30), <1>1, <1>2, <1>3, <1>4, <1>5, <1>7, CandidateParts, PlacesStay
       DEF JobPlaced, ActiveSame, IsDeploy
  <1>8. CASE /\ cur \in Unfinished /\ IsDeploy(cur) /\ j = TargetJob
             /\ cloud'.jobs[j].op = cur /\ cloud'.jobs[j].slot = SlotOf(cur)
    <2>1. op[cur].status # "none" /\ cur # app.active
      BY <1>1, <1>2, <1>8 DEF Unfinished, Open, HasActive
    <2> QED
      BY <1>1, <1>4, <1>5, <1>8, <2>1, PlacesStay DEF JobPlaced
  <1>9. CASE /\ HasActive /\ j = Active.job
             /\ cloud'.jobs[j].op = app.active /\ cloud'.jobs[j].slot = Active.slot
    BY <1>1, <1>2, <1>5, <1>9 DEF JobPlaced, ActiveSame
  <1> QED
    BY <1>6, <1>7, <1>8, <1>9 DEF JobsKept

\* A step that keeps rows, jobs and the accepted deployment keeps CandidateInv.
LEMMA CandidateKept ==
  ASSUME TypeOK, ExclusionInv, ActiveInv, CandidateInv, ActiveSame, JobsKept,
         Unfinished' \subseteq Unfinished,
         \A o \in Unfinished' : op'[o] = op[o],
         \A o \in Op : op[o].status # "none" => op'[o].status # "none",
         BodyPlaced'
  PROVE  CandidateInv'
  <1>1. \A j \in JobId : JobPlaced(j)'
    BY JobsStayPlaced
  <1>2. ASSUME NEW o \in Unfinished', IsDeploy(o)
        PROVE  /\ ReusesWorker(o) => HasActive'
               /\ RowPlaced(o, op[o].phase, op[o].slot, op[o].job)'
    <2>1. /\ o \in Op /\ op'[o] = op[o] /\ (ReusesWorker(o) => HasActive)
          /\ RowPlaced(o, op[o].phase, op[o].slot, op[o].job)
      BY <1>2, CandidateParts DEF Unfinished
    <2> QED
      BY <2>1, PlacesStay DEF RowPlaced, ActiveSame
  <1> QED
    BY <1>1, <1>2, CandidatePartsNext

\* Outside the labels BodyPlaced speaks of it asks nothing.
LEMMA PlacedElsewhere ==
  ASSUME pc' \notin CandidateLabels \cup {"eAccept", "predGone", "predWorker"}
  PROVE  BodyPlaced'
  BY DEF BodyPlaced, CandidateLabels

\* A deploy goes on with its candidate, or has none.
LEMMA PlacedMoves ==
  ASSUME CandidateInv, UNCHANGED op, ActiveSame, cur' = cur, cur \in Unfinished, IsDeploy(cur),
         pc' \in CandidateLabels => pc \in CandidateLabels,
         pc' = "dropWorker" => ~ReusesWorker(cur),
         pc' \notin {"accept", "eAccept", "predGone", "predWorker"}
  PROVE  BodyPlaced'
  <1>1. cur \in Op /\ (ReusesWorker(cur) => HasActive)
    BY CandidateParts DEF Unfinished
  <1> QED
    BY <1>1, CandidateParts, PlacesStay DEF BodyPlaced, ReusesWorker

\* A transaction that writes the row of a deploy.
LEMMA CandidateWritten ==
  ASSUME TypeOK, ExclusionInv, ActiveInv, CandidateInv, cur \in Unfinished, cur' = cur,
         NEW a, NEW b, NEW c, NEW d, NEW e, NEW f, Wrote(a, b, c, d, e, f),
         IsDeploy(cur) => RowPlaced(cur, a, d, e),
         pc' \in CandidateLabels => d = SlotOf(cur) /\ (ReusesWorker(cur) => HasActive),
         pc' = "accept" => a = "deployment_healthy",
         pc' = "eAccept" => Healthy(app.active),
         pc' \notin {"dropWorker", "predGone", "predWorker"}
  PROVE  CandidateInv'
  <1>1. /\ Unfinished' = Unfinished /\ UNCHANGED <<app, attempt, cloud>>
        /\ \A o \in Op : op'[o].status = op[o].status
    BY LanesKept DEF Wrote, LanesSame
  <1>2. /\ \A o \in Op \ {cur} : op'[o] = op[o]
        /\ op'[cur].phase = a /\ op'[cur].slot = d /\ op'[cur].job = e
    BY DEF Wrote, Holding
  <1>3. ActiveSame
    BY <1>1, PlacesSame, ActivePlace
  <1>4. JobsKept
    BY <1>1 DEF JobsKept
  <1>5. \A j \in JobId : JobPlaced(j)'
    BY <1>1, <1>3, <1>4, JobsStayPlaced
  <1>6. ASSUME NEW o \in Unfinished', IsDeploy(o)
        PROVE  /\ ReusesWorker(o) => HasActive'
               /\ RowPlaced(o, op[o].phase, op[o].slot, op[o].job)'
    <2>1. /\ o \in Op /\ (ReusesWorker(o) => HasActive)
          /\ RowPlaced(o, op[o].phase, op[o].slot, op[o].job)
      BY <1>1, <1>6, CandidateParts DEF Unfinished
    <2>2. RowPlaced(o, op'[o].phase, op'[o].slot, op'[o].job)
      BY <1>2, <1>6, <2>1
    <2> QED
      BY <1>3, <2>1, <2>2, PlacesStay DEF RowPlaced, ActiveSame
  <1>7. BodyPlaced'
    <2>1. Healthy(app.active)' = Healthy(app.active)
      BY <1>1 DEF Healthy, Serving, Routed
    <2> QED
      BY <1>2, <1>3, <2>1, PlacesStay DEF BodyPlaced, Unfinished, ReusesWorker
  <1> QED
    BY <1>5, <1>6, <1>7, CandidatePartsNext

\* The transactions of a deploy keep its candidate where the active job is not.
LEMMA CandidateRowSteps ==
  ASSUME TypeOK, TargetInv, ExclusionInv, ActiveInv, CandidateInv, RowSteps
  PROVE  CandidateInv'
  <1> DEFINE row == op[cur]
  <1>1. cur \in Op /\ cur \in Unfinished /\ cur' = cur /\ IsDeploy(cur)
    BY RowStepsInBody, LabelGroups DEF ExclusionInv, ForwardLabels, Unfinished
  <1>2. RowPlaced(cur, row.phase, row.slot, row.job) /\ (ReusesWorker(cur) => HasActive)
    BY <1>1, CandidateParts
  <1>3. \A phase, slot, job : phase # "deployment_healthy" => RowPlaced(cur, phase, slot, job)
    BY DEF RowPlaced
  <1>4. pc \in CandidateLabels => row.slot = SlotOf(cur)
    BY CandidateParts DEF BodyPlaced
  <1>5. CASE PrepareBuild
    <2>1. KindOf[cur] = "rollback" => op[cur].target \in Op
      BY <1>1 DEF TargetInv, Unfinished
    <2>2. BuildRetained \/ BuildKept \/ BuildBegins
      BY <1>1, <1>5, <2>1, PrepareBuildWrites
    <2>3. /\ pc' \notin CandidateLabels
          /\ pc' \notin {"accept", "dropWorker", "eAccept", "predGone", "predWorker"}
      BY <2>2 DEF BuildRetained, BuildKept, BuildBegins, AfterBuild, AfterCutover,
         CandidateLabels
    <2>4. CASE BuildRetained
      BY SMTT(30), <1>1, <1>3, <2>3, <2>4, CandidateWritten DEF BuildRetained
    <2>5. CASE BuildKept
      BY <1>1, <1>2, <2>3, <2>5, CandidateWritten DEF BuildKept
    <2>6. CASE BuildBegins
      BY SMTT(30), <1>1, <1>3, <2>3, <2>6, CandidateWritten DEF BuildBegins
    <2> QED
      BY <2>2, <2>4, <2>5, <2>6
  <1>6. CASE \/ PlatformBusy \/ BuildRejected \/ ImagePushed \/ CutoverIntent \/ Quiesced
             \/ CutMark \/ PrepareEnvironment \/ CandidateRemoved
    <2>1. /\ pc' \notin CandidateLabels
          /\ pc' \notin {"accept", "dropWorker", "eAccept", "predGone", "predWorker"}
      BY <1>6 DEF PlatformBusy, BuildRejected, ImagePushed, CutoverIntent, Quiesced, CutMark,
         PrepareEnvironment, CandidateRemoved, Step, AfterBuild, AfterCutover, CutoverLabel,
         CandidateLabels
    <2>2. CASE PlatformBusy
      BY SMTT(30), <1>1, <1>3, <2>1, <2>2, PlatformBusyWrites, CandidateWritten
    <2>3. CASE BuildRejected
      BY SMTT(30), <1>1, <1>3, <2>1, <2>3, BuildRejectedWrites, CandidateWritten
    <2>4. CASE ImagePushed
      BY SMTT(30), <1>1, <1>3, <2>1, <2>4, ImagePushedWrites, CandidateWritten
    <2>5. CASE CutoverIntent
      BY <1>1, <1>2, <2>1, <2>5, CutoverIntentWrites, CandidateWritten
    <2>6. CASE Quiesced \/ CutMark
      BY <1>1, <1>2, <2>1, <2>6, QuiescedWrites, CutMarkWrites, CandidateWritten
    <2>7. CASE PrepareEnvironment
      BY SMTT(30), <1>1, <1>3, <2>1, <2>7, PrepareEnvironmentWrites, CandidateWritten
    <2>8. CASE CandidateRemoved
      BY SMTT(30), <1>1, <1>3, <2>1, <2>8, CandidateRemovedWrites, CandidateWritten
    <2> QED
      BY <1>6, <2>2, <2>3, <2>4, <2>5, <2>6, <2>7, <2>8
  <1>7. CASE PrepareReusedWorker
    <2>1. pc' = "submit" /\ Active.slot = SlotOf(cur)
      BY <1>7 DEF PrepareReusedWorker, Step, SlotOf
    <2> QED
      BY SMTT(30), <1>1, <1>2, <1>3, <1>7, <2>1, ReusedSlot, PrepareReusedWorkerWrites, CandidateWritten
  <1>8. CASE PrepareWorker
    <2>1. pc' = "create" /\ TargetSlot = SlotOf(cur)
      BY <1>8 DEF PrepareWorker, Step, SlotOf
    <2> QED
      BY <1>1, <1>2, <1>3, <1>8, <2>1, PrepareWorkerWrites, CandidateWritten
  <1>9. CASE WorkerReady
    <2>1. pc' = "submit" /\ row.slot = SlotOf(cur)
      BY <1>4, <1>9 DEF WorkerReady, Step, CandidateLabels
    <2> QED
      BY <1>1, <1>2, <1>3, <1>9, <2>1, WorkerReadyWrites, CandidateWritten
  <1>10. CASE DeploymentHealthy
    <2>1. pc' = "accept" /\ row.slot = SlotOf(cur)
      BY <1>4, <1>10 DEF DeploymentHealthy, Step, CandidateLabels
    <2>2. RowPlaced(cur, "deployment_healthy", row.slot, TargetJob)
      BY <2>1 DEF RowPlaced
    <2> QED
      BY <1>1, <1>2, <1>10, <2>1, <2>2, DeploymentHealthyWrites, CandidateWritten
  <1> QED
    BY <1>5, <1>6, <1>7, <1>8, <1>9, <1>10 DEF RowSteps

(* Calls.                                                                  *)

\* The job and the worker of the accepted deployment are left alone.
Spared ==
    HasActive => /\ cloud'.jobs[Active.job] = cloud.jobs[Active.job]
                 /\ Active.slot \in cloud.workers => Active.slot \in cloud'.workers

\* A call that writes one job leaves the others and the workers.
LEMMA JobSet ==
  ASSUME TypeOK, NEW k, NEW job, k \in JobId => job \in Jobs,
         cloud' = [cloud EXCEPT !.jobs = [cloud.jobs EXCEPT ![k] = job]]
  PROVE  /\ cloud' \in Clouds /\ cloud'.workers = cloud.workers
         /\ \A j \in JobId : cloud'.jobs[j] = IF j = k THEN job ELSE cloud.jobs[j]
  <1>1. cloud \in Clouds /\ cloud.jobs \in [JobId -> Jobs]
    BY DEF TypeOK, Clouds
  <1> DEFINE jobs == [cloud.jobs EXCEPT ![k] = job]
  <1>2. /\ jobs \in [JobId -> Jobs]
        /\ \A j \in JobId : jobs[j] = IF j = k THEN job ELSE cloud.jobs[j]
    BY <1>1
  <1> HIDE DEF jobs
  <1>3. cloud' = [cloud EXCEPT !.jobs = jobs]
    BY DEF jobs
  <1>4. cloud' \in Clouds /\ cloud'.jobs = jobs /\ cloud'.workers = cloud.workers
    BY <1>1, <1>2, <1>3 DEF Clouds
  <1> QED
    BY <1>2, <1>4

\* A purge leaves no job under the name and leaves the others.
LEMMA JobGone ==
  ASSUME TypeOK, NEW k, cloud' = WithoutJob(k)
  PROVE  /\ cloud' \in Clouds /\ cloud'.workers = cloud.workers /\ JobsKept
         /\ \A j \in JobId : cloud'.jobs[j] = IF j = k THEN NoJob ELSE cloud.jobs[j]
  <1>1. NoJob \in Jobs /\ NoJob.op = NoOp /\ ~NoJob.up
    BY DEF NoJob, Jobs, Slot
  <1>2. cloud' = [cloud EXCEPT !.jobs = [cloud.jobs EXCEPT ![k] = NoJob]]
    BY DEF WithoutJob
  <1>3. /\ cloud' \in Clouds /\ cloud'.workers = cloud.workers
        /\ \A j \in JobId : cloud'.jobs[j] = IF j = k THEN NoJob ELSE cloud.jobs[j]
    BY SMTT(30), <1>1, <1>2, JobSet
  <1> QED
    BY <1>1, <1>3 DEF JobsKept

\* A stop takes the job down and leaves the others.
LEMMA JobStopped ==
  ASSUME TypeOK, NEW k,
         cloud' = [cloud EXCEPT !.jobs = [cloud.jobs EXCEPT ![k] =
                                             [cloud.jobs[k] EXCEPT !.up = FALSE]]]
  PROVE  /\ cloud' \in Clouds /\ cloud'.workers = cloud.workers /\ JobsKept
         /\ \A j \in JobId \ {k} : cloud'.jobs[j] = cloud.jobs[j]
  <1> DEFINE job == [cloud.jobs[k] EXCEPT !.up = FALSE]
  <1>1. k \in JobId => /\ job \in Jobs /\ job.op = cloud.jobs[k].op
                       /\ job.slot = cloud.jobs[k].slot /\ job.prio = cloud.jobs[k].prio
                       /\ ~job.up
    BY DEF TypeOK, Jobs
  <1>3. cloud' = [cloud EXCEPT !.jobs = [cloud.jobs EXCEPT ![k] = job]]
    OBVIOUS
  <1> HIDE DEF job
  <1>2. /\ cloud' \in Clouds /\ cloud'.workers = cloud.workers
        /\ \A j \in JobId : cloud'.jobs[j] = IF j = k THEN job ELSE cloud.jobs[j]
    <2>1. CASE k \in JobId
      BY <1>1, <1>3, <2>1, JobSet
    <2>2. CASE k \notin JobId
      BY <1>3, <2>2, JobSet
    <2> QED
      BY <2>1, <2>2
  <1> QED
    BY <1>1, <1>2 DEF JobsKept

\* A call that creates or deletes workers leaves the jobs.
LEMMA WorkersSet ==
  ASSUME TypeOK, NEW w \in SUBSET Slot, cloud' = [cloud EXCEPT !.workers = w]
  PROVE  /\ cloud' \in Clouds /\ cloud'.workers = w /\ JobsKept
         /\ \A j \in JobId : cloud'.jobs[j] = cloud.jobs[j]
  BY DEF TypeOK, Clouds, JobsKept

\* A call to the registry leaves the jobs and the workers.
LEMMA PushedSet ==
  ASSUME TypeOK, NEW s \in SUBSET Op, cloud' = [cloud EXCEPT !.pushed = s]
  PROVE  /\ cloud' \in Clouds /\ cloud'.workers = cloud.workers /\ JobsKept
         /\ \A j \in JobId : cloud'.jobs[j] = cloud.jobs[j]
  BY DEF TypeOK, Clouds, JobsKept

\* The candidate's job goes where the accepted one is not.
LEMMA CandidateSubmitted ==
  ASSUME TypeOK, ExclusionInv, ActiveInv, CandidateInv, cur \in Unfinished, IsDeploy(cur),
         pc \in {"submit", "promote"}, NEW route \in {"preview", "public"},
         cloud' = [cloud EXCEPT !.jobs = [cloud.jobs EXCEPT ![TargetJob] =
                                             CandidateJob(cur, route)]]
  PROVE  /\ cloud' \in Clouds /\ cloud'.workers = cloud.workers /\ JobsKept
         /\ \A j \in JobId \ {TargetJob} : cloud'.jobs[j] = cloud.jobs[j]
  <1>1. cur \in Op /\ op[cur].slot = SlotOf(cur) /\ (ReusesWorker(cur) => HasActive)
    BY CandidateParts DEF BodyPlaced, Unfinished, CandidateLabels
  <1>2. op[cur].slot \in Slot
    BY <1>1, TargetPlace
  <1>3. RoutePriority(cur) \in Nat
    BY SMTT(30), <1>1 DEF RoutePriority, NeedsPromotion, HasActive, Active, TypeOK, Attempts
  <1> DEFINE job == CandidateJob(cur, route)
  <1>4. job \in Jobs /\ job.op = cur /\ job.slot = SlotOf(cur) /\ job.prio = RoutePriority(cur)
    BY <1>1, <1>2, <1>3 DEF CandidateJob, Jobs
  <1>6. cloud' = [cloud EXCEPT !.jobs = [cloud.jobs EXCEPT ![TargetJob] = job]]
    OBVIOUS
  <1> HIDE DEF job
  <1>5. /\ cloud' \in Clouds /\ cloud'.workers = cloud.workers
        /\ \A j \in JobId : cloud'.jobs[j] = IF j = TargetJob THEN job ELSE cloud.jobs[j]
    BY SMTT(30), <1>4, <1>6, JobSet
  <1> QED
    BY <1>4, <1>5 DEF JobsKept

CutCalls == Quiesce \/ CutJob \/ CutWorker

\* The calls of a cutover only stop and remove jobs.
LEMMA CutCallsPlace ==
  ASSUME TypeOK, CutCalls
  PROVE  cloud' \in Clouds /\ JobsKept
  <1>1. CASE Quiesce
    BY <1>1, JobStopped DEF Quiesce, Helper
  <1>2. CASE CutJob
    BY <1>2, JobGone DEF CutJob, Helper
  <1>3. CASE CutWorker
    <2>1. cloud' = [cloud EXCEPT !.workers = cloud.workers \ {Active.slot}]
      BY <1>3 DEF CutWorker, Helper, WithoutWorker
    <2>2. cloud.workers \ {Active.slot} \in SUBSET Slot
      BY DEF TypeOK
    <2> QED
      BY <2>1, <2>2, WorkersSet
  <1> QED
    BY <1>1, <1>2, <1>3 DEF CutCalls

CandidateCalls ==
    \/ BuildSucceeds \/ CreateWorker \/ SubmitJob \/ PromoteCandidate \/ DropStop \/ DropJob
    \/ DropWorker \/ DropImage

\* The calls for a candidate spare the accepted deployment's job and worker.
LEMMA CandidateCallsPlace ==
  ASSUME TypeOK, ExclusionInv, ActiveInv, CandidateInv, CandidateCalls
  PROVE  cloud' \in Clouds /\ JobsKept /\ Spared
  <1>1. cur \in Op /\ cur \in Unfinished /\ IsDeploy(cur)
    <2>1. pc \in ForwardLabels /\ cur \in Op
      BY DEF CandidateCalls, BuildSucceeds, CreateWorker, SubmitJob, PromoteCandidate, DropStop,
         DropJob, DropWorker, DropImage, Step, ForwardLabels, DeployLabels, BuildLabels,
         PastCutover, CandidateLabels, TypeOK
    <2> QED
      BY <2>1 DEF ExclusionInv, ForwardLabels, Unfinished
  <1>2. /\ HasActive => Active.job \in JobId /\ Active.job # TargetJob
        /\ HasActive => TargetSlot # Active.slot
    BY TargetPlace DEF ActiveInv
  <1>3. pc \in CandidateLabels => op[cur].slot = SlotOf(cur) /\ op[cur].slot \in Slot
    BY <1>1, CandidateParts, TargetPlace DEF BodyPlaced
  <1>4. cloud.workers \in SUBSET Slot /\ cloud.pushed \in SUBSET Op
    BY DEF TypeOK
  <1>5. CASE BuildSucceeds
    BY <1>1, <1>2, <1>4, <1>5, PushedSet DEF BuildSucceeds, Helper, Spared
  <1>6. CASE CreateWorker
    <2>1. cloud' = [cloud EXCEPT !.workers = cloud.workers \cup {op[cur].slot}]
      BY <1>6 DEF CreateWorker, Helper
    <2>2. op[cur].slot \in Slot
      BY <1>3, <1>6 DEF CreateWorker, Step, CandidateLabels
    <2> QED
      BY <1>2, <1>4, <2>1, <2>2, WorkersSet DEF Spared
  <1>7. CASE SubmitJob \/ PromoteCandidate
    <2>1. pc \in {"submit", "promote"}
      BY <1>7 DEF SubmitJob, PromoteCandidate, Step
    <2>2. PICK route \in {"preview", "public"} :
            cloud' = [cloud EXCEPT !.jobs = [cloud.jobs EXCEPT ![TargetJob] =
                                                CandidateJob(cur, route)]]
      BY <1>7 DEF SubmitJob, PromoteCandidate, Helper
    <2> QED
      BY <1>1, <1>2, <2>1, <2>2, CandidateSubmitted DEF Spared
  <1>8. CASE DropStop
    <2>1. cloud' = [cloud EXCEPT !.jobs = [cloud.jobs EXCEPT ![TargetJob] =
                                             [cloud.jobs[TargetJob] EXCEPT !.up = FALSE]]]
      BY <1>8 DEF DropStop, Helper
    <2>2. /\ cloud' \in Clouds /\ cloud'.workers = cloud.workers /\ JobsKept
          /\ \A j \in JobId \ {TargetJob} : cloud'.jobs[j] = cloud.jobs[j]
      BY <2>1, JobStopped
    <2> QED
      BY <1>2, <2>2 DEF Spared
  <1>9. CASE DropJob
    BY <1>2, <1>9, JobGone DEF DropJob, Helper, Spared
  <1>10. CASE DropWorker
    <2>1. cloud' = [cloud EXCEPT !.workers = cloud.workers \ {op[cur].slot}]
      BY <1>10 DEF DropWorker, Helper, WithoutWorker
    <2>2. pc = "dropWorker"
      BY <1>10 DEF DropWorker, Step
    <2>3. op[cur].slot = TargetSlot
      BY <1>3, <2>2, CandidateParts DEF CandidateLabels, BodyPlaced, SlotOf
    <2>4. cloud.workers \ {op[cur].slot} \in SUBSET Slot
      BY <1>4
    <2> QED
      BY <1>2, <2>1, <2>3, <2>4, WorkersSet DEF Spared
  <1>11. CASE DropImage
    <2>1. CASE cloud' = cloud
      BY <2>1 DEF Spared, JobsKept, TypeOK, Clouds
    <2>2. CASE cloud' = WithoutImage(op[cur].candidate)
      <3>1. cloud' = [cloud EXCEPT !.pushed = {o \in cloud.pushed : ImageOf[o] # op[cur].candidate}]
        BY <2>2 DEF WithoutImage
      <3>2. {o \in cloud.pushed : ImageOf[o] # op[cur].candidate} \in SUBSET Op
        BY <1>4
      <3> QED
        BY <1>2, <3>1, <3>2, PushedSet DEF Spared
    <2> QED
      BY <1>11, <2>1, <2>2 DEF DropImage, Helper
  <1> QED
    BY <1>5, <1>6, <1>7, <1>8, <1>9, <1>10, <1>11 DEF CandidateCalls

\* The calls and reads of a deploy keep CandidateInv.
LEMMA CandidateDeploySteps ==
  ASSUME TypeOK, ExclusionInv, ActiveInv, CandidateInv,
         CallSteps \/ ReadSteps \/ AttemptSteps \/ CutOff
  PROVE  CandidateInv'
  <1>1. UNCHANGED op /\ app'.active = app.active
    BY DEF CallSteps, BuildSucceeds, Quiesce, CutJob, CutWorker,
       CreateWorker, SubmitJob, PromoteCandidate, DropStop, DropJob, DropWorker, DropImage,
       Helper, ReadSteps, CleanRejected, CutoverSkipped, ObserveHealthy, ObservePublic,
       CandidateUnhealthy, Quiet, AttemptSteps, CreateAttempt, RejectAttempt, FailAttempt,
       checkpoint_deployment_attempt, CutOff, set_application_runtime, TypeOK
  <1>2. Unfinished' = Unfinished
    BY <1>1 DEF Unfinished, Open
  <1>3. PlacesKept
    <2>1. CASE AttemptSteps
      BY <2>1, AttemptStepsKeepPlaces
    <2>2. CASE CallSteps \/ ReadSteps \/ CutOff
      BY <2>2, PlacesSame DEF CallSteps, BuildSucceeds, Quiesce, CutJob, CutWorker,
         CreateWorker, SubmitJob, PromoteCandidate, DropStop, DropJob, DropWorker, DropImage,
         Helper, ReadSteps, CleanRejected, CutoverSkipped, ObserveHealthy, ObservePublic,
         CandidateUnhealthy, Quiet, CutOff, set_application_runtime
    <2> QED
      BY <2>1, <2>2
  <1>4. ActiveSame
    BY <1>1, <1>3, ActivePlace
  <1>5. JobsKept
    <2>1. CASE CallSteps
      BY <2>1, CutCallsPlace, CandidateCallsPlace DEF CallSteps, CutCalls, CandidateCalls
    <2>2. CASE ReadSteps \/ AttemptSteps \/ CutOff
      BY <2>2 DEF JobsKept, ReadSteps, CleanRejected, CutoverSkipped, ObserveHealthy,
         ObservePublic, CandidateUnhealthy, Quiet, AttemptSteps, CreateAttempt, RejectAttempt,
         FailAttempt, checkpoint_deployment_attempt, CutOff, set_application_runtime
    <2> QED
      BY <2>1, <2>2
  <1>6. BodyPlaced'
    <2>1. CASE FailAttempt
      BY <2>1, PlacedElsewhere DEF FailAttempt, Step, CandidateLabels
    <2>2. CASE \/ BuildSucceeds \/ CutCalls \/ CleanRejected \/ CutoverSkipped \/ CreateAttempt
               \/ RejectAttempt \/ CutOff \/ DropImage \/ DropWorker
      BY <2>2, PlacedElsewhere DEF BuildSucceeds, CutCalls, Quiesce, CutJob, CutWorker,
         CleanRejected, CutoverSkipped, CreateAttempt, RejectAttempt, CutOff, DropImage,
         DropWorker, Step, AfterCutover, CandidateLabels
    <2>3. CASE \/ CreateWorker \/ SubmitJob \/ PromoteCandidate \/ DropStop \/ DropJob
               \/ ObserveHealthy \/ ObservePublic \/ CandidateUnhealthy
      <3>1. pc \in CandidateLabels /\ cur' = cur /\ cur \in Op
        BY <2>3 DEF CreateWorker, SubmitJob, PromoteCandidate, DropStop, DropJob,
           ObserveHealthy, ObservePublic, CandidateUnhealthy, Step, CandidateLabels, TypeOK
      <3>2. cur \in Unfinished /\ IsDeploy(cur)
        BY <3>1, LabelGroups DEF ExclusionInv, Unfinished, DeployLabels, PastCutover,
           CandidateLabels
      <3>3. /\ pc' \notin {"accept", "eAccept", "predGone", "predWorker"}
            /\ pc' = "dropWorker" => ~ReusesWorker(cur)
        BY <2>3 DEF CreateWorker, SubmitJob, PromoteCandidate, DropStop, DropJob,
           ObserveHealthy, ObservePublic, CandidateUnhealthy, Step
      <3> QED
        BY <1>1, <1>4, <3>1, <3>2, <3>3, PlacedMoves
    <2> QED
      BY <2>1, <2>2, <2>3 DEF CallSteps, ReadSteps, AttemptSteps, CutCalls
  <1> QED
    BY <1>1, <1>2, <1>4, <1>5, <1>6, CandidateKept

\* The cleanup after an acceptance spares the accepted deployment.
LEMMA FinishCallsPlace ==
  ASSUME TypeOK, ExclusionInv, ActiveInv, CandidateInv,
         RemovePredecessorJob \/ RemovePredecessorWorker \/ RetainImages
  PROVE  cloud' \in Clouds /\ JobsKept /\ Spared
  <1>1. HasActive => Active.job \in JobId
    BY DEF ActiveInv
  <1>2. CASE RemovePredecessorJob
    <2>1. cloud' = WithoutJob(Predecessor.job) /\ Predecessor.job # Active.job
      BY <1>2 DEF RemovePredecessorJob, Helper, Step, Holds
    <2> QED
      BY <1>1, <2>1, JobGone DEF Spared
  <1>3. CASE RemovePredecessorWorker
    <2>1. cloud' = [cloud EXCEPT !.workers = cloud.workers \ {Predecessor.slot}]
      BY <1>3 DEF RemovePredecessorWorker, Helper, WithoutWorker
    <2>2. Predecessor.slot # Active.slot
      BY <1>3, CandidateParts DEF RemovePredecessorWorker, Step, BodyPlaced
    <2>3. cloud.workers \ {Predecessor.slot} \in SUBSET Slot
      BY DEF TypeOK
    <2> QED
      BY <1>1, <2>1, <2>2, <2>3, WorkersSet DEF Spared
  <1>4. CASE RetainImages
    <2>1. PICK s \in SUBSET Op : cloud' = [cloud EXCEPT !.pushed = s]
      <3>1. PICK keep : cloud' = [cloud EXCEPT !.pushed =
                            {o \in cloud.pushed : ImageOf[o] \notin RecordedImages \ keep}]
        BY <1>4 DEF RetainImages, Helper
      <3>2. {o \in cloud.pushed : ImageOf[o] \notin RecordedImages \ keep} \in SUBSET Op
        BY DEF TypeOK
      <3> QED
        BY <3>1, <3>2
    <2> QED
      BY <1>1, <2>1, PushedSet DEF Spared
  <1> QED
    BY <1>2, <1>3, <1>4

\* The calls of a disable only remove a job and a worker.
LEMMA DisableCallsPlace ==
  ASSUME TypeOK, DisableJob \/ DisableWorker
  PROVE  cloud' \in Clouds /\ JobsKept
  <1>1. CASE DisableJob
    BY <1>1, JobGone DEF DisableJob, Helper
  <1>2. CASE DisableWorker
    <2>1. cloud' = [cloud EXCEPT !.workers = cloud.workers \ {Active.slot}]
      BY <1>2 DEF DisableWorker, Helper, WithoutWorker
    <2>2. cloud.workers \ {Active.slot} \in SUBSET Slot
      BY DEF TypeOK
    <2> QED
      BY <2>1, <2>2, WorkersSet
  <1> QED
    BY <1>1, <1>2

\* The calls of an enable only submit or remove the accepted deployment's job.
LEMMA EnableCallsPlace ==
  ASSUME TypeOK, ActiveInv, EnableWorker \/ EnableJob \/ EnableDropJob
  PROVE  cloud' \in Clouds /\ JobsKept
  <1>1. HasActive /\ Active.job \in JobId /\ Active.slot \in Slot /\ app.active \in Op
        /\ Active.prio \in Nat
    <2>1. HasActive
      BY DEF EnableWorker, EnableJob, EnableDropJob, Step, EnableLabels, ActiveInv
    <2> QED
      BY <2>1 DEF ActiveInv, HasActive, Active, TypeOK, Attempts
  <1>2. CASE EnableWorker
    <2>1. cloud' = [cloud EXCEPT !.workers = cloud.workers \cup {Active.slot}]
      BY <1>2 DEF EnableWorker, Helper
    <2>2. cloud.workers \cup {Active.slot} \in SUBSET Slot
      BY <1>1 DEF TypeOK
    <2> QED
      BY <2>1, <2>2, WorkersSet
  <1>3. CASE EnableJob
    <2> DEFINE job == [op |-> app.active, route |-> "public", prio |-> Active.prio,
                       slot |-> Active.slot, up |-> TRUE]
    <2>1. /\ job \in Jobs /\ job.op = app.active /\ job.slot = Active.slot
          /\ job.prio = Active.prio /\ pc = "eJob"
      BY <1>1, <1>3 DEF Jobs, EnableJob, Step
    <2>2. cloud' = [cloud EXCEPT !.jobs = [cloud.jobs EXCEPT ![Active.job] = job]]
      BY <1>3 DEF EnableJob, Helper
    <2> HIDE DEF job
    <2>3. /\ cloud' \in Clouds
          /\ \A j \in JobId : cloud'.jobs[j] = IF j = Active.job THEN job ELSE cloud.jobs[j]
      BY SMTT(30), <2>1, <2>2, JobSet
    <2> QED
      BY <1>1, <2>1, <2>3 DEF JobsKept
  <1>4. CASE EnableDropJob
    BY <1>4, JobGone DEF EnableDropJob, Helper
  <1> QED
    BY <1>2, <1>3, <1>4

DeleteCalls == DeleteStop \/ DeletePurge \/ DeleteRuntime \/ DeleteWorkers \/ DeleteImage

\* The calls of a delete only remove jobs, workers, images and storage.
LEMMA DeleteCallsPlace ==
  ASSUME TypeOK, DeleteCalls
  PROVE  cloud' \in Clouds /\ JobsKept
  <1>1. CASE DeleteStop
    <2>1. CASE cloud' = cloud
      BY <2>1 DEF JobsKept, TypeOK, Clouds
    <2> QED
      BY <1>1, <2>1, JobGone DEF DeleteStop, Helper
  <1>2. CASE DeletePurge
    <2>1. cloud' = [cloud EXCEPT !.storage = cloud.storage \ {FirstResource}]
      BY <1>2 DEF DeletePurge, Helper
    <2> QED
      BY <2>1 DEF TypeOK, Clouds, JobsKept
  <1>3. CASE DeleteRuntime
    <2>1. cloud' = [cloud EXCEPT !.jobs = [j \in JobId |-> NoJob]]
      BY <1>3 DEF DeleteRuntime, Helper
    <2>2. NoJob \in Jobs /\ NoJob.op = NoOp /\ ~NoJob.up
      BY DEF NoJob, Jobs, Slot
    <2>3. [j \in JobId |-> NoJob] \in [JobId -> Jobs]
      BY <2>2
    <2>4. cloud' \in Clouds /\ cloud'.jobs = [j \in JobId |-> NoJob]
      BY <2>1, <2>3 DEF TypeOK, Clouds
    <2> QED
      BY <2>2, <2>4 DEF JobsKept
  <1>4. CASE DeleteWorkers
    BY SMTT(30), <1>4, WorkersSet DEF DeleteWorkers, Helper
  <1>5. CASE DeleteImage
    <2>1. PICK s \in SUBSET Op : cloud' = [cloud EXCEPT !.pushed = s]
      <3>1. PICK image : cloud' = [cloud EXCEPT !.pushed =
                                      {o \in cloud.pushed : ImageOf[o] # image}]
        BY <1>5 DEF DeleteImage, Helper, WithoutImage
      <3>2. {o \in cloud.pushed : ImageOf[o] # image} \in SUBSET Op
        BY DEF TypeOK
      <3> QED
        BY <3>1, <3>2
    <2> QED
      BY <2>1, PushedSet
  <1> QED
    BY <1>1, <1>2, <1>3, <1>4, <1>5 DEF DeleteCalls

\* The bodies other than deploy write no row of an unfinished deploy.
LEMMA CandidateFinishSteps ==
  ASSUME TypeOK, ExclusionInv, ActiveInv, CandidateInv, FinishSteps
  PROVE  CandidateInv'
  <1>1. /\ LanesSame /\ cur \in Op /\ UNCHANGED <<app, attempt>> /\ cur' = cur
        /\ cur \in Finishing
    <2>1. UNCHANGED <<app, attempt>> /\ cur' = cur /\ pc \in FinishLabels
      BY DEF FinishSteps, HandoverDone, RemovePredecessorJob, PredecessorJobAbsent,
         RemovePredecessorWorker, Accepted, RetainImages, Helper, Journal,
         checkpoint_operation, Step, FinishLabel, FinishLabels
    <2> QED
      BY <2>1, FinishStepsContinue DEF ExclusionInv
  <1>2. /\ \A o \in Op \ {cur} : op'[o] = op[o]
        /\ op'[cur].pred = op[cur].pred
    <2>1. CASE HandoverDone \/ PredecessorJobAbsent \/ Accepted
      BY <1>1, <2>1, HandoverDoneWrites, PredecessorJobAbsentWrites, AcceptedWrites
         DEF Wrote, Holding
    <2>2. CASE RemovePredecessorJob \/ RemovePredecessorWorker \/ RetainImages
      BY <2>2 DEF RemovePredecessorJob, RemovePredecessorWorker, RetainImages, Helper
    <2> QED
      BY <2>1, <2>2 DEF FinishSteps
  <1>3. Unfinished' = Unfinished /\ \A o \in Unfinished' : op'[o] = op[o]
    BY <1>1, <1>2, LanesKept DEF Unfinished, Finishing
  <1>4. ActiveSame /\ \A o \in Op : op'[o].status = op[o].status
    BY <1>1, PlacesSame, ActivePlace DEF LanesSame
  <1>5. JobsKept
    <2>1. CASE HandoverDone \/ PredecessorJobAbsent \/ Accepted
      BY <2>1 DEF JobsKept, HandoverDone, PredecessorJobAbsent, Accepted,
         checkpoint_operation, Journal
    <2> QED
      BY <2>1, FinishCallsPlace DEF FinishSteps
  <1>6. BodyPlaced'
    <2>1. CASE RemovePredecessorJob \/ PredecessorJobAbsent
      <3>1. Predecessor.slot # Active.slot
        BY <2>1, CandidateParts DEF RemovePredecessorJob, PredecessorJobAbsent, Step, Holds,
           BodyPlaced
      <3>2. Predecessor'.slot = Predecessor.slot /\ Active'.slot = Active.slot
        BY <1>1, <1>2 DEF Predecessor, Active
      <3>3. pc' \in {"predGone", "predWorker"}
        BY <2>1 DEF RemovePredecessorJob, PredecessorJobAbsent, Step
      <3> QED
        BY <3>1, <3>2, <3>3 DEF BodyPlaced, CandidateLabels
    <2>2. CASE HandoverDone \/ RemovePredecessorWorker \/ Accepted \/ RetainImages
      BY <2>2, PlacedElsewhere DEF HandoverDone, RemovePredecessorWorker, Accepted,
         RetainImages, Step, FinishLabel, CandidateLabels
    <2> QED
      BY <2>1, <2>2 DEF FinishSteps
  <1> QED
    BY <1>3, <1>4, <1>5, <1>6, CandidateKept

\* Disables, enables, restarts, deletes and interruptions keep CandidateInv.
LEMMA CandidateOtherSteps ==
  ASSUME TypeOK, ExclusionInv, ActiveInv, CandidateInv,
         \/ DisableSteps \/ EnableSteps \/ RestartSteps \/ DeleteSteps \/ Raise \/ Interrupt
  PROVE  CandidateInv'
  <1>1. CASE EnableReady \/ EnableHealthy \/ RestartRequested
    <2>1. cur \in Op /\ cur' = cur /\ pc' \in {"eJob", "eAccept", "rCall"}
      BY <1>1 DEF EnableReady, EnableHealthy, RestartRequested, Step, TypeOK
    <2>2. KindOf[cur] \in {"enable", "restart"} /\ cur \in Unfinished
      BY <1>1 DEF EnableReady, EnableHealthy, RestartRequested, Step, ExclusionInv,
         EnableLabels, RestartLabels
    <2>3. ~IsDeploy(cur)
      BY <2>2 DEF IsDeploy, DeployKinds
    <2>4. /\ pc' \notin CandidateLabels
          /\ pc' \notin {"accept", "dropWorker", "predGone", "predWorker"}
      BY <2>1 DEF CandidateLabels
    <2>5. pc' = "eAccept" => Healthy(app.active)
      BY <1>1 DEF EnableReady, EnableHealthy, RestartRequested, Step
    <2> QED
      BY <1>1, <2>1, <2>2, <2>3, <2>4, <2>5, EnableReadyWrites, EnableHealthyWrites,
         RestartRequestedWrites, CandidateWritten
  <1>2. ASSUME UNCHANGED op, UNCHANGED attempt, app'.active = app.active, JobsKept,
               pc' \notin CandidateLabels \cup {"eAccept", "predGone", "predWorker"}
        PROVE  CandidateInv'
    <2>1. Unfinished' = Unfinished
      BY <1>2 DEF Unfinished, Open
    <2>2. ActiveSame
      BY <1>2, PlacesSame, ActivePlace
    <2> QED
      BY <1>2, <2>1, <2>2, PlacedElsewhere, CandidateKept
  <1>3. CASE DisableSteps
    <2>1. /\ UNCHANGED <<op, attempt>> /\ app'.active = app.active
          /\ pc' \notin CandidateLabels \cup {"eAccept", "predGone", "predWorker"}
      BY <1>3 DEF DisableSteps, DisableJob, DisableWorker, DisableOff, Helper, Step,
         set_application_runtime, CandidateLabels, TypeOK
    <2>2. JobsKept
      BY <1>3, DisableCallsPlace DEF DisableSteps, DisableOff, set_application_runtime, JobsKept
    <2> QED
      BY <1>2, <2>1, <2>2
  <1>4. CASE EnableWorker \/ EnableJob \/ EnableUnhealthy \/ EnableDropJob
    <2>1. /\ UNCHANGED <<op, attempt>> /\ app'.active = app.active
          /\ pc' \notin CandidateLabels \cup {"eAccept", "predGone", "predWorker"}
      BY <1>4 DEF EnableWorker, EnableJob, EnableUnhealthy, EnableDropJob, Helper, Quiet, Step,
         CandidateLabels
    <2>2. JobsKept
      BY <1>4, EnableCallsPlace DEF EnableUnhealthy, Quiet, JobsKept
    <2> QED
      BY <1>2, <2>1, <2>2
  <1>5. CASE RestartTask \/ Raise \/ Interrupt
    BY <1>2, <1>5 DEF RestartTask, Raise, Interrupt, Quiet, Step, CandidateLabels, JobsKept
  <1>6. CASE DeleteSteps
    <2>1. /\ UNCHANGED <<op, attempt>> /\ app'.active = app.active
          /\ pc' \notin CandidateLabels \cup {"eAccept", "predGone", "predWorker"}
      BY <1>6 DEF DeleteSteps, DeleteStop, DeleteResource, DeletePurge, DeleteForget,
         DeleteRuntime, DeleteWorkers, DeleteOff, DeleteImage, Helper, SetResource, Step,
         set_application_runtime, CandidateLabels, TypeOK
    <2>2. JobsKept
      <3>1. CASE DeleteCalls
        BY <3>1, DeleteCallsPlace
      <3>2. CASE DeleteResource \/ DeleteForget \/ DeleteOff
        BY <3>2 DEF DeleteResource, DeleteForget, DeleteOff, SetResource,
           set_application_runtime, JobsKept
      <3> QED
        BY <1>6, <3>1, <3>2 DEF DeleteSteps, DeleteCalls
    <2> QED
      BY <1>2, <2>1, <2>2
  <1> QED
    BY <1>1, <1>3, <1>4, <1>5, <1>6 DEF EnableSteps, RestartSteps

\* The candidate becomes the accepted deployment where its job is.
LEMMA CandidateAccepted ==
  ASSUME TypeOK, ExclusionInv, ActiveInv, CandidateInv, AcceptDeployment
  PROVE  CandidateInv'
  <1>1. /\ cur \in Unfinished /\ cur \in Op /\ pc' = "finish" /\ UNCHANGED cloud
        /\ IsDeploy(cur)
    <2>1. pc = "accept" /\ UNCHANGED cloud
      BY DEF AcceptDeployment, Step
    <2> QED
      BY <2>1, AcceptStepFinishes DEF Unfinished, ExclusionInv, DeployLabels, PastCutover,
         CandidateLabels
  <1>2. HasActive' /\ Active' = attempt'[cur] /\ app'.active = cur
    BY AcceptedPlace, ConstantsAssumption DEF HasActive, Active
  <1>3. Unfinished' = {}
    BY AcceptLanes
  <1>4. \A o \in Op : op[o].status # "none" => op'[o].status # "none"
    BY AcceptStepFinishes, FinishingSet DEF Unfinished
  <1>5. ASSUME NEW j \in JobId
        PROVE  JobPlaced(j)'
    <2>1. cloud.jobs[j].op \in Op \cup {NoOp} /\ JobPlaced(j)
      BY CandidateParts DEF TypeOK, Jobs
    <2>2. cloud.jobs[j].op = cur => j = TargetJob /\ cloud.jobs[j].slot = SlotOf(cur)
      BY <1>1, <2>1 DEF JobPlaced
    <2>3. Active'.job = TargetJob /\ Active'.slot = SlotOf(cur)
      BY <1>2, AcceptedPlace
    <2> QED
      BY <1>1, <1>2, <1>3, <1>4, <2>1, <2>2, <2>3 DEF JobPlaced
  <1>6. BodyPlaced'
    BY <1>1, PlacedElsewhere DEF CandidateLabels
  <1> QED
    BY <1>3, <1>5, <1>6, CandidatePartsNext

\* The acceptance of an enable keeps CandidateInv.
LEMMA CandidateEnabled ==
  ASSUME TypeOK, ExclusionInv, ActiveInv, CandidateInv, EnableAccept
  PROVE  CandidateInv'
  <1>1. Unfinished' = {} /\ pc' = "finish" /\ ActiveSame /\ UNCHANGED cloud
    BY AcceptLanes, AcceptStepFinishes, EnableAccepted
  <1>2. \A o \in Op : op[o].status # "none" => op'[o].status # "none"
    BY AcceptStepFinishes, FinishingSet DEF Unfinished
  <1>3. JobsKept
    BY <1>1 DEF JobsKept
  <1>4. BodyPlaced'
    BY <1>1, PlacedElsewhere DEF CandidateLabels
  <1> QED
    BY <1>1, <1>2, <1>3, <1>4, CandidateKept

\* The end of an operation keeps CandidateInv.
LEMMA CandidateEnded ==
  ASSUME TypeOK, ExclusionInv, ActiveInv, CandidateInv, NEW o \in Op, Closed(o),
         UNCHANGED <<attempt, cloud>>, app'.active = app.active,
         pc' \in {"idle", "failAttempt"}
  PROVE  CandidateInv'
  <1>1. /\ Unfinished' \subseteq Unfinished /\ \A p \in Unfinished' : op'[p] = op[p]
        /\ \A p \in Op : op[p].status # "none" => op'[p].status # "none"
    BY DEF Closed, Unfinished, Open
  <1>2. ActiveSame
    BY PlacesSame, ActivePlace
  <1>3. JobsKept
    BY DEF JobsKept
  <1>4. BodyPlaced'
    BY PlacedElsewhere DEF CandidateLabels
  <1> QED
    BY <1>1, <1>2, <1>3, <1>4, CandidateKept

\* A request that begins has no job yet.
LEMMA CandidateOpened ==
  ASSUME TypeOK, ExclusionInv, ActiveInv, CandidateInv, NEW o \in Op, Request(o)
  PROVE  CandidateInv'
  <1>1. PICK label : Opened(o, label)
    BY RequestRuns
  <1>2. Unfinished' = {o} /\ op[o].status = "none" /\ op'[o].phase = "validated"
    BY <1>1 DEF Opened, Unfinished, Open
  <1>3. /\ \A p \in Op : op[p].status # "none" => op'[p].status # "none"
        /\ UNCHANGED <<attempt, app, cloud>>
    BY <1>1 DEF Opened
  <1>4. ActiveSame
    BY <1>3, PlacesSame, ActivePlace
  <1>5. ReusesWorker(o) => HasActive
    BY DEF Request, BeginDeploy, BeginDisable, BeginEnable, BeginRestart, BeginDelete,
       ReusesWorker
  <1>6. ASSUME NEW j \in JobId
        PROVE  JobPlaced(j)'
    <2>1. cloud.jobs[j].op \in Op \cup {NoOp} /\ JobPlaced(j) /\ NoOp \notin Op
      BY CandidateParts, ConstantsAssumption DEF TypeOK, Jobs
    <2>2. cloud.jobs[j].op # o
      BY <1>2, <2>1 DEF JobPlaced
    <2> QED
      BY <1>2, <1>3, <1>4, <2>1, <2>2 DEF JobPlaced, ActiveSame
  <1>7. pc' \in {"attempt", "disJob", "eWorker", "rReq", "dStop"}
    BY DEF Request, BeginDeploy, BeginDisable, BeginEnable, BeginRestart, BeginDelete, Begin
  <1>8. BodyPlaced'
    BY <1>7, PlacedElsewhere DEF CandidateLabels
  <1> QED
    BY <1>2, <1>4, <1>5, <1>6, <1>8, CandidatePartsNext DEF RowPlaced, ActiveSame

\* The replay of a deploy keeps CandidateInv: it targets the same place.
LEMMA CandidateReplayed ==
  ASSUME TypeOK, ExclusionInv, ActiveInv, CandidateInv, NEW o \in Op, ReplayDeploy(o)
  PROVE  CandidateInv'
  <1>1. /\ o \in Unfinished /\ IsDeploy(o) /\ cur' = o /\ UNCHANGED <<app, cloud>>
        /\ pc' = RecoveryLabel(op[o].phase)
    BY DEF ReplayDeploy
  <1>2. /\ \A p \in Op \ {o} : op'[p] = op[p]
        /\ op'[o].phase = RecoveryPhase(op[o].phase) /\ op'[o].slot = op[o].slot
        /\ op'[o].job = op[o].job
    BY ReplayDeployWrites DEF Holding
  <1>3. /\ Unfinished' = Unfinished
        /\ \A p \in Op : op[p].status # "none" => op'[p].status # "none"
    BY ReplayDeployWrites, LanesKept DEF Holding, LanesSame
  <1>4. ActiveSame
    BY <1>1, ReplayDeployKeepsPlaces, ActivePlace
  <1>5. JobsKept
    BY <1>1 DEF JobsKept
  <1>6. \A j \in JobId : JobPlaced(j)'
    BY <1>3, <1>4, <1>5, JobsStayPlaced
  <1>7. (ReusesWorker(o) => HasActive) /\ RowPlaced(o, op[o].phase, op[o].slot, op[o].job)
    BY <1>1, CandidateParts
  <1>8. /\ op'[o].phase = "deployment_healthy" <=> op[o].phase = "deployment_healthy"
        /\ pc' \in CandidateLabels => pc' = "accept" /\ op[o].phase = "deployment_healthy"
        /\ pc' \notin {"dropWorker", "eAccept", "predGone", "predWorker"}
    BY <1>1, <1>2 DEF RecoveryPhase, RecoveryLabel, CandidateLabels
  <1>9. ASSUME NEW p \in Unfinished', IsDeploy(p)
        PROVE  /\ ReusesWorker(p) => HasActive'
               /\ RowPlaced(p, op[p].phase, op[p].slot, op[p].job)'
    <2>1. /\ p \in Op /\ (ReusesWorker(p) => HasActive)
          /\ RowPlaced(p, op[p].phase, op[p].slot, op[p].job)
      BY <1>3, <1>9, CandidateParts DEF Unfinished
    <2>2. RowPlaced(p, op'[p].phase, op'[p].slot, op'[p].job)
      BY <1>2, <1>7, <1>8, <2>1 DEF RowPlaced
    <2> QED
      BY <1>4, <2>1, <2>2, PlacesStay DEF RowPlaced, ActiveSame
  <1>10. BodyPlaced'
    <2>1. SlotOf(cur)' = SlotOf(o)' /\ SlotOf(o)' = SlotOf(o)
      BY <1>1, <1>4, <1>7, PlacesStay DEF SlotOf, ReusesWorker
    <2>2. pc' \in CandidateLabels => op'[o].slot = SlotOf(o)
      BY <1>2, <1>7, <1>8 DEF RowPlaced
    <2>3. pc' = "accept" => op'[o].phase = "deployment_healthy"
      BY <1>8 DEF CandidateLabels
    <2> QED
      BY <1>1, <1>8, <2>1, <2>2, <2>3 DEF BodyPlaced
  <1> QED
    BY <1>6, <1>9, <1>10, CandidatePartsNext

\* A replay keeps CandidateInv.
LEMMA CandidateResumed ==
  ASSUME TypeOK, ExclusionInv, ActiveInv, CandidateInv, NEW o \in Op, Resume(o)
  PROVE  CandidateInv'
  <1>1. CASE ReplayRestart(o) /\ op[o].phase = "restart_requested"
    <2>1. /\ op' = [op EXCEPT ![o] = [op[o] EXCEPT !.status = "failed"]]
          /\ pc' = "idle" /\ UNCHANGED <<app, attempt, cloud>>
      BY <1>1 DEF ReplayRestart
    <2> QED
      BY <2>1, StatusSet, CandidateEnded
  <1>2. CASE \/ ReplayDisable(o) \/ ReplayEnable(o) \/ ReplayDelete(o) \/ FinishAgain(o)
             \/ (ReplayRestart(o) /\ op[o].phase # "restart_requested")
    <2>1. /\ UNCHANGED <<op, app, attempt, cloud>>
          /\ pc' \in {"disJob", "eWorker", "dStop", "finish", "rReq"}
      BY <1>2, ReplayResumes DEF Resumed
    <2>2. Unfinished' = Unfinished
      BY <2>1 DEF Unfinished, Open
    <2>3. BodyPlaced'
      BY <2>1, PlacedElsewhere DEF CandidateLabels
    <2>4. ActiveSame /\ JobsKept
      BY <2>1, PlacesSame, ActivePlace DEF JobsKept
    <2> QED
      BY <2>1, <2>2, <2>3, <2>4, CandidateKept
  <1> QED
    BY <1>1, <1>2, CandidateReplayed DEF Resume

\* Every step keeps CandidateInv: a candidate is never put where the accepted
\* deployment is (_prepare_deployment_worker).
LEMMA CandidateStep ==
  ASSUME TypeOK, TargetInv, ExclusionInv, ActiveInv, CandidateInv, [Next]_vars
  PROVE  CandidateInv'
  <1>1. CASE EndSteps
    <2>1. UNCHANGED <<attempt, cloud>> /\ app'.active = app.active
      BY <1>1 DEF EndSteps, CreateAttemptRefused, RejectOp, FailOp, Succeed, DisableDone,
         RestartDone, RestartFails, complete_application_deletion, mark, Journal, TypeOK
    <2>2. pc' \in {"idle", "failAttempt"}
      BY <1>1 DEF EndSteps, CreateAttemptRefused, RejectOp, FailOp, Succeed, DisableDone,
         RestartDone, RestartFails, complete_application_deletion, Step
    <2> QED
      BY <1>1, <2>1, <2>2, EndStepCloses, CandidateEnded
  <1>2. CASE AcceptDeployment \/ EnableAccept
    BY <1>2, CandidateAccepted, CandidateEnabled
  <1>3. CASE UNCHANGED vars
    <2>1. Unfinished' = Unfinished /\ ActiveSame /\ JobsKept
      BY <1>3, PlacesSame, ActivePlace DEF vars, Unfinished, Open, JobsKept
    <2>2. SlotOf(cur)' = SlotOf(cur) /\ Predecessor' = Predecessor /\ Active' = Active
      BY <1>3 DEF vars, SlotOf, ReusesWorker, HasActive, Active, TargetSlot, Predecessor
    <2>3. Healthy(app.active)' = Healthy(app.active)
      BY SMTT(30), <1>3 DEF vars, Healthy, Serving, Routed
    <2>4. BodyPlaced'
      BY <1>3, <2>2, <2>3, CandidateParts DEF vars, BodyPlaced, ReusesWorker
    <2> QED
      BY <1>3, <2>1, <2>4, CandidateKept DEF vars
  <1>4. ASSUME NEW o \in Op, Request(o) \/ Resume(o)
        PROVE  CandidateInv'
    BY <1>4, CandidateOpened, CandidateResumed
  <1>5. CASE RowSteps
    BY <1>5, CandidateRowSteps
  <1>6. CASE CallSteps \/ ReadSteps \/ AttemptSteps \/ CutOff
    BY <1>6, CandidateDeploySteps
  <1>7. CASE \/ FinishSteps \/ DisableSteps \/ EnableSteps \/ RestartSteps \/ DeleteSteps
             \/ Raise \/ Interrupt
    BY <1>7, CandidateFinishSteps, CandidateOtherSteps
  <1> QED
    BY <1>1, <1>2, <1>3, <1>4, <1>5, <1>6, <1>7, StepCases DEF Next

(* Where jobs come from.                                                   *)

\* A step that calls nothing keeps every job.
LEMMA JobsSame == ASSUME UNCHANGED cloud PROVE JobsKept
  BY DEF JobsKept

\* Whatever the step, a job is gone, as before, the running deploy's candidate or
\* the accepted deployment's.
LEMMA JobsStep ==
  ASSUME TypeOK, ExclusionInv, ActiveInv, CandidateInv, [Next]_vars
  PROVE  JobsKept
  <1>1. CASE \/ RowSteps \/ ReadSteps \/ AttemptSteps \/ CutOff \/ DisableOff \/ DeleteOff
             \/ DeleteResource \/ DeleteForget
    BY <1>1, JobsSame DEF RowSteps, PrepareBuild, PlatformBusy, BuildRejected, ImagePushed,
       CutoverIntent, Quiesced, CutMark, PrepareEnvironment, PrepareReusedWorker,
       PrepareWorker, WorkerReady, CandidateRemoved, DeploymentHealthy, Journal,
       checkpoint_operation, ReadSteps, CleanRejected, CutoverSkipped, ObserveHealthy,
       ObservePublic, CandidateUnhealthy, Quiet, AttemptSteps, CreateAttempt, RejectAttempt,
       FailAttempt, checkpoint_deployment_attempt, CutOff, DisableOff, DeleteOff,
       set_application_runtime, DeleteResource, DeleteForget, SetResource
  <1>2. CASE \/ HandoverDone \/ PredecessorJobAbsent \/ Accepted \/ EnableReady \/ EnableHealthy
             \/ EnableUnhealthy \/ RestartSteps \/ EndSteps \/ AcceptDeployment \/ EnableAccept
    BY <1>2, JobsSame DEF HandoverDone, PredecessorJobAbsent, Accepted, Journal,
       checkpoint_operation, EnableReady, EnableHealthy, EnableUnhealthy, Quiet, RestartSteps,
       RestartRequested, RestartTask, EndSteps, CreateAttemptRefused, RejectOp, FailOp,
       Succeed, DisableDone, RestartDone, RestartFails, complete_application_deletion, mark,
       AcceptDeployment, EnableAccept
  <1>3. CASE CallSteps
    BY <1>3, CutCallsPlace, CandidateCallsPlace DEF CallSteps, CutCalls, CandidateCalls
  <1>4. CASE FinishSteps
    BY <1>2, <1>4, FinishCallsPlace DEF FinishSteps
  <1>5. CASE DisableSteps \/ EnableSteps
    BY <1>1, <1>2, <1>5, DisableCallsPlace, EnableCallsPlace DEF DisableSteps, EnableSteps
  <1>6. CASE DeleteSteps
    BY <1>1, <1>6, DeleteCallsPlace DEF DeleteSteps, DeleteCalls
  <1>7. CASE Raise \/ Interrupt \/ UNCHANGED vars
    BY <1>7, JobsSame DEF Raise, Interrupt, Quiet, vars
  <1>8. ASSUME NEW o \in Op, Request(o) \/ Resume(o)
        PROVE  UNCHANGED cloud
    BY <1>8, ResumeCases, RequestRuns DEF Opened, Resumed, ReplayDeploy
  <1> QED
    BY <1>1, <1>2, <1>3, <1>4, <1>5, <1>6, <1>7, <1>8, JobsSame, StepCases DEF Next
=============================================================================
