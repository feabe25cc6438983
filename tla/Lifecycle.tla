------------------------------ MODULE Lifecycle ------------------------------
(***************************************************************************)
(* The life of one application: deploy (rolling, with maintenance, on the  *)
(* accepted worker, or as a rollback), disable, enable, restart, delete,   *)
(* and the finishing work after an acceptance.  The bodies of these        *)
(* operations run one at a time under the application's file lock          *)
(* (runtime.lock, scope app-<id>), so one program counter is enough; what  *)
(* makes them hard is that a body may be cut off between any two steps.    *)
(* A label of pc stands between two durable effects: a SQLite transaction  *)
(* or a helper call that changes Nomad, OpenStack, the registry or the     *)
(* storage servers.  Interrupt leaves the body at any label: a crash of    *)
(* the controller, a helper call that raised before its effect (the step   *)
(* not taken) or after it (the step taken, its answer lost).  The caller   *)
(* then replays the same request with the same key.                        *)
(*                                                                         *)
(* The journal statuses running and recovery_required are one status here, *)
(* open: the bodies treat them alike.  So are the unfinished statuses of a *)
(* deployment attempt.  The application has neither a floating IP nor a    *)
(* retained port, so address handover and release change nothing.          *)
(***************************************************************************)
EXTENDS Integers, Sequences, FiniteSets

CONSTANTS
    Op,             \* requests; the idempotency key is the operation id
    KindOf,         \* the kind of each request
    ImageOf,        \* the digest a build of the request's commit produces
    Image,
    Resource,       \* managed storage resources of the application
    NoOp,
    NoImage,
    KeepPrior,      \* accepted images kept besides the current one
    MaxInterrupts,  \* bound: crashes and failed calls
    Callers         \* bound: the requests of one behaviour, one of these sets

DeployKinds == {"deploy", "maintain", "reuse", "rollback"}
Kinds == DeployKinds \cup {"disable", "enable", "restart", "delete"}

\* Nomad job IDs: the slug itself and slug-candidate.
JobId == {"stable", "candidate"}

\* Worker identities: the application's own, used by the first deployment, and
\* the two that later deployments alternate between.
Slot == {"own", "even", "odd"}

ASSUME ConstantsAssumption ==
    /\ KindOf \in [Op -> Kinds]
    /\ ImageOf \in [Op -> Image]
    /\ NoOp \notin Op
    /\ NoImage \notin Image
    /\ KeepPrior \in Nat
    /\ MaxInterrupts \in Nat
    /\ Callers \subseteq SUBSET Op

VARIABLES
    op,             \* operations rows, with the refs that steps read back
    attempt,        \* deployment_attempts rows, with the accepted Nomad job
    app,            \* the applications row and its active_deployments pointer
    res,            \* managed_resources rows
    accepted,       \* accepted attempts, newest first
    cloud,          \* Nomad jobs, worker servers, registry, stored data
    restarts,       \* how often each restart request restarted the task
    pc,             \* the label the body has reached
    cur,            \* the operation whose body is running
    interrupts

vars == <<op, attempt, app, res, accepted, cloud, restarts, pc, cur, interrupts>>

NoJob == [op |-> NoOp, route |-> "preview", prio |-> 0, slot |-> "own", up |-> FALSE]

NoRow ==
    [status |-> "none", phase |-> "validated", finishing |-> FALSE,
     candidate |-> NoImage, target |-> NoOp, slot |-> "none", server |-> "none",
     job |-> "none", pred |-> NoOp, predGone |-> FALSE, cut |-> NoOp,
     quiesced |-> FALSE, stopped |-> FALSE, direct |-> FALSE]

NoAttempt ==
    [status |-> "none", job |-> "none", slot |-> "none", prio |-> 0, image |-> NoImage]

\* An application just declared: inert, disabled, with its storage created.
Init ==
    /\ op = [o \in Op |-> NoRow]
    /\ attempt = [o \in Op |-> NoAttempt]
    /\ app = [desired |-> FALSE, worker |-> "none", active |-> NoOp, deleted |-> FALSE]
    /\ res = [r \in Resource |-> "active"]
    /\ accepted = <<>>
    /\ cloud = [jobs |-> [j \in JobId |-> NoJob], workers |-> {},
                pushed |-> {}, storage |-> Resource]
    /\ restarts = [o \in Op |-> 0]
    /\ pc = "idle"
    /\ cur = NoOp
    /\ interrupts = 0

-----------------------------------------------------------------------------
(* What the journal says.                                                  *)

IsDeploy(o) == KindOf[o] \in DeployKinds
Maintenance(o) == KindOf[o] \in {"maintain", "reuse"}
ReusesWorker(o) == KindOf[o] = "reuse"

Open(o) == op[o].status = "open"
Unfinished == {o \in Op : Open(o) /\ ~op[o].finishing}
Finishing == {o \in Op : Open(o) /\ op[o].finishing}

HasActive == app.active # NoOp
Active == attempt[app.active]

\* Another attempt of the application is not terminal.
AttemptOpen(o) == \E a \in Op \ {o} : attempt[a].status = "open"

\* Mutant: disable is admitted as soon as the address handover is done.
check_finishing_admission_IgnoresPredecessor(kind) ==
    \A f \in Finishing :
        \/ kind = "restart"
        \/ /\ kind \in {"enable", "disable"}
           /\ op[f].phase \in {"predecessor_cleanup", "accepted"}
           /\ app.desired

\* May an operation of this kind begin while an accepted one is finishing?
check_finishing_admission(kind) ==
    \A f \in Finishing :
        \/ kind = "restart"
        \/ /\ kind = "enable"
           /\ op[f].phase \in {"predecessor_cleanup", "accepted"}
           /\ app.desired
        \/ /\ kind = "disable"
           /\ \/ op[f].phase = "accepted"
              \/ /\ op[f].phase = "predecessor_cleanup"
                 /\ op[f].pred # NoOp =>
                        /\ op[f].predGone
                        /\ attempt[op[f].pred].slot # op[f].slot

\* Some set of callers makes this request besides those there are rows of.
Asked(o) ==
    \E requests \in Callers : {p \in Op : p = o \/ op[p].status # "none"} \subseteq requests

MayBegin(o) ==
    /\ Asked(o)
    /\ pc = "idle"
    /\ op[o].status = "none"
    /\ ~app.deleted
    /\ Unfinished = {}
    /\ check_finishing_admission(KindOf[o])

-----------------------------------------------------------------------------
(* What Nomad, OpenStack and the registry hold.                            *)

Routed == {j \in JobId : /\ cloud.jobs[j].up
                         /\ cloud.jobs[j].route = "public"
                         /\ cloud.jobs[j].slot \in cloud.workers}

\* The deployments the public route may answer for: Traefik takes the router of
\* highest priority.  The route marker names the deployment.
Serving ==
    {cloud.jobs[j].op : j \in {k \in Routed :
        \A i \in Routed : cloud.jobs[i].prio <= cloud.jobs[k].prio}}

\* check_public_health with the deployment's marker, and exact scheduler health.
Healthy(o) == Serving = {o}

InRegistry(image) == \E o \in cloud.pushed : ImageOf[o] = image

\* app.remove and app.stop act on an exact job identity, or find the job absent.
Removable(j, o) == cloud.jobs[j].op \in {o, NoOp}
WithoutJob(j) == [cloud EXCEPT !.jobs[j] = NoJob]
WithoutWorker(s) == [cloud EXCEPT !.workers = @ \ {s}]
WithoutImage(image) ==
    [cloud EXCEPT !.pushed = {o \in @ : ImageOf[o] # image}]
-----------------------------------------------------------------------------
(* Deploy: what a new deployment uses.                                     *)

\* The job ID the accepted job does not have.
TargetJob == IF HasActive /\ Active.job = "stable" THEN "candidate" ELSE "stable"

\* Mutant: every deployment uses the accepted worker's slot.
TargetSlot_NotAlternating == IF HasActive THEN Active.slot ELSE "own"

\* The worker slot the accepted worker is not in.
TargetSlot ==
    IF ~HasActive THEN "own" ELSE IF Active.slot = "odd" THEN "even" ELSE "odd"

NeedsPromotion(o) == HasActive /\ ~op[o].direct

RoutePriority(o) == IF NeedsPromotion(o) THEN Active.prio + 1 ELSE 1

\* The job a deployment submits, staged behind the preview route or public.
CandidateJob(o, route) ==
    [op |-> o, route |-> route, prio |-> RoutePriority(o), slot |-> op[o].slot, up |-> TRUE]

\* worker_reuse.observe: the accepted worker exists and is the recorded one.
ReusedWorkerReady ==
    /\ HasActive
    /\ app.worker = Active.slot
    /\ Active.slot \in cloud.workers

\* Labels reached after the artifact and after the cutover.
AfterCutover(o) == IF KindOf[o] = "rollback" THEN "worker" ELSE "env"
AfterBuild(o) == IF Maintenance(o) THEN "cutover" ELSE AfterCutover(o)

CutoverLabel(row) ==
    IF ReusesWorker(cur) /\ ~row.quiesced THEN "quiesce" ELSE "cutJob"

\* What the running operation's acceptance replaced.
Predecessor == attempt[op[cur].pred]

-----------------------------------------------------------------------------
(* What a label requires before its step; otherwise the body raises.       *)

Holds(label) ==
    /\ label = "build" => (ReusesWorker(cur) => ReusedWorkerReady)
    /\ label = "cleanRejected" => cur \notin cloud.pushed
    /\ label = "cutover" => op[cur].cut \in {NoOp, app.active}
    /\ label = "quiesce" =>
           ReusedWorkerReady /\ cloud.jobs[Active.job].op = app.active
    /\ label \in {"cutJob", "disJob", "eDrop"} => Removable(Active.job, app.active)
    /\ label = "worker" =>
           IF ReusesWorker(cur) THEN ReusedWorkerReady
           ELSE HasActive /\ ~app.desired => Active.slot \notin cloud.workers
    /\ label = "submit" => (op[cur].direct => op[cur].quiesced /\ op[cur].stopped)
    /\ label = "dropStop" => cloud.jobs[TargetJob].op = cur
    /\ label = "dropJob" => Removable(TargetJob, cur)
    /\ label = "accept" => Healthy(cur)
    /\ label = "finish" =>
           /\ HasActive
           /\ KindOf[cur] = "enable" \/ app.active = cur
           /\ op[cur].phase # "accepted" /\ app.desired => Healthy(app.active)
    /\ label = "predJob" =>
           /\ Predecessor.job # Active.job
           /\ Predecessor.slot # Active.slot
           /\ Removable(Predecessor.job, op[cur].pred)
    /\ label = "disWorker" =>
           (Active.slot \in cloud.workers => op[cur].server = Active.slot)
    /\ label = "dStop" => (HasActive => Removable(Active.job, app.active))


-----------------------------------------------------------------------------
(* Steps of a body.                                                        *)

\* The running body goes from one label to the next, if what the label requires
\* holds; "idle" ends it and lets the lock go.
Step(from, to) ==
    /\ pc = from
    /\ Holds(from)
    /\ pc' = to
    /\ cur' = IF to = "idle" THEN NoOp ELSE cur
    /\ UNCHANGED interrupts

\* A transaction that writes the operation's own row.
Journal(row) ==
    /\ op' = [op EXCEPT ![cur] = row]
    /\ UNCHANGED <<attempt, app, res, accepted, cloud, restarts>>

checkpoint_operation(phase) == Journal([op[cur] EXCEPT !.phase = phase])
mark(status) == Journal([op[cur] EXCEPT !.status = status])

\* A transaction that writes the status of the operation's attempt.
checkpoint_deployment_attempt(status) ==
    /\ attempt' = [attempt EXCEPT ![cur].status = status]
    /\ UNCHANGED <<op, app, res, accepted, cloud, restarts>>

\* A helper call that changes what runs or is stored outside the controller.
Helper(after) ==
    /\ cloud' = after
    /\ UNCHANGED <<op, attempt, app, res, accepted, restarts>>

set_application_runtime(running, worker) ==
    /\ app' = [app EXCEPT !.desired = running, !.worker = worker]
    /\ UNCHANGED <<op, attempt, res, accepted, cloud, restarts>>

\* A step that only reads, or writes what this module does not tell apart.
Quiet == UNCHANGED <<op, attempt, app, res, accepted, cloud, restarts>>

Begin(o, label, row) ==
    /\ op' = [op EXCEPT ![o] = row]
    /\ pc' = label
    /\ cur' = o
    /\ UNCHANGED <<attempt, app, res, accepted, cloud, restarts, interrupts>>

-----------------------------------------------------------------------------
(* Deploy: admission, attempt and recovery.                                *)

\* DeploymentService.deploy, verify_project and begin_operation.  A rollback
\* plan names an accepted deployment other than the active one whose image is
\* still in the registry.
BeginDeploy(o) ==
    /\ IsDeploy(o)
    /\ MayBegin(o)
    /\ ReusesWorker(o) => HasActive /\ app.worker # "none"
    /\ \E target \in Op \cup {NoOp} :
        /\ IF KindOf[o] = "rollback"
           THEN /\ HasActive /\ app.desired
                /\ target \notin {NoOp, app.active}
                /\ attempt[target].status = "succeeded"
                /\ InRegistry(attempt[target].image)
           ELSE target = NoOp
        /\ Begin(o, "attempt", [NoRow EXCEPT !.status = "open", !.target = target])

CreateAttempt ==
    /\ Step("attempt", "build")
    /\ ~AttemptOpen(cur)
    /\ checkpoint_deployment_attempt("open")

\* create_deployment_attempt refuses a second unfinished attempt; the operation
\* has touched nothing and fails.
CreateAttemptRefused ==
    /\ Step("attempt", "idle")
    /\ AttemptOpen(cur)
    /\ mark("failed")

\* deployment_recovery_action and the cases _recover_app_deployment takes first:
\* the label a replay continues from, and the phase it records.
RecoveryLabel(phase) ==
    IF phase = "build_rejected" THEN "cleanRejected"
    ELSE IF phase = "platform_busy" THEN "rejectAttempt"
    ELSE IF phase = "candidate_removed" THEN "dropImage"
    ELSE IF phase = "deployment_healthy" THEN "accept"
    ELSE "build"

RecoveryPhase(phase) ==
    IF phase = "builder_creating" THEN "validated"
    ELSE IF phase = "platform_environment" THEN "image_pushed"
    ELSE phase

\* A replay of an unfinished deploy.  If the crash came before the attempt was
\* created, recovery creates it.
ReplayDeploy(o) ==
    /\ pc = "idle"
    /\ IsDeploy(o)
    /\ o \in Unfinished
    /\ attempt[o].status = "none" => ~AttemptOpen(o)
    /\ op[o].phase = "deployment_healthy" /\ ReusesWorker(o) => ReusedWorkerReady
    /\ op' = [op EXCEPT ![o].phase = RecoveryPhase(@)]
    /\ attempt' = [attempt EXCEPT ![o].status = IF @ = "none" THEN "open" ELSE @]
    /\ pc' = RecoveryLabel(op[o].phase)
    /\ cur' = o
    /\ UNCHANGED <<app, res, accepted, cloud, restarts, interrupts>>

-----------------------------------------------------------------------------
(* Deploy: build, cutover, environment, worker.                            *)

\* Worker and builder images are pinned; a rollback takes the retained image of
\* its target, a replay keeps the candidate it has, and otherwise a builder is
\* about to be created.  Reuse chooses the direct route before any candidate
\* can exist.
PrepareBuild ==
    LET row == [op[cur] EXCEPT !.direct =
                    @ \/ (ReusesWorker(cur) /\ op[cur].phase = "validated" /\ app.desired)]
    IN  \/ /\ Step("build", AfterBuild(cur))
           /\ KindOf[cur] = "rollback"
           /\ Journal([row EXCEPT !.phase = "image_pushed",
                                  !.candidate = attempt[op[cur].target].image])
        \/ /\ Step("build", AfterBuild(cur))
           /\ KindOf[cur] # "rollback" /\ op[cur].candidate # NoImage
           /\ Journal(row)
        \/ /\ Step("build", "building")
           /\ KindOf[cur] # "rollback" /\ op[cur].candidate = NoImage
           /\ Journal([row EXCEPT !.phase = "builder_creating"])

\* _fail_untouched_deploy: maintenance holds the infrastructure lock too long.
PlatformBusy ==
    /\ Step("build", "rejectAttempt")
    /\ op[cur].phase = "validated"
    /\ op[cur].candidate = NoImage
    /\ checkpoint_operation("platform_busy")

BuildSucceeds ==
    /\ Step("building", "pushed")
    /\ Helper([cloud EXCEPT !.pushed = @ \cup {cur}])

\* BUILD_REJECTED, SOURCE_REJECTED or RUNTIME_UNAVAILABLE.
BuildRejected ==
    /\ Step("building", "cleanRejected")
    /\ checkpoint_operation("build_rejected")

\* app.build.cleanup only confirms that the build's tag is absent.
CleanRejected == Step("cleanRejected", "rejectAttempt") /\ Quiet

\* _finish_rejected_build and _finish_platform_busy: the attempt goes first.
RejectAttempt ==
    Step("rejectAttempt", "rejectOp") /\ checkpoint_deployment_attempt("failed")

RejectOp == Step("rejectOp", "idle") /\ mark("failed")

ImagePushed ==
    /\ Step("pushed", AfterBuild(cur))
    /\ Journal([op[cur] EXCEPT !.phase = "image_pushed", !.candidate = ImageOf[cur]])

\* Mutant: a recorded intent is taken for a stop.
CutoverSkipped_OnIntent ==
    /\ Step("cutover", AfterCutover(cur))
    /\ op[cur].cut # NoOp \/ ~app.desired \/ ~HasActive
    /\ Quiet

\* stop_predecessor: nothing to stop, or already stopped.
CutoverSkipped ==
    /\ Step("cutover", AfterCutover(cur))
    /\ IF op[cur].cut = NoOp THEN ~app.desired \/ ~HasActive
                             ELSE op[cur].stopped /\ ~app.desired
    /\ Quiet

\* stop_predecessor records which deployment it is about to stop.
CutoverIntent ==
    /\ Step("cutover", CutoverLabel(op[cur]))
    /\ IF op[cur].cut = NoOp THEN app.desired /\ HasActive
                             ELSE ~(op[cur].stopped /\ ~app.desired)
    /\ Journal([op[cur] EXCEPT !.cut = app.active])

\* app.stop confirms that the allocations have exited, keeping the job.
Quiesce ==
    /\ Step("quiesce", "quiesced")
    /\ Helper([cloud EXCEPT !.jobs[Active.job].up = FALSE])

Quiesced ==
    Step("quiesced", "cutJob") /\ Journal([op[cur] EXCEPT !.quiesced = TRUE])

CutJob ==
    /\ Step("cutJob", IF ReusesWorker(cur) THEN "cutMark" ELSE "cutWorker")
    /\ Helper(WithoutJob(Active.job))

CutWorker == Step("cutWorker", "cutMark") /\ Helper(WithoutWorker(Active.slot))

CutMark == Step("cutMark", "cutOff") /\ Journal([op[cur] EXCEPT !.stopped = TRUE])

CutOff ==
    /\ Step("cutOff", AfterCutover(cur))
    /\ set_application_runtime(FALSE, IF ReusesWorker(cur) THEN app.worker ELSE "none")

\* _prepare_platform_environment; its two phases recover alike.
PrepareEnvironment ==
    Step("env", "worker") /\ checkpoint_operation("platform_environment")

\* prepare_worker on the accepted worker.
PrepareReusedWorker ==
    /\ Step("worker", "submit")
    /\ ReusesWorker(cur)
    /\ Journal([op[cur] EXCEPT !.phase = "worker_ready", !.slot = Active.slot])

\* _prepare_deployment_worker chooses the slot before anything exists in it.
PrepareWorker ==
    /\ Step("worker", "create")
    /\ ~ReusesWorker(cur)
    /\ Journal([op[cur] EXCEPT !.phase = "worker_creating", !.slot = TargetSlot])

\* app.worker.observe, and app.worker.create if it is absent.
CreateWorker ==
    /\ Step("create", "ready")
    /\ Helper([cloud EXCEPT !.workers = @ \cup {op[cur].slot}])

WorkerReady == Step("ready", "submit") /\ checkpoint_operation("worker_ready")

-----------------------------------------------------------------------------
(* Deploy: submit, observe, promote, accept; or remove the candidate.      *)

\* app.deploy registers the job under its ID, replacing what was there.
SubmitJob ==
    /\ Step("submit", "observe")
    /\ Helper([cloud EXCEPT !.jobs[TargetJob] =
           CandidateJob(cur, IF NeedsPromotion(cur) THEN "preview" ELSE "public")])

ObserveHealthy ==
    /\ Step("observe", IF NeedsPromotion(cur) THEN "promote" ELSE "healthy")
    /\ NeedsPromotion(cur) \/ Healthy(cur)
    /\ Quiet

PromoteCandidate ==
    /\ Step("promote", "observePublic")
    /\ Helper([cloud EXCEPT !.jobs[TargetJob] = CandidateJob(cur, "public")])

ObservePublic ==
    /\ Step("observePublic", "healthy")
    /\ Healthy(cur)
    /\ Quiet

\* Observation ends without health at either stage.
CandidateUnhealthy ==
    /\ LET drop == IF ReusesWorker(cur) THEN "dropStop" ELSE "dropJob"
       IN  Step("observe", drop) \/ Step("observePublic", drop)
    /\ Quiet

\* On a shared worker the candidate must have exited before its job goes.
DropStop ==
    /\ Step("dropStop", "dropJob")
    /\ Helper([cloud EXCEPT !.jobs[TargetJob].up = FALSE])

DropJob ==
    /\ Step("dropJob", IF ReusesWorker(cur) THEN "dropped" ELSE "dropWorker")
    /\ Helper(WithoutJob(TargetJob))

DropWorker == Step("dropWorker", "dropped") /\ Helper(WithoutWorker(op[cur].slot))

CandidateRemoved ==
    Step("dropped", "dropImage") /\ checkpoint_operation("candidate_removed")

\* Mutant: the digest may be the accepted one.
DropImage_IgnoresAccepted ==
    /\ Step("dropImage", "failOp")
    /\ Helper(IF op[cur].target = NoOp THEN WithoutImage(op[cur].candidate) ELSE cloud)

\* The candidate's manifest goes unless it is retained or serves the accepted
\* deployment.
DropImage ==
    /\ Step("dropImage", "failOp")
    /\ Helper(IF /\ op[cur].target = NoOp
                 /\ ~HasActive \/ Active.image # op[cur].candidate
              THEN WithoutImage(op[cur].candidate) ELSE cloud)

FailOp == Step("failOp", "failAttempt") /\ mark("failed")

FailAttempt == Step("failAttempt", "idle") /\ checkpoint_deployment_attempt("failed")

DeploymentHealthy ==
    /\ Step("healthy", "accept")
    /\ Journal([op[cur] EXCEPT !.phase = "deployment_healthy", !.job = TargetJob,
                               !.pred = app.active])

\* accept_healthy_deployment: exact health is observed again, then sizing, the
\* accepted pointer and the finishing mark are one transaction.
AcceptDeployment ==
    /\ Step("accept", "finish")
    /\ app' = [app EXCEPT !.desired = TRUE, !.worker = op[cur].slot, !.active = cur]
    /\ attempt' = [attempt EXCEPT ![cur] =
           [status |-> "succeeded", job |-> op[cur].job, slot |-> op[cur].slot,
            prio |-> RoutePriority(cur), image |-> op[cur].candidate]]
    /\ accepted' = <<cur>> \o accepted
    /\ op' = [op EXCEPT ![cur].finishing = TRUE]
    /\ UNCHANGED <<res, cloud, restarts>>

-----------------------------------------------------------------------------
(* Finishing an accepted deploy or enable: finish_accepted_operation.      *)

FinishAgain(o) ==
    /\ pc = "idle"
    /\ o \in Finishing
    /\ Begin(o, "finish", op[o])

FinishLabel ==
    IF KindOf[cur] = "enable" THEN "succeed"
    ELSE IF op[cur].phase = "accepted" THEN "retain"
    ELSE IF op[cur].pred # NoOp /\ ~ReusesWorker(cur) THEN "predJob"
    ELSE "accepted"

\* The address handover is behind; the predecessor may go.
HandoverDone ==
    /\ Step("finish", FinishLabel)
    /\ checkpoint_operation(IF op[cur].phase = "deployment_healthy"
                            THEN "predecessor_cleanup" ELSE op[cur].phase)

RemovePredecessorJob == Step("predJob", "predGone") /\ Helper(WithoutJob(Predecessor.job))

PredecessorJobAbsent ==
    Step("predGone", "predWorker") /\ Journal([op[cur] EXCEPT !.predGone = TRUE])

\* Mutant: job absence is taken for worker absence.
RemovePredecessorWorker_Skipped == Step("predWorker", "accepted") /\ Quiet

RemovePredecessorWorker ==
    Step("predWorker", "accepted") /\ Helper(WithoutWorker(Predecessor.slot))

Accepted == Step("accepted", "retain") /\ checkpoint_operation("accepted")

\* Every digest the journal recorded for the application.
RecordedImages == {op[o].candidate : o \in {p \in Op : IsDeploy(p)}} \ {NoImage}

\* The distinct accepted images among the newest n accepted attempts.
AcceptedImages(n) == {attempt[accepted[i]].image : i \in 1 .. n}

\* Protected by _apply_registry_retention: the accepted image, candidates of
\* unfinished deploys, and the newest KeepPrior + 1 images of the history, which
\* continues with other recorded images when there are fewer accepted ones.
Protected ==
    LET refs == {Active.image} \cup
                {op[o].candidate : o \in {p \in Op : IsDeploy(p) /\ Open(p)}}
        newest == CHOOSE n \in 0 .. Len(accepted) :
                      /\ Cardinality(AcceptedImages(n)) <= KeepPrior + 1
                      /\ \A k \in 0 .. Len(accepted) :
                             Cardinality(AcceptedImages(k)) <= KeepPrior + 1 => k <= n
        spare == KeepPrior + 1 - Cardinality(AcceptedImages(newest))
        others == RecordedImages \ AcceptedImages(Len(accepted))
    IN  {refs \cup AcceptedImages(newest) \cup more :
            more \in {s \in SUBSET others :
                Cardinality(s) = IF spare < Cardinality(others) THEN spare
                                                               ELSE Cardinality(others)}}

RetainImages ==
    /\ Step("retain", "succeed")
    /\ \E keep \in Protected :
           Helper([cloud EXCEPT !.pushed =
               {o \in @ : ImageOf[o] \notin RecordedImages \ keep}])

Succeed == Step("succeed", "idle") /\ mark("succeeded")

-----------------------------------------------------------------------------
(* Disable and enable.                                                     *)

\* disable; an application that is already stopped needs no operation.
BeginDisable(o) ==
    /\ KindOf[o] = "disable"
    /\ MayBegin(o)
    /\ HasActive
    /\ app.desired \/ app.worker # "none"
    /\ Begin(o, "disJob", [NoRow EXCEPT !.status = "open", !.server = app.worker])

\* _operation: a replay must carry the refs the operation began with.
ReplayDisable(o) ==
    /\ pc = "idle"
    /\ KindOf[o] = "disable"
    /\ o \in Unfinished
    /\ op[o].server = app.worker
    /\ Begin(o, "disJob", op[o])

DisableJob == Step("disJob", "disWorker") /\ Helper(WithoutJob(Active.job))

DisableWorker == Step("disWorker", "disOff") /\ Helper(WithoutWorker(Active.slot))

DisableOff == Step("disOff", "disDone") /\ set_application_runtime(FALSE, "none")

DisableDone == Step("disDone", "idle") /\ mark("succeeded")

\* enable; a running application needs no operation.
BeginEnable(o) ==
    /\ KindOf[o] = "enable"
    /\ MayBegin(o)
    /\ HasActive
    /\ ~app.desired
    /\ Begin(o, "eWorker", [NoRow EXCEPT !.status = "open"])

\* Mutant: only an enable that has done nothing yet is resumed.
ReplayEnable_OnlyValidated(o) ==
    /\ pc = "idle"
    /\ KindOf[o] = "enable"
    /\ o \in Unfinished
    /\ op[o].phase = "validated"
    /\ Begin(o, "eWorker", op[o])

ReplayEnable(o) ==
    /\ pc = "idle"
    /\ KindOf[o] = "enable"
    /\ o \in Unfinished
    /\ Begin(o, "eWorker", op[o])

EnableWorker ==
    /\ Step("eWorker", "eReady")
    /\ Helper([cloud EXCEPT !.workers = @ \cup {Active.slot}])

EnableReady == Step("eReady", "eJob") /\ checkpoint_operation("worker_ready")

\* The accepted immutable job is submitted again.
EnableJob ==
    /\ Step("eJob", "eHealth")
    /\ Helper([cloud EXCEPT !.jobs[Active.job] =
           [op |-> app.active, route |-> "public", prio |-> Active.prio,
            slot |-> Active.slot, up |-> TRUE]])

EnableHealthy ==
    /\ Step("eHealth", "eAccept")
    /\ Healthy(app.active)
    /\ checkpoint_operation("deployment_healthy")

\* The job is removed again; the operation stays open for a replay.
EnableUnhealthy == Step("eHealth", "eDrop") /\ Quiet

EnableDropJob == Step("eDrop", "idle") /\ Helper(WithoutJob(Active.job))

EnableAccept ==
    /\ Step("eAccept", "finish")
    /\ app' = [app EXCEPT !.desired = TRUE, !.worker = Active.slot]
    /\ op' = [op EXCEPT ![cur].finishing = TRUE]
    /\ UNCHANGED <<attempt, res, accepted, cloud, restarts>>

-----------------------------------------------------------------------------
(* Restart.                                                                *)

BeginRestart(o) ==
    /\ KindOf[o] = "restart"
    /\ MayBegin(o)
    /\ HasActive /\ app.desired
    /\ Begin(o, "rReq", [NoRow EXCEPT !.status = "open"])

\* A request that may have reached Nomad is failed, never sent again.
ReplayRestart(o) ==
    /\ pc = "idle"
    /\ KindOf[o] = "restart"
    /\ o \in Unfinished
    /\ IF op[o].phase = "restart_requested"
       THEN /\ op' = [op EXCEPT ![o].status = "failed"]
            /\ UNCHANGED <<attempt, app, res, accepted, cloud, restarts, pc, cur,
                           interrupts>>
       ELSE Begin(o, "rReq", op[o])

RestartRequested ==
    Step("rReq", "rCall") /\ checkpoint_operation("restart_requested")

RestartTask ==
    /\ Step("rCall", "rDone")
    /\ cloud.jobs[Active.job].op = app.active
    /\ restarts' = [restarts EXCEPT ![cur] = @ + 1]
    /\ UNCHANGED <<op, attempt, app, res, accepted, cloud>>

RestartDone == Step("rDone", "idle") /\ mark("succeeded")

\* The helper raised, before or after the task restarted; restart marks the
\* operation failed at once.
RestartFails ==
    /\ Step("rCall", "idle") \/ Step("rDone", "idle")
    /\ mark("failed")

-----------------------------------------------------------------------------
(* Delete.                                                                 *)

BeginDelete(o) ==
    /\ KindOf[o] = "delete"
    /\ MayBegin(o)
    /\ Begin(o, "dStop", [NoRow EXCEPT !.status = "open"])

ReplayDelete(o) ==
    /\ pc = "idle"
    /\ KindOf[o] = "delete"
    /\ o \in Unfinished
    /\ Begin(o, "dStop", op[o])

DeleteStop ==
    /\ Step("dStop", "dRes")
    /\ Helper(IF HasActive THEN WithoutJob(Active.job) ELSE cloud)

\* The first resource that still has a row.
FirstResource == CHOOSE r \in Resource : res[r] # "gone"

SetResource(state) ==
    /\ res' = [res EXCEPT ![FirstResource] = state]
    /\ UNCHANGED <<op, attempt, app, accepted, cloud, restarts>>

\* The lifecycle states removing and recovery_required are one here: both make
\* the next removal a recovery.
DeleteResource ==
    /\ \E r \in Resource : res[r] # "gone"
    /\ Step("dRes", "dPurge")
    /\ SetResource("removing")

DeletePurge ==
    /\ Step("dPurge", "dForget")
    /\ Helper([cloud EXCEPT !.storage = @ \ {FirstResource}])

DeleteForget == Step("dForget", "dRes") /\ SetResource("gone")

\* app.remove of the whole slug takes both job IDs.
DeleteRuntime ==
    /\ \A r \in Resource : res[r] = "gone"
    /\ Step("dRes", "dWorkers")
    /\ Helper([cloud EXCEPT !.jobs = [j \in JobId |-> NoJob]])

\* app.worker.delete without "single" takes every slot.
DeleteWorkers ==
    Step("dWorkers", "dOff") /\ Helper([cloud EXCEPT !.workers = {}])

DeleteOff == Step("dOff", "dImages") /\ set_application_runtime(FALSE, "none")

DeleteImage ==
    \E image \in RecordedImages :
        /\ InRegistry(image)
        /\ Step("dImages", "dImages")
        /\ Helper(WithoutImage(image))

complete_application_deletion ==
    /\ \A image \in RecordedImages : ~InRegistry(image)
    /\ Step("dImages", "idle")
    /\ app' = [app EXCEPT !.deleted = TRUE]
    /\ op' = [op EXCEPT ![cur].status = "succeeded"]
    /\ UNCHANGED <<attempt, res, accepted, cloud, restarts>>

-----------------------------------------------------------------------------
(* The body, its failures and its callers.                                 *)

DeployStep ==
    \/ CreateAttempt \/ CreateAttemptRefused \/ PrepareBuild \/ PlatformBusy
    \/ BuildSucceeds \/ BuildRejected \/ CleanRejected \/ RejectAttempt \/ RejectOp
    \/ ImagePushed
    \/ CutoverSkipped \/ CutoverIntent \/ Quiesce \/ Quiesced \/ CutJob
    \/ CutWorker \/ CutMark \/ CutOff
    \/ PrepareEnvironment \/ PrepareReusedWorker \/ PrepareWorker
    \/ CreateWorker \/ WorkerReady
    \/ SubmitJob \/ ObserveHealthy \/ PromoteCandidate \/ ObservePublic
    \/ CandidateUnhealthy \/ DropStop \/ DropJob \/ DropWorker
    \/ CandidateRemoved \/ DropImage \/ FailOp \/ FailAttempt
    \/ DeploymentHealthy \/ AcceptDeployment

FinishStep ==
    \/ HandoverDone \/ RemovePredecessorJob \/ PredecessorJobAbsent
    \/ RemovePredecessorWorker \/ Accepted \/ RetainImages \/ Succeed

LifecycleStep ==
    \/ DisableJob \/ DisableWorker \/ DisableOff \/ DisableDone
    \/ EnableWorker \/ EnableReady \/ EnableJob \/ EnableHealthy
    \/ EnableUnhealthy \/ EnableDropJob \/ EnableAccept
    \/ RestartRequested \/ RestartTask \/ RestartDone \/ RestartFails
    \/ DeleteStop \/ DeleteResource \/ DeletePurge \/ DeleteForget
    \/ DeleteRuntime \/ DeleteWorkers \/ DeleteOff \/ DeleteImage
    \/ complete_application_deletion

BodyStep == DeployStep \/ FinishStep \/ LifecycleStep

\* A precondition does not hold: the body raises and leaves the journal open.
Raise ==
    /\ pc # "idle"
    /\ ~Holds(pc)
    /\ pc' = "idle"
    /\ cur' = NoOp
    /\ UNCHANGED interrupts
    /\ Quiet

\* A crash of the controller, or a call whose outcome is lost.
Interrupt ==
    /\ pc # "idle"
    /\ interrupts < MaxInterrupts
    /\ interrupts' = interrupts + 1
    /\ pc' = "idle"
    /\ cur' = NoOp
    /\ Quiet

Request(o) ==
    \/ BeginDeploy(o) \/ BeginDisable(o) \/ BeginEnable(o) \/ BeginRestart(o)
    \/ BeginDelete(o)

\* The caller repeats the request with its key, or the retry thread finishes it.
Resume(o) ==
    \/ ReplayDeploy(o) \/ ReplayDisable(o) \/ ReplayEnable(o) \/ ReplayRestart(o)
    \/ ReplayDelete(o) \/ FinishAgain(o)

Next ==
    \/ BodyStep
    \/ Raise
    \/ Interrupt
    \/ \E o \in Op : Request(o) \/ Resume(o)

Spec == Init /\ [][Next]_vars

\* The thread that holds the lock goes on; callers repeat unfinished requests and
\* the retry thread finishing ones; an enable that is repeated often enough
\* finds the job healthy.
Fairness ==
    /\ WF_vars(BodyStep \/ Raise)
    /\ \A o \in Op : SF_vars(Resume(o))
    /\ SF_vars(EnableHealthy)

FairSpec == Spec /\ Fairness

-----------------------------------------------------------------------------
(* Properties.                                                             *)

Labels ==
    {"idle", "attempt", "build", "building", "cleanRejected", "rejectAttempt",
     "rejectOp", "pushed", "cutover", "quiesce", "quiesced", "cutJob", "cutWorker",
     "cutMark", "cutOff", "env", "worker", "create", "ready", "submit", "observe",
     "promote", "observePublic", "healthy", "accept", "dropStop", "dropJob",
     "dropWorker", "dropped", "dropImage", "failOp", "failAttempt", "finish",
     "predJob", "predGone", "predWorker", "accepted", "retain", "succeed",
     "disJob", "disWorker", "disOff", "disDone", "eWorker", "eReady", "eJob",
     "eHealth", "eDrop", "eAccept", "rReq", "rCall", "rDone", "dStop", "dRes",
     "dPurge", "dForget", "dWorkers", "dOff", "dImages"}

Phases ==
    {"validated", "builder_creating", "build_rejected", "platform_busy",
     "image_pushed", "platform_environment", "worker_creating", "worker_ready",
     "candidate_removed", "deployment_healthy", "predecessor_cleanup", "accepted",
     "restart_requested"}

Rows ==
    [status : {"none", "open", "succeeded", "failed"}, phase : Phases,
     finishing : BOOLEAN, candidate : Image \cup {NoImage}, target : Op \cup {NoOp},
     slot : Slot \cup {"none"}, server : Slot \cup {"none"},
     job : JobId \cup {"none"}, pred : Op \cup {NoOp}, predGone : BOOLEAN,
     cut : Op \cup {NoOp}, quiesced : BOOLEAN, stopped : BOOLEAN, direct : BOOLEAN]

Attempts ==
    [status : {"none", "open", "succeeded", "failed"}, job : JobId \cup {"none"},
     slot : Slot \cup {"none"}, prio : Nat, image : Image \cup {NoImage}]

Jobs ==
    [op : Op \cup {NoOp}, route : {"preview", "public"}, prio : Nat, slot : Slot,
     up : BOOLEAN]

\* Every row, snapshot and observation has the shape the schema and the helper
\* answers give it; the body holds the lock exactly when it names an operation.
TypeOK ==
    /\ op \in [Op -> Rows]
    /\ attempt \in [Op -> Attempts]
    /\ app \in [desired : BOOLEAN, worker : Slot \cup {"none"},
                active : Op \cup {NoOp}, deleted : BOOLEAN]
    /\ res \in [Resource -> {"active", "removing", "gone"}]
    /\ accepted \in Seq(Op)
    /\ cloud \in [jobs : [JobId -> Jobs], workers : SUBSET Slot,
                  pushed : SUBSET Op, storage : SUBSET Resource]
    /\ restarts \in [Op -> Nat]
    /\ pc \in Labels
    /\ cur \in Op \cup {NoOp}
    /\ pc = "idle" <=> cur = NoOp
    /\ interrupts \in 0 .. MaxInterrupts

Quiescent == \A o \in Op : ~Open(o)

\* The accepted deployment of a running application keeps its job, its public
\* route and its worker through every deploy, failed deploy, crash, replay and
\* predecessor cleanup; only a maintenance cutover, a disable or a delete in
\* progress may take them (_prepare_deployment_worker, _cleanup_deployment).
PredecessorKeepsServing ==
    /\ app.desired
    /\ \A o \in Op : Open(o) => /\ op[o].cut = NoOp \/ op[o].finishing
                                /\ KindOf[o] \notin {"disable", "delete"}
    => LET job == cloud.jobs[Active.job]
       IN  /\ job.op = app.active /\ job.up /\ job.route = "public"
           /\ job.slot = app.worker /\ app.worker \in cloud.workers

\* A superseded deployment never answers on the public route again, whatever is
\* disabled or cut off while its cleanup is still pending: only the accepted
\* deployment and a candidate being promoted do (check_finishing_admission).
SupersededNeverServes ==
    Serving \subseteq {app.active} \cup {o \in Unfinished : IsDeploy(o)}

\* A maintenance candidate never runs beside its predecessor, also when the
\* cutover was cut off and replayed, and a stopped application never has two
\* processes (stop_predecessor, "no candidate may be created").
CutoverNeverOverlaps ==
    \A j \in JobId :
        /\ cloud.jobs[j].up
        /\ ~app.desired \/ (cloud.jobs[j].op \in Unfinished /\ Maintenance(cloud.jobs[j].op))
        => \A i \in JobId \ {j} : ~cloud.jobs[i].up

\* Once disable, or a failed cutover, has ended, no process of the application
\* is left running (disable, stop_predecessor, _deploy_and_accept_application).
StoppedRunsNothing ==
    Quiescent /\ ~app.desired => \A j \in JobId : ~cloud.jobs[j].up

\* When every operation has ended, the only job and the only worker left are
\* those of the accepted deployment: nothing a crash cut off is forgotten
\* (_cleanup_deployment, _recover_app_deployment).
RuntimeReclaimed ==
    Quiescent =>
        /\ \A j \in JobId : cloud.jobs[j].op # NoOp =>
               app.desired /\ j = Active.job /\ cloud.jobs[j].op = app.active
        /\ cloud.workers = IF app.worker = "none" THEN {} ELSE {app.worker}

\* The image of the accepted deployment, and the recorded candidate of a deploy
\* that may still submit it, stay in the registry through failed candidates and
\* retention (apply_registry_retention, app.manifest.delete).
RegistryKeepsReferenced ==
    /\ HasActive /\ (\A o \in Op : KindOf[o] = "delete" => op[o].status = "none")
           => InRegistry(Active.image)
    /\ \A o \in Unfinished :
           op[o].candidate # NoImage /\ op[o].phase # "candidate_removed"
           => InRegistry(op[o].candidate)

\* One restart request restarts the task at most once, whatever is lost between
\* the checkpoint and the answer (restart, "Never replay a checkpointed request").
RestartedAtMostOnce == \A o \in Op : restarts[o] <= 1

\* A tombstoned application has no job, worker, stored data or recorded image
\* left (delete, complete_application_deletion).
DeletedLeavesNothing ==
    app.deleted =>
        /\ \A j \in JobId : cloud.jobs[j] = NoJob
        /\ cloud.workers = {} /\ cloud.storage = {}
        /\ \A image \in RecordedImages : ~InRegistry(image)

\* The replays that can never complete: a disable whose worker identity is
\* already cleared; a rejected build whose earlier push succeeded; a deploy that
\* meets a stranded attempt; an ordinary deploy that meets a retained worker.
Stranded(o) ==
    \/ KindOf[o] = "disable" /\ op[o].server # app.worker
    \/ op[o].phase = "build_rejected" /\ o \in cloud.pushed
    \/ IsDeploy(o) /\ attempt[o].status = "none" /\ AttemptOpen(o)
    \/ IsDeploy(o) /\ ~ReusesWorker(o) /\ ~app.desired /\ HasActive
       /\ Active.slot \in cloud.workers

\* Every operation that began reaches a terminal status once crashes stop and
\* its request is repeated, unless it is stranded in one of the known ways
\* (_recover_app_deployment, finish_accepted_operation, enable, delete).
EveryOperationEnds ==
    \A o \in Op : Open(o) ~> (~Open(o) \/ Stranded(o))

\* What the other properties of an application's requests add: a superseded
\* deployment never serves, a stopped application runs nothing, a restart is
\* never replayed, and a deleted application leaves nothing.
LifecycleSafe ==
    /\ TypeOK
    /\ SupersededNeverServes /\ StoppedRunsNothing
    /\ RestartedAtMostOnce /\ DeletedLeavesNothing

-----------------------------------------------------------------------------
(* What the repository says and the code does not do.                      *)

\* "Mark the attempt first.  A crash before finishing the operation will repeat
\* the same absence checks rather than strand a nonterminal deployment row":
\* between bodies an unfinished attempt belongs to an unfinished operation.
NoStrandedAttempt ==
    pc = "idle" => \A o \in Op : attempt[o].status = "open" => Open(o)

Recovers(kinds) == \A o \in Op : KindOf[o] \in kinds => Open(o) ~> ~Open(o)

\* "If an operation ends in recovery_required, repeat the identical request with
\* the same key to resume it": repeating the request ends every disable.
DisableRecovers == Recovers({"disable"})

-----------------------------------------------------------------------------
(***************************************************************************)
(* Inductive strengthenings, used by the proofs.                           *)
(***************************************************************************)
CutLabels == {"quiesce", "quiesced", "cutJob", "cutWorker", "cutMark", "cutOff"}
BuildLabels == {"building", "cleanRejected", "rejectAttempt", "rejectOp", "pushed"}
CandidateLabels == {"create", "ready", "submit", "observe", "promote", "observePublic",
                    "healthy", "accept", "dropStop", "dropJob", "dropWorker"}
PastCutover == CandidateLabels \cup {"env", "worker", "dropped", "dropImage", "failOp"}
DeployLabels ==
    {"attempt", "build", "cutover", "failAttempt"} \cup BuildLabels \cup CutLabels
    \cup PastCutover
FinishLabels == {"finish", "predJob", "predGone", "predWorker", "accepted", "retain",
                 "succeed"}
DisableLabels == {"disJob", "disWorker", "disOff", "disDone"}
EnableLabels == {"eWorker", "eReady", "eJob", "eHealth", "eDrop", "eAccept"}
RestartLabels == {"rReq", "rCall", "rDone"}
DeleteLabels == {"dStop", "dRes", "dPurge", "dForget", "dWorkers", "dOff", "dImages"}

\* One body at a time, one unfinished operation, and beside an accepted one that
\* is finishing no operation that could be accepted.
ExclusionInv ==
    /\ pc \in DeployLabels => IsDeploy(cur) /\ ~op[cur].finishing
    /\ pc \in DeployLabels \ {"failAttempt"} => Open(cur)
    /\ pc \in FinishLabels => cur \in Finishing
    /\ pc \in DisableLabels => KindOf[cur] = "disable" /\ cur \in Unfinished
    /\ pc \in EnableLabels => KindOf[cur] = "enable" /\ cur \in Unfinished
    /\ pc \in RestartLabels => KindOf[cur] = "restart" /\ cur \in Unfinished
    /\ pc \in DeleteLabels => KindOf[cur] = "delete" /\ cur \in Unfinished
    /\ \A o, p \in Unfinished : o = p
    /\ \A o \in Unfinished :
          IsDeploy(o) \/ KindOf[o] \in {"enable", "delete"} => Finishing = {}
    /\ \A o \in Op : op[o].finishing => /\ IsDeploy(o) \/ KindOf[o] = "enable"
                                       /\ op[o].status # "none"

\* The accepted deployment has a job and a worker identity, which no step changes.
ActiveInv ==
    /\ HasActive => /\ op[app.active].finishing
                    /\ Active.job \in JobId /\ Active.slot \in Slot
    /\ app.desired => HasActive /\ app.worker = Active.slot
    /\ pc \in DisableLabels \cup EnableLabels => HasActive
    /\ \A o \in Unfinished : KindOf[o] \in {"disable", "enable"} => HasActive
    /\ \A o \in Unfinished : KindOf[o] = "enable" => ~app.desired
    /\ pc = "disDone" => ~app.desired
    /\ pc = "dImages" => ~app.desired

\* A deploy that stops its predecessor has recorded it, and has the application
\* marked as stopped before it creates or removes a candidate.
CutInv ==
    /\ \A o \in Unfinished : op[o].cut # NoOp =>
          /\ Maintenance(o) /\ op[o].candidate # NoImage
          /\ op[o].phase \in {"candidate_removed", "deployment_healthy"} => ~app.desired
    /\ \A o \in Unfinished : op[o].phase \in {"build_rejected", "platform_busy"} =>
          op[o].candidate = NoImage
    /\ pc \in CutLabels => op[cur].cut # NoOp
    /\ pc \in BuildLabels \cup {"attempt"} => op[cur].candidate = NoImage
    /\ pc \in {"cutover"} \cup CutLabels =>
          op[cur].candidate # NoImage /\ Maintenance(cur)
    /\ pc \in PastCutover /\ op[cur].cut # NoOp => ~app.desired
    /\ pc \in {"attempt", "build", "cutover"} =>
          op[cur].phase \notin {"candidate_removed", "deployment_healthy"}

\* Where the deploy o puts its candidate: not where the accepted deployment is.
SlotOf(o) == IF ReusesWorker(o) THEN Active.slot ELSE TargetSlot

CandidateInv ==
    /\ pc \in CandidateLabels => op[cur].slot = SlotOf(cur)
    /\ pc = "dropWorker" => ~ReusesWorker(cur)
    /\ \A o \in Unfinished : IsDeploy(o) =>
          /\ ReusesWorker(o) => HasActive
          /\ op[o].phase = "deployment_healthy" =>
                op[o].slot = SlotOf(o) /\ op[o].job = TargetJob
          /\ \A j \in JobId : cloud.jobs[j].op = o =>
                j = TargetJob /\ cloud.jobs[j].slot = SlotOf(o)
    /\ pc = "accept" => op[cur].phase = "deployment_healthy"
    /\ HasActive => \A j \in JobId : cloud.jobs[j].op = app.active =>
                        j = Active.job /\ cloud.jobs[j].slot = Active.slot
    /\ \A j \in JobId : cloud.jobs[j].op # NoOp => op[cloud.jobs[j].op].status # "none"
    /\ pc = "eAccept" => Healthy(app.active)
    /\ pc \in {"predGone", "predWorker"} => Predecessor.slot # Active.slot

ServingInv ==
    ExclusionInv /\ ActiveInv /\ CutInv /\ CandidateInv /\ PredecessorKeepsServing

\* A rollback has a target, whose image it takes.
TargetInv == \A o \in Op : KindOf[o] = "rollback" /\ Open(o) => op[o].target \in Op

\* A restart that was requested is not requested again.
RestartInv ==
    /\ \A o \in Op :
        /\ restarts[o] \in {0, 1}
        /\ restarts[o] = 1 => /\ KindOf[o] = "restart" /\ op[o].status # "none"
                              /\ op[o].phase = "restart_requested"
                              /\ ~(cur = o /\ pc \in {"rReq", "rCall"})
    /\ pc = "rCall" => op[cur].phase = "restart_requested"

\* Stored data whose row is gone is gone.  A delete has removed what its label is
\* past, and the application is deleted only when nothing is in progress.
DeleteInv ==
    /\ \A r \in Resource : res[r] = "gone" => r \notin cloud.storage
    /\ pc = "dForget" => FirstResource \notin cloud.storage
    /\ pc \in {"dWorkers", "dOff", "dImages"} =>
          (\A j \in JobId : cloud.jobs[j] = NoJob) /\ (\A r \in Resource : res[r] = "gone")
    /\ pc \in {"dOff", "dImages"} => cloud.workers = {}
    /\ app.deleted => pc = "idle" /\ (\A o \in Op : ~Open(o))

EarlyPhases == {"validated", "builder_creating", "build_rejected", "platform_busy"}
LatePhases == {"image_pushed", "platform_environment", "worker_creating", "worker_ready",
               "deployment_healthy"}

\* How far a deploy has come, in its row and in its body.
PhaseInv ==
    /\ \A o \in Unfinished : IsDeploy(o) =>
          /\ op[o].candidate # NoImage => op[o].phase \in LatePhases \cup {"candidate_removed"}
          /\ op[o].phase \in LatePhases /\ KindOf[o] # "rollback" => op[o].candidate # NoImage
          /\ op[o].phase = "deployment_healthy" => op[o].pred = app.active
          /\ op[o].direct => ReusesWorker(o)
          /\ ~op[o].predGone
    /\ pc \in BuildLabels \cup {"attempt"} => op[cur].phase \in EarlyPhases
    /\ pc \in {"cutover", "env", "worker", "dropped"} \cup CutLabels \cup CandidateLabels =>
          op[cur].phase \in LatePhases
    /\ pc \in {"dropImage", "failOp"} => op[cur].phase = "candidate_removed"

\* The candidate of a deploy that may still submit it, or has to remove it.
Candidate(o) ==
    /\ o \in Unfinished /\ IsDeploy(o) /\ op[o].phase \in LatePhases
    /\ ~(cur = o /\ pc \in {"dropWorker", "dropped"})

\* The predecessor of the accepted deployment, before its cleanup is recorded.
Superseded(o) ==
    /\ o # NoOp /\ app.active \in Finishing /\ IsDeploy(app.active)
    /\ ~ReusesWorker(app.active)
    /\ op[app.active].pred = o /\ ~op[app.active].predGone
    /\ op[app.active].phase \in {"deployment_healthy", "predecessor_cleanup"}

\* The cleanup has removed the predecessor's job.
Cleaned ==
    cur = app.active /\ pc \in {"predGone", "predWorker", "accepted", "retain", "succeed"}

\* A job is the accepted deployment's, a candidate's or the predecessor's.
JobInv ==
    /\ \A f \in Finishing : IsDeploy(f) => f = app.active
    /\ \A j \in JobId :
          LET job == cloud.jobs[j]
          IN  /\ job.op = NoOp => ~job.up
              /\ job.op # NoOp => \/ job.op = app.active
                                  \/ Candidate(job.op)
                                  \/ Superseded(job.op) /\ ~Cleaned /\ j = attempt[job.op].job
    /\ \A o \in Op : Superseded(o) =>
          app.desired /\ \A d \in Unfinished : KindOf[d] # "disable"

\* A later deployment has a higher priority.
PriorityInv ==
    \A j \in JobId :
        LET job == cloud.jobs[j]
        IN  /\ job.op # NoOp /\ job.op = app.active => job.prio = Active.prio
            /\ Candidate(job.op) => job.prio = RoutePriority(job.op)
            /\ Superseded(job.op) => job.prio < Active.prio

\* The accepted deployment of a stopped application has a job only while an enable
\* is unfinished, and a maintenance candidate only runs when it has none.
StopInv ==
    /\ \A j \in JobId : cloud.jobs[j].op # NoOp /\ cloud.jobs[j].op = app.active =>
          /\ app.desired \/ \E o \in Unfinished : KindOf[o] = "enable"
          /\ pc \notin {"cutWorker", "cutMark", "cutOff", "disWorker", "disOff"}
    /\ \A o \in Unfinished : Maintenance(o) =>
          /\ \A j \in JobId : cloud.jobs[j].op = o => ~app.desired \/ ~HasActive
          /\ op[o].phase \in {"candidate_removed", "deployment_healthy"} =>
                ~app.desired \/ ~HasActive
    /\ pc \in PastCutover /\ Maintenance(cur) => ~app.desired \/ ~HasActive
=============================================================================
