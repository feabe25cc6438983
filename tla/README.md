# Verification of the deployment platform

TLA+ models of the platform that deploys applications on OpenStack, the TLC
configurations that check them on small instances, and TLAPS proofs that hold
for every instance. `PROJECT.json` lists the components, the runs, the source
lines behind each definition, the mutants, the findings, the hazards and the
theorems.

## The system

| Part | What it does |
| --- | --- |
| controller | Owns a SQLite database. Admits keyed requests, journals an operation for each, executes it on a small thread pool, and drives Nomad, OpenStack, the registry and the storage hosts. |
| helper | Executes one validated external action for the controller: a job, a worker, a build, a manifest, a storage change. |
| portal broker | Keeps users, settings and its own journal of intents, and calls the controller with the intent's key. |
| storage host | One database server per resource under an instance manager; migrations move data from shared servers to instances. |
| operator tools | Installation, persistent hosts, images, releases, backup and restore. |

A request carries an idempotency key, which becomes the operation's ID. Work is
divided into *scopes* (each application, and the infrastructure), each with a
file lock and at most one unfinished *foreground* operation. A deployment that
has been accepted moves to a second, *finishing* lane: predecessor removal and
registry retention are retried there while compatible work goes on. The process
may die between any two transactions or external calls. Startup recovery,
bounded automatic retries and repeated requests put things right. That recovery
is what most of the models are about.

## Modules

| Module | Models | Run |
| --- | --- | --- |
| `Operations` | what the journal promises: an operation is admitted, open, finishing, ended, and never goes back | `dispatch_live` |
| `Dispatch` | operation journal, dispatch table, executor, finishing retries, stop, crash, startup recovery | `dispatch_lanes`, `dispatch_live` |
| `Lifecycle` | bodies of deploy, rollback, disable, enable, restart, delete and finishing for one application | `lifecycle`, `lifecycle_live` |
| `Addresses` | floating address and retained port of an application | `services` |
| `StorageResource` | create, verify, rotate, remove and limits of managed storage | `services` |
| `Environment` | setting and unsetting variables, restart, undo | `services` |
| `Workers`, `Builds` | the machine and port of a worker; a disposable builder | `machines` |
| `Hosts`, `Images`, `Setup` | persistent hosts, the image catalogue, the installation | `machines` |
| `Portal`, `Settings`, `Accounts` | journal of intents; configuration and people; sign-in | `portal` |
| `Migration`, `Checkpoints` | moving data to instances; managed-data backups and the checkpoint receipt | `storage` |
| `Pairs`, `Deploys` | portal release pairs; helper and operator releases | `upkeep` |
| `Backups`, `Restores`, `Instances` | controller backups, restores, the instance manager | `upkeep` |
| `MCDispatch`, `MCLifecycle`, `MCServices`, `MCMachines`, `MCPortal`, `MCStorage`, `MCUpkeep` | instances for TLC | |
| `Dispatch...Proofs`, `Lifecycle...Proofs` | theorems (below) | |

The last five MC modules join components that share no state: a variable `part`,
chosen initially and never changed, says which component the behaviour is about,
and the others stay in their initial state. One run so explores the sum of their
state spaces, not the product. What two components do to each other is in the
module of the one that suffers it: a migration's child operations in `Dispatch`,
worker creation on a retained port in `Addresses`, storage rows in `Lifecycle`'s
delete, late answers of the controller in `Portal`.

Operators whose names end in `_Something` and whose comment begins "Mutant" are
plausible faults of the definition that follows. They are not part of any
specification; replacing the definition by its mutant makes the property named
in `PROJECT.json` fail, which shows that the property depends on that code.

### Dispatch and Operations

State: the columns of `operations` and `operation_dispatches` that steer
anything, the queue (how often each operation is in it), the free slots, each
thread's operation and place in `_run`, the file locks, and the place startup
recovery has reached. A crash clears the memory and keeps the rows.

There is one action per transaction. `submit`, `resubmit_recovery` and
`retry_due` are the ways a dispatch becomes pending. `Take`, `MarkRunning`,
`AcquireLock`, `Work...`, `AfterReturn`, `AfterRaise`, `SettlePlaceholder`,
`Reschedule` and `Conclude` follow `_run`. `Startup...` are the transactions of
`_recover_startup`. A body is abstracted to what it writes to its own row. A
migration also begins, ends or fails *child* operations in applications' scopes.

`Operations` is the abstract journal; `Dispatch` implements it (`JournalKept`)
under a mapping that reads the state of an operation off its row.

### Lifecycle

State: operation and attempt rows, the application row with its accepted
pointer, resource rows, the order of acceptances, and `cloud`, what Nomad,
OpenStack, the registry and storage really hold. Bodies of one application run
one at a time under its lock, so a single program counter is enough. A label
stands between two durable effects. `Interrupt` leaves a body at any label, and
so stands for a crash, for a call that failed before its effect and for a call
whose answer was lost after it. `Raise` is a precondition of the next step that
does not hold (`Holds`), which the code reports as an error. `Request` begins an
operation and `Resume` replays it from its recorded phase, as
`_recover_app_deployment` and the replays of the other kinds do.

Abstractions: the journal statuses running and recovery_required are one status,
open. A worker slot is identified with its server. Jobs alternate between two job
IDs, and workers between two slots after the application's own. A busy
infrastructure lock is met at the build only. A rollback is an ordinary one, not
combined with a cutover. An image is the digest its commit builds to; two
requests may share it. Addresses are in `Addresses`.

### The other components

Each has the durable rows or files of its component, what the provider holds,
the label of the running body, and a count of interruptions. A create call may be
accepted and land later, a command may be killed anywhere, and the same command
is then given again. An unverified change either took effect or never does; a
lost create lands only while its operation is the newest one. Wording, sizes and
encodings are left out.

## Runs

| Run | Shows |
| --- | --- |
| `dispatch_lanes` | Two threads, every lane of an application, or a migration inside its scope, with a crash: one operation per lane and scope, each dispatch carried once, whatever rests can be replayed, no conflict ends a worker thread, a stop drains, a master outlives its child. |
| `dispatch_live` | One slot and two automatic attempts: slots, retries and their budget, dispatches settle, finishing work resolves, and `Dispatch` implements `Operations`. |
| `lifecycle` | All kinds of request with two interruptions: the predecessor serves until it is replaced, a cutover never overlaps, ended work leaves no runtime behind, referenced images stay, and `LifecycleSafe`: types, no superseded deployment serves, a stopped application runs nothing, a restart happens once, a deleted application leaves nothing. |
| `lifecycle_live` | Every repeated request ends, apart from the stranding situations of `Stranded`. |
| `services` | The address is on the accepted worker and nothing is allocated twice or lost; a published credential works and nothing is left behind; keys, values and the revision are told truly; requests end. |
| `machines` | One machine per placement; a settled build is clean; a replaced host is whole before the old one goes; an image in use or selected is kept; setup makes each credential once; jobs end. |
| `portal` | An intent told as succeeded or failed is; one change is in flight; bindings are sound and no save is lost; sessions follow the account's generation; failures are bounded; intents settle. |
| `storage` | No write is lost, one side is open, an abort unfreezes; a receipt is backed by an archive; applications serve again. |
| `upkeep` | The active pair and the selected release are whole and were asked for; a committed backup set is whole and enough are kept; a restore can be finished; instances stay in memory, on ports of their own, behind current rules; servers run. |
| `stranded_attempt`, `disable_replay`, `storage_abort` | Statements of the documentation or comments that the code does not meet (below). |

**Bounds.** Failures are counted: `MaxCrashes`, `MaxInterrupts`, `MaxAddrCuts`,
`MaxStoreCuts`, `MaxEnvCuts`, `MaxWorkerCuts`, `MaxBuildCuts`, `MaxHostCuts`,
`MaxImageCuts`, `MaxSetupCuts`, `MaxMishaps`, `MaxMigrationCuts`, `MaxCheckCuts`,
`MaxPairCuts`, `MaxDeployCuts`, `MaxBackupCuts`, `MaxRestoreCuts`, `MaxDowns`. One
puts a failure at every boundary; where recovery has steps of its own, two or
three also cut off the recovery from the first. Requests are counted too:
`Callers` and `Asks` are the sets of requests one behaviour may make, chosen so
that each mode meets a predecessor in each state, and `MaxAddrRequests`,
`MaxWorkerJobs`, `MaxHostOps`, `MaxImageOps`, `MaxImageMoves`, `MaxRequests`,
`MaxChanges`, `MaxGuesses`, `MaxMigrations`, `MaxAborts`, `MaxWrites`,
`MaxInstRequests`, `MaxAsks`, `MaxEdits`, `MaxDeploys`, `MaxPolicyEdits`,
`MaxExports`, `MaxRestores` bound the rest; two requests of a kind are needed for
one to meet what the other left. The limits of the code are small but not
degenerate: `Capacity` equal to the number of threads or to one, `MaxRetries` with
a first, a last and an exhausted attempt, `MaxFailures` and `MaxTeam` of one,
`Retain`, `Minimum`, `Fewest` and `KeepPrior` below the number of things to keep,
`Days`, `Retention` and `Freshness` below `MaxTime` and `MaxClock`, `Budget` below
the sum of what may be asked. Because requests are bounded a behaviour ends, and
a system without requests legitimately rests: all runs but the two of `Dispatch`,
where the clock and the process always go on, leave deadlock unchecked.
`SYMMETRY` is used only in `dispatch_lanes`, over threads, for invariants.

**Fairness.** In `Dispatch`, threads and startup run on, the service manager
restarts a stopped controller, and the clock and retry poll are not preempted
for ever. In `Lifecycle`, the thread that holds the lock goes on, and an
unfinished request is repeated: by the retry thread for finishing work, and
otherwise by the caller, which is what `docs/reference/controller-api.md` asks
of it. `EnableHealthy` is strongly fair because an unhealthy enable stays open
by design: it can only end if the application is healthy at some repetition. In
the other components the running body goes on, the provider performs what it
accepted, and an unfinished command is given again. Repeats are strongly fair
where other work may keep taking the lock they need (`MigrateReplay`,
`AbortReplay`, `Reconcile`, `SetupAgain`, the handlers of `Instances`). Nothing
obliges anyone to make new requests.
## Proofs

TLAPS checks the theorems below for every value of the constants that satisfies
the module's `ConstantsAssumption`: any sets of keys, scopes, images and
resources, any number of crashes or interruptions, any retry budget. `Dispatch`
assumes that threads are finitely many and not more than the slots, that the null
values are not members of their sets, and that there is one migration key, as
the model has one migration master. `Lifecycle` assumes only the types of its
constants. TLC evaluates the assumptions on every run of the module.

| Theorem | Module | Statement |
| --- | --- | --- |
| `TypeCorrect` | `DispatchProofs` | `Spec => []TypeOK` |
| `ExecutedOnce` | `DispatchProofs` | `Spec => []ExecutedExactlyOnce` |
| `LanesExclusive` | `DispatchProofs` | `Spec => []OneOperationPerLane` |
| `AdmittedStaysAdmitted` | `DispatchJournalProofs` | `Spec => []ConflictNeverKillsWorker` |
| `MasterStaysOpen` | `DispatchJournalProofs` | `Spec => []MasterOutlivesChild` |
| `StopDrains` | `DispatchJournalProofs` | `Spec => []StopLeavesNothingBehind` |
| `JournalImplementsOperations` | `DispatchJournalProofs` | `Spec => JournalKept` |
| `SettledIsReplayable` | `DispatchJournalProofs` | `Spec => []LanesReplayable` |
| `RetriesNeverForgotten` | `DispatchJournalProofs` | `Spec => []RetriesKept` |
| `CapacityConserved` | `DispatchJournalProofs` | `Spec => []SlotsConserved` |
| `PredecessorServes` | `LifecycleServingProofs` | `Spec => [](TypeOK /\ PredecessorKeepsServing)` |
| `CutoverIsExclusive` | `LifecycleSafetyProofs` | `Spec => []CutoverNeverOverlaps` |
| `LifecycleIsSafe` | `LifecycleSafetyProofs` | `Spec => []LifecycleSafe` |

All but `TypeCorrect` state a property that a run checks, so each holds on
the small instance by exhaustion and on every instance by proof. The
strengthenings below stand at the end of `Dispatch` and of `Lifecycle`. TLC was
given each of them as an invariant before it was proved.
Each proof module names Zenon as its prover (`USE ZenonT(60)`), because most steps
are first-order; the steps that need arithmetic, or the values of a function that
was updated, cite the SMT solver.

### The journal and its executor

`TypeOK` is inductive. The rest is built up in layers, each assuming the ones
before it.

- `CarrierInv`: what memory holds agrees with the dispatch table, and during
  startup every dispatch that memory lost is still in `todo`. A crash forgets the
  queue, so "carried exactly once" alone is not preserved by a restart.
- `LaneInv`: besides `OneOperationPerLane`, `AcceptanceInv` (an operation that may
  still be accepted has no finishing one beside it, so accepting it cannot put two
  in the finishing lane) and `BodyInv` (a thread within a body owns an unfinished
  row, which no other thread writes).
- `PlacedInv`: where a thread or the startup stands tells what the row it is about
  says. `_run` reads the row in one transaction and settles it in another; this is
  what makes the second one right.
- `RowInv`: the two tables agree on what is accepted (`FlagsInv`), whoever is not
  accepted is the one active request of its scope (`DutyInv`), and the master of an
  unfinished child has domain intent (`MasterInv`).

`JournalInv` is their conjunction, and inductive. For `RowInv` the actions are
first reduced to eleven *moves* of one operation's row and dispatch (`Moves`:
begins, is accepted, ends, is marked for recovery, and so on), each with the
condition under which it happens (`RowMoves`); the invariant, the refinement and
`LanesReplayable` are then shown move by move. The refinement maps the state of an
operation to `life` and of its request to `duty`: `Init` implies the abstract
`Init`, and every move is an abstract step or a stutter. `RetryInv` (accepted work
that rests is scheduled or has spent its budget, and so will be what a thread is
about to conclude) gives `RetriesKept`. `SlotInv`, which counts carriers with the
library's cardinality theorems, gives `SlotsConserved`.

### The life of an application

`LifecycleProofs` groups the steps of the bodies by what they write, proves for
each transaction what its row holds afterwards, and shows the first two layers.

- `ExclusionInv`: one unfinished operation, whose own body is the one that runs, and
  none that could be accepted beside one that finishes.
- `ActiveInv`: the accepted deployment has a job and a worker, which no step changes.
- `CutInv` (`LifecycleCutProofs`): a deploy stops its predecessor only after it has
  recorded it, and creates or removes a candidate only after the application is
  marked as stopped.
- `PhaseInv` (`LifecycleCutProofs`): the recorded phase tells how far a deploy has
  come.
- `CandidateInv` (`LifecycleCandidateProofs`): a candidate is put where the accepted
  deployment is not, also when its deploy is replayed from its row. The same module
  shows, for every call, which jobs it leaves (`JobsKept`) and that it spares the
  accepted deployment (`Spared`).
- `StopInv`, types and serving (`LifecycleServingProofs`): a stopped application has no
  accepted job, and a maintenance candidate finds it stopped. With the layers
  above, `PredecessorKeepsServing` is inductive: the calls that spare nothing happen
  only after a disturbance has been recorded, and an operation that recorded one
  ends only with the application marked as stopped or with a new acceptance.
- `JobInv`, `PriorityInv` (`LifecycleJobProofs`): each job is the accepted deployment's,
  a candidate's or the predecessor's until its cleanup is recorded; a candidate's
  route outranks what it replaces, and what it replaced ranks below it.

- `RestartInv`, `DeleteInv` (`LifecycleSafetyProofs`): a restart that was recorded is
  not called again; a deletion has removed what its label is past.

`LifecycleInv` (`LifecycleSafetyProofs`) is their conjunction. That two processes
never overlap, that nothing of a stopped application runs and that a superseded
deployment never answers follow from it without further induction: two jobs that
ran would have the same owner, hence the same name, and the one the router would
choose is the accepted deployment's.

### Only model-checked

- Every liveness property (`DispatchSettles`, `FinishingResolves`,
  `EveryOperationEnds` and the promises
  of the other runs) and everything that speaks of fairness: TLAPS does not reason
  about `ENABLED`.
- `RuntimeReclaimed` and `RegistryKeepsReferenced` of `Lifecycle`. The first needs an
  account of which worker each unfinished request may still reach, through a
  replay of each kind; the second counts backwards through the accepted sequence,
  which needs induction over data.
- The components other than `Dispatch` and `Lifecycle`. Their properties have bounds
  (retention, clocks, budgets) that are data, and their runs are exhaustive over
  the small instances described above.


## Findings

1. *Failed candidate* (`stranded_attempt`, `deployment_service.py:1258`). The
   operation becomes terminal before its attempt. A crash between them leaves an
   attempt that refuses every later deploy.
2. *Disable* (`disable_replay`, `application_service.py:300`). The identity a
   replay is compared with is cleared one transaction before the operation ends.
3. *Abort of a migration* (`storage_abort`, `controller/storage_instances.py:495`).
   The child is marked failed before the abort records that it did so, and the
   repeated abort is refused.

## Situations met while modelling

They have no run of their own. Where one would break a property, the property
excepts it by name or the model describes it in a comment.

Journal and deployments
- A migration's child takes the scope of a request that is already queued. After a
  crash that request awaits recovery without an operation row
  (`docs/reference/controller-api.md:72` promises a resumption); without a crash it
  ends without a row (`async_operations.py:261`). `LanesReplayable` excepts it.
- The placeholder row of a rejected request is begun and closed in two
  transactions (`async_operations.py:247`).
- A deploy after a failed reuse cutover meets the kept worker and raises
  "disabled predecessor worker absence is not confirmed"
  (`deployment_service.py:696`).
- A failed candidate with the digest of an earlier accepted deployment deletes its
  manifest (`deployment_service.py:1250`, `database.py:2479`).
- A build whose push succeeded but whose answer was lost, rebuilt and rejected,
  can never confirm that its manifest is absent (`production.py:743`); it is a
  disjunct of `Stranded`. A deploy failed as untouched after such a build leaves an
  image that no row records (`deployment_service.py:336`).
- Deploys take the application lock, then the infrastructure lock; migration and
  repair the other way round. Only deadlines resolve it (`runtime.py:229`).

Services and machines
- A repeated set reads the changed Variable as the previous one
  (`helper/application_actions.py:1319`, `environment_service.py:301`).
- Data written between publication and evidence, or between dropping a database
  and its users, is removed with it; an S3 rotation cut after the old key is
  retired, and a removal cut between its two writes, need a repeat.
- `infra start` of a running host leaves its row "powering"
  (`openstack.py:1826`); a lost power command is never sent again; an interrupted
  prune whose images drifted never resumes (`openstack.py:1205`). A replacement of a
  stopped host cannot end (`docs/reference/operator-cli.md:243` against
  `operator.py:966`).
- An orphan port is refused (`application_runtime.py:1769`); a port created late
  may be left to an administrator.
- Setup cut between the halves of a key pair or a certificate pair, or after the
  ACL bootstrap whose answer was not kept (`bootstrap_acl.sh:17`), needs a human;
  an upload does not resume (`docs/guides/plan-a-deployment.md:265`).

Portal
- A password reset followed by a factor reset and an enrollment gives an active
  account without a password; nothing protects the last administrator.
- The owner may be added as a member (`members.py:97`).

Storage, releases, backups
- Two migrations that share an application, one of them aborted, may leave neither
  able to end. An abort answered `MIGRATION_ALREADY_PUBLISHED` stays open until the
  migration's replay.
- A killed copy leaves the raised limits of its instance
  (`storage_migration.py:446`); undoing a refused reduction starts the server
  without its gate (`storage_instances.py:945`).
- An activation request made before a reboot is not seen by the path unit
  (`admin.nix:1157`); two installers share `.current.tmp`
  (`install_release.py:136`); an upgrade refused by compatibility is told otherwise
  in `docs/guides/releases-and-upgrades.md:984`.
- A restore killed between the database's rename and the removal of its log
  (`restore.py:474`), or a power loss in the middle, leaves the new database beside
  old keys; a repeated acknowledged restore is refused (`restore.py:355`).
- A killed nightly run leaves STATUS "running"; a half-removed set gets a new
  modification time.

## Not modelled

Parsing, command lines, read models, dashboards, the frontend and host
configuration change no shared state or are pure I/O. The order of the
application and the infrastructure lock, the copy tools, disk quotas
(`reserve_disk`), `bootstrap_mongo`, `accept_staged_backup`, the operator's backup
transfer, adoption of existing applications, hourly sign-in budgets and sizing are
left out. `PROJECT.json` gives the reason for each part.
