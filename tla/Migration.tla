------------------------------ MODULE Migration ------------------------------
(***************************************************************************)
(* Moving an application's databases from the shared servers to isolated   *)
(* instances, and giving that up again (controller/storage_instances.py,   *)
(* helper/instance_migration.py, the instance manager of the storage host  *)
(* in storage_instances.py and storage_migration.py).                      *)
(*                                                                         *)
(* The controller runs one migration or abort at a time under the          *)
(* infrastructure lock.  It can be cut anywhere: killed, or ended by an    *)
(* error it records as recovery_required; both leave the operation open.   *)
(* The manager then still has the copy it was running, and a seal whose    *)
(* caller stopped waiting may reach it late.                               *)
(*                                                                         *)
(* A database is the number of writes it holds.                            *)
(***************************************************************************)
EXTENDS Naturals, FiniteSets

CONSTANTS App, Res,       \* applications and their shared databases
          MaxMigrations,  \* requests to migrate
          MaxAborts,      \* requests to abort
          MaxMigrationCuts, MaxWrites

ASSUME MigrationConstants ==
  {MaxMigrations, MaxAborts, MaxMigrationCuts, MaxWrites} \subseteq Nat

VARIABLES
  owner,   \* the application of each database
  master,  \* the operation of scope infrastructure
  child,   \* its operations, one per application
  abortop, \* the operation of scope storage-abort
  at,      \* where the controller is: step, application, database
  bound,   \* databases whose row names an instance
  shared,  \* the shared side: writes held, login allowed
  inst,    \* the instance: manager's state, operation aborted, writes held
  copying, \* copies the manager runs: the writes dumped, if there is one
  late,    \* seals on their way to the manager
  env,     \* the endpoint published to the application
  app,     \* the application: running, and the endpoints it was started with
  total,   \* writes the application was told are done
  mused    \* cuts, migrations and aborts so far

migrationVars == <<owner, master, child, abortop, at, bound, shared, inst, copying, late, env,
                   app, total, mused>>

journal == <<master, child, abortop>>
dataVars == <<bound, shared, inst, copying, late, env, total>>

NoOp == [status |-> "none", apps |-> {}, done |-> {}, of |-> 0]
NoChild == [status |-> "none", phase |-> "none", res |-> {}, done |-> {}, up |-> FALSE]
Open(op) == op.status = "open"
Of(a) == {r \in Res : owner[r] = a}
Rest == [step |-> "idle", app |-> "none", res |-> "none", left |-> {}]

\* The newest migration, which is the only one that can be open.
Now == mused.migrations
Master == IF Now = 0 THEN NoOp ELSE master[Now]

MigrationInit ==
  /\ owner \in [Res -> App]
  /\ master = [i \in 1..MaxMigrations |-> NoOp]
  /\ child = [i \in 1..MaxMigrations |-> [a \in App |-> NoChild]]
  /\ abortop = NoOp
  /\ at = Rest
  /\ bound = {}
  /\ shared = [r \in Res |-> [held |-> 0, login |-> TRUE]]
  /\ inst = [r \in Res |-> [state |-> "absent", aborted |-> 0, held |-> 0]]
  /\ copying = [r \in Res |-> {}]
  /\ late = {}
  /\ env = [r \in Res |-> "shared"]
  /\ app = [a \in App |-> [up |-> TRUE, sees |-> [r \in Res |-> "shared"]]]
  /\ total = [r \in Res |-> 0]
  /\ mused = [cuts |-> 0, migrations |-> 0, aborts |-> 0]

Go(step, a, r) == at' = [at EXCEPT !.step = step, !.app = a, !.res = r]
Leave == at' = Rest
To(step) == at' = [at EXCEPT !.step = step]
At(step) == at.step = step

-----------------------------------------------------------------------------
(* The master operation (migrate).                                         *)

\* begin_operation: the scope holds one unfinished operation.
ScopeFree == ~Open(Master)

MigrateBegin(sel) ==
  LET apps == {a \in sel : Of(a) \ bound # {}} IN
  /\ At("idle") /\ ScopeFree
  /\ Now < MaxMigrations
  /\ apps # {}
  /\ mused' = [mused EXCEPT !.migrations = @ + 1]
  /\ master' = [master EXCEPT ![Now + 1] = [NoOp EXCEPT !.status = "open", !.apps = apps]]
  /\ Go("next", "none", "none")
  /\ UNCHANGED <<owner, child, abortop, dataVars, app>>

\* The same request again: the operation goes on where its rows are.
MigrateReplay ==
  /\ At("idle") /\ Open(Master)
  /\ Go("next", "none", "none")
  /\ UNCHANGED <<owner, journal, dataVars, app, mused>>

\* application(): a child that succeeded is done; one that failed cannot begin again, its
\* identity being taken, and the replay ends as an error.
MigrateNext ==
  /\ At("next")
  /\ \/ \E a \in Master.apps \ Master.done:
          IF child[Now][a].status = "failed" THEN Leave ELSE Go("app", a, "none")
     \/ Master.apps \subseteq Master.done /\ To("masterdone")
  /\ UNCHANGED <<owner, journal, dataVars, app, mused>>

MasterDone ==
  /\ At("masterdone")
  /\ master' = [master EXCEPT ![Now].status = "succeeded"]
  /\ Leave
  /\ UNCHANGED <<owner, child, abortop, dataVars, app, mused>>

-----------------------------------------------------------------------------
(* One application.                                                        *)

Child == child[Now][at.app]

ChildBegin ==
  LET a == at.app
      was == child[Now][a] IN
  /\ At("app")
  /\ CASE was.status = "succeeded" -> child' = child /\ To("listed")
       [] was.status = "open" -> /\ child' = child
                                 /\ To(IF was.phase = "switched" THEN "res" ELSE "backup")
       [] was.status = "none" ->
            /\ child' = [child EXCEPT ![Now][a] = [status |-> "open", phase |-> "validated",
                                                   res |-> Of(a) \ bound, done |-> {}, up |-> app[a].up]]
            /\ To("backup")
  /\ UNCHANGED <<owner, master, abortop, dataVars, app, mused>>

\* storage.backup.ensure for each database left; the app serves meanwhile.
BackupGate ==
  /\ At("backup")
  /\ To(IF Child.phase = "validated" THEN "stop" ELSE "res")
  /\ UNCHANGED <<owner, journal, dataVars, app, mused>>

Stop ==
  /\ At("stop")
  /\ app' = [app EXCEPT ![at.app].up = @ /\ ~Child.up]
  /\ To("quiesced")
  /\ UNCHANGED <<owner, journal, dataVars, mused>>

Quiesced ==
  /\ At("quiesced")
  /\ child' = [child EXCEPT ![Now][at.app].phase = "quiesced"]
  /\ To("res")
  /\ UNCHANGED <<owner, master, abortop, dataVars, app, mused>>

NextResource ==
  LET left == Child.res \ Child.done IN
  /\ At("res")
  /\ \/ \E r \in left: Go("create", at.app, r)
     \/ left = {} /\ To("deploy")
  /\ UNCHANGED <<owner, journal, dataVars, app, mused>>

\* set_storage_instance, and the database on the child's list.
Bind ==
  /\ At("bind")
  /\ bound' = bound \cup {at.res}
  /\ child' = [child EXCEPT ![Now][at.app].done = @ \cup {at.res}, ![Now][at.app].phase = "switched"]
  /\ To("res")
  /\ UNCHANGED <<owner, master, abortop, shared, inst, copying, late, env, total, app, mused>>

\* app.deploy and app.health: the job starts with the endpoints published now.
Started(a) == [up |-> TRUE, sees |-> [r \in Res |-> env[r]]]

Deploy ==
  /\ At("deploy")
  /\ app' = IF Child.up THEN [app EXCEPT ![at.app] = Started(at.app)] ELSE app
  /\ To("childdone")
  /\ UNCHANGED <<owner, journal, dataVars, mused>>

ChildDone ==
  /\ At("childdone")
  /\ child' = [child EXCEPT ![Now][at.app].status = "succeeded"]
  /\ To("listed")
  /\ UNCHANGED <<owner, master, abortop, dataVars, app, mused>>

Listed ==
  /\ At("listed")
  /\ master' = [master EXCEPT ![Now].done = @ \cup {at.app}]
  /\ Go("next", "none", "none")
  /\ UNCHANGED <<owner, child, abortop, dataVars, app, mused>>

-----------------------------------------------------------------------------
(* One database (helper/instance_migration.py migrate).  A request to the  *)
(* manager waits for the instance's lock, which a copy holds throughout.   *)

\* Sealed before publication: no retry may erase a database an app can see.
After == [copied |-> "seal", seal |-> "publish", publish |-> "bind"]

Free(r) == copying[r] = {}
Manager(r, s) == inst' = [inst EXCEPT ![r].state = s]

\* create, or the replay of it; an endpoint already published is opened again and done.
Create ==
  LET r == at.res IN
  /\ At("create") /\ Free(r)
  /\ Manager(r, IF inst[r].state = "absent" THEN "staged" ELSE inst[r].state)
  /\ To(IF env[r] = "inst" THEN "bind" ELSE "freeze")
  /\ UNCHANGED <<owner, journal, bound, shared, copying, late, env, total, app, mused>>

\* The source login is denied before anything is exported.
Freeze ==
  /\ At("freeze")
  /\ shared' = [shared EXCEPT ![at.res].login = FALSE]
  /\ To("copy")
  /\ UNCHANGED <<owner, journal, bound, inst, copying, late, env, total, app, mused>>

\* _copy_instance: never again once the copy was verified.
Copied(s) == s \in {"verified", "switched"}

\* The manager refuses an operation it was told to abort.
Refused(r, id) == inst[r].aborted = id

CopyStart ==
  LET r == at.res IN
  /\ At("copy") /\ Free(r)
  /\ \/ Copied(inst[r].state) /\ To(After["copied"]) /\ UNCHANGED <<inst, copying>>
     \/ /\ ~Copied(inst[r].state) /\ ~Refused(r, Now)
        /\ Manager(r, "copying")
        /\ copying' = [copying EXCEPT ![r] = {shared[r].held}]
        /\ To("copied")
     \/ /\ ~Copied(inst[r].state) /\ Refused(r, Now)
        /\ Leave /\ UNCHANGED <<inst, copying>>
  /\ UNCHANGED <<owner, journal, bound, shared, late, env, total, app, mused>>

\* The fingerprints of source and target agree.
SameData(r) == copying[r] = {shared[r].held}

\* The end of a copy; its caller may be gone.
CopyEnd(r) ==
  /\ ~Free(r)
  /\ copying' = [copying EXCEPT ![r] = {}]
  /\ \E held \in copying[r]:
       inst' = [inst EXCEPT ![r].held = held, ![r].state = IF SameData(r) THEN "verified" ELSE @]
  /\ IF At("copied") /\ at.res = r
     THEN IF SameData(r) THEN To(After["copied"]) ELSE Leave
     ELSE UNCHANGED at
  /\ UNCHANGED <<owner, journal, bound, shared, late, env, total, app, mused>>

\* The manager notices that the caller is gone, or was told to cancel.
CopyCancelled(r) ==
  /\ ~Free(r) /\ ~(At("copied") /\ at.res = r)
  /\ copying' = [copying EXCEPT ![r] = {}]
  /\ inst' = [inst EXCEPT ![r].held = 0]
  /\ UNCHANGED <<owner, journal, bound, shared, late, env, total, at, app, mused>>

\* seal: the operation was not aborted and the copy is verified.
Sealable(r, id) == ~Refused(r, id) /\ Copied(inst[r].state)

Seal ==
  LET r == at.res IN
  /\ At("seal") /\ Free(r)
  /\ IF Sealable(r, Now) THEN Manager(r, "switched") /\ To(After["seal"])
                         ELSE inst' = inst /\ Leave
  /\ UNCHANGED <<owner, journal, bound, shared, copying, late, env, total, app, mused>>

\* The worker's address is allowed and the endpoint published.
Publish ==
  /\ At("publish")
  /\ env' = [env EXCEPT ![at.res] = "inst"]
  /\ To(After["publish"])
  /\ UNCHANGED <<owner, journal, bound, shared, inst, copying, late, total, app, mused>>

\* The caller gave up on its seal; the manager gets to it later.
SealLate(r, id) ==
  /\ <<r, id>> \in late /\ Free(r)
  /\ late' = late \ {<<r, id>>}
  /\ IF Sealable(r, id) THEN Manager(r, "switched") ELSE UNCHANGED inst
  /\ UNCHANGED <<owner, journal, bound, shared, copying, env, total, at, app, mused>>

\* Killed, failed or timed out, anywhere; a seal may still be on its way.
Cut ==
  /\ ~At("idle")
  /\ mused.cuts < MaxMigrationCuts
  /\ mused' = [mused EXCEPT !.cuts = @ + 1]
  /\ late' \in {late} \cup (IF At("seal") THEN {late \cup {<<at.res, Now>>}} ELSE {})
  /\ Leave
  /\ UNCHANGED <<owner, journal, bound, shared, inst, copying, env, total, app>>

-----------------------------------------------------------------------------
(* Giving up (abort).                                                      *)

AbortBegin(sel) ==
  /\ At("idle") /\ Open(Master) /\ ~Open(abortop)
  /\ mused.aborts < MaxAborts
  /\ sel # {} /\ sel \subseteq Master.apps
  /\ mused' = [mused EXCEPT !.aborts = @ + 1]
  /\ abortop' = [status |-> "open", apps |-> sel, done |-> {}, of |-> Now]
  /\ To("acheck")
  /\ UNCHANGED <<owner, master, child, dataVars, app>>

AbortReplay ==
  /\ At("idle") /\ Open(abortop)
  /\ To("acheck")
  /\ UNCHANGED <<owner, journal, dataVars, app, mused>>

Aborted(a) == child[abortop.of][a]
AbortLeft == abortop.apps \ abortop.done

\* The helper finds an endpoint published.
Published(rs) == \E r \in rs: env[r] = "inst"

\* Every endpoint is checked before any source is unfrozen.  A row that names an instance
\* ends the abort; an endpoint only the helper sees leaves it to be repeated.
AbortCheck ==
  LET rs == UNION {Aborted(a).res : a \in AbortLeft} IN
  /\ At("acheck")
  /\ IF rs \cap bound # {}
     THEN abortop' = [abortop EXCEPT !.status = "failed"] /\ Leave
     ELSE /\ abortop' = abortop
          /\ IF Published(rs) THEN Leave ELSE To("anext")
  /\ UNCHANGED <<owner, master, child, dataVars, app, mused>>

AbortNext ==
  /\ At("anext")
  /\ \/ \E a \in AbortLeft:
          at' = [step |-> IF Aborted(a).status = "none" THEN "alist" ELSE "ares",
                 app |-> a, res |-> "none", left |-> Aborted(a).res]
     \/ AbortLeft = {} /\ To("amaster")
  /\ UNCHANGED <<owner, journal, dataVars, app, mused>>

AbortCopyKeeps(r) == inst' = [inst EXCEPT ![r].aborted = abortop.of]

\* abort-copy: the manager's mark, whatever the copy had reached.
AbortCopy(r) ==
  inst' = IF inst[r].state = "absent" THEN inst
          ELSE [inst EXCEPT ![r].state = "aborted", ![r].aborted = abortop.of]

\* cancel-copy has waited for the copy to end.
AbortMark ==
  /\ At("ares")
  /\ \/ \E r \in at.left: Free(r) /\ AbortCopy(r) /\ at' = [at EXCEPT !.step = "aunfreeze", !.res = r]
     \/ at.left = {} /\ To("adeploy") /\ UNCHANGED inst
  /\ UNCHANGED <<owner, journal, bound, shared, copying, late, env, total, app, mused>>

\* ALTER ROLE ... LOGIN, or the role the source had.
LoginRestored == shared' = [shared EXCEPT ![at.res].login = TRUE]

Unfreeze ==
  /\ At("aunfreeze")
  /\ LoginRestored
  /\ at' = [at EXCEPT !.step = "ares", !.left = @ \ {at.res}]
  /\ UNCHANGED <<owner, journal, bound, inst, copying, late, env, total, app, mused>>

AbortDeployNever == UNCHANGED app

\* The accepted job of the shared endpoints runs again, if the app was running.
AbortDeployed ==
  app' = IF Aborted(at.app).up THEN [app EXCEPT ![at.app] = Started(at.app)] ELSE app

AbortDeploy ==
  /\ At("adeploy")
  /\ AbortDeployed
  /\ To("achild")
  /\ UNCHANGED <<owner, journal, dataVars, mused>>

\* mark_failed: an operation that is already terminal is an error.
AbortChild ==
  /\ At("achild")
  /\ IF Open(Aborted(at.app))
     THEN child' = [child EXCEPT ![abortop.of][at.app].status = "failed"] /\ To("alist")
     ELSE child' = child /\ Leave
  /\ UNCHANGED <<owner, master, abortop, dataVars, app, mused>>

AbortListed ==
  /\ At("alist")
  /\ abortop' = [abortop EXCEPT !.done = @ \cup {at.app}]
  /\ To("anext")
  /\ UNCHANGED <<owner, master, child, dataVars, app, mused>>

\* The master skips what was aborted; checkpoint_operation refuses a terminal one.
AbortMaster ==
  LET m == master[abortop.of] IN
  /\ At("amaster")
  /\ IF Open(m) THEN /\ master' = [master EXCEPT ![abortop.of].done = @ \cup abortop.done]
                     /\ To("amasterend")
                ELSE master' = master /\ Leave
  /\ UNCHANGED <<owner, child, abortop, dataVars, app, mused>>

AbortMasterEnd ==
  LET m == master[abortop.of] IN
  /\ At("amasterend")
  /\ master' = IF m.apps \subseteq m.done
               THEN [master EXCEPT ![abortop.of].status = "failed"] ELSE master
  /\ To("adone")
  /\ UNCHANGED <<owner, child, abortop, dataVars, app, mused>>

AbortDone ==
  /\ At("adone")
  /\ abortop' = [abortop EXCEPT !.status = "succeeded"]
  /\ Leave
  /\ UNCHANGED <<owner, master, child, dataVars, app, mused>>

-----------------------------------------------------------------------------
\* The application writes where it was told to connect, if it is let in.
Write(r) ==
  LET a == owner[r]
      side == app[a].sees[r] IN
  /\ app[a].up
  /\ total[r] < MaxWrites
  /\ \/ /\ side = "shared" /\ shared[r].login
        /\ shared' = [shared EXCEPT ![r].held = @ + 1] /\ UNCHANGED inst
     \/ /\ side = "inst"
        /\ inst' = [inst EXCEPT ![r].held = @ + 1] /\ UNCHANGED shared
  /\ total' = [total EXCEPT ![r] = @ + 1]
  /\ UNCHANGED <<owner, journal, at, bound, copying, late, env, app, mused>>

MigrationBody ==
  \/ MigrateNext \/ MasterDone \/ ChildBegin \/ BackupGate \/ Stop \/ Quiesced \/ NextResource
  \/ Bind \/ Deploy \/ ChildDone \/ Listed
  \/ Create \/ Freeze \/ CopyStart \/ Seal \/ Publish
  \/ AbortCheck \/ AbortNext \/ AbortMark \/ Unfreeze \/ AbortDeploy \/ AbortChild \/ AbortListed
  \/ AbortMaster \/ AbortMasterEnd \/ AbortDone

CopyMoves == \E r \in Res: CopyEnd(r) \/ CopyCancelled(r)

MigrationNext ==
  \/ \E sel \in SUBSET App: MigrateBegin(sel) \/ AbortBegin(sel)
  \/ MigrateReplay \/ AbortReplay
  \/ MigrationBody \/ CopyMoves
  \/ \E r \in Res, id \in 1..MaxMigrations: SealLate(r, id)
  \/ Cut
  \/ \E r \in Res: Write(r)

\* A request that runs goes on, a copy ends, and an operator repeats the requests that are
\* open, both if there are two.
MigrationFairness ==
  /\ WF_migrationVars(MigrationBody)
  /\ WF_migrationVars(CopyMoves)
  /\ SF_migrationVars(MigrateReplay)
  /\ SF_migrationVars(AbortReplay)

MigrationSpec == MigrationInit /\ [][MigrationNext]_migrationVars /\ MigrationFairness

-----------------------------------------------------------------------------
\* Every variable has its type.
MigrationTypeOK ==
  /\ at.step # "idle" => Now > 0
  /\ \A r \in Res: /\ inst[r].state \in {"absent", "staged", "copying", "aborted", "verified", "switched"}
                   /\ inst[r].aborted \in 0..MaxMigrations
                   /\ shared[r].held <= MaxWrites /\ inst[r].held <= MaxWrites
  /\ \A i \in 1..MaxMigrations: Open(master[i]) => i = Now

\* The endpoint published to the application holds every write it was told is done, through
\* repeated copies, aborts and a new migration after an abort (storage_migration.py
\* _copy_instance, the manager's abort-copy and seal).
NoWriteLost ==
  \A r \in Res: total[r] = IF env[r] = "inst" THEN inst[r].held ELSE shared[r].held

\* A database an application can see is sealed at the manager, so that no repeated copy can
\* erase it (helper/instance_migration.py: seal before publication).
PublishedIsSealed == \A r \in Res: env[r] = "inst" => inst[r].state = "switched"

\* The two sides never both take writes: once the instance is published the source login
\* stays denied, whatever an abort does (helper abort, check).
OneSideOpen == \A r \in Res: env[r] = "inst" => ~shared[r].login

\* When an abort has succeeded, the applications it names can log in to their source again,
\* until a new migration begins (abort in controller/storage_instances.py).
AbortUnfreezes ==
  abortop.status = "succeeded" /\ abortop.of = Now /\ ~Open(Master)
  => \A a \in abortop.apps: \A r \in Of(a) \ bound: shared[r].login

\* One database was marked aborted before the migration was repeated instead of the abort,
\* and the repetition published another one.  If that is the same application's, neither
\* request can end; if another's, the abort has failed and a person asks for a narrower one.
Entangled(a) ==
  /\ Open(Master)
  /\ child[Now][a].res \cap bound # {} \/ abortop.status = "failed"
  /\ \E r \in child[Now][a].res: env[r] = "shared" /\ inst[r].aborted = Now

\* An application that ran is started again, however often its migration is cut, repeated
\* or given up (Deploy, AbortDeploy), unless its requests are entangled.
AppsServeAgain == []<>(\A a \in App: app[a].up \/ Entangled(a))

\* "If interrupted, repeat --abort, the same ID, and the same selection": a repeated abort
\* comes to an end.
AbortEnds == []<>(~Open(abortop))

\* Every state of a migration: no write is lost, what is published is sealed
\* and alone open, and an abort gives the sources back.
MigrationSafe ==
  MigrationTypeOK /\ NoWriteLost /\ PublishedIsSealed /\ OneSideOpen /\ AbortUnfreezes
=============================================================================
