------------------------------ MODULE MCStorage ------------------------------
(***************************************************************************)
(* The migration of shared databases into instances of their own, and the  *)
(* backups of managed data it rests on.  Of the second the first only sees *)
(* that a receipt is fresh, so a behaviour is a behaviour of one of them,  *)
(* named by part; the other rests in one initial state.                    *)
(***************************************************************************)
EXTENDS Migration, Checkpoints

VARIABLE part

mcVars == <<part, migrationVars, checkVars>>

\* The first database belongs to the first application, the second to either.
MCOwner == owner[CHOOSE r \in Res : TRUE] = CHOOSE a \in App : TRUE

MCInit ==
  /\ part \in {"migration", "checkpoints"}
  /\ MigrationInit /\ CheckInit
  /\ MCOwner
  /\ part # "migration" => owner = [r \in Res |-> CHOOSE a \in App : TRUE]

MCNext ==
  /\ UNCHANGED part
  /\ \/ part = "migration" /\ MigrationNext /\ UNCHANGED checkVars
     \/ part = "checkpoints" /\ CheckNext /\ UNCHANGED migrationVars

\* The fairness of each part's own specification.
MCFairness ==
  /\ WF_migrationVars(part = "migration" /\ MigrationBody)
  /\ WF_migrationVars(part = "migration" /\ CopyMoves)
  /\ SF_migrationVars(part = "migration" /\ MigrateReplay)
  /\ SF_migrationVars(part = "migration" /\ AbortReplay)
  /\ WF_checkVars(part = "checkpoints" /\ UnitStep)

MCSpec == MCInit /\ [][MCNext]_mcVars /\ MCFairness

\* Applications serve again after a migration, and a migration that asked for a
\* backup is answered.
StoragePromise == AppsServeAgain /\ MigrationAnswered
=============================================================================
