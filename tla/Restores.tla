------------------------------ MODULE Restores ------------------------------
(***************************************************************************)
(* Offline restore from the recovery console: of the controller's database *)
(* and deploy keys (restore.py, source_key_backup.py) or of the portal's   *)
(* database (management/backup.py).  Each replaces two things one after    *)
(* the other: the database, and the key tree beside it or the private key  *)
(* of anonymous challenges.  The launcher (admin.nix) deletes the staged   *)
(* inputs only once the restore has succeeded.  The run may be killed, and *)
(* the host may lose power, after which it starts its services by itself.  *)
(***************************************************************************)
EXTENDS Naturals

CONSTANT MaxRestoreCuts, MaxRestores

ASSUME RestoreConstants == {MaxRestoreCuts, MaxRestores} \subseteq Nat

VARIABLES
  target,   \* the controller or the portal
  services, \* its units are active
  base,     \* the database in place: the old one or the restored one
  open,     \* the unfinished work it records
  beside,   \* the key tree or the challenge key in place
  aside,    \* an old key tree set aside by a run that has not ended
  staged,   \* the inputs
  goal,     \* what they are to leave beside the database
  run,      \* the restore
  rused

restoreVars == <<target, services, base, open, beside, aside, staged, goal, run, rused>>
place == <<base, beside, aside>>

Work == {"none", "recovery", "running"}
NoInput == [there |-> FALSE, keys |-> FALSE, sound |-> FALSE, clean |-> FALSE]

RestoreInit ==
  /\ target \in {"controller", "portal"}
  /\ services = TRUE
  /\ base = "old" /\ open \in (IF target = "portal" THEN {"none"} ELSE {"none", "running"})
  /\ beside = "old" /\ aside = FALSE
  /\ staged = NoInput /\ goal = "old"
  /\ run = "idle"
  /\ rused = [restores |-> 0, cuts |-> 0]

-----------------------------------------------------------------------------
(* The operator and the services.                                          *)

\* A controller stopped at work finds it again as recovery required.
StopServices ==
  /\ services /\ run = "idle"
  /\ services' = FALSE
  /\ open' = IF open = "running" THEN "recovery" ELSE open
  /\ UNCHANGED <<target, staged, goal, run, rused>> /\ UNCHANGED place

\* Only with no restore under way, and none that was interrupted.
StartServices ==
  /\ ~services /\ run = "idle" /\ ~staged.there
  /\ services' = TRUE
  /\ UNCHANGED <<target, open, staged, goal, run, rused>> /\ UNCHANGED place

\* The running service takes up work and ends it.
Operate ==
  /\ services /\ target = "controller"
  /\ open' \in Work \ {open}
  /\ UNCHANGED <<target, services, staged, goal, run, rused>> /\ UNCHANGED place

Stage(keys, sound, clean) ==
  /\ ~services /\ run = "idle"
  /\ rused.restores < MaxRestores
  /\ ~staged.there \/ (~(staged.sound /\ staged.clean) /\ base = "old")
  /\ keys => target = "controller"
  /\ rused' = [rused EXCEPT !.restores = @ + 1]
  /\ staged' = [there |-> TRUE, keys |-> keys, sound |-> sound, clean |-> clean]
  /\ goal' = IF target = "portal" THEN "gone" ELSE IF keys THEN "new" ELSE "old"
  /\ base' = "old" /\ beside' = "old" /\ aside' = FALSE
  /\ UNCHANGED <<target, services, open, run>>

-----------------------------------------------------------------------------
(* The restore.                                                            *)

\* The launcher's tests, before it changes user.
Launch ==
  /\ run = "idle" /\ ~services /\ staged.there
  /\ run' = "check"
  /\ UNCHANGED <<target, services, open, staged, goal, rused>> /\ UNCHANGED place

\* The current database: nothing unfinished, or exactly the operation named.
_verify_existing_destination(named) ==
  IF named THEN open = "recovery" ELSE open = "none"

\* The candidate: its identity, schema, integrity, and no unfinished work.
_verify_candidate == staged.sound /\ staged.clean

\* The archive's entries all belong to apps of the candidate, in whole pairs.
prepare_source_key_restore == staged.keys => staged.sound

check(named) ==
  /\ run = "check" /\ target = "controller"
  /\ run' = IF _verify_existing_destination(named) /\ _verify_candidate /\ prepare_source_key_restore
            THEN "replace" ELSE "idle"
  /\ UNCHANGED <<target, services, open, staged, goal, rused>> /\ UNCHANGED place

\* The portal's copy is validated, and its sessions, tokens and leases are
\* cleared, in a private directory.
restore_database ==
  /\ run = "check" /\ target = "portal"
  /\ run' = IF staged.sound THEN "replace" ELSE "idle"
  /\ UNCHANGED <<target, services, open, staged, goal, rused>> /\ UNCHANGED place

\* One durable rename over the old database.
commit_prepared ==
  /\ run = "replace"
  /\ base' = "new" /\ open' = "none"
  /\ run' = IF beside = goal THEN "remove" ELSE "beside"
  /\ UNCHANGED <<target, services, beside, aside, staged, goal, rused>>

\* The old tree steps aside before the new one takes its place.
SetAside ==
  /\ run = "beside" /\ target = "controller" /\ beside # "gone"
  /\ beside' = "gone" /\ aside' = TRUE
  /\ UNCHANGED <<target, services, base, open, staged, goal, run, rused>>

\* The rename may fail; then the old tree returns and the restore fails.
commit_source_key_restore ==
  /\ run = "beside" /\ target = "controller" /\ beside = "gone"
  /\ \/ beside' = "new" /\ run' = "sync" /\ UNCHANGED aside
     \/ beside' = (IF aside THEN "old" ELSE "gone") /\ run' = "idle" /\ aside' = FALSE
  /\ UNCHANGED <<target, services, base, open, staged, goal, rused>>

InvalidateChallenges ==
  /\ run = "beside" /\ target = "portal"
  /\ beside' = "gone" /\ run' = "sync"
  /\ UNCHANGED <<target, services, base, open, aside, staged, goal, rused>>

\* The directory is synced; only then is the old tree deleted.
SyncBeside ==
  /\ run = "sync"
  /\ run' = "remove" /\ aside' = FALSE
  /\ UNCHANGED <<target, services, base, open, beside, staged, goal, rused>>

RemoveInputAlways ==
  /\ run \in {"remove", "sync", "beside"}
  /\ staged' = NoInput
  /\ run' = "idle"
  /\ UNCHANGED <<target, services, open, goal, rused>> /\ UNCHANGED place

\* The launcher, once the restore reported success.
RemoveInput ==
  /\ run = "remove"
  /\ staged' = NoInput
  /\ run' = "idle"
  /\ UNCHANGED <<target, services, open, goal, rused>> /\ UNCHANGED place

-----------------------------------------------------------------------------
(* Faults.                                                                 *)

RestoreFault == rused.cuts < MaxRestoreCuts /\ rused' = [rused EXCEPT !.cuts = @ + 1]

KillRestore ==
  /\ run # "idle"
  /\ RestoreFault
  /\ run' = "idle" /\ aside' = FALSE
  /\ UNCHANGED <<target, services, base, open, beside, staged, goal>>

\* The renames of the key tree since the last sync may each be lost; the
\* units of the host start with it.
LosePower ==
  /\ RestoreFault
  /\ run' = "idle" /\ aside' = FALSE
  /\ beside' \in {beside} \cup (IF run = "sync" THEN {"gone"} ELSE {})
                          \cup (IF aside \/ (run = "sync" /\ target = "portal") THEN {"old"} ELSE {})
  /\ services' = TRUE
  /\ UNCHANGED <<target, base, open, staged, goal>>

RestoreNext ==
  \/ StopServices \/ StartServices \/ Operate
  \/ \E keys, sound, clean \in BOOLEAN : Stage(keys, sound, clean)
  \/ Launch \/ \E named \in BOOLEAN : check(named)
  \/ restore_database \/ commit_prepared \/ SetAside \/ commit_source_key_restore
  \/ InvalidateChallenges \/ SyncBeside \/ RemoveInput
  \/ KillRestore \/ LosePower

RestoreSpec == RestoreInit /\ [][RestoreNext]_restoreVars

-----------------------------------------------------------------------------
(* Properties.                                                             *)

RestoreTypeOK ==
  /\ target \in {"controller", "portal"} /\ services \in BOOLEAN
  /\ base \in {"old", "new"} /\ open \in Work
  /\ {beside, goal} \subseteq {"old", "gone", "new"} /\ aside \in BOOLEAN
  /\ aside => target = "controller" /\ run \in {"beside", "sync"}
  /\ staged \in [there: BOOLEAN, keys: BOOLEAN, sound: BOOLEAN, clean: BOOLEAN]
  /\ run \in {"idle", "check", "replace", "beside", "sync", "remove"}
  /\ rused \in [restores: 0..MaxRestores, cuts: 0..MaxRestoreCuts]

\* A restored database whose key tree, or challenge key, is not yet the one
\* that belongs to it: then the inputs still lie there for the restore to be
\* repeated, whatever cut it off between its two replacements.
RestoreCanFinish == base = "new" /\ beside # goal => staged.there

\* The database is replaced with the services down and never while it records
\* running work, though the tests were made before the candidate was built.
WorkNotDropped ==
  [][base = "old" /\ base' = "new" => ~services /\ open # "running"]_restoreVars

\* Every state of a restore: one that is half done can be repeated.
RestoresSafe == RestoreTypeOK /\ RestoreCanFinish
=============================================================================
