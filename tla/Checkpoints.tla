----------------------------- MODULE Checkpoints -----------------------------
(***************************************************************************)
(* The operator's encrypted backups of managed data: the nightly sets      *)
(* (run_platform_backup.sh), their restore check (verify_latest_restore.sh)*)
(* and the checkpoint of one shared database that a storage migration      *)
(* demands (database_backups.py): the migration sees only a receipt, and   *)
(* the archive the receipt speaks of is pruned by its own unit and by the  *)
(* nightly backup.  The runs have locks of their own and none in common.   *)
(***************************************************************************)
EXTENDS Integers, FiniteSets, FiniteSetsExt

CONSTANTS
  MaxTime,
  Retention,      \* RETENTION_DAYS, and the 14 days of a checkpoint
  Fewest,         \* RETENTION_MINIMUM_KEPT
  Freshness,      \* the age a migration accepts
  MaxCheckCuts

ASSUME CheckpointConstants ==
  /\ {MaxTime, Retention, Freshness, MaxCheckCuts} \subseteq Nat
  /\ Fewest \in Nat \ {0}
  /\ Freshness <= Retention

VARIABLES
  now,
  sets,      \* the committed directories
  halved,    \* those among them that rm has begun to delete
  mtime,     \* when each directory last changed
  status,    \* STATUS.json: whose run, and what became of it
  nightly,   \* the nightly run, and the directory it is removing
  archives,  \* the checkpoint archives, by the instant of their encryption
  rcpt,      \* the receipt: the instant of its data, and its archive
  cunit,     \* the checkpoint unit
  ask,       \* the migration that needs a fresh backup
  ccuts

checkVars == <<now, sets, halved, mtime, status, nightly, archives, rcpt, cunit, ask, ccuts>>
managed == <<sets, halved, mtime, status, nightly>>
single == <<rcpt, cunit, ask>>

Time == 0..MaxTime
NoNightly == [at |-> "idle", ts |-> 0, rm |-> {}]
NoUnit == [at |-> "idle", ts |-> 0, made |-> 0]

CheckInit ==
  /\ now = 0
  /\ sets = {} /\ halved = {}
  /\ mtime = [t \in Time |-> 0]
  /\ status = [ts |-> 0, is |-> "none"]
  /\ nightly = NoNightly
  /\ archives = {} /\ rcpt = {}
  /\ cunit = NoUnit
  /\ ask = "idle"
  /\ ccuts = 0

Pass ==
  /\ now < MaxTime
  /\ now' = now + 1
  /\ UNCHANGED <<archives, ccuts>> /\ UNCHANGED managed /\ UNCHANGED single

Youngest(k, S) == {n \in S : Cardinality({m \in S : m > n}) < k}

-----------------------------------------------------------------------------
(* The nightly backup.                                                     *)

write_status(ts, is) == status' = [ts |-> ts, is |-> is]

StartNightly ==
  /\ nightly.at = "idle" /\ now \notin sets
  /\ nightly' = [at |-> "emit", ts |-> now, rm |-> {}]
  /\ write_status(now, "running")
  /\ UNCHANGED <<now, sets, halved, mtime, archives, ccuts>> /\ UNCHANGED single

\* Each service is dumped, encrypted, decrypted again and verified in a
\* temporary directory; whatever fails there, the exit trap removes it.
EmitServices ==
  /\ nightly.at = "emit"
  /\ \/ nightly' = [nightly EXCEPT !.at = "move"] /\ UNCHANGED status
     \/ nightly' = NoNightly /\ write_status(nightly.ts, "failed")
  /\ UNCHANGED <<now, sets, halved, mtime, archives, ccuts>> /\ UNCHANGED single

\* One rename commits the set.
MoveSet ==
  /\ nightly.at = "move"
  /\ sets' = sets \cup {nightly.ts}
  /\ mtime' = [mtime EXCEPT ![nightly.ts] = now]
  /\ nightly' = [nightly EXCEPT !.at = "told"]
  /\ UNCHANGED <<now, halved, status, archives, ccuts>> /\ UNCHANGED single

TellNightly ==
  /\ nightly.at = "told"
  /\ write_status(nightly.ts, "succeeded")
  /\ nightly' = [nightly EXCEPT !.at = "prune"]
  /\ UNCHANGED <<now, sets, halved, mtime, archives, ccuts>> /\ UNCHANGED single

\* The sets past their age, by the directory's own time, but not the newest.
OldSets == {t \in sets \ Youngest(Fewest, sets) : now - mtime[t] > Retention}

\* rm takes a directory apart, which changes it, before it removes it.
PruneSet ==
  /\ nightly.at = "prune"
  /\ \/ /\ nightly.rm = {} /\ OldSets # {}
        /\ nightly' = [nightly EXCEPT !.rm = {Min(OldSets)}]
        /\ halved' = halved \cup {Min(OldSets)}
        /\ mtime' = [mtime EXCEPT ![Min(OldSets)] = now]
        /\ UNCHANGED sets
     \/ /\ nightly.rm # {}
        /\ nightly' = [nightly EXCEPT !.rm = {}]
        /\ sets' = sets \ nightly.rm /\ halved' = halved \ nightly.rm
        /\ mtime' = [t \in Time |-> IF t \in nightly.rm THEN 0 ELSE mtime[t]]
  /\ UNCHANGED <<now, status, archives, ccuts>> /\ UNCHANGED single

\* Then the checkpoint archives past the same age, and the run is over.
PruneCheckpoints ==
  /\ nightly.at = "prune" /\ nightly.rm = {} /\ OldSets = {}
  /\ archives' = {a \in archives : now - a <= Retention}
  /\ nightly' = NoNightly
  /\ UNCHANGED <<now, sets, halved, mtime, status, ccuts>> /\ UNCHANGED single

\* The restore check reads all of the newest directory into scratch containers
\* and refuses one that is not whole; its evidence is a change of the directory.
verify_latest_restore ==
  /\ sets # {} /\ Max(sets) \notin halved
  /\ mtime' = [mtime EXCEPT ![Max(sets)] = now]
  /\ UNCHANGED <<now, sets, halved, status, nightly, archives, ccuts>> /\ UNCHANGED single

-----------------------------------------------------------------------------
(* The checkpoint of the database a migration is about to copy.            *)

\* What the migration makes of the receipt.
fresh_backup == \E r \in rcpt : now - r.of <= Freshness

\* A migration that finds no fresh receipt starts the unit, or joins the one
\* an earlier caller left running, and waits for its end.
ensure_backup ==
  /\ ask = "idle" /\ ~fresh_backup
  /\ ask' = "waiting"
  /\ UNCHANGED <<now, archives, rcpt, cunit, ccuts>> /\ UNCHANGED managed

\* systemctl reports the unit's end, good or bad, and the migration looks for
\* a fresh receipt once more: it goes on, or is refused.
UnitEnds ==
  /\ cunit.at \in {"done", "failed"}
  /\ ask' = "idle"
  /\ cunit' = NoUnit
  /\ UNCHANGED <<now, archives, rcpt, ccuts>> /\ UNCHANGED managed

\* Under the unit's lock, the database is dumped; the dump's instant is the
\* one the receipt will carry.
checkpoint_backup ==
  /\ ask = "waiting" /\ cunit.at = "idle"
  /\ cunit' = [at |-> "dumped", ts |-> now, made |-> 0]
  /\ UNCHANGED <<now, archives, rcpt, ask, ccuts>> /\ UNCHANGED managed

\* Encrypted, decrypted and consumed again: exactly the one shared database.
VerifyArchive ==
  /\ cunit.at = "dumped"
  /\ cunit' = [cunit EXCEPT !.at = "verified", !.made = now] \/ cunit' = [cunit EXCEPT !.at = "failed"]
  /\ UNCHANGED <<now, archives, rcpt, ask, ccuts>> /\ UNCHANGED managed

CommitArchive ==
  /\ cunit.at = "verified"
  /\ archives' = archives \cup {cunit.made}
  /\ cunit' = [cunit EXCEPT !.at = "archived"]
  /\ UNCHANGED <<now, rcpt, ask, ccuts>> /\ UNCHANGED managed

WriteReceiptUnarchived ==
  /\ cunit.at \in {"verified", "archived"}
  /\ rcpt' = {[of |-> cunit.ts, made |-> cunit.made]}
  /\ cunit' = [cunit EXCEPT !.at = IF @ = "archived" THEN "receipt" ELSE @]
  /\ UNCHANGED <<now, archives, ask, ccuts>> /\ UNCHANGED managed

\* The receipt carries the instant of the dump, not of its own writing.
WriteReceipt ==
  /\ cunit.at = "archived"
  /\ rcpt' = {[of |-> cunit.ts, made |-> cunit.made]}
  /\ cunit' = [cunit EXCEPT !.at = "receipt"]
  /\ UNCHANGED <<now, archives, ask, ccuts>> /\ UNCHANGED managed

\* The older archives of this database go; never the one just written.
PruneOwn ==
  /\ cunit.at = "receipt"
  /\ archives' = {a \in archives : a = cunit.made \/ now - a <= Retention}
  /\ cunit' = [cunit EXCEPT !.at = "done"]
  /\ UNCHANGED <<now, rcpt, ask, ccuts>> /\ UNCHANGED managed

-----------------------------------------------------------------------------

\* A killed run leaves what it had: the exit trap does not speak for it, and
\* a unit outlives the caller that started it.
KillOne ==
  /\ ccuts < MaxCheckCuts
  /\ ccuts' = ccuts + 1
  /\ \/ nightly.at # "idle" /\ nightly' = NoNightly /\ UNCHANGED <<cunit, ask>>
     \/ cunit.at \notin {"idle", "done", "failed"} /\ cunit' = [cunit EXCEPT !.at = "failed"]
        /\ UNCHANGED <<nightly, ask>>
     \/ ask = "waiting" /\ ask' = "idle" /\ UNCHANGED <<nightly, cunit>>
  /\ UNCHANGED <<now, sets, halved, mtime, status, archives, rcpt>>

UnitStep ==
  \/ checkpoint_backup \/ VerifyArchive \/ CommitArchive \/ WriteReceipt \/ PruneOwn
  \/ UnitEnds

CheckNext ==
  \/ Pass
  \/ StartNightly \/ EmitServices \/ MoveSet \/ TellNightly
  \/ PruneSet \/ PruneCheckpoints \/ verify_latest_restore
  \/ ensure_backup \/ UnitStep
  \/ KillOne

\* systemd runs the unit to its end, and systemctl start waits for it.
CheckFairness == WF_checkVars(UnitStep)

CheckSpec == CheckInit /\ [][CheckNext]_checkVars /\ CheckFairness

-----------------------------------------------------------------------------
(* Properties.                                                             *)

CheckTypeOK ==
  /\ now \in Time
  /\ sets \subseteq 0..now /\ halved \subseteq sets
  /\ mtime \in [Time -> 0..now]
  /\ status.ts \in Time /\ status.is \in {"none", "running", "failed", "succeeded"}
  /\ nightly.at \in {"idle", "emit", "move", "told", "prune"} /\ nightly.ts \in 0..now
  /\ archives \subseteq 0..now
  /\ \A r \in rcpt : r.of <= r.made /\ r.made <= now
  /\ Cardinality(rcpt) <= 1
  /\ cunit.at \in {"idle", "dumped", "verified", "archived", "receipt", "done", "failed"}
  /\ ask \in {"idle", "waiting"}
  /\ ccuts \in 0..MaxCheckCuts

\* As long as a receipt could be taken for fresh, the archive it speaks of
\* is there: neither the unit's own pruning nor the nightly one, which runs
\* at the same time, has removed it.
ReceiptIsBacked == \A r \in rcpt : now - r.of <= Freshness => r.made \in archives

\* The newest Fewest sets stay whole, however long no backup was made and
\* wherever a pruning was cut: rm never begins on one of them.
NewestSetsWhole == Youngest(Fewest, sets) \cap halved = {}

\* STATUS.json calls a run successful only with its set in place, whole and
\* the newest: nothing that is cut between the two contradicts it.
SuccessIsCommitted == status.is = "succeeded" => /\ sets # {} /\ status.ts = Max(sets)
                                                 /\ status.ts \notin halved

\* A migration that asked for a backup is answered.
MigrationAnswered == ask = "waiting" ~> ask = "idle"

\* Every state of the storage backups: nothing told of a backup is untrue.
CheckpointsSafe == CheckTypeOK /\ ReceiptIsBacked /\ NewestSetsWhole /\ SuccessIsCommitted
=============================================================================
