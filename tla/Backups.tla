------------------------------- MODULE Backups -------------------------------
(***************************************************************************)
(* One directory of encrypted SQLite backups on the backup volume: the     *)
(* hosted controller's, where every set goes with a separately committed   *)
(* archive of the deploy keys (hosted_backup.py), or the portal's          *)
(* (management/backup.py).  A set is an archive, its checksum and its      *)
(* manifest; the manifest is the commit marker.  The run that wrote a set  *)
(* applies retention (backup_retention.py), while the daily off-site       *)
(* export copies the newest set (recovery_bundle.py) without a lock.  A    *)
(* run may be killed anywhere, and a power loss undoes any of the          *)
(* directory's changes that no fsync has reached.                          *)
(***************************************************************************)
EXTENDS Integers, Sequences, FiniteSets, FiniteSetsExt, SequencesExt

CONSTANTS
  MaxClock,       \* the last instant; a backup is named by its instant
  Days,           \* RETENTION_DAYS
  Minimum,        \* MINIMUM_KEPT
  MaxExports,     \* export runs
  MaxBackupCuts   \* kills and power losses

ASSUME BackupConstants == {MaxClock, Days, MaxExports, MaxBackupCuts} \subseteq Nat /\ Minimum \in Nat \ {0}

VARIABLES
  keyed,    \* this is the hosted controller's directory
  clock,
  files,    \* the directory
  loose,    \* the entries changed since the directory was last synced
  writer,   \* the backup run: what it still has to rename or to unlink
  export,   \* the export run: the set it selected and what it has copied
  bundles,  \* the published bundles
  receipt,  \* the bundle the newest receipt names, if any
  bused     \* the exports and the faults so far

backupVars == <<keyed, clock, files, loose, writer, export, bundles, receipt, bused>>
directory == <<files, loose>>
offsite == <<export, bundles, receipt>>

Instant == 0..MaxClock
Part == {"archive", "sum", "manifest"}
Path == [series: {"db", "keys"}, at: Instant, part: Part]
Entry(s, n, x) == [series |-> s, at |-> n, part |-> x]
Trio(s, n) == {Entry(s, n, x) : x \in Part}

NoRun == [at |-> "idle", now |-> 0, todo |-> <<>>]
NoExport == [at |-> "idle", n |-> 0, todo |-> <<>>, copied |-> {}]

BackupInit ==
  /\ keyed \in BOOLEAN
  /\ clock = 0
  /\ files = {} /\ loose = {}
  /\ writer = NoRun
  /\ export = NoExport
  /\ bundles = {} /\ receipt = {}
  /\ bused = [exports |-> 0, cuts |-> 0]

Tick ==
  /\ clock < MaxClock
  /\ clock' = clock + 1
  /\ UNCHANGED <<keyed, writer, bused>> /\ UNCHANGED directory /\ UNCHANGED offsite

-----------------------------------------------------------------------------
(* What a set is to those who read the directory.                          *)

Present(s) == {p.at : p \in {q \in files : q.series = s}}
committed(s, n) == Entry(s, n, "manifest") \in files
complete(s, n) == Trio(s, n) \subseteq files

\* The archive the manifest of a hosted set names as its sourceKeys.
sourceKeys(n) == IF keyed THEN Trio("keys", n) ELSE {}
Whole(n) == Trio("db", n) \cup sourceKeys(n) \subseteq files

\* The newest k of the instants S.
Newest(k, S) == {n \in S : Cardinality({m \in S : m > n}) < k}

-----------------------------------------------------------------------------
(* Committing a set: every rename waits until the one before is synced.    *)

Renames(s, n) == <<Entry(s, n, "archive"), Entry(s, n, "sum"), Entry(s, n, "manifest")>>

StartRun(order) ==
  /\ writer.at = "idle"
  /\ Trio("db", clock) \cap files = {}
  /\ writer' = [at |-> "commit", now |-> clock, todo |-> order]
  /\ UNCHANGED <<keyed, clock, bused>> /\ UNCHANGED directory /\ UNCHANGED offsite

\* The key archive commits before the SQLite set that names it.
backup_hosted_database == keyed /\ StartRun(Renames("keys", clock) \o Renames("db", clock))

\* The portal's database has no key archive.
backup_portal_database == ~keyed /\ StartRun(Renames("db", clock))

Length == IF keyed THEN 6 ELSE 3

\* Refuses a name that is taken; otherwise the next of the three renames.
_encrypt_backup ==
  /\ writer.at = "commit"
  /\ LET p == Head(writer.todo)
         taken == p.part = "archive" /\ Trio(p.series, p.at) \cap files # {}
         unsynced == IF Len(writer.todo) = Length THEN loose ELSE {}
     IN  \/ taken /\ writer' = NoRun /\ UNCHANGED directory
         \/ /\ ~taken
            /\ files' = files \cup {p}
            /\ loose' = unsynced \cup {p}
            /\ writer' = [writer EXCEPT !.todo = Tail(@),
                                        !.at = IF Len(writer.todo) = 1 THEN "scan" ELSE @]
  /\ UNCHANGED <<keyed, clock, bused>> /\ UNCHANGED offsite

-----------------------------------------------------------------------------
(* Retention, by the run that has just committed keep.                     *)

Floor(keep) == Newest(Minimum, {n \in Present("db") : complete("db", n)}) \cup {keep}

\* The expired sets; a committed but incomplete one waits for an operator.
Expired(keep) ==
  {n \in Present("db") \ Floor(keep) : n < keep - Days /\ (complete("db", n) \/ ~committed("db", n))}

ExpiredKeysByAge(keep, gone) ==
  {n \in Present("keys") : n < keep - Days /\ (complete("keys", n) \/ ~committed("keys", n))}

\* The key archives no remaining set names or shares its instant with.
ExpiredKeys(keep, gone) ==
  LET remaining == Present("db") \ gone
      referenced == {n \in remaining : committed("db", n)}
      paired == remaining
  IN  {n \in Present("keys") \ (referenced \cup paired) :
         n < keep - Days /\ (complete("keys", n) \/ ~committed("keys", n))}

\* Set by set, each from its commit marker back to its archive.
Marker == <<"manifest", "sum", "archive">>
Listing(s) == [i \in 1..3 * (MaxClock + 1) |-> Entry(s, (i - 1) \div 3, Marker[((i - 1) % 3) + 1])]
Removal(s, S) == SelectSeq(Listing(s), LAMBDA p : p \in files /\ p.at \in S)

_scan ==
  /\ writer.at = "scan"
  /\ LET keep == writer.now
         gone == Expired(keep)
     IN  writer' = IF complete("db", keep)
                   THEN [writer EXCEPT !.at = "prune",
                                       !.todo = Removal("db", gone) \o Removal("keys", ExpiredKeys(keep, gone))]
                   ELSE NoRun
  /\ loose' = {}
  /\ UNCHANGED <<keyed, clock, files, bused>> /\ UNCHANGED offsite

\* Unlinks the next file; the directory is synced after every marker.
_remove ==
  /\ writer.at = "prune" /\ writer.todo # <<>>
  /\ LET p == Head(writer.todo)
         marker == \E q \in loose : q.part = "manifest"
     IN  /\ files' = files \ {p}
         /\ loose' = (IF marker THEN {} ELSE loose) \cup {p}
  /\ writer' = [writer EXCEPT !.todo = Tail(@)]
  /\ UNCHANGED <<keyed, clock, bused>> /\ UNCHANGED offsite

prune ==
  /\ writer.at = "prune" /\ writer.todo = <<>>
  /\ loose' = {}
  /\ writer' = NoRun
  /\ UNCHANGED <<keyed, clock, files, bused>> /\ UNCHANGED offsite

-----------------------------------------------------------------------------
(* The off-site export.                                                    *)

\* The trio of the newest marker, and the key trio its manifest names.
Selected(n) == Renames("db", n) \o (IF keyed THEN Renames("keys", n) ELSE <<>>)

\* Every file of the component is there, with the digest its manifest gives.
_validate_component(n, S) == Trio("db", n) \cup sourceKeys(n) \subseteq S

\* The newest marker; the export does not start on evidence that is not whole.
discover_latest_sources(n) == committed("db", n) /\ _validate_component(n, files)

_selected_component_files ==
  /\ export.at = "idle"
  /\ bused.exports < MaxExports
  /\ bused' = [bused EXCEPT !.exports = @ + 1]
  /\ LET marked == {n \in Present("db") : committed("db", n)}
     IN  /\ marked # {} /\ discover_latest_sources(Max(marked))
         /\ export' = [at |-> "copy", n |-> Max(marked), todo |-> Selected(Max(marked)), copied |-> {}]
  /\ UNCHANGED <<keyed, clock, writer, bundles, receipt>> /\ UNCHANGED directory

\* Copies one file; the run fails when retention has removed it since.
_copy ==
  /\ export.at = "copy" /\ export.todo # <<>>
  /\ LET p == Head(export.todo)
     IN  export' = IF p \in files
                   THEN [export EXCEPT !.todo = Tail(@), !.copied = @ \cup {p}]
                   ELSE NoExport
  /\ UNCHANGED <<keyed, clock, writer, bundles, receipt, bused>> /\ UNCHANGED directory

\* The exact inventory the bundle's manifest lists, and each component whole.
verify_bundle(b) == _validate_component(b.n, b.copied)

export_bundle ==
  /\ export.at = "copy" /\ export.todo = <<>>
  /\ LET b == [n |-> export.n, copied |-> export.copied]
     IN  /\ bundles' = bundles \cup {b}
         /\ export' = IF verify_bundle(b) THEN [export EXCEPT !.at = "receipt"] ELSE NoExport
  /\ UNCHANGED <<keyed, clock, writer, receipt, bused>> /\ UNCHANGED directory

_write_receipt ==
  /\ export.at = "receipt"
  /\ receipt' = {export.n}
  /\ export' = NoExport
  /\ UNCHANGED <<keyed, clock, writer, bundles, bused>> /\ UNCHANGED directory

-----------------------------------------------------------------------------
(* Faults.                                                                 *)

BackupFault == bused.cuts < MaxBackupCuts /\ bused' = [bused EXCEPT !.cuts = @ + 1]

KillRun ==
  /\ BackupFault
  /\ \/ writer.at # "idle" /\ writer' = NoRun /\ UNCHANGED export
     \/ export.at # "idle" /\ export' = NoExport /\ UNCHANGED writer
  /\ UNCHANGED <<keyed, clock, bundles, receipt>> /\ UNCHANGED directory

\* Any of the entries that were changed since the last sync may be as before.
PowerLoss ==
  /\ writer.at # "idle" \/ loose # {}
  /\ BackupFault
  /\ \E lost \in SUBSET loose : files' = (files \ lost) \cup (lost \ files)
  /\ loose' = {}
  /\ writer' = NoRun /\ export' = NoExport
  /\ UNCHANGED <<keyed, clock, bundles, receipt>>

BackupNext ==
  \/ Tick
  \/ backup_hosted_database \/ backup_portal_database \/ _encrypt_backup
  \/ _scan \/ _remove \/ prune
  \/ _selected_component_files \/ _copy \/ export_bundle \/ _write_receipt
  \/ KillRun \/ PowerLoss

BackupSpec == BackupInit /\ [][BackupNext]_backupVars

-----------------------------------------------------------------------------
(* Properties.                                                             *)

BackupTypeOK ==
  /\ keyed \in BOOLEAN /\ clock \in Instant
  /\ files \subseteq Path /\ loose \subseteq Path
  /\ ~keyed => \A p \in files : p.series = "db"
  /\ writer.at \in {"idle", "commit", "scan", "prune"} /\ writer.now \in 0..clock
  /\ ToSet(writer.todo) \subseteq Path
  /\ export.at \in {"idle", "copy", "receipt"} /\ export.n \in Instant
  /\ export.copied \subseteq Path
  /\ \A b \in bundles : b.n \in Instant /\ b.copied \subseteq Path
  /\ receipt \subseteq Instant
  /\ bused \in [exports: 0..MaxExports, cuts: 0..MaxBackupCuts]

\* A commit marker never stands over missing evidence, nor a set's manifest
\* over a key archive it names that is gone: not while a set is committed or
\* removed, not after a kill, and not after a power loss that undid whatever
\* had not been synced.
CommittedIsWhole ==
  /\ \A n \in Instant : committed("db", n) => Whole(n)
  /\ \A n \in Instant : committed("keys", n) => complete("keys", n)

\* No step, of retention, of a fault or of anyone, takes a file from one of
\* the newest Minimum complete sets, nor from one younger than the cutoff,
\* its key archive included; a set is safe from the moment it is synced.
RestorePointsKept ==
  [][\A n \in {m \in Present("db") : Whole(m)} :
       /\ (Trio("db", n) \cup sourceKeys(n)) \cap loose = {}
       /\ n \in Newest(Minimum, {m \in Present("db") : complete("db", m)}) \/ n >= clock - Days
       => Whole(n)']_backupVars

\* A retention that reaches its end leaves nothing past the cutoff but the
\* newest sets, with the key archives they name: neither the debris of a
\* run that was cut nor a key archive without its set.
RetentionClears ==
  [][writer.at = "prune" /\ writer.todo = <<>> /\ writer'.at = "idle" /\ bused' = bused =>
       \A p \in files' : p.at < writer.now - Days =>
         Whole(p.at)' /\ p.at \in Newest(Minimum, {n \in Present("db") : complete("db", n)})']_backupVars

\* The bundle a receipt names holds a whole set with its key archive, though
\* retention may remove files of the directory while they are copied.
ReceiptIsWhole ==
  \A n \in receipt : \E b \in bundles : b.n = n /\ Trio("db", n) \cup sourceKeys(n) \subseteq b.copied

\* Every state of the backup directory and the exports: what is committed or
\* receipted is whole.
BackupsSafe == BackupTypeOK /\ CommittedIsWhole /\ ReceiptIsWhole
=============================================================================
