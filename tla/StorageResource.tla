---------------------------- MODULE StorageResource ----------------------------
(***************************************************************************)
(* The managed storage of one application: the controller's create,        *)
(* verify, rotate and remove operations (controller/storage.py), its       *)
(* limits (controller/storage_limits.py), and what the helper does at the  *)
(* three providers and in the application's Nomad Variable                 *)
(* (helper/storage.py, helper/storage_limits.py).  A credential is named   *)
(* by the operation that made it, as _credential_name does with the        *)
(* operation's generation.  The application itself writes data whenever    *)
(* its Variable holds a working credential.  Bodies run one at a time      *)
(* under the application's lock and are repeated from their start; a       *)
(* refused step waits at its label, where the repeat will meet it again.   *)
(***************************************************************************)
EXTENDS Naturals, Sequences, FiniteSets

CONSTANTS
  StoreOp,        \* the operations requested on the application's storage
  StoreKind,      \* StoreKind[o]: create, verify, rotate, remove, limits
  Selected,       \* Selected[o]: the resource types, in RESOURCE_TYPES order
  Purge,          \* the removals asked for with purge_s3
  NoCred,
  MaxStoreCuts    \* bound on interruptions and restarts

VARIABLES
  mrow,      \* managed_resources: lifecycle_state, or none
  ekeys,     \* types whose keys environment_keys lists
  have,      \* provider: owner role, data (database or bucket), markers and grants
  full,      \* provider: types whose database or bucket holds application data
  creds,     \* provider: the logins or access keys that work
  var,       \* the Nomad Variable: the credential published for each type
  quota,     \* the accepted limit in the row
  pquota,    \* the limit assigned at the provider
  used,      \* types the accepted deployment references
  sop,       \* operation rows: new, open, succeeded, failed
  sdone,     \* refs.completed, and "applied" for limits
  spc, scur, stype, srec, sold,   \* the body: position, operation, type, recover flag, old credential
  scuts

storeVars == <<mrow, ekeys, have, full, creds, var, quota, pquota, used, sop, sdone,
               spc, scur, stype, srec, sold, scuts>>
provVars == <<have, full, creds, var>>
limVars == <<quota, pquota>>
bodyVars == <<scur, stype, srec, sold, scuts>>
journal == <<mrow, ekeys, sop, sdone>>

RType == {"postgres", "mongo", "s3"}
NoOp == "none"
Limit == {1, 2}

\* What a create makes at each provider, in order.  The login goes to creds.
postgres_create == <<"owner", "login", "data", "mark">>
mongo_create == <<"login">>
s3_create == <<"data", "login", "mark">>
CreateOrder == [postgres |-> postgres_create, mongo |-> mongo_create, s3 |-> s3_create]
Made(t, o) == have[t] \cup IF o \in creds[t] THEN {"login"} ELSE {}
Whole(t) == {CreateOrder[t][i] : i \in DOMAIN CreateOrder[t]}
Nothing(t) == have[t] = {} /\ creds[t] = {} /\ (t = "mongo" => t \notin full)

SStep(l, next) == spc = l /\ spc' = next
KindIs(kinds) == StoreKind[scur] \in kinds
Pending(o) == SelectSeq(Selected[o], LAMBDA t : t \notin sdone[o])

StoreInit ==
  /\ mrow = [t \in RType |-> "none"] /\ ekeys = {} /\ used = {}
  /\ have = [t \in RType |-> {}] /\ full = {}
  /\ creds = [t \in RType |-> {}] /\ var = [t \in RType |-> NoCred]
  /\ quota = [t \in RType |-> 1] /\ pquota = [t \in RType |-> 1]
  /\ sop = [o \in StoreOp |-> "new"] /\ sdone = [o \in StoreOp |-> {}]
  /\ spc = "idle" /\ scur = NoOp /\ stype = "s3" /\ srec = FALSE /\ sold = NoCred
  /\ scuts = 0

(***************************************************************************)
(* Requests, repeats and faults.                                           *)
(***************************************************************************)
StoreUnended == {o \in StoreOp : sop[o] = "open"}
Chosen(o) == {Selected[o][i] : i \in DOMAIN Selected[o]}

\* The checks each operation makes before it is journaled.
Admissible(o) ==
  CASE StoreKind[o] = "create" -> \A t \in Chosen(o) : mrow[t] = "none"
    [] StoreKind[o] \in {"verify", "rotate"} -> \A t \in Chosen(o) : mrow[t] # "none"
    [] StoreKind[o] = "remove" -> \A t \in Chosen(o) : mrow[t] # "none" /\ t \notin used
    [] StoreKind[o] = "limits" -> \A t \in Chosen(o) : mrow[t] = "active" /\ quota[t] = 1

StoreBegin(o) ==
  /\ spc = "idle" /\ StoreUnended = {} /\ sop[o] = "new" /\ Admissible(o)
  /\ sop' = [sop EXCEPT ![o] = "open"]
  /\ spc' = "each" /\ scur' = o /\ srec' = FALSE
  /\ UNCHANGED <<mrow, ekeys, provVars, limVars, used, sdone, stype, sold, scuts>>

\* The same request again.  verify, rotate and an uncompleted part of remove
\* first find every row they selected, or refuse the journal as inconsistent.
StoreRepeat(o) ==
  /\ spc = "idle" /\ sop[o] = "open"
  /\ StoreKind[o] \in {"verify", "rotate"} => \A t \in Chosen(o) : mrow[t] # "none"
  /\ StoreKind[o] = "remove" => \A t \in Chosen(o) \ sdone[o] : mrow[t] # "none" /\ t \notin used
  /\ spc' = "each" /\ scur' = o /\ srec' = TRUE
  /\ UNCHANGED <<journal, provVars, limVars, used, stype, sold, scuts>>

\* The row of one resource, written whole.
put_managed_resource(t, state) == [mrow EXCEPT ![t] = state]

StoreHalt == spc' = "idle" /\ scur' = NoOp /\ UNCHANGED <<stype, sold, srec>>

\* _mark_ambiguous: the row and the operation wait for a repeat.
Ambiguous ==
  /\ mrow' = IF mrow[stype] = "none" THEN mrow ELSE put_managed_resource(stype, "recovery_required")
  /\ StoreHalt

\* A crash leaves everything as it is; an exception in the helper call is
\* recorded first.
StoreCut ==
  /\ spc # "idle" /\ scuts < MaxStoreCuts /\ scuts' = scuts + 1
  /\ \/ StoreHalt /\ UNCHANGED mrow
     \/ spc \notin {"each", "tick"} /\ ~KindIs({"limits"}) /\ Ambiguous
  /\ UNCHANGED <<ekeys, sop, sdone, provVars, limVars, used>>

StoreEnd(status) ==
  /\ sop' = [sop EXCEPT ![scur] = status] /\ StoreHalt /\ UNCHANGED scuts

\* The next selected type, or _complete_operation.
EachType ==
  /\ spc = "each"
  /\ \/ /\ Pending(scur) = <<>>
        /\ StoreEnd("succeeded") /\ UNCHANGED mrow
     \/ /\ Pending(scur) # <<>> /\ stype' = Head(Pending(scur))
        /\ mrow' = IF KindIs({"create"}) /\ (~srec \/ mrow[stype'] = "none")
                   THEN put_managed_resource(stype', "creating") ELSE mrow
        /\ spc' = StoreKind[scur]
        /\ UNCHANGED <<sop, scur, srec, sold, scuts>>
  /\ UNCHANGED <<ekeys, sdone, provVars, limVars, used>>

\* completed.append and its checkpoint; only the first type of a repeat recovers.
Tick ==
  /\ SStep("tick", "each")
  /\ sdone' = [sdone EXCEPT ![scur] = @ \cup {stype}] /\ srec' = FALSE
  /\ UNCHANGED <<mrow, ekeys, sop, provVars, limVars, used, scur, stype, sold, scuts>>

\* The row becomes active, and a new resource's keys are listed.
AcceptRow ==
  /\ spc = "accept" /\ spc' = IF KindIs({"create"}) THEN "keys" ELSE "tick"
  /\ mrow' = put_managed_resource(stype, "active")
  /\ UNCHANGED <<ekeys, sop, sdone, provVars, limVars, used, bodyVars>>

AcceptKeys ==
  /\ SStep("keys", "tick") /\ ekeys' = ekeys \cup {stype}
  /\ UNCHANGED <<mrow, sop, sdone, provVars, limVars, used, bodyVars>>

\* The helper's steps leave the journal alone.
Helper == UNCHANGED <<journal, limVars, used, bodyVars>>

(***************************************************************************)
(* Create: *_create_handler and *_create.                                  *)
(***************************************************************************)

\* A fresh create finds neither keys nor provider state.
CreateFresh ==
  /\ SStep("create", "make") /\ ~srec
  /\ var[stype] = NoCred /\ Nothing(stype)
  /\ Helper /\ UNCHANGED provVars

\* A repeat whose credential is already published checks it again; one that
\* finds nothing starts over; one whose creation is complete and unpublished
\* removes it, if it holds no data, and starts over.
Republish ==
  /\ var[stype] = scur /\ Made(stype, scur) = Whole(stype)
  /\ spc' = "publish" /\ UNCHANGED provVars
StartOver ==
  /\ var[stype] = NoCred /\ Nothing(stype)
  /\ spc' = "make" /\ UNCHANGED provVars
RemoveCreated ==
  /\ var[stype] = NoCred /\ Made(stype, scur) = Whole(stype) /\ stype \notin full
  /\ have' = [have EXCEPT ![stype] = {}]
  /\ creds' = [creds EXCEPT ![stype] = @ \ {scur}]
  /\ spc' = "make" /\ UNCHANGED <<full, var>>
Recovering(t) == spc = "create" /\ srec /\ stype = t /\ Helper

\* PostgreSQL proves the creation by markers on the database and the roles,
\* MongoDB by the user's customData; Garage has no ownership evidence, so any
\* bucket or key that is not published is left for inspection.
PostgresCreateRecover == Recovering("postgres") /\ (Republish \/ StartOver \/ RemoveCreated)
MongoCreateRecover == Recovering("mongo") /\ (Republish \/ StartOver \/ RemoveCreated)
S3CreateRecover == Recovering("s3") /\ (Republish \/ StartOver)

\* The next provider call of the create.
MakePart ==
  /\ spc = "make"
  /\ LET todo == SelectSeq(CreateOrder[stype], LAMBDA p : p \notin Made(stype, scur))
     IN /\ have' = IF Head(todo) = "login" THEN have
                   ELSE [have EXCEPT ![stype] = @ \cup {Head(todo)}]
        /\ creds' = IF Head(todo) = "login" THEN [creds EXCEPT ![stype] = @ \cup {scur}] ELSE creds
        /\ spc' = IF Len(todo) = 1 THEN "publish" ELSE "make"
  /\ Helper /\ UNCHANGED <<full, var>>

\* A provider call fails: only Garage's exact responses, once both exist, allow
\* a cleanup on the spot; anything else is ambiguous.
MakeFails ==
  /\ spc = "make" /\ stype = "s3" /\ scur \in creds["s3"]
  /\ spc' = "undo" /\ Helper /\ UNCHANGED provVars

\* *_verify with the new credential, then _publish to the Variable.
Publish ==
  /\ spc \in {"publish", "rpublish"}
  /\ var' = [var EXCEPT ![stype] = scur]
  /\ spc' = IF spc = "publish" THEN "evidence" ELSE "revidence"
  /\ Helper /\ UNCHANGED <<have, full, creds>>

CreateEvidence ==
  /\ \/ SStep("evidence", "accept")
     \/ spc \in {"publish", "evidence"} /\ spc' = "undo"
  /\ Helper /\ UNCHANGED provVars

\* _raise_create_failure: the operation's own keys go first, then what it made,
\* if that is provably its own and still empty.
UndoKeys ==
  /\ SStep("undo", "undone") /\ var[stype] \in {scur, NoCred}
  /\ var' = [var EXCEPT ![stype] = NoCred]
  /\ Helper /\ UNCHANGED <<have, full, creds>>

UndoProvider ==
  /\ SStep("undone", "undologin") /\ stype \notin full
  /\ stype = "s3" \/ Made(stype, scur) = Whole(stype)
  /\ have' = [have EXCEPT ![stype] = @ \ {"data", "mark"}]
  /\ Helper /\ UNCHANGED <<creds, full, var>>

UndoLogin ==
  /\ SStep("undologin", "rolledback")
  /\ have' = [have EXCEPT ![stype] = {}] /\ creds' = [creds EXCEPT ![stype] = @ \ {scur}]
  /\ Helper /\ UNCHANGED <<full, var>>

UndoRefused ==
  /\ spc = "undone" /\ stype \in full
  /\ Ambiguous /\ UNCHANGED <<ekeys, sop, sdone, provVars, limVars, used, scuts>>

\* CREATE_ROLLED_BACK: the row goes, then the operation is failed.
RolledBack ==
  /\ SStep("rolledback", "failed") /\ mrow' = [mrow EXCEPT ![stype] = "none"]
  /\ UNCHANGED <<ekeys, sop, sdone, provVars, limVars, used, bodyVars>>

StoreFailed ==
  /\ spc = "failed" /\ StoreEnd("failed")
  /\ UNCHANGED <<mrow, ekeys, sdone, provVars, limVars, used>>

(***************************************************************************)
(* Verify and rotate.                                                      *)
(***************************************************************************)
Verify ==
  /\ SStep("verify", "accept") /\ var[stype] \in creds[stype]
  /\ Helper /\ UNCHANGED provVars

\* The published credential is the old one, which must work.  A repeat that
\* finds its own published goes to confirm it; one that finds its own
\* unpublished drops it and makes another.
Rotate ==
  /\ spc = "rotate" /\ var[stype] \in creds[stype]
  /\ IF srec /\ var[stype] = scur
     THEN spc' = "rconfirm" /\ UNCHANGED <<creds, sold>>
     ELSE /\ spc' = "rmake" /\ sold' = var[stype]
          /\ creds' = [creds EXCEPT ![stype] = IF srec THEN @ \ {scur} ELSE @]
  /\ UNCHANGED <<have, full, var, journal, limVars, used, scur, stype, srec, scuts>>

RotateMake ==
  /\ SStep("rmake", "rpublish")
  /\ creds' = [creds EXCEPT ![stype] = @ \cup {scur}]
  /\ Helper /\ UNCHANGED <<have, full, var>>

\* Verification of the new login fails: it is retired, nothing was published.
RotateUnverified ==
  /\ spc = "rpublish" /\ scuts < MaxStoreCuts /\ scuts' = scuts + 1
  /\ creds' = [creds EXCEPT ![stype] = @ \ {scur}] /\ Ambiguous
  /\ UNCHANGED <<have, full, var, ekeys, sop, sdone, limVars, used>>


\* The evidence decides: retire the old credential, or publish it again.
RotateEvidence ==
  /\ spc = "revidence"
  /\ \/ spc' = "retire" /\ UNCHANGED var
     \/ spc' = "rback" /\ var' = [var EXCEPT ![stype] = sold]
  /\ Helper /\ UNCHANGED <<have, full, creds>>

RotateBack ==
  /\ SStep("rback", "rfailed")
  /\ creds' = [creds EXCEPT ![stype] = @ \ {scur}]
  /\ Helper /\ UNCHANGED <<have, full, var>>

RotateRejected ==
  /\ SStep("rfailed", "failed") /\ mrow' = put_managed_resource(stype, "active")
  /\ UNCHANGED <<ekeys, sop, sdone, provVars, limVars, used, bodyVars>>

\* A repeat retires the other credential, if it is still there; Garage's must
\* be there, so a repeat after the retirement itself cannot finish.
PostgresOldRoles(n) == n <= 1
MongoOldUsers(n) == n <= 1
S3OldKeys(n) == n = 1
RotateConfirm ==
  /\ SStep("rconfirm", "accept")
  /\ LET others == Cardinality(creds[stype] \ {scur})
     IN CASE stype = "postgres" -> PostgresOldRoles(others)
          [] stype = "mongo" -> MongoOldUsers(others)
          [] stype = "s3" -> S3OldKeys(others)
  /\ creds' = [creds EXCEPT ![stype] = {scur}]
  /\ Helper /\ UNCHANGED <<have, full, var>>

Retire ==
  /\ SStep("retire", "accept") /\ var[stype] = scur /\ sold \in creds[stype]
  /\ creds' = [creds EXCEPT ![stype] = @ \ {sold}]
  /\ Helper /\ UNCHANGED <<have, full, var>>

(***************************************************************************)
(* Remove.                                                                 *)
(***************************************************************************)

\* The helper's preflight: the keys are all there, or all is gone already; a
\* bucket with objects needs the purge.
PostgresPreflight == var["postgres"] # NoCred \/ Nothing("postgres")
MongoPreflight == var["mongo"] # NoCred \/ Nothing("mongo")
S3Preflight ==
  /\ var["s3"] # NoCred \/ have["s3"] = {}
  /\ "s3" \in full => scur \in Purge
Preflight(t) ==
  (t = "postgres" /\ PostgresPreflight) \/ (t = "mongo" /\ MongoPreflight) \/ (t = "s3" /\ S3Preflight)

\* Every type still pending is checked again before each deletion.
RemoveStart ==
  /\ spc = "remove" /\ UNCHANGED <<ekeys, sdone, provVars, limVars, used>>
  /\ \/ /\ \A i \in DOMAIN Pending(scur) : Preflight(Pending(scur)[i])
        /\ mrow' = IF srec THEN mrow ELSE put_managed_resource(stype, "removing")
        /\ spc' = "rmdata" /\ UNCHANGED <<sop, bodyVars>>
     \/ /\ \E i \in DOMAIN Pending(scur) : ~Preflight(Pending(scur)[i])
        /\ ~srec /\ sdone[scur] = {}
        /\ StoreEnd("failed") /\ UNCHANGED mrow

\* The database or the bucket is dropped, what it holds with it: MongoDB's only
\* while its user still proves the ownership, Garage's objects only with purge.
Drop ==
  /\ have' = [have EXCEPT ![stype] = @ \ {"data", "mark"}] /\ full' = full \ {stype}
  /\ Helper /\ UNCHANGED <<creds, var>>
DropPostgres == SStep("rmdata", "rmcred") /\ stype = "postgres" /\ Drop
DropMongo ==
  /\ SStep("rmdata", "rmcred") /\ stype = "mongo"
  /\ Nothing("mongo") \/ var["mongo"] \in creds["mongo"]
  /\ Drop

DropS3 ==
  /\ SStep("rmdata", "rmcred") /\ stype = "s3"
  /\ "s3" \in full => scur \in Purge
  /\ Drop

RemoveCredentials ==
  /\ SStep("rmcred", "rmvar")
  /\ have' = [have EXCEPT ![stype] = {}]
  /\ creds' = [creds EXCEPT ![stype] = IF stype = "s3" THEN @ \ {var["s3"]} ELSE {}]
  /\ Helper /\ UNCHANGED <<full, var>>

RemoveVariable ==
  /\ SStep("rmvar", "rmkeys") /\ Nothing(stype)
  /\ var' = [var EXCEPT ![stype] = NoCred]
  /\ Helper /\ UNCHANGED <<have, full, creds>>

RemoveKeys ==
  /\ SStep("rmkeys", "rmrow") /\ ekeys' = ekeys \ {stype}
  /\ UNCHANGED <<mrow, sop, sdone, provVars, limVars, used, bodyVars>>

RemoveRow ==
  /\ SStep("rmrow", "tick") /\ mrow' = [mrow EXCEPT ![stype] = "none"]
  /\ UNCHANGED <<ekeys, sop, sdone, provVars, limVars, used, bodyVars>>

(***************************************************************************)
(* Limits, the collector, deployments and the application.                 *)
(***************************************************************************)

\* select: assign at the provider, then checkpoint "applied", then the row.
LimitsApply ==
  /\ spc = "limits" /\ var[stype] \in creds[stype]
  /\ spc' = "applied" /\ pquota' = [pquota EXCEPT ![stype] = 2]
  /\ UNCHANGED <<journal, provVars, quota, used, bodyVars>>

LimitsPut ==
  /\ SStep("applied", "tick") /\ quota' = [quota EXCEPT ![stype] = 2]
  /\ UNCHANGED <<journal, provVars, pquota, used, bodyVars>>

\* collect for MongoDB and repair_postgres: under the application's lock and
\* with no operation pending, the accepted limit is assigned again.
Reapply(t) ==
  /\ spc = "idle" /\ StoreUnended = {} /\ mrow[t] = "active" /\ t # "s3"
  /\ pquota' = [pquota EXCEPT ![t] = quota[t]]
  /\ UNCHANGED <<journal, provVars, quota, used, spc, bodyVars>>

\* A deployment is accepted with the storage it references.
Redeploy(S) ==
  /\ spc = "idle" /\ StoreUnended = {}
  /\ \A t \in S : mrow[t] = "active"
  /\ used' = S
  /\ UNCHANGED <<journal, provVars, limVars, spc, bodyVars>>

\* The application stores something.
AppWrite(t) ==
  /\ var[t] \in creds[t] /\ (t # "mongo" => "data" \in have[t])
  /\ full' = full \cup {t}
  /\ UNCHANGED <<have, creds, var, journal, limVars, used, spc, bodyVars>>

StoreBody ==
  \/ EachType \/ Tick \/ AcceptRow \/ AcceptKeys
  \/ CreateFresh \/ PostgresCreateRecover \/ MongoCreateRecover \/ S3CreateRecover
  \/ MakePart \/ MakeFails \/ Publish \/ CreateEvidence
  \/ UndoKeys \/ UndoProvider \/ UndoLogin \/ UndoRefused \/ RolledBack \/ StoreFailed
  \/ Verify \/ Rotate \/ RotateMake \/ RotateUnverified \/ RotateEvidence \/ RotateBack
  \/ RotateRejected \/ RotateConfirm \/ Retire
  \/ RemoveStart \/ DropPostgres \/ DropMongo \/ DropS3 \/ RemoveCredentials \/ RemoveVariable \/ RemoveKeys \/ RemoveRow
  \/ LimitsApply \/ LimitsPut

StoreNext ==
  \/ \E o \in StoreOp : StoreBegin(o) \/ StoreRepeat(o)
  \/ StoreBody \/ StoreCut
  \/ \E t \in RType : Reapply(t) \/ AppWrite(t)
  \/ \E S \in SUBSET RType : Redeploy(S)

StoreSpec == StoreInit /\ [][StoreNext]_storeVars

\* The lock's holder goes on and the requester repeats.
StoreFairness ==
  /\ WF_storeVars(StoreBody)
  /\ WF_storeVars(\E o \in StoreOp : StoreRepeat(o))

(***************************************************************************)
(* Properties.                                                             *)
(***************************************************************************)

\* Types of the journal and of the providers' state.
StoreTypeOK ==
  /\ mrow \in [RType -> {"none", "creating", "active", "removing", "recovery_required"}]
  /\ creds \in [RType -> SUBSET StoreOp] /\ var \in [RType -> StoreOp \cup {NoCred}]
  /\ have \in [RType -> SUBSET {"owner", "data", "mark"}]
  /\ ekeys \subseteq RType /\ full \subseteq RType /\ used \subseteq RType
  /\ quota \in [RType -> Limit] /\ pquota \in [RType -> Limit]

RemovalOpen(t) ==
  \E o \in StoreUnended : StoreKind[o] = "remove" /\ t \in Chosen(o) \ sdone[o]

\* The credential the application reads from its Variable works at every
\* moment, through rotations cut off anywhere and creates undone, until its
\* removal is asked for; storage the accepted deployment references works
\* always (*_rotate_handler, _raise_create_failure, remove's referenced check).
PublishedCredentialWorks ==
  \A t \in RType :
    /\ var[t] # NoCred /\ ~RemovalOpen(t) => var[t] \in creds[t]
    /\ t \in used => var[t] \in creds[t] /\ (t # "mongo" => "data" \in have[t])

\* With no operation open the journal tells the truth: an active resource has
\* exactly the published credential and all its parts, and a resource without
\* a row left neither database, credential nor Variable key.  (A create that is
\* undone on a repeat after AcceptKeys leaves its key names listed.)
NothingLeftBehind ==
  StoreUnended = {} => \A t \in RType :
    \/ mrow[t] = "active" /\ creds[t] = {var[t]} /\ t \in ekeys
       /\ have[t] \cup {"login"} = Whole(t) \cup {"login"}
    \/ mrow[t] = "none" /\ var[t] = NoCred /\ Nothing(t)

\* Data the application stored is dropped only by a removal that was asked for
\* that type and that no deployment referenced, and from a bucket only with
\* the purge: a rolled back create never takes data with it.
DataRemovedOnRequest ==
  [][\A t \in full \ full' :
       /\ StoreKind[scur] = "remove" /\ t \in Chosen(scur) /\ t \notin used
       /\ t = "s3" => scur \in Purge]_storeVars

\* Between operations the provider enforces the limit the row states, whatever
\* the collector and the role repair reassigned in the meantime.
LimitsAgree ==
  StoreUnended = {} => \A t \in RType : mrow[t] = "active" => quota[t] = pquota[t]

\* What the code leaves to an administrator.
StoreLeft ==
  \E o \in StoreUnended : \E t \in Chosen(o) \ sdone[o] :
    \/ /\ StoreKind[o] = "create" /\ var[t] = NoCred
       /\ \/ Made(t, o) \notin {{}, Whole(t)}        \* cut inside the creation
          \/ t = "s3" /\ Made(t, o) # {}            \* no ownership evidence
          \/ t \in full                            \* data in what is to be undone
    \/ /\ StoreKind[o] = "rotate" /\ t = "s3"       \* cut after the old key's deletion
       /\ var[t] = o /\ creds[t] = {o}
    \/ /\ StoreKind[o] = "remove"
       /\ \/ mrow[t] = "none"                      \* cut between row and checkpoint
          \/ t = "s3" /\ t \in full /\ o \notin Purge \* objects arrived after the preflight
          \/ t = "mongo" /\ t \in full /\ creds[t] = {} \* written to while being dropped

\* Every storage operation ends once it is repeated often enough, except where
\* the code asks for inspection (RECOVERY_REQUIRED) or a repeat cannot finish.
StorageWorkEnds == []<>(StoreUnended = {} \/ StoreLeft)

=============================================================================
