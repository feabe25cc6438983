------------------------------ MODULE MCPortal ------------------------------
(***************************************************************************)
(* The portal: the journal of intents it drives through the controller, an *)
(* app's saved settings and people, and a local account.  They share no    *)
(* state that these models tell apart, so a behaviour is a behaviour of    *)
(* one of them, named by part; the others rest in one initial state.       *)
(***************************************************************************)
EXTENDS Portal, Settings, Accounts

VARIABLE part

mcVars == <<part, pvars, settingsVars, accountVars>>

\* What the users of one behaviour ask of the app.
MCAsks == {{Create} \cup Deletes, Deploys \cup Deletes, Deploys \cup Edits}

MCInit ==
  /\ part \in {"journal", "settings", "account"}
  /\ PortalInit /\ SettingsInit /\ AccountInit
  /\ part # "journal" => team.asks = Deploys \cup Edits
  /\ part # "settings" => people.owner = CHOOSE p \in People : TRUE
  /\ part # "account" => acct.role = "owner" /\ acct.status = "pending"

MCNext ==
  /\ UNCHANGED part
  /\ \/ part = "journal" /\ PortalNext /\ UNCHANGED <<settingsVars, accountVars>>
     \/ part = "settings" /\ SettingsNext /\ UNCHANGED <<pvars, accountVars>>
     \/ part = "account" /\ AccountNext /\ UNCHANGED <<pvars, settingsVars>>

\* The fairness of PortalSpec, for its part; the others promise nothing in time.
MCFairness ==
  /\ \A t \in Thread:
       WF_pvars(part = "journal" /\ (Lease(t) \/ Poll(t) \/ Post(t) \/ WriteBack(t) \/ Record(t)))
  /\ SF_pvars(part = "journal" /\ \E t \in Thread, i \in Intent: Reconcile(t, i))
  /\ WF_pvars(part = "journal" /\ \E i \in Intent: OperationMoves(i))
  /\ WF_pvars(part = "journal" /\ \E i \in Intent: ExpireOrphan(i))
  /\ WF_pvars(part = "journal" /\ observe_deleted)

MCSpec == MCInit /\ [][MCNext]_mcVars /\ MCFairness

\* Intents are recorded only for those with access, and settle; a deleted
\* application is noticed.
PortalPromise == RecordedWithAccess /\ DeletionIsNoticed /\ IntentsSettle
=============================================================================
