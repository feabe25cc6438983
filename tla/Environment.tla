----------------------------- MODULE Environment -----------------------------
(***************************************************************************)
(* The environment of one application: set and unset requests              *)
(* (controller/environment_service.py) as the helper carries them out in   *)
(* the canonical Nomad Variable, its copy for the accepted job and the     *)
(* running allocations (helper/application_actions.py, helper/nomad.py).   *)
(* A value is named by the request that set it.  Requests run one at a     *)
(* time under the application's lock; prior values live only in the        *)
(* helper's memory, so a request that is cut off is found by the next one, *)
(* which reads back which keys there are.                                  *)
(***************************************************************************)
EXTENDS Naturals, FiniteSets

CONSTANTS
  EnvOp,       \* the requests
  EnvAction,   \* EnvAction[o]: set (also import) or unset
  EnvKey,      \* EnvKey[o]: the key it names
  StaffKey,    \* keys an owner may use
  StoreKey,    \* a key that storage owns
  NoVal, StoreVal,
  MaxEnvCuts   \* bound on interruptions and on rollbacks that fail too

VARIABLES
  cval,        \* canonical Variable: the request that set each key, or NoVal
  wval,        \* the accepted job's Variable, which its allocations read
  listed,      \* environment_keys rows with owner staff
  erev,        \* environment revision: how many requests it accepted
  erun,        \* the application's job runs
  eop,         \* operation rows: new, open, succeeded, failed, observed
  erep,        \* requests begun again after an interruption
  epc, ecur, eprev,   \* the body, its request, the values it replaced
  ecuts

envVars == <<cval, wval, listed, erev, erun, eop, erep, epc, ecur, eprev, ecuts>>
NoEnv == "none"
EKey == StaffKey \cup {StoreKey}
Blank == [k \in EKey |-> IF k = StoreKey THEN StoreVal ELSE NoVal]
KeysOf(v) == {k \in EKey : v[k] # NoVal}
EnvOpen == {o \in EnvOp : eop[o] = "open"}
EStep(l, next) == epc = l /\ epc' = next
EnvRest == UNCHANGED <<erev, erun, eop, erep, ecur, ecuts>>

EnvInit ==
  /\ cval = Blank /\ wval = Blank /\ listed = {} /\ erev = 0 /\ erun = FALSE
  /\ eop = [o \in EnvOp |-> "new"] /\ erep = {}
  /\ epc = "idle" /\ ecur = NoEnv /\ eprev = Blank /\ ecuts = 0

\* What _recover_interrupted reads back: the staff keys still present, and the
\* key of an interrupted set if it got there.
Recovered(o) ==
  (listed \cup (IF EnvAction[o] = "set" THEN {EnvKey[o]} \ {StoreKey} ELSE {})) \cap KeysOf(cval)

\* mutate, up to the recorded intent.  An interrupted request is observed and
\* ended, unless this is its repeat; a protected key is refused after that.
EnvBegin(o) ==
  /\ epc = "idle" /\ eop[o] \in {"new", "open"}
  /\ listed' = IF EnvOpen = {} THEN listed ELSE UNION {Recovered(p) : p \in EnvOpen}
  /\ LET ended == [p \in EnvOp |-> IF p \in EnvOpen \ {o} THEN "observed" ELSE eop[p]]
     IN IF EnvKey[o] = StoreKey
        THEN eop' = ended /\ UNCHANGED <<epc, ecur>>
        ELSE eop' = [ended EXCEPT ![o] = "open"] /\ epc' = "cas" /\ ecur' = o
  /\ erep' = erep \cup ({o} \cap EnvOpen)
  /\ UNCHANGED <<cval, wval, erev, erun, eprev, ecuts>>

EnvHalt == epc' = "idle" /\ ecur' = NoEnv /\ eprev' = Blank
EnvEnd(status) == eop' = [eop EXCEPT ![ecur] = status] /\ EnvHalt

\* A crash, or an error that mark_recovery_required records.
EnvCut ==
  /\ epc # "idle" /\ ecuts < MaxEnvCuts /\ ecuts' = ecuts + 1
  /\ EnvHalt /\ UNCHANGED <<cval, wval, listed, erev, erun, eop, erep>>

\* merge_owned_items: a key that is there must be the owner's.
merge_owned_items(v, o) ==
  [v EXCEPT ![EnvKey[o]] = IF EnvAction[o] = "set" THEN o ELSE NoVal]
Owned(o) == EnvKey[o] # StoreKey /\ (EnvKey[o] \in KeysOf(cval) => EnvKey[o] \in listed)

\* _cas_environment: the canonical Variable, remembering what it was.
CasEnvironment ==
  /\ EStep("cas", "sync") /\ Owned(ecur)
  /\ eprev' = cval /\ cval' = merge_owned_items(cval, ecur)
  /\ EnvRest /\ UNCHANGED <<wval, listed>>

\* _synchronize_workload_variable; only a running job is restarted and observed.
Synchronize ==
  /\ epc = "sync" /\ epc' = IF erun THEN "restart" ELSE "keys"
  /\ wval' = cval
  /\ EnvRest /\ UNCHANGED <<cval, listed, eprev>>

\* _restart_and_observe_environment: scheduler and public health decide.
Restart ==
  /\ epc = "restart" /\ epc' \in {"keys", "back"}
  /\ EnvRest /\ UNCHANGED <<cval, wval, listed, eprev>>

\* Mutant: the restored values are not written to the canonical Variable.
RestoreValuesWorkload ==
  /\ EStep("back", "bsync")
  /\ EnvRest /\ UNCHANGED <<cval, wval, listed, eprev>>

\* The prior values go back by compare-and-set, then to the job's copy.
RestoreValues ==
  /\ EStep("back", "bsync") /\ cval' = eprev
  /\ EnvRest /\ UNCHANGED <<wval, listed, eprev>>

RestoreSync ==
  /\ EStep("bsync", "brestart") /\ wval' = cval
  /\ EnvRest /\ UNCHANGED <<cval, listed, eprev>>

\* Healthy with the prior values: ENVIRONMENT_HEALTH_FAILED ends the request.
Unhealthy ==
  /\ epc = "brestart" /\ EnvEnd("failed")
  /\ UNCHANGED <<cval, wval, listed, erev, erun, erep, ecuts>>

\* The accepted change: the key rows, the revision, the operation, one
\* transaction each.
SaveKeys ==
  /\ EStep("keys", "revision")
  /\ listed' = (listed \cup (IF EnvAction[ecur] = "set" THEN {EnvKey[ecur]} ELSE {})) \cap KeysOf(cval)
  /\ EnvRest /\ UNCHANGED <<cval, wval, eprev>>

AdvanceRevision ==
  /\ EStep("revision", "succeed") /\ erev' = erev + 1
  /\ UNCHANGED <<cval, wval, listed, erun, eop, erep, ecur, eprev, ecuts>>

EnvSucceed ==
  /\ epc = "succeed" /\ EnvEnd("succeeded")
  /\ UNCHANGED <<cval, wval, listed, erev, erun, erep, ecuts>>

\* Deployments and stops, which an unfinished request keeps out; a new job
\* starts from the canonical values.
EnvDeploy ==
  /\ epc = "idle" /\ EnvOpen = {} /\ erun' = TRUE /\ wval' = cval
  /\ UNCHANGED <<cval, listed, erev, eop, erep, epc, ecur, eprev, ecuts>>
EnvStop ==
  /\ epc = "idle" /\ EnvOpen = {} /\ erun' = FALSE
  /\ UNCHANGED <<cval, wval, listed, erev, eop, erep, epc, ecur, eprev, ecuts>>

EnvBody ==
  \/ CasEnvironment \/ Synchronize \/ Restart \/ RestoreValues \/ RestoreSync \/ Unhealthy
  \/ SaveKeys \/ AdvanceRevision \/ EnvSucceed

EnvNext ==
  \/ \E o \in EnvOp : EnvBegin(o)
  \/ EnvBody \/ EnvCut \/ EnvDeploy \/ EnvStop

EnvSpec == EnvInit /\ [][EnvNext]_envVars

\* The lock's holder goes on, and an unfinished request is repeated.
EnvFairness ==
  WF_envVars(EnvBody) /\ WF_envVars(\E o \in EnvOp : eop[o] = "open" /\ EnvBegin(o))

(***************************************************************************)
(* Properties.                                                             *)
(***************************************************************************)

\* Types of the rows and the Variables.
EnvTypeOK ==
  /\ cval \in [EKey -> EnvOp \cup {NoVal, StoreVal}] /\ wval \in [EKey -> EnvOp \cup {NoVal, StoreVal}]
  /\ listed \subseteq StaffKey /\ eop \in [EnvOp -> {"new", "open", "succeeded", "failed", "observed"}]
  /\ erev \in 0..(Cardinality(EnvOp) + MaxEnvCuts) /\ ecuts \in 0..MaxEnvCuts

\* Whatever is cut off or rolled back, the credential storage published stays
\* in both Variables, and between requests the listed names are exactly the
\* staff keys that exist (merge_owned_items, _recover_interrupted, mutate).
KeysToldTruly ==
  /\ cval[StoreKey] = StoreVal /\ wval[StoreKey] = StoreVal
  /\ EnvOpen = {} => listed = KeysOf(cval) \ {StoreKey}

\* Between requests every value comes from a request that succeeded, or from
\* one that was cut off and that a later request observed: a request reported
\* as unhealthy left no value behind, in neither Variable (mutate's rollback),
\* unless it was a repeat, whose prior values are its own.
ValuesFromAccepted ==
  EnvOpen = {} => \A k \in StaffKey, v \in {cval, wval} :
    v[k] = NoVal \/ eop[v[k]] \in {"succeeded", "observed"} \/ v[k] \in erep

\* The job reads the canonical values, and the revision that rollback plans
\* bind counts every change to them, unless a request that was cut off was
\* ended by observation only: its values are then in place with the revision
\* unchanged (_recover_interrupted with finish).
RevisionCountsChanges ==
  /\ EnvOpen = {} /\ (\A o \in EnvOp : eop[o] # "observed") => cval = wval
  /\ erev >= Cardinality({o \in EnvOp : eop[o] = "succeeded"})

\* Every request ends, given repeats.
EnvWorkEnds == []<>(EnvOpen = {})

\* Every state of an application's values: told truly, from accepted requests,
\* counted by the revision.
EnvironmentSafe == EnvTypeOK /\ KeysToldTruly /\ ValuesFromAccepted /\ RevisionCountsChanges
=============================================================================
