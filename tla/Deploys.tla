------------------------------- MODULE Deploys -------------------------------
(***************************************************************************)
(* The helper release on the admin host and the operator release on the    *)
(* operator host (install_release.py), and the script that ships a helper  *)
(* release and then the operator's policy (deploy_helper_release.sh).      *)
(* Nothing keeps two of these from running at once: they share the         *)
(* incoming files of a commit and the temporary link beside the selector.  *)
(***************************************************************************)
EXTENDS Integers, FiniteSets

CONSTANTS Commit, Policy, Deployer, MaxDeploys, MaxPolicyEdits, MaxDeployCuts

ASSUME DeployConstants == {MaxDeploys, MaxPolicyEdits, MaxDeployCuts} \subseteq Nat

VARIABLES
  whole,     \* complete releases: helper and operator
  chosen,    \* the selector "current" of each
  temp,      \* the temporary link beside it
  launcher,  \* the launcher in bin leads through the selector
  incoming,  \* the commits whose archive and evidence lie on the admin host
  sent,      \* the policy files there, one name per commit
  opolicy,   \* the operator's policy
  apolicy,   \* the admin host's policy
  provider,  \* the release the provider service runs
  dep,       \* where each deployment is
  dused

deployVars == <<whole, chosen, temp, launcher, incoming, sent, opolicy, apolicy, provider, dep, dused>>
releases == <<whole, chosen, temp, launcher>>
uploads == <<incoming, sent>>

Kind == {"helper", "operator"}
DeployFault == {"none", "identity", "policy", "trust", "components", "inventory", "smoke"}
NoDeploy == [at |-> "idle", kind |-> "helper", c |-> {}, policy |-> {}, fault |-> "none", alone |-> FALSE]

DeployInit ==
  /\ whole = [k \in Kind |-> {}]
  /\ chosen = [k \in Kind |-> {}]
  /\ temp = [k \in Kind |-> {}]
  /\ launcher = [k \in Kind |-> FALSE]
  /\ incoming = {}
  /\ sent = [c \in Commit |-> {}]
  /\ opolicy = CHOOSE p \in Policy : TRUE
  /\ apolicy = {}
  /\ provider = {}
  /\ dep = [d \in Deployer |-> NoDeploy]
  /\ dused = [deploys |-> 0, edits |-> 0, cuts |-> 0]

Spend(k, max) == dused[k] < max /\ dused' = [dused EXCEPT ![k] = @ + 1]
Running(d) == dep[d].at \notin {"idle", "done", "failed"}
Advance(d, label) == dep' = [dep EXCEPT ![d].at = label]
Mine(d) == CHOOSE c \in dep[d].c : TRUE

\* The exit trap removes what was uploaded for the commit, whoever sent it.
cleanup(d) ==
  IF dep[d].kind = "helper"
  THEN incoming' = incoming \ dep[d].c /\ sent' = [sent EXCEPT ![Mine(d)] = {}]
  ELSE UNCHANGED uploads

StopDeploy(d, label) ==
  /\ dep' = [dep EXCEPT ![d].at = label]
  /\ cleanup(d)

-----------------------------------------------------------------------------
(* Before anything changes on either host.                                 *)

\* The deployment an inventory names: its namespace, project and paths.
Identity(host, f) == IF host = "admin" /\ f = "identity" THEN "another" ELSE "ours"

\* The admin host's inventory names the deployment the operator's does.
SameDeployment(f) == Identity("admin", f) = Identity("operator", f)

\* The policy is read and validated once; the copy is what is sent later.
PolicySnapshot(f) == f # "policy"

Begin(d, k, c, f) ==
  /\ ~Running(d)
  /\ Spend("deploys", MaxDeploys)
  /\ SameDeployment(f)
  /\ k = "helper" => PolicySnapshot(f)
  /\ LET one == [at |-> IF k = "helper" THEN "upload" ELSE "gate", kind |-> k, c |-> {c},
                 policy |-> {opolicy}, fault |-> f, alone |-> \A e \in Deployer : ~Running(e)]
     IN  dep' = [e \in Deployer |-> IF e = d THEN one ELSE [dep[e] EXCEPT !.alone = FALSE]]
  /\ UNCHANGED <<opolicy, apolicy, provider>> /\ UNCHANGED releases /\ UNCHANGED uploads

Upload(d) ==
  /\ dep[d].at = "upload"
  /\ incoming' = incoming \cup dep[d].c
  /\ Advance(d, "gate")
  /\ UNCHANGED <<sent, opolicy, apolicy, provider, dused>> /\ UNCHANGED releases

-----------------------------------------------------------------------------
(* install_release.py.                                                     *)

\* The archive the installer is to read; an operator's is its own.
Archive(d) == dep[d].kind = "operator" \/ dep[d].c \subseteq incoming

\* The manifest's trust, before any code of the release runs; then every
\* component it names against the source.
_authenticate_manifest(d) == dep[d].fault # "trust"
verify(d) == dep[d].fault # "components"
_verify_release_gate(d) == _authenticate_manifest(d) /\ verify(d)

\* The installer looks at the admin host's inventory again.
_verify_helper_platform_configuration(d) == dep[d].kind = "helper" => dep[d].fault # "inventory"

\* Before the release root changes.
_preflight_release_gate(d) ==
  LET passes == Archive(d) /\ _verify_release_gate(d) /\ _verify_helper_platform_configuration(d)
  IN  /\ dep[d].at = "gate"
      /\ \/ passes /\ Advance(d, "store") /\ UNCHANGED uploads
         \/ ~passes /\ StopDeploy(d, "failed")
      /\ UNCHANGED <<opolicy, apolicy, provider, dused>> /\ UNCHANGED releases

_smoke(d) == dep[d].fault # "smoke"

StoreUnproved(d) ==
  /\ dep[d].at = "store"
  /\ \/ /\ Archive(d)
        /\ whole' = [whole EXCEPT ![dep[d].kind] = IF _smoke(d) THEN @ \cup dep[d].c ELSE @]
        /\ Advance(d, "temp")
        /\ UNCHANGED uploads
     \/ ~Archive(d) /\ StopDeploy(d, "failed") /\ UNCHANGED whole
  /\ UNCHANGED <<chosen, temp, launcher, opolicy, apolicy, provider, dused>>

\* Extract beside the releases, smoke, mark complete, rename; a release that
\* is there is smoked again.  A failure leaves the release root as it was.
Store(d) ==
  /\ dep[d].at = "store"
  /\ \/ /\ Archive(d) /\ _smoke(d)
        /\ whole' = [whole EXCEPT ![dep[d].kind] = @ \cup dep[d].c]
        /\ Advance(d, "temp")
        /\ UNCHANGED uploads
     \/ ~(Archive(d) /\ _smoke(d)) /\ StopDeploy(d, "failed") /\ UNCHANGED whole
  /\ UNCHANGED <<chosen, temp, launcher, opolicy, apolicy, provider, dused>>

LinkInPlace(d) ==
  /\ dep[d].at = "temp"
  /\ temp' = [temp EXCEPT ![dep[d].kind] = dep[d].c]
  /\ chosen' = [chosen EXCEPT ![dep[d].kind] = {}]
  /\ Advance(d, "replace")
  /\ UNCHANGED <<whole, launcher, opolicy, apolicy, provider, dused>> /\ UNCHANGED uploads

\* A temporary link left by a kill, or by another installer, is removed first.
Link(d) ==
  /\ dep[d].at = "temp"
  /\ temp' = [temp EXCEPT ![dep[d].kind] = dep[d].c]
  /\ Advance(d, "replace")
  /\ UNCHANGED <<whole, chosen, launcher, opolicy, apolicy, provider, dused>> /\ UNCHANGED uploads

\* The rename fails when another installer has taken the temporary link.
_atomic_symlink(d) ==
  LET k == dep[d].kind
  IN  /\ dep[d].at = "replace"
      /\ \/ /\ temp[k] # {}
            /\ chosen' = [chosen EXCEPT ![k] = temp[k]]
            /\ temp' = [temp EXCEPT ![k] = {}]
            /\ Advance(d, "launcher")
            /\ UNCHANGED uploads
         \/ temp[k] = {} /\ StopDeploy(d, "failed") /\ UNCHANGED <<chosen, temp>>
      /\ UNCHANGED <<whole, launcher, opolicy, apolicy, provider, dused>>

\* The link in bin; then the helper's archive goes.
Launcher(d) ==
  /\ dep[d].at = "launcher"
  /\ launcher' = [launcher EXCEPT ![dep[d].kind] = TRUE]
  /\ incoming' = IF dep[d].kind = "helper" THEN incoming \ dep[d].c ELSE incoming
  /\ Advance(d, IF dep[d].kind = "helper" THEN "probe" ELSE "units")
  /\ UNCHANGED <<whole, chosen, temp, sent, opolicy, apolicy, provider, dused>>

\* The operator's provider wrapper leads through the selector; its service is
\* restarted.
Units(d) ==
  /\ dep[d].at = "units"
  /\ provider' = chosen["operator"]
  /\ StopDeploy(d, "done")
  /\ UNCHANGED <<opolicy, apolicy, dused>> /\ UNCHANGED releases

-----------------------------------------------------------------------------
(* The end of deploy_helper_release.sh.                                    *)

\* Whichever release is selected, a whole one answers the invalid request.
Answers == launcher["helper"] /\ chosen["helper"] # {} /\ chosen["helper"] \subseteq whole["helper"]

Probe(d) ==
  /\ dep[d].at = "probe"
  /\ \/ Answers /\ Advance(d, "send") /\ UNCHANGED uploads
     \/ ~Answers /\ StopDeploy(d, "failed")
  /\ UNCHANGED <<opolicy, apolicy, provider, dused>> /\ UNCHANGED releases

Send(d) ==
  /\ dep[d].at = "send"
  /\ sent' = [sent EXCEPT ![Mine(d)] = dep[d].policy]
  /\ Advance(d, "put")
  /\ UNCHANGED <<incoming, opolicy, apolicy, provider, dused>> /\ UNCHANGED releases

\* What lies under the commit's name is the validated copy, by its checksum.
Arrived(d) == sent[Mine(d)] = dep[d].policy

Put(d) ==
  /\ dep[d].at = "put"
  /\ \/ Arrived(d) /\ apolicy' = sent[Mine(d)] /\ StopDeploy(d, "done")
     \/ ~Arrived(d) /\ StopDeploy(d, "failed") /\ UNCHANGED apolicy
  /\ UNCHANGED <<opolicy, provider, dused>> /\ UNCHANGED releases

-----------------------------------------------------------------------------

EditPolicy ==
  /\ Spend("edits", MaxPolicyEdits)
  /\ opolicy' \in Policy \ {opolicy}
  /\ UNCHANGED <<apolicy, provider, dep>> /\ UNCHANGED releases /\ UNCHANGED uploads

\* Killed before its trap, or without a connection to clean up over.
KillDeploy(d) ==
  /\ Running(d)
  /\ Spend("cuts", MaxDeployCuts)
  /\ Advance(d, "failed")
  /\ UNCHANGED <<opolicy, apolicy, provider>> /\ UNCHANGED releases /\ UNCHANGED uploads

DeployStep(d) ==
  \/ Upload(d) \/ _preflight_release_gate(d) \/ Store(d) \/ Link(d) \/ _atomic_symlink(d)
  \/ Launcher(d) \/ Units(d) \/ Probe(d) \/ Send(d) \/ Put(d)

DeployNext ==
  \/ \E d \in Deployer :
       \/ \E k \in Kind, c \in Commit, f \in DeployFault : Begin(d, k, c, f)
       \/ DeployStep(d)
       \/ KillDeploy(d)
  \/ EditPolicy

DeploySpec == DeployInit /\ [][DeployNext]_deployVars

-----------------------------------------------------------------------------
(* Properties.                                                             *)

\* Types: one commit behind a selector or a temporary link.
DeployTypeOK ==
  /\ \A k \in Kind : /\ whole[k] \subseteq Commit
                     /\ chosen[k] \subseteq Commit /\ Cardinality(chosen[k]) <= 1
                     /\ temp[k] \subseteq Commit /\ Cardinality(temp[k]) <= 1
  /\ launcher \in [Kind -> BOOLEAN]
  /\ incoming \subseteq Commit
  /\ \A c \in Commit : sent[c] \subseteq Policy
  /\ opolicy \in Policy /\ apolicy \subseteq Policy
  /\ provider \subseteq Commit

\* "Every install, including complete retained releases, must pass a real
\* invalid-request launcher smoke test": whatever installers run at once and
\* wherever they are killed, a selector leads to a complete, smoked release,
\* and once there it is never missing.
SelectedIsWhole ==
  \A k \in Kind : /\ chosen[k] \subseteq whole[k]
                  /\ launcher[k] => chosen[k] # {}

\* The admin host's policy changes only to the copy its own deployment
\* validated, and after a helper release has answered, even when two
\* deployments of one commit send their policies under one name.
PolicyIsSnapshot ==
  [][apolicy' # apolicy =>
       /\ Answers
       /\ \E d \in Deployer : dep[d].at = "put" /\ dep'[d].at = "done" /\ apolicy' = dep[d].policy
     ]_deployVars

\* A deployment that ends well, no other having run beside it or since, has
\* selected its commit and put its policy, or restarted the provider on it.
DoneMeansDeployed ==
  \A d \in Deployer :
    dep[d].at = "done" /\ dep[d].alone =>
      /\ chosen[dep[d].kind] = dep[d].c
      /\ IF dep[d].kind = "helper" THEN apolicy = dep[d].policy ELSE provider = dep[d].c

\* Every state of the admin host's releases: what is selected is whole, and
\* what is told as done was done.
DeploysSafe == DeployTypeOK /\ SelectedIsWhole /\ DoneMeansDeployed
==============================================================================
