-------------------------------- MODULE Setup --------------------------------
(***************************************************************************)
(* `openstack-platform setup --apply` (openstack_platform/setup.py) and    *)
(* the scripts it calls: generated keys and secrets, the internal PKI, the *)
(* security groups and ports of the foundation, the role images, the three *)
(* persistent hosts, the Nomad ACLs and the first release.  Setup keeps no *)
(* journal: a rerun finds out what exists and continues from there.  One   *)
(* run is in flight at a time; it may be cut anywhere, and the operator    *)
(* runs the same command again.                                            *)
(*                                                                         *)
(* A generated secret is the number of its generation (0 is absent), so    *)
(* that a secret made twice can be told from the one a host was built      *)
(* with.  The provider is the record scloud; the operator's files are the  *)
(* record sfiles.                                                          *)
(***************************************************************************)
EXTENDS Integers, Sequences, FiniteSets

CONSTANTS Inventory,      \* the inventories a setup file can describe
          NoInventory,    \* platform.json is not written yet
          NoSetupServer,  \* no server has the host's name
          MaxSetupCuts    \* bound: cuts and provider failures

ASSUME SetupConstants ==
    /\ NoInventory \notin Inventory
    /\ MaxSetupCuts \in Nat

VARIABLES sfiles,   \* the workspace and the operator's secrets directory
          scloud,   \* the OpenStack project and what runs on its hosts
          supload,  \* the host whose image upload is running, or "none"
          sflight,  \* the volume creations without an answer that may still land
          spc,      \* the step of the running setup, or "idle"
          shost,    \* the position in HostOrder the per-host steps are at
          sinput,   \* the inventory this run was given
          sdone,    \* a run printed setup=complete
          scuts     \* cuts and failures so far

setupVars == <<sfiles, scloud, supload, sflight, spc, shost, sinput, sdone, scuts>>

\* The persistent hosts, in the order _bootstrap_roles makes them.
HostOrder == <<"admin", "storage", "ingress">>
SetupHosts == {HostOrder[i] : i \in 1..3}

\* Only admin and storage keep a data volume.
VolumeHosts == {"admin", "storage"}

Generation == 0..(MaxSetupCuts + 1)

SetupServer == [inv : Inventory, ca : Generation, secret : Generation,
                state : {"building", "ready", "error"}]

Files == [platform : Inventory \cup {NoInventory},
          key : {"none", "private", "pair"},
          secret : Generation, age : Generation, policy : Generation,
          cakey : Generation, cacert : Generation,
          leafkey : BOOLEAN, leafcert : Generation, tokens : BOOLEAN,
          runtime : BOOLEAN, installed : Inventory \cup {NoInventory}]

Cloud == [groups : BOOLEAN, rules : SUBSET {"wanted", "stale"}, ports : BOOLEAN,
          image : [SetupHosts -> {"none", "queued", "active"}],
          volume : [VolumeHosts -> 0..2],
          server : [SetupHosts -> SetupServer \cup {NoSetupServer}],
          acl : {"open", "made", "kept"}, tokens : BOOLEAN, seed : Generation,
          release : BOOLEAN, selected : BOOLEAN, backupkey : BOOLEAN]

-----------------------------------------------------------------------------
(* Steps. *)

SetupStep(l, next) ==
    /\ spc = l
    /\ spc' = next

\* A SetupError, or a script's non-zero exit: the run ends where it is.
SetupRefused == spc' = "idle" /\ UNCHANGED <<sfiles, scloud>>

SetupRest == UNCHANGED <<supload, sflight, shost, sinput, sdone, scuts>>

Host == HostOrder[shost]

-----------------------------------------------------------------------------
(* The operator's files. *)

\* run_setup up to the inventory: the release evidence is verified before
\* anything is written, then the inventory is written once and compared ever
\* after.
Platform ==
    /\ spc = "platform"
    /\ IF sfiles.platform \in {NoInventory, sinput}
         THEN /\ spc' = "key"
              /\ sfiles' = [sfiles EXCEPT !.platform = sinput]
              /\ UNCHANGED scloud
         ELSE SetupRefused
    /\ SetupRest

\* ssh-keygen writes the private half and then the public one; a private key
\* without its public half is refused on every rerun.
EnsureKey ==
    /\ \/ /\ spc = "key"
          /\ CASE sfiles.key = "none" -> spc' = "public" /\ sfiles' = [sfiles EXCEPT !.key = "private"]
               [] sfiles.key = "private" -> spc' = "idle" /\ UNCHANGED sfiles
               [] OTHER -> spc' = "secret" /\ UNCHANGED sfiles
       \/ /\ SetupStep("public", "secret")
          /\ sfiles' = [sfiles EXCEPT !.key = "pair"]
    /\ UNCHANGED scloud
    /\ SetupRest


EnsureSecretFiles ==
    /\ SetupStep("secret", "age")
    /\ sfiles' = [sfiles EXCEPT !.secret = IF @ = 0 THEN 1 ELSE @]
    /\ UNCHANGED scloud
    /\ SetupRest

\* The backup identity is made once; its recipient is what _write_policy
\* records.
EnsureAgeIdentity ==
    /\ SetupStep("age", "policy")
    /\ sfiles' = [sfiles EXCEPT !.age = IF @ = 0 THEN 1 ELSE @]
    /\ UNCHANGED scloud
    /\ SetupRest

\* An existing policy must name the identity's recipient.
Policy ==
    /\ spc = "policy"
    /\ IF sfiles.policy \in {0, sfiles.age}
         THEN /\ spc' = "cakey"
              /\ sfiles' = [sfiles EXCEPT !.policy = sfiles.age]
              /\ UNCHANGED scloud
         ELSE SetupRefused
    /\ SetupRest

\* generate_internal_pki.sh, the authority: a missing half makes both anew.
InternalCAAny ==
    /\ \/ /\ SetupStep("cakey", "cacert")
          /\ sfiles' = [sfiles EXCEPT !.cakey = (@ % (MaxSetupCuts + 1)) + 1]
       \/ /\ SetupStep("cacert", "leafkey")
          /\ sfiles' = [sfiles EXCEPT !.cacert = sfiles.cakey]
    /\ UNCHANGED scloud
    /\ SetupRest

InternalCA ==
    /\ \/ /\ spc = "cakey"
          /\ IF sfiles.cakey = 0 \/ sfiles.cacert = 0
               THEN spc' = "cacert" /\ sfiles' = [sfiles EXCEPT !.cakey = @ + 1]
               ELSE spc' = "leafkey" /\ UNCHANGED sfiles
       \/ /\ SetupStep("cacert", "leafkey")
          /\ sfiles' = [sfiles EXCEPT !.cacert = sfiles.cakey]
    /\ UNCHANGED scloud
    /\ SetupRest

\* issue_cert: a complete pair is verified against the authority and reused,
\* half a pair is refused.
IssueCert ==
    /\ \/ /\ spc = "leafkey"
          /\ CASE ~sfiles.leafkey -> spc' = "leafcert" /\ sfiles' = [sfiles EXCEPT !.leafkey = TRUE]
               [] sfiles.leafkey /\ sfiles.leafcert # sfiles.cacert -> spc' = "idle" /\ UNCHANGED sfiles
               [] OTHER -> spc' = "groups" /\ UNCHANGED sfiles
       \/ /\ SetupStep("leafcert", "groups")
          /\ sfiles' = [sfiles EXCEPT !.leafcert = sfiles.cacert]
    /\ UNCHANGED scloud
    /\ SetupRest

-----------------------------------------------------------------------------
(* The foundation: apply_foundation.py. *)

\* ensure_security_groups makes what is missing, adds every wanted rule, and
\* only then removes the public rules that are no longer wanted.
EnsureSecurityGroups ==
    /\ \/ SetupStep("groups", "rules") /\ scloud' = [scloud EXCEPT !.groups = TRUE]
       \/ SetupStep("rules", "stale") /\ scloud' = [scloud EXCEPT !.rules = @ \cup {"wanted"}]
       \/ SetupStep("stale", "ports") /\ scloud' = [scloud EXCEPT !.rules = @ \ {"stale"}]
    /\ UNCHANGED sfiles
    /\ SetupRest

\* ensure_port: each host's port has its configured address and its group.
EnsurePorts ==
    /\ SetupStep("ports", "image")
    /\ scloud' = [scloud EXCEPT !.ports = TRUE]
    /\ shost' = 1
    /\ UNCHANGED <<sfiles, supload, sflight, sinput, sdone, scuts>>

-----------------------------------------------------------------------------
(* The role images. *)

\* _existing_image_id: one active image of the release is reused; one that is
\* there and is not active is refused.
ExistingImage ==
    /\ spc = "image"
    /\ CASE scloud.image[Host] = "none" -> spc' = "upload" /\ UNCHANGED shost
         [] scloud.image[Host] = "queued" -> spc' = "idle" /\ UNCHANGED shost
         [] OTHER -> /\ spc' = IF shost = 3 THEN "volume" ELSE "image"
                     /\ shost' = IF shost = 3 THEN 1 ELSE shost + 1
    /\ UNCHANGED <<sfiles, scloud, supload, sflight, sinput, sdone, scuts>>

\* publish_nixos_image.sh: `image create` reserves the name and uploads.
CreateImage ==
    /\ SetupStep("upload", "active")
    /\ scloud' = [scloud EXCEPT !.image[Host] = "queued"]
    /\ supload' = Host
    /\ UNCHANGED <<sfiles, sflight, shost, sinput, sdone, scuts>>

\* The upload ends, and the image becomes active; it is the publishing
\* process that sends the bytes.
UploadImage ==
    /\ supload # "none"
    /\ scloud' = [scloud EXCEPT !.image[supload] = "active"]
    /\ supload' = "none"
    /\ UNCHANGED <<sfiles, sflight, spc, shost, sinput, sdone, scuts>>

\* The publisher waits for the image to be active and verifies its identity,
\* owner, checksum and metadata against the evidence.
VerifyImage ==
    /\ spc = "active"
    /\ scloud.image[Host] = "active"
    /\ spc' = IF shost = 3 THEN "volume" ELSE "image"
    /\ shost' = IF shost = 3 THEN 1 ELSE shost + 1
    /\ UNCHANGED <<sfiles, scloud, supload, sflight, sinput, sdone, scuts>>

-----------------------------------------------------------------------------
(* The persistent hosts: apply_admin.sh, apply_storage.sh, apply_ingress.sh. *)

\* persistent_volume_exists and the creation that follows; a volume missing
\* beside its server is never made again.  The answer can be lost, and the
\* volume then appears late or never.
EnsureVolume ==
    /\ spc = "volume"
    /\ IF Host \notin VolumeHosts \/ scloud.volume[Host] > 0
         THEN spc' = "named" /\ UNCHANGED <<scloud, sflight, scuts>>
         ELSE \/ /\ scloud.server[Host] # NoSetupServer
                 /\ spc' = "idle"
                 /\ UNCHANGED <<scloud, sflight, scuts>>
              \/ /\ scloud.server[Host] = NoSetupServer
                 /\ spc' = "named"
                 /\ scloud' = [scloud EXCEPT !.volume[Host] = 1]
                 /\ UNCHANGED <<sflight, scuts>>
              \/ /\ scloud.server[Host] = NoSetupServer
                 /\ scuts < MaxSetupCuts
                 /\ spc' = "idle"
                 /\ sflight' = sflight \cup {Host}
                 /\ scuts' = scuts + 1
                 /\ UNCHANGED scloud
    /\ UNCHANGED <<sfiles, supload, shost, sinput, sdone>>

\* A lost volume creation takes effect.
VolumeLands(h) ==
    /\ h \in sflight
    /\ scloud.volume[h] < 2
    /\ scloud' = [scloud EXCEPT !.volume[h] = @ + 1]
    /\ sflight' = sflight \ {h}
    /\ UNCHANGED <<sfiles, supload, spc, shost, sinput, sdone, scuts>>

\* resolve_persistent_volume_id: `volume show` needs one volume of the name.
VolumeResolves(h) == h \notin VolumeHosts \/ scloud.volume[h] = 1

\* verify_persistent_host.py: a server that is already there has the image,
\* flavor, metadata, port and volumes of this inventory.
HostVerified(h) == scloud.server[h].inv = sfiles.platform

\* A server that is already there is verified and waited for; otherwise one
\* is made.
ResolveHost ==
    /\ spc = "named"
    /\ CASE ~VolumeResolves(Host) -> spc' = "idle"
         [] scloud.server[Host] = NoSetupServer -> spc' = "server"
         [] OTHER -> spc' = IF HostVerified(Host) THEN "ready" ELSE "idle"
    /\ UNCHANGED <<sfiles, scloud>>
    /\ SetupRest

\* render_host_user_data.py: what a new host is built with.
HostUserData == [inv |-> sfiles.platform, ca |-> sfiles.cacert,
                 secret |-> sfiles.secret, state |-> "building"]

\* server create --wait with that user data.  An answer can be lost after the server was made.
CreateHost ==
    /\ spc = "server"
    /\ scloud' = [scloud EXCEPT !.server[Host] = HostUserData]
    /\ \/ spc' = "ready" /\ UNCHANGED scuts
       \/ scuts < MaxSetupCuts /\ spc' = "idle" /\ scuts' = scuts + 1
    /\ UNCHANGED <<sfiles, supload, sflight, shost, sinput, sdone>>

\* A new host boots and prints its readiness marker, or enters ERROR.
HostBooted(h) ==
    /\ scloud.server[h] # NoSetupServer
    /\ scloud.server[h].state = "building"
    /\ \/ scloud' = [scloud EXCEPT !.server[h].state = "ready"] /\ UNCHANGED scuts
       \/ /\ scuts < MaxSetupCuts
          /\ scloud' = [scloud EXCEPT !.server[h].state = "error"]
          /\ scuts' = scuts + 1
    /\ UNCHANGED <<sfiles, supload, sflight, spc, shost, sinput, sdone>>

\* What follows a host that is ready: the admin host is bridged and given its
\* inputs, then its ACLs; the ingress host is the last.
AfterHost == CASE shost = 1 -> "runtime" [] shost = 2 -> "volume" [] OTHER -> "config"

\* wait_for_bootstrap: ready, in ERROR, or out of attempts.
WaitForBootstrap ==
    /\ \/ /\ spc = "ready"
          /\ CASE scloud.server[Host].state = "ready" -> spc' = "settled" /\ UNCHANGED scuts
               [] scloud.server[Host].state = "error" -> spc' = "idle" /\ UNCHANGED scuts
               [] OTHER -> scuts < MaxSetupCuts /\ spc' = "idle" /\ scuts' = scuts + 1
          /\ UNCHANGED shost
       \/ /\ SetupStep("settled", AfterHost)
          /\ shost' = IF shost = 2 THEN 3 ELSE shost
          /\ UNCHANGED scuts
    /\ UNCHANGED <<sfiles, scloud, supload, sflight, sinput, sdone>>

-----------------------------------------------------------------------------
(* The services on the hosts. *)

\* bootstrap_operator_runtime.sh installs the pinned interpreter and tools and
\* keeps an SSH identity that is already there.
OperatorRuntime ==
    /\ spc = "runtime"
    /\ \/ /\ spc' = "bridge"
          /\ sfiles' = [sfiles EXCEPT !.runtime = TRUE]
          /\ UNCHANGED scuts
       \/ /\ scuts < MaxSetupCuts
          /\ spc' = "idle"
          /\ scuts' = scuts + 1
          /\ UNCHANGED sfiles
    /\ UNCHANGED <<scloud, supload, sflight, shost, sinput, sdone>>

\* setup_operator_bridge.py: the scanned host key must be the one the console
\* printed; the files it pins the host with are rewritten by every run.
OperatorBridge ==
    /\ spc = "bridge"
    /\ \/ spc' = "seed" /\ UNCHANGED scuts
       \/ scuts < MaxSetupCuts /\ spc' = "idle" /\ scuts' = scuts + 1
    /\ UNCHANGED <<sfiles, scloud, supload, sflight, shost, sinput, sdone>>

\* The controller's inputs are copied to the admin host, each over whatever
\* an earlier run left.
SeedAdmin ==
    /\ SetupStep("seed", "acl")
    /\ scloud' = [scloud EXCEPT !.seed = sfiles.secret]
    /\ UNCHANGED sfiles
    /\ SetupRest

\* bootstrap_acl.sh: `nomad acl bootstrap` succeeds once; its answer is kept
\* in a file, and without that file it is refused.
BootstrapACL ==
    /\ \/ /\ spc = "acl"
          /\ CASE scloud.acl = "open" -> spc' = "keep" /\ scloud' = [scloud EXCEPT !.acl = "made"]
               [] scloud.acl = "made" -> spc' = "idle" /\ UNCHANGED scloud
               [] OTHER -> spc' = "tokens" /\ UNCHANGED scloud
       \/ SetupStep("keep", "tokens") /\ scloud' = [scloud EXCEPT !.acl = "kept"]
    /\ UNCHANGED sfiles
    /\ SetupRest

\* The service tokens are made once on the admin host and copied back.
FetchTokens ==
    /\ SetupStep("tokens", "volume")
    /\ scloud' = [scloud EXCEPT !.tokens = TRUE]
    /\ sfiles' = [sfiles EXCEPT !.tokens = TRUE]
    /\ shost' = 2
    /\ UNCHANGED <<supload, sflight, sinput, sdone, scuts>>

\* install_operator_config.py: the inventory and the policy.
InstallConfig ==
    /\ SetupStep("config", "install")
    /\ sfiles' = [sfiles EXCEPT !.installed = sfiles.platform]
    /\ UNCHANGED scloud
    /\ SetupRest

\* install_release.py and the helper release.
InstallRelease ==
    /\ SetupStep("install", "boundary")
    /\ scloud' = [scloud EXCEPT !.release = TRUE]
    /\ UNCHANGED sfiles
    /\ SetupRest

\* status, then _verify_controller_boundary: the hosted controller is active,
\* ready and reachable on the privileged socket only.
VerifyControllerBoundary ==
    /\ spc = "boundary"
    /\ \/ spc' = "select" /\ UNCHANGED scuts
       \/ scuts < MaxSetupCuts /\ spc' = "idle" /\ scuts' = scuts + 1
    /\ UNCHANGED <<sfiles, scloud, supload, sflight, shost, sinput, sdone>>

\* infra image set for every role.
SelectImages ==
    /\ SetupStep("select", "backup")
    /\ scloud' = [scloud EXCEPT !.selected = TRUE]
    /\ UNCHANGED sfiles
    /\ SetupRest

\* init_garage_backup_key.py and the hosted backup identity, each made once.
BackupKeys ==
    /\ SetupStep("backup", "healthy")
    /\ scloud' = [scloud EXCEPT !.backupkey = TRUE]
    /\ UNCHANGED sfiles
    /\ SetupRest

\* The closing status must be healthy; then setup=complete is printed.
Healthy ==
    /\ SetupStep("healthy", "idle")
    /\ \/ sdone' = TRUE /\ UNCHANGED scuts
       \/ scuts < MaxSetupCuts /\ scuts' = scuts + 1 /\ UNCHANGED sdone
    /\ UNCHANGED <<sfiles, scloud, supload, sflight, shost, sinput>>

-----------------------------------------------------------------------------
(* The command. *)

\* setup --apply with some inventory.
SetupBegin(inv) ==
    /\ spc = "idle"
    /\ ~sdone
    /\ spc' = "platform"
    /\ sinput' = inv
    /\ supload' = "none"
    /\ UNCHANGED <<sfiles, scloud, sflight, shost, sdone, scuts>>

\* The identical command again.
SetupAgain == SetupBegin(IF sfiles.platform = NoInventory THEN sinput ELSE sfiles.platform)

\* The process and the scripts it runs are interrupted; an upload it was
\* sending stops with it.
SetupCut ==
    /\ spc # "idle"
    /\ scuts < MaxSetupCuts
    /\ spc' = "idle"
    /\ scuts' = scuts + 1
    /\ supload' = "none"
    /\ UNCHANGED <<sfiles, scloud, sflight, shost, sinput, sdone>>

SetupInit ==
    /\ sfiles = [platform |-> NoInventory, key |-> "none", secret |-> 0, age |-> 0,
                 policy |-> 0, cakey |-> 0, cacert |-> 0, leafkey |-> FALSE,
                 leafcert |-> 0, tokens |-> FALSE, runtime |-> FALSE,
                 installed |-> NoInventory]
    /\ scloud \in [groups : {TRUE}, rules : {{}, {"stale"}}, ports : {FALSE},
                   image : {[h \in SetupHosts |-> "none"]},
                   volume : {[h \in VolumeHosts |-> 0]},
                   server : {[h \in SetupHosts |-> NoSetupServer]},
                   acl : {"open"}, tokens : {FALSE}, seed : {0}, release : {FALSE},
                   selected : {FALSE}, backupkey : {FALSE}]
    /\ supload = "none"
    /\ sflight = {}
    /\ spc = "idle"
    /\ shost = 1
    /\ sinput \in Inventory
    /\ sdone = FALSE
    /\ scuts = 0

SetupBody ==
    \/ Platform \/ EnsureKey \/ EnsureSecretFiles \/ EnsureAgeIdentity \/ Policy
    \/ InternalCA \/ IssueCert \/ EnsureSecurityGroups \/ EnsurePorts
    \/ ExistingImage \/ CreateImage \/ VerifyImage
    \/ EnsureVolume \/ ResolveHost \/ CreateHost \/ WaitForBootstrap
    \/ OperatorRuntime \/ OperatorBridge \/ SeedAdmin \/ BootstrapACL \/ FetchTokens
    \/ InstallConfig \/ InstallRelease
    \/ VerifyControllerBoundary \/ SelectImages \/ BackupKeys \/ Healthy

SetupBoots == \E h \in SetupHosts : HostBooted(h)

SetupNext ==
    \/ SetupBody
    \/ SetupBoots
    \/ UploadImage
    \/ \E inv \in Inventory : SetupBegin(inv)
    \/ \E h \in VolumeHosts : VolumeLands(h)
    \/ SetupCut

SetupFairness ==
    /\ WF_setupVars(SetupBody)
    /\ WF_setupVars(SetupBoots)
    /\ WF_setupVars(UploadImage)
    /\ SF_setupVars(SetupAgain)

SetupSpec == SetupInit /\ [][SetupNext]_setupVars /\ SetupFairness

-----------------------------------------------------------------------------
(* Properties. *)

\* Every variable has its type.
SetupTypeOK ==
    /\ sfiles \in Files
    /\ scloud \in Cloud
    /\ supload \in SetupHosts \cup {"none"}
    /\ sflight \subseteq VolumeHosts
    /\ shost \in 1..3
    /\ sinput \in Inventory
    /\ sdone \in BOOLEAN
    /\ scuts \in 0..MaxSetupCuts

\* However often setup is cut and run again, the secrets and the authority a
\* host was built with are the ones the operator still keeps, and the leaf
\* certificates are signed by that authority: nothing a host depends on is
\* ever generated a second time (_ensure_secret_files, generate_internal_pki).
CredentialsKept ==
    /\ \A h \in SetupHosts : scloud.server[h] # NoSetupServer =>
          /\ scloud.server[h].ca = sfiles.cacert
          /\ scloud.server[h].secret = sfiles.secret
    /\ sfiles.leafcert # 0 => sfiles.leafcert = sfiles.cacert
    /\ scloud.seed # 0 => scloud.seed = sfiles.secret

\* All hosts were made from the inventory in the workspace, whatever inputs
\* later runs were given (run_setup refuses a different inventory before it
\* touches anything).
OneInventory ==
    \A h \in SetupHosts : scloud.server[h] # NoSetupServer =>
        /\ scloud.server[h].inv = sfiles.platform
        /\ sfiles.installed \in {NoInventory, sfiles.platform}

\* setup=complete means all of it is there: every host ready, with a single
\* volume where it keeps one, every image active and selected, the ACLs and
\* their file, the release and the backup keys.
CompleteMeansWhole ==
    sdone =>
        /\ \A h \in SetupHosts : /\ scloud.server[h] # NoSetupServer
                                 /\ scloud.server[h].state = "ready"
                                 /\ scloud.image[h] = "active"
        /\ scloud.rules = {"wanted"}
        /\ scloud.acl = "kept" /\ scloud.tokens /\ scloud.release
        /\ scloud.selected /\ scloud.backupkey
        /\ sfiles.runtime /\ sfiles.tokens /\ sfiles.policy = sfiles.age

\* The public rules no longer wanted go only once their replacements are
\* there (ensure_security_groups), on every rerun after every cut.
StaleRuleOutlivesWanted ==
    [][("stale" \in scloud.rules /\ "stale" \notin scloud'.rules) =>
          "wanted" \in scloud.rules]_setupVars

\* What a rerun refuses and leaves to the operator, other than a cut upload:
\* half a key pair, half a certificate pair, a volume name that resolves
\* twice, a host in ERROR, an ACL bootstrap whose answer was not kept.
LeftHalfMade ==
    \/ sfiles.key = "private"
    \/ sfiles.leafkey /\ sfiles.leafcert = 0
    \/ \E h \in SetupHosts : /\ scloud.server[h] # NoSetupServer
                              /\ scloud.server[h].state = "error"
    \/ \E h \in VolumeHosts : scloud.volume[h] > 1
    \/ scloud.acl = "made"

\* A setup that has recorded its inventory, run again often enough, completes
\* or meets one of the states it leaves to the operator.
SetupEnds ==
    []<>(\/ sfiles.platform = NoInventory \/ sdone
         \/ LeftHalfMade \/ \E h \in SetupHosts : scloud.image[h] = "queued")


=============================================================================
