-------------------------------- MODULE Hosts --------------------------------
(***************************************************************************)
(* One persistent host (admin, ingress or storage) under the operator's    *)
(* `infra replace`, `start`, `stop` and `reboot` (operator.py and          *)
(* openstack.py).  A replacement moves the fixed port and the volumes from *)
(* the old server to a new one and deletes the old one once the new one is *)
(* accepted; anything that goes wrong before is rolled back.  A command    *)
(* that was cut off leaves its operation open in the journal, and no other *)
(* infrastructure command begins until the same command has ended it.      *)
(*                                                                         *)
(* The server operation n creates carries n as its operation property, so  *)
(* it is called n here; the server found at the start is 0.                *)
(***************************************************************************)
EXTENDS Naturals, FiniteSets, TLC

CONSTANTS
  Volume,         \* the host's persistent volumes
  NoHost,
  MaxHostOps,     \* bound on the commands that begin an operation
  MaxHostCuts     \* bound on interruptions and on calls that fail

ASSUME HostConstants == MaxHostOps \in Nat /\ MaxHostCuts \in Nat /\ NoHost \notin Nat

VARIABLES
  hcloud,    \* the provider: the servers, and who holds the port and each volume
  hflight,   \* a server create call whose answer is lost and that has not landed
  hrow,      \* the newest row of the infrastructure scope in the operator's journal
  hops,      \* its number
  hpc,       \* label of the running command, idle if none
  hrun,      \* its own variables: recovery or first run, candidate, marker baseline
  hsent,     \* power commands the operation has sent
  hcuts

hostVars == <<hcloud, hflight, hrow, hops, hpc, hrun, hsent, hcuts>>
hostFixed == <<hflight, hops, hsent>>

HostServer == 0..(MaxHostOps + MaxHostCuts)
HostServers == DOMAIN hcloud.servers

\* A new server: its name is the configured one (0; the old server of
\* operation n is renamed to n), it has not booted, its console is empty.
FreshServer == [name |-> 0, power |-> "active", up |-> FALSE, again |-> FALSE,
                boots |-> 0, last |-> "none"]
FirstRun == [rec |-> FALSE, new |-> NoHost, base |-> 0]
OpenRow(k) == [kind |-> k, phase |-> "validated", state |-> "open",
               old |-> NoHost, status |-> "none", base |-> 0]
HostOpen == hrow.state = "open"

HostInit ==
  /\ \E p \in {"active", "shutoff", "error"} :
       hcloud = [servers |-> 0 :> [FreshServer EXCEPT !.power = p, !.up = (p = "active"),
                                                      !.boots = 1, !.last = "ready"],
                 port |-> 0, vol |-> [v \in Volume |-> 0]]
  /\ hrow = [OpenRow("none") EXCEPT !.state = "none"]
  /\ hflight = 0 /\ hops = 0 /\ hpc = "idle" /\ hrun = FirstRun /\ hsent = 0 /\ hcuts = 0

(***************************************************************************)
(* What the provider is asked to do, and what is observed of it.           *)
(***************************************************************************)
Named == {s \in HostServers : hcloud.servers[s].name = 0}
SetServer(s, r) == [hcloud EXCEPT !.servers[s] = r]
StopServer(s) == SetServer(s, [hcloud.servers[s] EXCEPT !.power = "shutoff", !.up = FALSE])
StartServer(s) == SetServer(s, [hcloud.servers[s] EXCEPT !.power = "active", !.up = FALSE])
\* A reboot is accepted while the server still runs.
RebootServer(s) == SetServer(s, [hcloud.servers[s] EXCEPT !.again = TRUE])
RenameServer(s, n) == SetServer(s, [hcloud.servers[s] EXCEPT !.name = n])
MovePort(s) == [hcloud EXCEPT !.port = s]
MoveVolume(v, s) == [hcloud EXCEPT !.vol[v] = s]

\* The volumes are created with delete_on_termination=false.
DeleteHost(s) ==
  [servers |-> [t \in HostServers \ {s} |-> hcloud.servers[t]],
   port |-> IF hcloud.port = s THEN NoHost ELSE hcloud.port,
   vol |-> [v \in Volume |-> IF hcloud.vol[v] = s THEN NoHost ELSE hcloud.vol[v]]]

\* The API refuses a server whose port or volumes are held by another one.
HostBootable == hcloud.port = NoHost /\ \A v \in Volume : hcloud.vol[v] = NoHost
CreateServer ==
  [servers |-> (hops :> FreshServer) @@ hcloud.servers,
   port |-> hops, vol |-> [v \in Volume |-> hops]]

\* Exactly one server has the configured name, with the port and every volume.
_observe_host_resources(s) ==
  /\ Named = {s} /\ hcloud.port = s
  /\ \A v \in Volume : hcloud.vol[v] = s

\* A readiness marker newer than the baseline, and no later failure marker.
_wait_console_ready(s, base) ==
  hcloud.servers[s].boots > base /\ hcloud.servers[s].last = "ready"
\* The role answers: its services are up and its last boot did not report a
\* failed unit.
check_role_health(s) == hcloud.servers[s].up /\ hcloud.servers[s].last # "failed"

(***************************************************************************)
(* Steps of a command.                                                     *)
(***************************************************************************)
HStep(l, next) == hpc = l /\ hpc' = next
Checkpoint(p) == hrow' = [hrow EXCEPT !.phase = p]
HostSpend == hcuts < MaxHostCuts /\ hcuts' = hcuts + 1

\* RecoveryRequired: the first run records the phase as ambiguous, a recovery
\* leaves the row as it is.
Unsure(l) ==
  /\ HStep(l, "idle")
  /\ IF hrun.rec \/ hrow.kind # "replace" THEN UNCHANGED hrow ELSE Checkpoint("ambiguous")
  /\ UNCHANGED <<hostFixed, hrun>>
\* Any other failure keeps the phase.
Broke(l) == HStep(l, "idle") /\ UNCHANGED <<hostFixed, hrow, hrun>>

\* _mutate_and_verify: the change is made and seen; or the command or every
\* observation of it fails, with the change made or not.
_mutate_and_verify(l, next, changed, phase) ==
  \/ /\ HStep(l, next) /\ hcloud' = changed
     /\ IF phase = "" THEN UNCHANGED hrow ELSE Checkpoint(phase)
     /\ UNCHANGED <<hostFixed, hrun, hcuts>>
  \/ Unsure(l) /\ HostSpend /\ hcloud' \in {hcloud, changed}
HGoto(l, next) == HStep(l, next) /\ UNCHANGED <<hcloud, hostFixed, hrow, hrun, hcuts>>

(***************************************************************************)
(* infra replace: the first run.                                           *)
(***************************************************************************)
HostBegin(k) ==
  /\ hpc = "idle" /\ ~HostOpen /\ hops < MaxHostOps
  /\ hrow' = OpenRow(k) /\ hops' = hops + 1 /\ hrun' = FirstRun /\ hsent' = 0
  /\ hpc' = IF k = "replace" THEN "replace" ELSE "power"
  /\ UNCHANGED <<hcloud, hflight, hcuts>>

\* Before anything is changed a failure ends the operation.
FailValidated(l) ==
  /\ HStep(l, "idle") /\ hrow' = [hrow EXCEPT !.state = "failed"]
  /\ UNCHANGED <<hcloud, hostFixed, hrun, hcuts>>

\* The host is observed and its user data rendered (with the ingress token, or
\* read from the file the operator names).
RenderUserData ==
  /\ hpc = "replace"
  /\ \/ (\E s \in HostServers : _observe_host_resources(s)) /\ HGoto("replace", "observe")
     \/ FailValidated("replace")

\* The image and the flavor are checked, the resources must still be the ones
\* observed, the operator confirms, and what the host is now is recorded.
ObserveHost ==
  /\ hpc = "observe"
  /\ \/ \E s \in HostServers :
          /\ _observe_host_resources(s) /\ HStep("observe", "stop")
          /\ hrow' = [hrow EXCEPT !.phase = "observed", !.old = s,
                                  !.status = hcloud.servers[s].power]
          /\ UNCHANGED <<hcloud, hostFixed, hrun, hcuts>>
     \/ FailValidated("observe")

\* A stop that is not confirmed is followed by a best-effort start.
StopOld ==
  /\ hpc = "stop"
  /\ \/ /\ hrow.status = "active" /\ HStep("stop", "rename")
        /\ hcloud' = StopServer(hrow.old) /\ Checkpoint("old_stopped")
        /\ UNCHANGED <<hostFixed, hrun, hcuts>>
     \/ /\ hrow.status = "active" /\ Unsure("stop") /\ HostSpend
        /\ hcloud' \in {hcloud, StopServer(hrow.old), StartServer(hrow.old)}
     \/ /\ hrow.status = "shutoff" /\ HStep("stop", "rename") /\ Checkpoint("old_stopped")
        /\ UNCHANGED <<hcloud, hostFixed, hrun, hcuts>>
     \/ hrow.status = "error" /\ Broke("stop") /\ UNCHANGED <<hcloud, hcuts>>

RenameOld ==
  /\ hpc = "rename"
  /\ _mutate_and_verify("rename", "unport", RenameServer(hrow.old, hops), "old_renamed")

DetachPort ==
  /\ hpc = "unport"
  /\ _mutate_and_verify("unport", "unvol", MovePort(NoHost), "")

DetachVolume ==
  /\ hpc = "unvol"
  /\ \/ \E v \in Volume : /\ hcloud.vol[v] = hrow.old
                          /\ _mutate_and_verify("unvol", "unvol", MoveVolume(v, NoHost), "")
     \/ /\ \A v \in Volume : hcloud.vol[v] # hrow.old
        /\ HStep("unvol", "create") /\ Checkpoint("resources_detached")
        /\ UNCHANGED <<hcloud, hostFixed, hrun, hcuts>>

\* The command is cut off and its call lands later, or never.
CreateLost ==
  /\ HStep("create", "idle") /\ HostSpend /\ hflight' = hops
  /\ UNCHANGED <<hcloud, hrow, hops, hrun, hsent>>

\* Created; refused with no candidate of this operation at the provider;
\* or not known, the server made, never made, or made later.
CreateReplacement ==
  /\ hpc = "create"
  /\ \/ /\ HStep("create", "verify") /\ hcloud' = CreateServer
        /\ Checkpoint("replacement_created") /\ UNCHANGED <<hostFixed, hrun, hcuts>>
     \/ HGoto("create", "undo_new")
     \/ Unsure("create") /\ HostSpend /\ hcloud' \in {hcloud, CreateServer}
     \/ CreateLost

\* The identity, the exact resources, the console and the role's health; every
\* failure before the acceptance rolls back.
Accepts(s) ==
  /\ _observe_host_resources(s) /\ hcloud.servers[s].power = "active"
  /\ _wait_console_ready(s, 0) /\ check_role_health(s)
VerifyReplacement ==
  /\ hpc = "verify"
  /\ \/ /\ Accepts(hops) /\ HStep("verify", "drop") /\ Checkpoint("accepted")
        /\ UNCHANGED <<hcloud, hostFixed, hrun, hcuts>>
     \/ /\ HStep("verify", "undo_new") /\ hrun' = [hrun EXCEPT !.new = hops]
        /\ UNCHANGED <<hcloud, hostFixed, hrow, hcuts>>

\* An ambiguous deletion would be taken for one.
DeleteOldTrusted ==
  /\ HStep("drop", "done") /\ hcloud' \in {hcloud, DeleteHost(hrow.old)} /\ UNCHANGED hcuts
  /\ Checkpoint("complete") /\ UNCHANGED <<hostFixed, hrun>>

\* An ambiguous deletion is recorded as complete with the old server retained.
DeleteOld ==
  /\ hpc = "drop"
  /\ \/ /\ HStep("drop", "done") /\ hcloud' = DeleteHost(hrow.old) /\ UNCHANGED hcuts
     \/ HStep("drop", "idle") /\ HostSpend /\ hcloud' \in {hcloud, DeleteHost(hrow.old)}
  /\ Checkpoint("complete") /\ UNCHANGED <<hostFixed, hrun>>

EndReplace ==
  /\ HStep("done", "idle") /\ hrow' = [hrow EXCEPT !.state = "succeeded"]
  /\ UNCHANGED <<hcloud, hostFixed, hrun, hcuts>>

(***************************************************************************)
(* _rollback_replacement, by the first run or by a recovery.               *)
(***************************************************************************)
DeleteReplacement ==
  /\ hpc = "undo_new"
  /\ \/ hrun.new = NoHost /\ HGoto("undo_new", "undo_port")
     \/ /\ hrun.new # NoHost
        /\ _mutate_and_verify("undo_new", "undo_port", DeleteHost(hrun.new), "replacement_deleted")

\* A port or a volume that another server holds cannot be attached.
AttachPort ==
  /\ hpc = "undo_port"
  /\ \/ /\ hcloud.port \in {NoHost, hrow.old}
        /\ _mutate_and_verify("undo_port", "undo_vol", MovePort(hrow.old), "")
     \/ /\ hcloud.port \notin {NoHost, hrow.old}
        /\ Unsure("undo_port") /\ UNCHANGED <<hcloud, hcuts>>

AttachVolume ==
  /\ hpc = "undo_vol"
  /\ \/ \E v \in Volume :
          /\ hcloud.vol[v] = NoHost
          /\ _mutate_and_verify("undo_vol", "undo_vol", MoveVolume(v, hrow.old), "")
     \/ (\A v \in Volume : hcloud.vol[v] = hrow.old) /\ HGoto("undo_vol", "undo_name")
     \/ /\ \E v \in Volume : hcloud.vol[v] \notin {NoHost, hrow.old}
        /\ Unsure("undo_vol") /\ UNCHANGED <<hcloud, hcuts>>

\* The rename is confirmed when the configured name resolves to the old server
\* alone.
RenameBack ==
  /\ hpc = "undo_name"
  /\ \/ /\ Named \subseteq {hrow.old}
        /\ _mutate_and_verify("undo_name", "undo_seen", RenameServer(hrow.old, 0), "")
     \/ /\ ~(Named \subseteq {hrow.old})
        /\ Unsure("undo_name") /\ hcloud' = RenameServer(hrow.old, 0) /\ UNCHANGED hcuts

\* A host that was running is started again unless it still runs.
RestorePower ==
  LET old == hcloud.servers[hrow.old] IN
  /\ hpc = "undo_seen"
  /\ \/ ~_observe_host_resources(hrow.old) /\ Broke("undo_seen") /\ UNCHANGED <<hcloud, hcuts>>
     \/ /\ _observe_host_resources(hrow.old) /\ hrow.status # "active"
        /\ HStep("undo_seen", "undone") /\ Checkpoint("rolled_back")
        /\ UNCHANGED <<hcloud, hostFixed, hrun, hcuts>>
     \/ /\ _observe_host_resources(hrow.old) /\ hrow.status = "active" /\ old.power = "active"
        /\ HGoto("undo_seen", "undo_health")
     \/ /\ _observe_host_resources(hrow.old) /\ hrow.status = "active" /\ old.power # "active"
        /\ \/ /\ HStep("undo_seen", "undo_ready") /\ hcloud' = StartServer(hrow.old)
              /\ hrun' = [hrun EXCEPT !.base = old.boots]
              /\ UNCHANGED <<hostFixed, hrow, hcuts>>
           \/ /\ Unsure("undo_seen") /\ HostSpend
              /\ hcloud' \in {hcloud, StartServer(hrow.old)}

AwaitOld ==
  /\ hpc = "undo_ready"
  /\ \/ _wait_console_ready(hrow.old, hrun.base) /\ HGoto("undo_ready", "undo_health")
     \/ Unsure("undo_ready") /\ hcloud.servers[hrow.old].last = "failed" /\ UNCHANGED <<hcloud, hcuts>>
     \/ Unsure("undo_ready") /\ HostSpend /\ UNCHANGED hcloud

RolledBack ==
  /\ hpc = "undo_health"
  /\ \/ /\ check_role_health(hrow.old)
        /\ HStep("undo_health", "undone") /\ Checkpoint("rolled_back")
        /\ UNCHANGED <<hcloud, hostFixed, hrun, hcuts>>
     \/ /\ Unsure("undo_health") /\ UNCHANGED hcloud
        /\ IF check_role_health(hrow.old) THEN HostSpend ELSE UNCHANGED hcuts

EndRollback ==
  /\ HStep("undone", "idle") /\ hrow' = [hrow EXCEPT !.state = "failed"]
  /\ UNCHANGED <<hcloud, hostFixed, hrun, hcuts>>

(***************************************************************************)
(* The same command again.                                                 *)
(***************************************************************************)
\* What each recorded phase of a replacement permits.
RollbackPhases == {"observed", "old_stopped", "old_renamed", "resources_detached",
                   "ambiguous", "replacement_created", "replacement_deleted"}
ContinuePhases == {"accepted", "complete"}

\* A replacement that had only been validated is ended and begun anew.  A phase
\* that is in neither set is refused.
RepeatReplace ==
  /\ hpc = "idle" /\ HostOpen /\ hrow.kind = "replace"
  /\ \/ /\ hrow.phase = "validated"
        /\ hrow' = OpenRow("replace") /\ hops' = hops + 1
        /\ hpc' = "replace" /\ hrun' = FirstRun
     \/ /\ hrow.phase \in RollbackPhases /\ hpc' = "recover"
        /\ hrun' = [FirstRun EXCEPT !.rec = TRUE] /\ UNCHANGED <<hrow, hops>>
     \/ /\ hrow.phase \in ContinuePhases /\ hpc' = "continue"
        /\ hrun' = [FirstRun EXCEPT !.rec = TRUE] /\ UNCHANGED <<hrow, hops>>
  /\ UNCHANGED <<hcloud, hflight, hsent, hcuts>>

\* The old server is the recorded one under one of its two names, and runs or
\* is shut off.
_recovery_resources ==
  /\ hrow.status \in {"active", "shutoff"}
  /\ hrow.old \in HostServers =>
       /\ hcloud.servers[hrow.old].name \in {0, hops}
       /\ hcloud.servers[hrow.old].power \in {"active", "shutoff"}


\* The candidate is looked for by its recorded identifier or by the operation
\* it carries; one that is gone is none.
RecoverReplacement ==
  /\ hpc = "recover"
  /\ \/ /\ _recovery_resources /\ hrow.old \in HostServers
        /\ HStep("recover", "undo_new")
        /\ hrun' = [hrun EXCEPT !.new = IF hops \in HostServers THEN hops ELSE NoHost]
        /\ UNCHANGED <<hcloud, hostFixed, hrow, hcuts>>
     \/ /\ ~(_recovery_resources /\ hrow.old \in HostServers)
        /\ Broke("recover") /\ UNCHANGED <<hcloud, hcuts>>
     \/ Broke("recover") /\ HostSpend /\ UNCHANGED hcloud

ContinueReplacement ==
  /\ hpc = "continue"
  /\ \/ /\ _recovery_resources /\ hops \in HostServers /\ Accepts(hops)
        /\ IF hrow.old \in HostServers
           THEN _mutate_and_verify("continue", "done", DeleteHost(hrow.old), "complete")
           ELSE /\ HStep("continue", "done") /\ Checkpoint("complete")
                /\ UNCHANGED <<hcloud, hostFixed, hrun, hcuts>>
     \/ /\ ~(_recovery_resources /\ hops \in HostServers /\ Accepts(hops))
        /\ Broke("continue") /\ UNCHANGED <<hcloud, hcuts>>

(***************************************************************************)
(* infra start, stop and reboot.                                           *)
(***************************************************************************)
\* The baseline of console markers is recorded before the command is sent.
PowerHost ==
  /\ hpc = "power"
  /\ \/ \E s \in HostServers :
          /\ _observe_host_resources(s) /\ HStep("power", "p_send")
          /\ hrow' = [hrow EXCEPT !.phase = "powering", !.old = s,
                        !.base = IF hrow.kind = "stop" THEN 0 ELSE hcloud.servers[s].boots]
          /\ UNCHANGED <<hcloud, hostFixed, hrun, hcuts>>
     \/ Broke("power") /\ HostSpend /\ UNCHANGED hcloud

\* The provider refuses a start of a running server, a stop of a stopped one
\* and a reboot of a server that does not run.
PowerAllowed(s) == hrow.kind = "start" <=> hcloud.servers[s].power # "active"
Powered(s) == CASE hrow.kind = "stop" -> StopServer(s)
                [] hrow.kind = "start" -> StartServer(s)
                [] hrow.kind = "reboot" -> RebootServer(s)
SendPower ==
  /\ hpc = "p_send" /\ hsent' = hsent + 1
  /\ \/ /\ PowerAllowed(hrow.old) /\ HStep("p_send", "p_wait")
        /\ hcloud' = Powered(hrow.old) /\ Checkpoint("power_requested") /\ UNCHANGED hcuts
     \/ /\ PowerAllowed(hrow.old) /\ HStep("p_send", "idle")
        /\ hcloud' \in {hcloud, Powered(hrow.old)} /\ HostSpend /\ UNCHANGED hrow
     \/ /\ ~PowerAllowed(hrow.old) /\ HStep("p_send", "idle")
        /\ UNCHANGED <<hcloud, hrow, hcuts>>
  /\ UNCHANGED <<hflight, hops, hrun>>

\* The wanted status; for a start or a reboot also a marker newer than the
\* baseline, the exact resources and the role's health.
PowerDone(s) ==
  IF hrow.kind = "stop" THEN hcloud.servers[s].power = "shutoff"
  ELSE /\ hcloud.servers[s].power = "active" /\ _wait_console_ready(s, hrow.base)
       /\ _observe_host_resources(s) /\ check_role_health(s)
_finish_power_observation ==
  /\ hpc = "p_wait"
  /\ \/ /\ PowerDone(hrow.old) /\ HStep("p_wait", "p_told") /\ Checkpoint("powered")
        /\ UNCHANGED <<hcloud, hostFixed, hrun, hcuts>>
     \/ /\ Broke("p_wait") /\ UNCHANGED hcloud
        /\ IF PowerDone(hrow.old) THEN HostSpend ELSE UNCHANGED hcuts

EndPower ==
  /\ HStep("p_told", "idle") /\ hrow' = [hrow EXCEPT !.state = "succeeded"]
  /\ UNCHANGED <<hcloud, hostFixed, hrun, hcuts>>

\* The command again: what was only validated is done, what may have been sent
\* is only observed, what was seen to be done is ended.
RepeatPower ==
  /\ hpc = "idle" /\ HostOpen /\ hrow.kind # "replace"
  /\ hpc' = CASE hrow.phase = "validated" -> "power"
              [] hrow.phase \in {"powering", "power_requested"} -> "p_observe"
              [] hrow.phase = "powered" -> "p_told"
  /\ UNCHANGED <<hcloud, hostFixed, hrow, hrun, hcuts>>

recover_power_host ==
  /\ hpc = "p_observe"
  /\ \/ _observe_host_resources(hrow.old) /\ HGoto("p_observe", "p_wait")
     \/ /\ ~_observe_host_resources(hrow.old)
        /\ Broke("p_observe") /\ UNCHANGED <<hcloud, hcuts>>

(***************************************************************************)
(* The provider, and interruptions.                                        *)
(***************************************************************************)
\* A rebooted server goes down; a running one boots and writes its marker.
HostBoots ==
  \E s \in HostServers :
    /\ hcloud.servers[s].power = "active"
    /\ \/ /\ hcloud.servers[s].again /\ UNCHANGED hcuts
          /\ hcloud' = SetServer(s, [hcloud.servers[s] EXCEPT !.up = FALSE, !.again = FALSE])
       \/ /\ ~hcloud.servers[s].up
          /\ \E m \in {"ready", "failed"} :
               /\ hcloud' = SetServer(s, [hcloud.servers[s] EXCEPT !.up = TRUE, !.boots = @ + 1,
                                                                    !.last = m])
               /\ IF m = "failed" THEN HostSpend ELSE UNCHANGED hcuts
    /\ UNCHANGED <<hostFixed, hrow, hpc, hrun>>

\* A lost create call lands, if it does, while its operation is the newest.
HostLand ==
  /\ hflight > 0 /\ hflight = hops /\ HostBootable
  /\ hcloud' = CreateServer /\ hflight' = 0
  /\ UNCHANGED <<hrow, hops, hpc, hrun, hsent, hcuts>>

HostCut ==
  /\ hpc # "idle" /\ HostSpend /\ hpc' = "idle"
  /\ UNCHANGED <<hcloud, hostFixed, hrow, hrun>>

HostBody ==
  \/ RenderUserData \/ ObserveHost \/ StopOld \/ RenameOld \/ DetachPort \/ DetachVolume
  \/ CreateReplacement \/ VerifyReplacement \/ DeleteOld \/ EndReplace
  \/ DeleteReplacement \/ AttachPort \/ AttachVolume \/ RenameBack
  \/ RestorePower \/ AwaitOld \/ RolledBack \/ EndRollback
  \/ RecoverReplacement \/ ContinueReplacement
  \/ PowerHost \/ SendPower \/ _finish_power_observation \/ EndPower \/ recover_power_host
HostRepeat == RepeatReplace \/ RepeatPower

HostNext ==
  \/ \E k \in {"replace", "start", "stop", "reboot"} : HostBegin(k)
  \/ HostBody \/ HostRepeat \/ HostBoots \/ HostLand \/ HostCut

HostFairness ==
  /\ WF_hostVars(HostBody) /\ WF_hostVars(HostRepeat) /\ WF_hostVars(HostBoots)
HostSpec == HostInit /\ [][HostNext]_hostVars /\ HostFairness

(***************************************************************************)
(* Properties.                                                             *)
(***************************************************************************)
\* Servers, attachments, the row and the labels are of their kinds; the port
\* and the volumes are held by servers that exist.
HostTypeOK ==
  /\ HostServers \subseteq HostServer /\ hops \in HostServer /\ hflight \in HostServer
  /\ \A s \in HostServers :
       hcloud.servers[s] \in [name : HostServer, power : {"active", "shutoff", "error"},
                              up : BOOLEAN, again : BOOLEAN, boots : Nat, last : {"none", "ready", "failed"}]
  /\ {hcloud.port} \cup {hcloud.vol[v] : v \in Volume} \subseteq HostServers \cup {NoHost}
  /\ hrow.kind \in {"none", "replace", "start", "stop", "reboot"}
  /\ hrow.phase \in RollbackPhases \cup ContinuePhases \cup
       {"validated", "rolled_back", "powering", "power_requested", "powered"}
  /\ hrow.state \in {"none", "open", "succeeded", "failed"}
  /\ hcuts \in 0..MaxHostCuts

\* When no operation is open, one server has the configured name, the fixed
\* port and every volume, and no other server is left: whatever was cut off,
\* an ended replacement has neither lost a resource nor kept a second server.
\* A rolled-back host that was running runs.
EndedHostIsWhole ==
  ~HostOpen =>
    \E s \in HostServers :
      /\ HostServers = {s} /\ _observe_host_resources(s)
      /\ hrow.kind = "replace" /\ hrow.state = "failed" /\ hrow.status = "active" =>
           s = hrow.old /\ hcloud.servers[s].power = "active"

\* A replacement, a start or a reboot told as done leaves the host up, with a
\* readiness marker written after the operation acted on it.
DoneMeansReady ==
  hrow.state = "succeeded" /\ hrow.kind # "stop" =>
    \E s \in Named :
      /\ hcloud.servers[s].up /\ hcloud.servers[s].last = "ready"
      /\ hrow.kind = "replace" => s = hops
      /\ hrow.kind # "replace" => s = hrow.old /\ hcloud.servers[s].boots > hrow.base

\* One operation sends at most one power command, however often it is cut off
\* and run again.
PowerSentOnce == hsent <= 1

\* The old server is deleted only after the acceptance was recorded, while the
\* new one holds the port and every volume and has reported ready.
OldHostDeletedOnceReplaced ==
  [][hrow.kind = "replace" /\ hrow.old \in HostServers /\ hrow.old \notin DOMAIN hcloud'.servers =>
       /\ hrow.phase \in ContinuePhases /\ hops \in HostServers
       /\ _observe_host_resources(hops) /\ hcloud.servers[hops].last = "ready"]_hostVars

\* States the code leaves to the operator.  A server whose guest reports failed
\* services; a host found neither running nor shut off; a replacement cut off
\* between its last checkpoint and its end; a power command that was refused or
\* lost, which is never sent again.
HostFailed == \E s \in HostServers : hcloud.servers[s].last = "failed"
ReplaceStuck == hrow.kind = "replace" /\ (hrow.phase = "rolled_back" \/ hrow.status = "error")
PowerLost ==
  /\ hrow.phase \in {"powering", "power_requested"} /\ hrow.old \in HostServers
  /\ \/ hrow.kind = "stop" /\ hcloud.servers[hrow.old].power # "shutoff"
     \/ hrow.kind # "stop" /\ hcloud.servers[hrow.old].power # "active"
     \/ /\ hrow.kind # "stop" /\ hcloud.servers[hrow.old].boots = hrow.base
        /\ hcloud.servers[hrow.old].up /\ ~hcloud.servers[hrow.old].again
LeftToOperator == hpc = "idle" /\ (HostFailed \/ ReplaceStuck \/ PowerLost)

\* Run again, an interrupted command ends, unless it is left to the operator.
HostWorkEnds == []<>(~HostOpen \/ LeftToOperator)

\* Every state of a host under the infra commands: whole when no command is
\* open, ready when one is told as done, and commanded once.
HostsSafe == HostTypeOK /\ EndedHostIsWhole /\ DoneMeansReady /\ PowerSentOnce
=============================================================================
