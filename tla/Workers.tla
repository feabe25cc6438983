------------------------------- MODULE Workers -------------------------------
(***************************************************************************)
(* The virtual machine and the port of one worker placement, as            *)
(* infra/openstack/worker_lifecycle.sh makes and removes them for the      *)
(* deployments of an application (controller/deployment_service.py and     *)
(* controller/application_runtime.py).  Both are found by name, so a       *)
(* create call that was cut off and lands late shows up as a second port,  *)
(* a port without a machine or a machine without a port.  A job (a deploy  *)
(* that needs the worker, or a removal) that was cut off or refused is     *)
(* repeated from its start until it ends; no other job starts before.      *)
(***************************************************************************)
EXTENDS Naturals, FiniteSets

CONSTANTS
  Port, Server,     \* identifiers the provider hands out
  RetainedPort,     \* the port an application may have reserved
  NoPort, NoServer,
  MaxWorkerCuts,    \* bound on interruptions and on calls that fail
  MaxWorkerJobs     \* bound on the jobs of the placement

ASSUME WorkerConstants == NoPort \notin Port /\ RetainedPort \in Port

VARIABLES
  wport,     \* port -> absent, free, or the machine it is attached to
  wserver,   \* machine -> absent, build, active, ready (its node joined), error
  wflight,   \* create calls accepted by the provider and not yet performed
  wkept,     \* the application's retained port, or NoPort
  wpc, wjob, \* label of the running body; the job that has not ended
  wrun,      \* the script's own port, machine, created_port and failed
  wseen,     \* the machine create_worker found, or NoServer
  wjobs, wcuts

workerVars == <<wport, wserver, wflight, wkept, wpc, wjob, wrun, wseen, wjobs, wcuts>>
workerCloud == <<wport, wserver, wflight, wkept>>
workerJob == <<wjob, wjobs, wcuts>>

Ports == {p \in Port : wport[p] # "absent"}
Servers == {s \in Server : wserver[s] # "absent"}
NoRun == [port |-> NoPort, server |-> NoServer, made |-> FALSE, failed |-> FALSE]
WStep(l, next) == wpc = l /\ wpc' = next

WorkerInit ==
  /\ wkept \in {NoPort, RetainedPort}
  /\ wport = [p \in Port |-> IF p = wkept THEN "free" ELSE "absent"]
  /\ wserver = [s \in Server |-> "absent"]
  /\ wflight = {} /\ wpc = "idle" /\ wjob = "none"
  /\ wrun = NoRun /\ wseen = NoServer /\ wjobs = 0 /\ wcuts = 0

(***************************************************************************)
(* Jobs.                                                                   *)
(***************************************************************************)
WorkerBegin(j) ==
  /\ wpc = "idle" /\ wjob = "none" /\ wjobs < MaxWorkerJobs
  /\ wjob' = j /\ wjobs' = wjobs + 1
  /\ wpc' = IF j = "deploy" THEN "observe" ELSE "delete"
  /\ wrun' = NoRun /\ wseen' = NoServer
  /\ UNCHANGED <<workerCloud, wcuts>>

WorkerRepeat ==
  /\ wpc = "idle" /\ wjob # "none"
  /\ wpc' = IF wjob = "deploy" THEN "observe" ELSE "delete"
  /\ wrun' = NoRun /\ wseen' = NoServer
  /\ UNCHANGED <<workerCloud, workerJob>>

\* The helper process and the script are killed; what they had asked of the
\* provider goes on.
WorkerCut ==
  /\ wpc # "idle" /\ wcuts < MaxWorkerCuts
  /\ wpc' = "idle" /\ wcuts' = wcuts + 1
  /\ UNCHANGED <<workerCloud, wrun, wseen, wjob, wjobs>>

WorkerEnd(l) ==
  /\ WStep(l, "idle") /\ wjob' = "none"
  /\ UNCHANGED <<workerCloud, wrun, wseen, wjobs, wcuts>>

\* The script or its caller gives up; the operation asks to be repeated.
Continue(l, next) == WStep(l, next) /\ UNCHANGED <<workerCloud, wrun, wseen, workerJob>>
Fail(l) == Continue(l, "idle")
\* A call to the provider fails without effect, or a step of the script does.
Fails(l, next) ==
  /\ wcuts < MaxWorkerCuts /\ wcuts' = wcuts + 1
  /\ WStep(l, next) /\ UNCHANGED <<workerCloud, wseen, wjob, wjobs>>

(***************************************************************************)
(* What an observation accepts.                                            *)
(***************************************************************************)
\* resolve_named_id refuses two resources of one name.  A retained port is
\* found by its identifier.
resolve_named_id == Cardinality(Servers) <= 1 /\ (wkept = NoPort => Cardinality(Ports) <= 1)
ThePort == IF wkept # NoPort THEN wkept
           ELSE IF Ports = {} THEN NoPort ELSE CHOOSE p \in Ports : TRUE
TheServer == IF Servers = {} THEN NoServer ELSE CHOOSE s \in Servers : TRUE

\* The script's evidence: a machine needs its own port attached to it, a port
\* without a machine must be attached to nothing.
emit_observation ==
  /\ resolve_named_id
  /\ TheServer # NoServer => ThePort # NoPort /\ wport[ThePort] = TheServer
  /\ TheServer = NoServer => (ThePort # NoPort => wport[ThePort] = "free")

\* What the evidence says of the port: a retained port of no machine is not
\* the worker's.
ObservedPort == IF TheServer = NoServer /\ wkept # NoPort THEN NoPort ELSE ThePort

\* The caller also refuses a port without a machine.
parse_worker_observation ==
  emit_observation /\ (TheServer = NoServer) = (ObservedPort = NoPort)
WorkerAbsent == TheServer = NoServer /\ ObservedPort = NoPort
WorkerReady == TheServer # NoServer /\ wserver[TheServer] = "ready"

(***************************************************************************)
(* A deploy: app.worker.observe, app.worker.create and the script.         *)
(***************************************************************************)
\* A worker that is there and not ready refuses the deploy until it is.
ObserveWorker ==
  /\ wpc = "observe"
  /\ \/ parse_worker_observation /\ WorkerAbsent /\ Continue("observe", "create")
     \/ parse_worker_observation /\ WorkerReady /\ WorkerEnd("observe")
     \/ ~(parse_worker_observation /\ (WorkerAbsent \/ WorkerReady)) /\ Fail("observe")

CreateWorker ==
  /\ wpc = "create"
  /\ \/ /\ parse_worker_observation
        /\ WStep("create", "script") /\ wseen' = TheServer
        /\ UNCHANGED <<workerCloud, wrun, workerJob>>
     \/ ~parse_worker_observation /\ Fail("create")

\* An existing machine is authoritative; otherwise an existing port is used.
ScriptCreate ==
  /\ wpc = "script"
  /\ \/ ~emit_observation /\ Fail("script")
     \/ /\ emit_observation
        /\ wpc' = IF TheServer # NoServer THEN "bootstrap"
                  ELSE IF ThePort = NoPort THEN "port" ELSE "render"
        /\ wrun' = [wrun EXCEPT !.server = TheServer]
        /\ UNCHANGED <<workerCloud, wseen, workerJob>>

PortCreate ==
  \/ \E p \in Port \ Ports :
       /\ WStep("port", "render")
       /\ wport' = [wport EXCEPT ![p] = "free"]
       /\ wrun' = [wrun EXCEPT !.made = TRUE]
       /\ UNCHANGED <<wserver, wflight, wkept, wseen, workerJob>>
  \/ Fails("port", "idle") /\ UNCHANGED wrun

\* The script dies while the provider works on its request.
PortCreateCut ==
  /\ wpc = "port" /\ wcuts < MaxWorkerCuts /\ wcuts' = wcuts + 1
  /\ wpc' = "idle" /\ wflight' = wflight \cup {[kind |-> "port", port |-> NoPort]}
  /\ UNCHANGED <<wport, wserver, wkept, wrun, wseen, wjob, wjobs>>

\* The port's address and the rendered user data; a failure here comes before
\* create_failed is set, so the trap leaves the new port.
RenderCloudInit ==
  /\ wpc = "render"
  /\ \/ /\ resolve_named_id /\ WStep("render", "recheck")
        /\ wrun' = [wrun EXCEPT !.port = ThePort]
        /\ UNCHANGED <<workerCloud, wseen, workerJob>>
     \/ ~resolve_named_id /\ Fail("render")
     \/ Fails("render", "idle") /\ UNCHANGED wrun

ReobserveBeforeBoot ==
  /\ wpc = "recheck"
  /\ \/ emit_observation /\ Continue("recheck", "boot")
     \/ ~emit_observation /\ Fail("recheck")

\* Nova gives the machine the named port or refuses the request.
Boots(p, s, status) ==
  /\ wport[p] = "free" /\ s \notin Servers
  /\ wserver' = [wserver EXCEPT ![s] = status]
  /\ wport' = [wport EXCEPT ![p] = s]

\* Mutant: Nova is asked for a machine and allocates a port of its own.
BootUnnamed ==
  \E s \in Server \ Servers :
    /\ WStep("boot", "booted") /\ wserver' = [wserver EXCEPT ![s] = "active"]
    /\ wport' = [wport EXCEPT ![wrun.port] = s]
    /\ UNCHANGED <<wflight, wkept, wrun, wseen, workerJob>>

Boot ==
  \E s \in Server :
    /\ WStep("boot", "booted") /\ Boots(wrun.port, s, "active")
    /\ UNCHANGED <<wflight, wkept, wrun, wseen, workerJob>>

\* server create --wait fails: the machine may be there all the same.
BootFails ==
  /\ wpc = "boot" /\ wpc' = "trap"
  /\ \/ wport[wrun.port] # "free" /\ UNCHANGED <<wport, wserver, wcuts>>
     \/ /\ wcuts < MaxWorkerCuts /\ wcuts' = wcuts + 1
        /\ \/ UNCHANGED <<wport, wserver>>
           \/ \E s \in Server, status \in {"build", "error"} : Boots(wrun.port, s, status)
  /\ UNCHANGED <<wflight, wkept, wrun, wseen, wjob, wjobs>>

BootCut ==
  /\ wpc = "boot" /\ wcuts < MaxWorkerCuts /\ wcuts' = wcuts + 1
  /\ wpc' = "idle" /\ wflight' = wflight \cup {[kind |-> "server", port |-> wrun.port]}
  /\ UNCHANGED <<wport, wserver, wkept, wrun, wseen, wjob, wjobs>>

\* The EXIT trap takes back the port this run made; its failure is ignored.
Trap ==
  \/ /\ WStep("trap", "idle")
     /\ wport' = IF wrun.made THEN [wport EXCEPT ![wrun.port] = "absent"] ELSE wport
     /\ UNCHANGED <<wserver, wflight, wkept, wrun, wseen, workerJob>>
  \/ Fails("trap", "idle") /\ UNCHANGED wrun

Booted ==
  /\ wpc = "booted"
  /\ \/ /\ emit_observation /\ TheServer # NoServer /\ WStep("booted", "bootstrap")
        /\ wrun' = [wrun EXCEPT !.server = TheServer]
        /\ UNCHANGED <<workerCloud, wseen, workerJob>>
     \/ ~(emit_observation /\ TheServer # NoServer) /\ Fail("booted")

wait_for_bootstrap ==
  /\ wpc = "bootstrap"
  /\ \/ wserver[wrun.server] \in {"active", "ready"} /\ Continue("bootstrap", "nomad")
     \/ wserver[wrun.server] \in {"error", "absent"} /\ Fail("bootstrap")

wait_for_nomad ==
  /\ wpc = "nomad"
  /\ \/ wserver[wrun.server] = "ready" /\ Continue("nomad", "verify")
     \/ wserver[wrun.server] \in {"error", "absent"} /\ Fail("nomad")

\* Either wait gives up after its attempts.
WaitTimesOut == \E l \in {"bootstrap", "nomad"} : Fails(l, "idle") /\ UNCHANGED wrun

CreatedAsAsked == /\ parse_worker_observation /\ WorkerReady
                  /\ wseen # NoServer => TheServer = wseen

VerifyCreated ==
  /\ wpc = "verify"
  /\ \/ CreatedAsAsked /\ WorkerEnd("verify")
     \/ ~CreatedAsAsked /\ Fail("verify")

(***************************************************************************)
(* A removal: app.worker.delete.                                           *)
(***************************************************************************)

DeleteObserve ==
  /\ wpc = "delete"
  /\ \/ /\ emit_observation /\ WStep("delete", "delServer")
        /\ wrun' = [wrun EXCEPT !.server = TheServer, !.port = ObservedPort]
        /\ UNCHANGED <<workerCloud, wseen, workerJob>>
     \/ ~emit_observation /\ Fail("delete")

Detached(s) == [p \in Port |-> IF wport[p] = s THEN "free" ELSE wport[p]]

DeleteServer ==
  \/ /\ WStep("delServer", "delPort")
     /\ IF wrun.server = NoServer THEN UNCHANGED <<wserver, wport>>
        ELSE wserver' = [wserver EXCEPT ![wrun.server] = "absent"] /\ wport' = Detached(wrun.server)
     /\ UNCHANGED <<wflight, wkept, wrun, wseen, workerJob>>
  \/ Fails("delServer", "delPort") /\ wrun' = [wrun EXCEPT !.failed = TRUE]

\* The port goes even when the machine's removal failed; a retained one stays.
DeletePort ==
  \/ /\ WStep("delPort", "delCheck")
     /\ wport' = IF wkept = NoPort /\ wrun.port # NoPort
                 THEN [wport EXCEPT ![wrun.port] = "absent"] ELSE wport
     /\ UNCHANGED <<wserver, wflight, wkept, wrun, wseen, workerJob>>
  \/ Fails("delPort", "delCheck") /\ wrun' = [wrun EXCEPT !.failed = TRUE]

DeleteCheck ==
  /\ wpc = "delCheck"
  /\ \/ ~wrun.failed /\ emit_observation /\ Continue("delCheck", "delVerify")
     \/ ~(~wrun.failed /\ emit_observation) /\ Fail("delCheck")

DeleteVerify ==
  /\ wpc = "delVerify"
  /\ \/ parse_worker_observation /\ WorkerAbsent /\ WorkerEnd("delVerify")
     \/ ~(parse_worker_observation /\ WorkerAbsent) /\ Fail("delVerify")

(***************************************************************************)
(* The provider.                                                           *)
(***************************************************************************)
\* A request of a script that is gone is performed, or never was.
Land ==
  \E c \in wflight :
    /\ wflight' = wflight \ {c}
    /\ \/ UNCHANGED <<wport, wserver>>
       \/ c.kind = "port" /\ UNCHANGED wserver
          /\ \E p \in Port \ Ports : wport' = [wport EXCEPT ![p] = "free"]
       \/ c.kind = "server" /\ \E s \in Server, status \in {"build", "error"} : Boots(c.port, s, status)
    /\ UNCHANGED <<wkept, wpc, wrun, wseen, workerJob>>

MachineUp ==
  \E s \in Servers :
    /\ wserver[s] \in {"build", "active"}
    /\ wserver' = [wserver EXCEPT ![s] = IF @ = "build" THEN "active" ELSE "ready"]
    /\ UNCHANGED <<wport, wflight, wkept, wpc, wrun, wseen, workerJob>>

WorkerBody ==
  \/ ObserveWorker \/ CreateWorker \/ ScriptCreate \/ PortCreate \/ RenderCloudInit
  \/ ReobserveBeforeBoot \/ Boot \/ BootFails \/ Trap \/ Booted \/ wait_for_bootstrap
  \/ wait_for_nomad \/ WaitTimesOut \/ VerifyCreated
  \/ DeleteObserve \/ DeleteServer \/ DeletePort \/ DeleteCheck \/ DeleteVerify

WorkerNext ==
  \/ \E j \in {"deploy", "remove"} : WorkerBegin(j)
  \/ WorkerRepeat \/ WorkerCut \/ PortCreateCut \/ BootCut
  \/ WorkerBody \/ Land \/ MachineUp

\* A started script runs to its end, work that is left is repeated, and a
\* machine that Nova made boots and joins, or is in ERROR.
WorkerFairness == /\ WF_workerVars(WorkerBody) /\ WF_workerVars(WorkerRepeat)
                  /\ WF_workerVars(MachineUp) /\ WF_workerVars(Land)

WorkerSpec == WorkerInit /\ [][WorkerNext]_workerVars /\ WorkerFairness

(***************************************************************************)
(* Properties.                                                             *)
(***************************************************************************)
\* Type invariant: states of the ports, machines, calls and the one job.
WorkerTypeOK ==
  /\ wport \in [Port -> {"absent", "free"} \cup Server]
  /\ wserver \in [Server -> {"absent", "build", "active", "ready", "error"}]
  /\ wflight \subseteq [kind : {"port", "server"}, port : Port \cup {NoPort}]
  /\ wjob \in {"none", "deploy", "remove"} /\ wkept \in {NoPort, RetainedPort}
  /\ wrun.port \in Port \cup {NoPort} /\ wrun.server \in Server \cup {NoServer}
  /\ wpc = "idle" \/ wjob # "none"

\* However create calls are lost, repeated and land late, a placement never has
\* two machines: worker_lifecycle.sh boots only on a port it names, and refuses
\* to go on when what it finds under its names does not fit together.
OneMachine == Cardinality(Servers) <= 1

\* The port an application reserved outlives every worker: neither the removal
\* of a worker nor the trap of a failed boot takes it.
RetainedPortKept == wkept # NoPort => wport[wkept] # "absent"

\* A job ends with the truth: a deploy with one machine that joined, on its own
\* port and no other; a removal with neither machine nor port, whatever landed
\* while it ran.
WorkerJobTold ==
  [][/\ wjob = "deploy" /\ wjob' = "none" =>
          \E s \in Server : /\ Servers = {s} /\ wserver[s] = "ready"
                            /\ {p \in Ports : wkept = NoPort \/ p = wkept} = {p \in Port : wport[p] = s}
     /\ wjob = "remove" /\ wjob' = "none" => Servers = {} /\ Ports \subseteq {wkept}
    ]_workerVars

\* States the scripts refuse on every repeat and an administrator must settle:
\* two ports of one name, a machine without its port; and for a deploy, a port
\* without a machine or a machine in ERROR, which only a removal clears.
WorkerLeft ==
  \/ ~resolve_named_id
  \/ \E s \in Servers : \A p \in Port : wport[p] # s
  \/ wjob = "deploy" /\ \/ wkept = NoPort /\ Servers = {} /\ Ports # {}
                        \/ \E s \in Servers : wserver[s] = "error"

\* A worker job that is repeated ends, or the placement is in one of the states
\* left to an administrator.
WorkerJobEnds == []<>(wjob = "none" \/ WorkerLeft)

\* Every state of a placement, as the scripts and the cloud leave it.
WorkersSafe == WorkerTypeOK /\ OneMachine /\ RetainedPortKept
=============================================================================
