----------------------------- MODULE MCMachines -----------------------------
(***************************************************************************)
(* The programs that make and unmake machines, one instance each: an       *)
(* application's worker, the disposable builder, a persistent host under   *)
(* the operator's infra commands, the role images, and the first setup.    *)
(* They share no state, so a behaviour is a behaviour of one of them,      *)
(* named by part; the others rest in one of their initial states.          *)
(***************************************************************************)
EXTENDS Workers, Builds, Hosts, Images, Setup

VARIABLE part

mcVars == <<part, workerVars, buildVars, hostVars, imageVars, setupVars>>

MCInit ==
  /\ part \in {"worker", "build", "host", "image", "setup"}
  /\ WorkerInit /\ BuildInit /\ HostInit /\ ImageInit /\ SetupInit
  /\ part # "worker" => wkept = NoPort
  /\ part # "build" => bbig /\ ~bkey
  /\ part # "host" => hcloud.servers[0].power = "active"
  /\ part # "image" => iused = {}
  /\ part # "setup" => scloud.rules = {} /\ sinput = CHOOSE i \in Inventory : TRUE

MCNext ==
  /\ UNCHANGED part
  /\ \/ /\ part = "worker" /\ WorkerNext
        /\ UNCHANGED <<buildVars, hostVars, imageVars, setupVars>>
     \/ /\ part = "build" /\ BuildNext
        /\ UNCHANGED <<workerVars, hostVars, imageVars, setupVars>>
     \/ /\ part = "host" /\ HostNext
        /\ UNCHANGED <<workerVars, buildVars, imageVars, setupVars>>
     \/ /\ part = "image" /\ ImageNext
        /\ UNCHANGED <<workerVars, buildVars, hostVars, setupVars>>
     \/ /\ part = "setup" /\ SetupNext
        /\ UNCHANGED <<workerVars, buildVars, hostVars, imageVars>>

\* The fairness of each specification, for its own part.
MCFairness ==
  /\ WF_workerVars(part = "worker" /\ WorkerBody)
  /\ WF_workerVars(part = "worker" /\ WorkerRepeat)
  /\ WF_workerVars(part = "worker" /\ MachineUp)
  /\ WF_workerVars(part = "worker" /\ Land)
  /\ WF_buildVars(part = "build" /\ BuildBody)
  /\ WF_buildVars(part = "build" /\ BuildBegin)
  /\ WF_buildVars(part = "build" /\ BuilderUp)
  /\ WF_hostVars(part = "host" /\ HostBody)
  /\ WF_hostVars(part = "host" /\ HostRepeat)
  /\ WF_hostVars(part = "host" /\ HostBoots)
  /\ WF_imageVars(part = "image" /\ ImageBody)
  /\ WF_imageVars(part = "image" /\ ImageRepeat)
  /\ WF_setupVars(part = "setup" /\ SetupBody)
  /\ WF_setupVars(part = "setup" /\ SetupBoots)
  /\ WF_setupVars(part = "setup" /\ UploadImage)
  /\ SF_setupVars(part = "setup" /\ SetupAgain)

MCSpec == MCInit /\ [][MCNext]_mcVars /\ MCFairness

=============================================================================
