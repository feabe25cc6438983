------------------------------ MODULE MCUpkeep -------------------------------
(***************************************************************************)
(* What keeps the platform running: releases of the portal and of the      *)
(* helper, backups of their databases with the off-site export, restores,  *)
(* and the manager of the storage instances.  They share no state that     *)
(* these models tell apart, so a behaviour is a behaviour of one of them,  *)
(* named by part; the others rest in one initial state.                    *)
(***************************************************************************)
EXTENDS Pairs, Deploys, Backups, Restores, Instances

VARIABLE part

mcVars == <<part, pairVars, deployVars, backupVars, restoreVars, instVars>>

MCInit ==
  /\ part \in {"pairs", "deploys", "backups", "restores", "instances"}
  /\ PairInit /\ DeployInit /\ BackupInit /\ RestoreInit /\ InstInit
  /\ part # "pairs" => marker = {}
  /\ part # "backups" => keyed
  /\ part # "restores" => target = "portal"
  /\ part # "instances" => cfg = [i \in Inst |-> NoCfg]

MCNext ==
  /\ UNCHANGED part
  /\ \/ part = "pairs" /\ PairNext /\ UNCHANGED <<deployVars, backupVars, restoreVars, instVars>>
     \/ part = "deploys" /\ DeployNext /\ UNCHANGED <<pairVars, backupVars, restoreVars, instVars>>
     \/ part = "backups" /\ BackupNext /\ UNCHANGED <<pairVars, deployVars, restoreVars, instVars>>
     \/ part = "restores" /\ RestoreNext /\ UNCHANGED <<pairVars, deployVars, backupVars, instVars>>
     \/ part = "instances" /\ InstNext /\ UNCHANGED <<pairVars, deployVars, backupVars, restoreVars>>

\* The fairness of PairSpec and of InstSpec; the others promise nothing in time.
MCFairness ==
  /\ WF_pairVars(part = "pairs" /\ \E o \in Operator : Session(o))
  /\ WF_pairVars(part = "pairs" /\ Activation)
  /\ WF_instVars(part = "instances" /\ Boot)
  /\ \A i \in Inst : SF_instVars(part = "instances" /\ Handler(i))

MCSpec == MCInit /\ [][MCNext]_mcVars /\ MCFairness

=============================================================================
