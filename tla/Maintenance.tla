----------------------------- MODULE Maintenance -----------------------------
(***************************************************************************)
(* The two recovery commands together, on one operation, one lock and one  *)
(* Swarm: any process may run either, in any phase and at any moment.      *)
(***************************************************************************)
EXTENDS Reconcile, Finish

maintenanceVars == <<stateVars, swarmVars, commandVars, run, seen>>

MaintenanceInit == Init /\ seen = [p \in Process |-> "neither"]

CommandStep(p) ==
  \/ ReconcileStep(p) /\ UNCHANGED seen
  \/ FinishStep(p) /\ UNCHANGED run

MaintenanceNext ==
  \/ \E p \in Process : CommandStep(p)
  \/ SwarmStep /\ UNCHANGED <<stateVars, commandVars, run, seen>>

MaintenanceSpec == MaintenanceInit /\ [][MaintenanceNext]_maintenanceVars

-----------------------------------------------------------------------------
MaintenanceTypeOK ==
  /\ SwarmTypeOK
  /\ CommandTypeOK
  /\ run \in [Process -> Run]
  /\ seen \in [Process -> {"drain", "active", "neither"}]

(* Write-ahead for the activation: an update of the target that is         *)
(* prepared, sent or still on its way finds "activating" or a later phase  *)
(* in the operation file.                                                  *)
ActivationDeclared ==
  \A u \in nodeUpdates :
    /\ u.sent => disk.phase \in {"activating", "verifying-cluster", "completed"}
    /\ ~u.sent => disk.phase = "activating"

(* Force updates stay inside reconciliation: none is prepared or on its    *)
(* way while the operation is in any phase of `finish`, so none can reach  *)
(* the Swarm while the target is being activated or afterwards (unless     *)
(* updates can be late).                                                   *)
ForceUpdatesConfined == updates # {} => disk.phase = "reconciling"

(* The operation is completed only by a run whose last full inspection     *)
(* showed every node in place, the target active, every service converged. *)
CompletedIsProven ==
  [][ disk.phase # "completed" /\ disk'.phase = "completed"
        => \E p \in Process : lock = p /\ seen[p] = "active" ]_maintenanceVars

(* "maintenance finish blocked" and a plain finish error leave the Swarm   *)
(* untouched: only a FinishError, which tells the operator that activation *)
(* may have occurred, can follow an activation request.                    *)
FinishRefusalUntouched ==
  [][ \A p \in Process :
        /\ pc[p] \in FinishLabels /\ pc'[p] = "idle"
        /\ outcome'[p] \in {"blocked", "error"}
        => ~mutated[p] ]_maintenanceVars

(* Whatever the commands and their crashes, the phases on disk follow      *)
(* allowedTransitions; completed is final.                                 *)
LifecycleFollowsTable ==
  [][ disk'.phase # disk.phase => MayMove(disk, disk'.phase) ]_maintenanceVars
=============================================================================
