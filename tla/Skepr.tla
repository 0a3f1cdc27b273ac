-------------------------------- MODULE Skepr --------------------------------
(***************************************************************************)
(* Every command that changes the Swarm, together: `maintenance reconcile` *)
(* and `maintenance finish` on the stored operation, `node drain` and      *)
(* `node activate` beside them, on one state directory and one Swarm.      *)
(***************************************************************************)
EXTENDS Maintenance, NodeCommands

skeprVars == <<maintenanceVars, plan, assigned>>

SkeprInit == MaintenanceInit /\ NodeCommandsInit

SkeprNext ==
  \/ \E p \in Process : CommandStep(p) /\ UNCHANGED <<plan, assigned>>
  \/ \E p \in Process : NodeStep(p) /\ UNCHANGED <<run, seen>>
  \/ TasksMove /\ UNCHANGED <<run, seen>>
  \/ SwarmStep /\ UNCHANGED <<stateVars, commandVars, run, seen, plan, assigned>>

SkeprSpec == SkeprInit /\ [][SkeprNext]_skeprVars

-----------------------------------------------------------------------------
SkeprTypeOK ==
  /\ MaintenanceTypeOK
  /\ plan \in [Process -> Plan]
  /\ assigned \in [Node -> BOOLEAN]

(* However drains, activations and finishes interleave and die, at most    *)
(* one manager is away from "active" (when nobody else changes the nodes   *)
(* and no update is late): a drain looks again under the lock whether all  *)
(* the others are active.  Whether these are a majority it does not ask.   *)
OneManagerAway == Cardinality({ m \in Manager : availability[m] # "active" }) <= 1

(* An operation that is not completed keeps the node commands out: the     *)
(* only availability update anyone has prepared or sent meanwhile is       *)
(* finish's, of the operation's own target, to active.                     *)
ActiveOperationOwnsNodes ==
  disk.phase # "completed" =>
    \A u \in nodeUpdates : u.node = Target /\ u.to = "active" /\ disk.phase = "activating"

(* A drain that reports success leaves the node drained and with no task   *)
(* still desired to run there, and an activation that does leaves it       *)
(* active (when nobody else changes nodes).  Containers of tasks that were *)
(* told to stop may still be stopping: nothing waits for them.             *)
NodeSuccessIsReal ==
  [][ \A p \in Process :
        pc[p] \in NodeLabels /\ pc'[p] = "idle" /\ outcome'[p] = "success"
        => /\ availability'[plan[p].node] = Wanted(plan[p].kind)
           /\ plan[p].kind = "drain" => ~assigned'[plan[p].node] ]_skeprVars

(* "node drain blocked", "... failed before mutation" and the same of      *)
(* activation: these reports never follow an update of the node.           *)
BeforeMutationIsTrue ==
  [][ \A p \in Process :
        pc[p] \in NodeLabels /\ pc'[p] = "idle" /\ outcome'[p] \in {"blocked", "error"}
        => ~mutated[p] ]_skeprVars
=============================================================================
