------------------------- MODULE MaintenanceProgress -------------------------
(***************************************************************************)
(* Recovery ends: once the trouble stops, an operator who keeps running    *)
(* the two commands brings the operation to completed.                     *)
(*                                                                         *)
(* Until `calm`, everything Maintenance allows may happen.  From then on   *)
(* nobody kills skepr, no request or save fails, no deadline passes before *)
(* a service that is starting is up, and nobody else touches the Swarm.    *)
(* Throughout, a service that was given new tasks by a force update keeps  *)
(* them: an open attempt whose service falls back to 0/1 is never issued   *)
(* again by the code, so without this the operation may wait for ever.     *)
(***************************************************************************)
EXTENDS Maintenance

VARIABLE calm

progressVars == <<maintenanceVars, calm>>

ReportLabels == {"preserve", "record", "f-fail"}

(* A step in which process p is killed or something fails under it, other  *)
(* than a conflict with another process or another writer.                 *)
Setback(p) ==
  \/ pc[p] # "idle" /\ pc'[p] = "idle" /\ outcome'[p] = "none"
  \/ /\ pc[p] \notin ReportLabels
     /\ pc'[p] = "idle"
     /\ outcome'[p] \in {"error", "partial"}
     /\ ~ (pc[p] \in {"locking", "f-locking"} /\ LockConflict)
  \/ pc[p] = "f-polled" /\ seen'[p] # SeenWithServices(p)
  \/ /\ pc[p] \notin ReportLabels
     /\ pc'[p] \in ReportLabels
     /\ ~ /\ pc[p] \in {"send", "f-send"}
          /\ UnsentOf(p, updates) \cup UnsentOf(p, nodeUpdates) = {}

Sustained ==
  \A s \in Service :
    live[s].force > 0 /\ live[s].health # "stalled" => live'[s].health # "stalled"

Undisturbed(p) == CommandStep(p) /\ ~Setback(p)

CalmConverge(s) == Converge(s) /\ UNCHANGED <<stateVars, commandVars, run, seen>>

Troubled == ~calm /\ MaintenanceNext /\ Sustained /\ UNCHANGED calm

CalmDown == ~calm /\ calm' = TRUE /\ UNCHANGED maintenanceVars

CalmStep ==
  /\ calm
  /\ (\E p \in Process : Undisturbed(p)) \/ (\E s \in Service : CalmConverge(s))
  /\ UNCHANGED calm

ProgressInit == MaintenanceInit /\ calm = FALSE
ProgressNext == Troubled \/ CalmDown \/ CalmStep

(* Weak fairness: a running command goes on, and a Swarm with room starts  *)
(* its tasks.  Strong fairness: the operator tries each command again.     *)
Fairness ==
  /\ \A p \in Process :
       /\ WF_progressVars(calm /\ pc[p] # "idle" /\ Undisturbed(p) /\ UNCHANGED calm)
       /\ SF_progressVars(calm /\ BeginReconcile(p) /\ UNCHANGED <<seen, calm>>)
       /\ SF_progressVars(calm /\ BeginFinish(p) /\ UNCHANGED <<run, calm>>)
  /\ \A s \in Service : WF_progressVars(calm /\ CalmConverge(s) /\ UNCHANGED calm)

ProgressSpec == ProgressInit /\ [][ProgressNext]_progressVars /\ Fairness

-----------------------------------------------------------------------------
Serviceable(s) ==
  \/ live[s].health \in {"converged", "starting"}
  \/ live[s].health = "missing" /\ s \notin AffectedServices
  \/ /\ live[s].health = "stalled"
     /\ s \in AffectedServices \cap SavedSingleton
     /\ disk.phase \in ReconcilePhases

TargetWhereExpected ==
  CASE disk.phase = "activating"        -> availability[Target] \in {"drain", "active"}
    [] disk.phase = "verifying-cluster" -> availability[Target] = "active"
    [] OTHER                            -> availability[Target] = "drain"

(* What an operator can see to before retrying: nothing runs, the endpoint *)
(* and the members are well, the target is as the phase has it, and every  *)
(* service is up or is a saved singleton at 0/1 that reconcile may move.   *)
(* The last conjunct is the model's: the bound on attempts leaves room for *)
(* one of each affected service.                                           *)
Recoverable ==
  /\ \A p \in Process : pc[p] = "idle"
  /\ endpoint = "cluster"
  /\ membersWell
  /\ disk.phase \in ReconcilePhases \cup FinishPhases
  /\ TargetWhereExpected
  /\ \A s \in Service : Serviceable(s)
  /\ disk.phase \in ReconcilePhases => Len(disk.attempts) + Len(Affected) <= MaxAttempts

(* From every record a killed, failed or refused run can have left behind, *)
(* a recoverable operation is eventually completed.                        *)
OperationCompletes == (calm /\ Recoverable) ~> (disk.phase = "completed")
=============================================================================
