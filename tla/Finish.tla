------------------------------- MODULE Finish -------------------------------
(***************************************************************************)
(* `skepr maintenance finish`: once the cluster is whole with the target   *)
(* still drained, activate the target and wait for the cluster to be whole *)
(* with it active, saving every phase so that a later run can resume.      *)
(* Source: internal/maintenance/finish.go.                                 *)
(***************************************************************************)
EXTENDS MaintenanceCommand

VARIABLE seen   \* the state validateFinishState accepts, as each run last saw it

finishVars == <<stateVars, swarmVars, commandVars, seen>>

See(p, state) == seen' = [seen EXCEPT ![p] = state]
FinishExit(p, result) == Leave(p, result) /\ See(p, "neither")

-----------------------------------------------------------------------------
(* validateFinishState: the right Swarm, and the target and every other    *)
(* manager ready, reachable and in the availability expected of it; then   *)
(* every listed service converged.  Both together can hold for at most one *)
(* expected availability of the target.                                    *)

NodesInState(state) ==
  /\ endpoint = "cluster"
  /\ membersWell
  /\ availability[Target] = state
  /\ \A m \in Manager \ {Target} : availability[m] = "active"

NodesSeen ==
  CASE NodesInState("drain")  -> "drain"
    [] NodesInState("active") -> "active"
    [] OTHER                  -> "neither"

ServicesConverged == \A s \in Service : live[s].health \in {"converged", "missing"}

SeenWithServices(p) == IF ServicesConverged THEN seen[p] ELSE "neither"

-----------------------------------------------------------------------------
(* Opening: load, lock, load again, and dispatch on the phase. *)

BeginFinish(p) == Begin(p, "f-locking") /\ UNCHANGED seen

LockFinish(p) == Lock(p, "f-locking", "f-reloading") /\ UNCHANGED seen

FinishLockRefused(p) ==
  /\ pc[p] = "f-locking"
  /\ LockConflict
  /\ FinishExit(p, "error")
  /\ UNCHANGED <<disk, swarmVars>>

(* A fault: the phase that was read before the lock decides. *)
FinishWithoutReload(p) ==
  /\ pc[p] = "f-reloading"
  /\ op[p].phase \in FinishPhases
  /\ Goto(p, IF op[p].phase = "verifying-cluster" THEN "f-poll" ELSE "f-nodes")
  /\ UNCHANGED <<stateVars, swarmVars, op, outcome, mutated, seen>>

ReloadFinish(p) ==
  /\ pc[p] = "f-reloading"
  /\ disk.phase \in FinishPhases
  /\ Load(p)
  /\ Goto(p, IF disk.phase = "verifying-cluster" THEN "f-poll" ELSE "f-nodes")
  /\ UNCHANGED <<stateVars, swarmVars, outcome, mutated, seen>>

(* The lock or operation file cannot be opened or read. *)
FinishOpeningFails(p) ==
  /\ pc[p] \in {"f-locking", "f-reloading"}
  /\ FinishExit(p, "error")
  /\ UNCHANGED <<disk, swarmVars>>

FinishPhaseRefused(p) ==
  /\ pc[p] = "f-reloading"
  /\ disk.phase \notin FinishPhases
  /\ FinishExit(p, "blocked")
  /\ UNCHANGED <<disk, swarmVars>>

-----------------------------------------------------------------------------
(* The inspection before activating.  A failing request is returned as it  *)
(* is before "activating" is reached, and recorded from then on.           *)

ReturnNodes(p) ==
  /\ pc[p] = "f-nodes"
  /\ See(p, NodesSeen)
  /\ Goto(p, "f-services")
  /\ UNCHANGED <<stateVars, swarmVars, op, outcome, mutated>>

ReturnInspectFails(p) ==
  /\ pc[p] \in {"f-nodes", "f-services"}
  /\ \/ op[p].phase # "activating" /\ FinishExit(p, "error")
     \/ /\ op[p].phase = "activating"
        /\ Goto(p, "f-fail")
        /\ UNCHANGED <<lock, op, outcome, mutated, seen>>
  /\ UNCHANGED <<disk, swarmVars>>

(* A fault: an activation that took effect cannot be resumed. *)
AfterReturnDrained(phase, state) ==
  CASE phase = "maintenance-ready" /\ state = "drain"  -> "f-return"
    [] phase = "verifying-return"  /\ state = "drain"  -> "f-activating"
    [] phase = "activating"        /\ state = "drain"  -> "f-activate"
    [] OTHER                                           -> ""

(* What the run does on seeing the cluster in a state, "" if it refuses.   *)
AfterReturn(phase, state) ==
  CASE phase = "maintenance-ready" /\ state = "drain"  -> "f-return"
    [] phase = "verifying-return"  /\ state = "drain"  -> "f-activating"
    [] phase = "activating"        /\ state = "drain"  -> "f-activate"
    [] phase = "activating"        /\ state = "active" -> "f-verifying"
    [] OTHER                                           -> ""

ReturnServices(p) ==
  /\ pc[p] = "f-services"
  /\ LET next == AfterReturn(op[p].phase, SeenWithServices(p)) IN
       \/ /\ next # ""
          /\ See(p, SeenWithServices(p))
          /\ Goto(p, next)
          /\ UNCHANGED <<lock, op, outcome, mutated>>
       \/ next = "" /\ FinishExit(p, "blocked")
  /\ UNCHANGED <<disk, swarmVars>>

-----------------------------------------------------------------------------
(* transitionAndSave, before the activation (a failing save is returned as *)
(* it is) and after it (it is recorded).                                   *)

SaveOrReturn(p, from, next, then) ==
  /\ pc[p] = from
  /\ MayMove(op[p], next)
  /\ \/ /\ SaveSucceeds(Moved(op[p], next))
        /\ SetOp(p, Moved(op[p], next))
        /\ Goto(p, then)
        /\ UNCHANGED <<lock, outcome, mutated, seen>>
     \/ SaveFails(Moved(op[p], next)) /\ FinishExit(p, "error")
  /\ UNCHANGED swarmVars

SaveReturn(p) == SaveOrReturn(p, "f-return", "verifying-return", "f-activating")

(* A fault: "activating" is saved with the result of the activation. *)
ActivatingUnsaved(p) ==
  /\ pc[p] = "f-activating"
  /\ SetOp(p, Moved(op[p], "activating"))
  /\ Goto(p, "f-activate")
  /\ UNCHANGED <<stateVars, swarmVars, outcome, mutated, seen>>

SaveActivating(p) == SaveOrReturn(p, "f-activating", "activating", "f-activate")

(* A fault: this save is handled like the two before it. *)
SaveVerifyingOrReturn(p) == SaveOrReturn(p, "f-verifying", "verifying-cluster", "f-poll")

SaveVerifying(p) ==
  /\ pc[p] = "f-verifying"
  /\ MayMove(op[p], "verifying-cluster")
  /\ SetOp(p, Moved(op[p], "verifying-cluster"))
  /\ \/ SaveSucceeds(Moved(op[p], "verifying-cluster")) /\ Goto(p, "f-poll")
     \/ SaveFails(Moved(op[p], "verifying-cluster")) /\ Goto(p, "f-fail")
  /\ UNCHANGED <<lock, swarmVars, outcome, mutated, seen>>

SaveCompleted(p) ==
  /\ pc[p] = "f-completed"
  /\ MayMove(op[p], "completed")
  /\ \/ SaveSucceeds(Moved(op[p], "completed")) /\ FinishExit(p, "success")
     \/ /\ SaveFails(Moved(op[p], "completed"))
        /\ SetOp(p, Moved(op[p], "completed"))
        /\ Goto(p, "f-fail")
        /\ UNCHANGED <<lock, outcome, mutated, seen>>
  /\ UNCHANGED swarmVars

(* A fault: a phase for failures that the table does not know. *)
FailIntoPhase(p) ==
  /\ pc[p] = "f-fail"
  /\ Save(Moved(op[p], "failed"))
  /\ FinishExit(p, "partial")
  /\ UNCHANGED swarmVars

(* fail: the phase in memory is saved with the error. *)
Fail(p) ==
  /\ pc[p] = "f-fail"
  /\ Save(op[p])
  /\ FinishExit(p, "partial")
  /\ UNCHANGED swarmVars

-----------------------------------------------------------------------------
(* UpdateNodeAvailability(target, "active"), with every way it can end. *)

ReadTarget(p) ==
  /\ pc[p] = "f-activate"
  /\ ReadNodeVersion(p, Target, "active")
  /\ Goto(p, "f-send")
  /\ UNCHANGED <<stateVars, op, outcome, mutated, seen>>

ReadTargetFails(p) ==
  /\ pc[p] = "f-activate"
  /\ Goto(p, "f-fail")
  /\ UNCHANGED <<stateVars, swarmVars, op, outcome, mutated, seen>>

ActivationAccepted(p) ==
  /\ pc[p] = "f-send"
  /\ endpoint = "cluster"
  /\ \E u \in UnsentOf(p, nodeUpdates) : AcceptNodeUpdate(u)
  /\ mutated' = [mutated EXCEPT ![p] = TRUE]
  /\ Goto(p, "f-verifying") \/ Goto(p, "f-fail")
  /\ UNCHANGED <<stateVars, op, outcome, seen>>

ActivationDelayed(p) ==
  /\ pc[p] = "f-send"
  /\ LeaveOnItsWay(p)
  /\ mutated' = [mutated EXCEPT ![p] = TRUE]
  /\ Goto(p, "f-fail")
  /\ UNCHANGED <<stateVars, op, outcome, seen>>

ActivationFails(p) ==
  /\ pc[p] = "f-send"
  /\ Discard(p)
  /\ Goto(p, "f-fail")
  /\ UNCHANGED <<stateVars, op, outcome, mutated, seen>>

-----------------------------------------------------------------------------
(* waitForHealthyCluster: inspections that fail are tried again until the  *)
(* deadline.                                                               *)

VerifyNodes(p) ==
  /\ pc[p] = "f-poll"
  /\ See(p, NodesSeen)
  /\ Goto(p, "f-polled")
  /\ UNCHANGED <<stateVars, swarmVars, op, outcome, mutated>>

(* A fault: the services are not looked at. *)
VerifyNodesOnly(p) ==
  /\ pc[p] = "f-polled"
  /\ See(p, SeenWithServices(p))
  /\ Goto(p, IF seen[p] = "active" THEN "f-completed" ELSE "f-poll")
  /\ UNCHANGED <<stateVars, swarmVars, op, outcome, mutated>>

VerifyServices(p) ==
  /\ pc[p] = "f-polled"
  /\ See(p, SeenWithServices(p))
  /\ Goto(p, IF SeenWithServices(p) = "active" THEN "f-completed" ELSE "f-poll")
  /\ UNCHANGED <<stateVars, swarmVars, op, outcome, mutated>>

VerifyInspectFails(p) ==
  /\ pc[p] = "f-polled"
  /\ See(p, "neither")
  /\ Goto(p, "f-poll")
  /\ UNCHANGED <<stateVars, swarmVars, op, outcome, mutated>>

VerifyTimesOut(p) ==
  /\ pc[p] = "f-poll"
  /\ Goto(p, "f-fail")
  /\ UNCHANGED <<stateVars, swarmVars, op, outcome, mutated, seen>>

KillFinish(p) ==
  /\ pc[p] \in FinishLabels
  /\ Killed(p)
  /\ See(p, "neither")

-----------------------------------------------------------------------------
FinishOpening(p) ==
  \/ BeginFinish(p) \/ LockFinish(p) \/ FinishLockRefused(p)
  \/ ReloadFinish(p) \/ FinishPhaseRefused(p) \/ FinishOpeningFails(p)

Returning(p) ==
  \/ ReturnNodes(p) \/ ReturnInspectFails(p) \/ ReturnServices(p)
  \/ SaveReturn(p) \/ SaveActivating(p)

Activating(p) ==
  \/ ReadTarget(p) \/ ReadTargetFails(p)
  \/ ActivationAccepted(p) \/ ActivationDelayed(p) \/ ActivationFails(p)
  \/ SaveVerifying(p)

Verifying(p) ==
  \/ VerifyNodes(p) \/ VerifyServices(p) \/ VerifyInspectFails(p) \/ VerifyTimesOut(p)
  \/ SaveCompleted(p) \/ Fail(p)

FinishStep(p) ==
  FinishOpening(p) \/ Returning(p) \/ Activating(p) \/ Verifying(p) \/ KillFinish(p)

FinishInit == SwarmInit /\ CommandInit /\ seen = [p \in Process |-> "neither"]

FinishOutside == SwarmStep /\ UNCHANGED <<stateVars, commandVars, seen>>

FinishNext == (\E p \in Process : FinishStep(p)) \/ FinishOutside

FinishSpec == FinishInit /\ [][FinishNext]_finishVars
=============================================================================
