----------------------------- MODULE NodeCommands -----------------------------
(***************************************************************************)
(* `skepr node drain` and `skepr node activate`: inspect, lock the         *)
(* cluster, refuse while a maintenance operation is active, inspect again, *)
(* change the node's availability, wait for the Swarm to follow.           *)
(* Source: internal/drain/drain.go, internal/activate/activate.go and the  *)
(* guard of internal/cli/node.go.                                          *)
(*                                                                         *)
(* The two commands are the same program up to the update, so they share   *)
(* their actions; plan[p].kind tells which one runs.  A command is         *)
(* addressed to the modelled Swarm: one that first reaches another Swarm   *)
(* takes another lock and changes nothing here.                            *)
(***************************************************************************)
EXTENDS MaintenanceCommand

VARIABLES
  plan,       \* the locals of each process's Drain or Activate call
  assigned    \* has the node a task that is desired to run and has not ended?

nodeVars == <<stateVars, swarmVars, commandVars, plan, assigned>>

Kinds == {"drain", "activate"}
Plan == [kind    : Kinds,
         node    : Node,
         safe    : BOOLEAN,          \* what the newest node list allowed
         awaited : SUBSET Service]   \* drain's AffectedServices

NoPlan == [kind |-> "drain", node |-> Target, safe |-> FALSE, awaited |-> {}]

(* A fault: the phase a drain ends in is taken for the availability. *)
WantedPhase(kind) == IF kind = "drain" THEN "drained" ELSE "active"

Expected(kind) == IF kind = "drain" THEN "active" ELSE "drain"
Wanted(kind) == IF kind = "drain" THEN "drain" ELSE "active"

NodeExit(p, result) == Leave(p, result) /\ plan' = [plan EXCEPT ![p] = NoPlan]
SetSafe(p, safe) == plan' = [plan EXCEPT ![p].safe = safe]

-----------------------------------------------------------------------------
(* The gates of CheckNode, which drain's preview starts from, and of       *)
(* activate's BuildSafetyReport: right Swarm with control, node ready and  *)
(* as expected, every manager healthy, every service converged.  A drain   *)
(* asks for no more of the managers: BuildPreview sets the findings on the *)
(* leader and on the quorum apart, for the host that goes offline (module  *)
(* Placement has both verdicts).  Drain's gates on placement and service   *)
(* modes may block as well, and so may a node name that now means another  *)
(* node.                                                                   *)

OthersActive(n) == \A m \in Manager \ {n} : availability[m] = "active"

NodesSafe(n, state) ==
  /\ endpoint = "cluster"
  /\ membersWell
  /\ availability[n] = state
  /\ OthersActive(n)

AllConverged == \A s \in Service : live[s].health \in {"converged", "missing"}

BeginNode(p) ==
  /\ pc[p] = "idle"
  /\ \E kind \in Kinds, n \in Node :
       plan' = [plan EXCEPT ![p] = [NoPlan EXCEPT !.kind = kind, !.node = n]]
  /\ Goto(p, "n-nodes")
  /\ outcome' = [outcome EXCEPT ![p] = "none"]
  /\ mutated' = [mutated EXCEPT ![p] = FALSE]
  /\ UNCHANGED <<stateVars, swarmVars, op, assigned>>

GateNodes(p) ==
  /\ pc[p] \in {"n-nodes", "n-again"}
  /\ SetSafe(p, NodesSafe(plan[p].node, Expected(plan[p].kind)))
  /\ Goto(p, IF pc[p] = "n-nodes" THEN "n-services" ELSE "n-services-again")
  /\ UNCHANGED <<stateVars, swarmVars, op, outcome, mutated, assigned>>

GateServices(p) ==
  /\ pc[p] = "n-services"
  /\ plan[p].safe /\ AllConverged
  /\ Goto(p, "n-locking")
  /\ UNCHANGED <<stateVars, swarmVars, op, outcome, mutated, plan, assigned>>

GateServicesAgain(p) ==
  /\ pc[p] = "n-services-again"
  /\ plan[p].safe /\ AllConverged
  /\ \E services \in IF plan[p].kind = "drain"
                       THEN SUBSET { s \in Service : live[s].health # "missing" } ELSE {{}} :
       plan' = [plan EXCEPT ![p].awaited = services]
  /\ Goto(p, "n-update")
  /\ UNCHANGED <<stateVars, swarmVars, op, outcome, mutated, assigned>>

GateBlocks(p) ==
  /\ pc[p] \in {"n-services", "n-services-again"}
  /\ ~ (plan[p].safe /\ AllConverged) \/ plan[p].kind = "drain" \/ pc[p] = "n-services-again"
  /\ NodeExit(p, "blocked")
  /\ UNCHANGED <<disk, swarmVars, assigned>>

GateInspectFails(p) ==
  /\ pc[p] \in {"n-nodes", "n-services", "n-again", "n-services-again"}
  /\ NodeExit(p, "error")
  /\ UNCHANGED <<disk, swarmVars, assigned>>

-----------------------------------------------------------------------------
(* nodeDrainGuard.  A lock or a state directory that cannot be opened      *)
(* refuses too.                                                            *)

LockNode(p) == Lock(p, "n-locking", "n-guard") /\ UNCHANGED <<plan, assigned>>

(* Faults: no second inspection under the lock; no look at the operations. *)
EnsureWithoutRecheck(p) ==
  /\ pc[p] = "n-guard"
  /\ disk.phase = "completed"
  /\ Goto(p, "n-update")
  /\ UNCHANGED <<stateVars, swarmVars, op, outcome, mutated, plan, assigned>>

EnsureNothing(p) ==
  /\ pc[p] = "n-guard"
  /\ Goto(p, "n-again")
  /\ UNCHANGED <<stateVars, swarmVars, op, outcome, mutated, plan, assigned>>

EnsureNoActiveOperation(p) ==
  /\ pc[p] = "n-guard"
  /\ disk.phase = "completed"
  /\ Goto(p, "n-again")
  /\ UNCHANGED <<stateVars, swarmVars, op, outcome, mutated, plan, assigned>>

GuardRefuses(p) ==
  /\ pc[p] \in {"n-locking", "n-guard"}
  /\ NodeExit(p, "blocked")
  /\ UNCHANGED <<disk, swarmVars, assigned>>

-----------------------------------------------------------------------------
(* UpdateNodeAvailability.  From here every error is a MutationError.      *)

Failed(p) == Goto(p, "n-failed") /\ UNCHANGED plan

ReadNode(p) ==
  /\ pc[p] = "n-update"
  /\ ReadNodeVersion(p, plan[p].node, Wanted(plan[p].kind))
  /\ Goto(p, "n-send")
  /\ UNCHANGED <<stateVars, op, outcome, mutated, plan, assigned>>

ReadNodeFails(p) ==
  /\ pc[p] = "n-update"
  /\ Failed(p)
  /\ UNCHANGED <<stateVars, swarmVars, op, outcome, mutated, assigned>>

NodeUpdateAccepted(p) ==
  /\ pc[p] = "n-send"
  /\ endpoint = "cluster"
  /\ \E u \in UnsentOf(p, nodeUpdates) : AcceptNodeUpdate(u)
  /\ mutated' = [mutated EXCEPT ![p] = TRUE]
  /\ Goto(p, IF plan[p].kind = "drain" THEN "d-nodes" ELSE "a-nodes") \/ Goto(p, "n-failed")
  /\ UNCHANGED <<stateVars, op, outcome, plan, assigned>>

NodeUpdateDelayed(p) ==
  /\ pc[p] = "n-send"
  /\ LeaveOnItsWay(p)
  /\ mutated' = [mutated EXCEPT ![p] = TRUE]
  /\ Failed(p)
  /\ UNCHANGED <<stateVars, op, outcome, assigned>>

NodeUpdateFails(p) ==
  /\ pc[p] = "n-send"
  /\ Discard(p)
  /\ Failed(p)
  /\ UNCHANGED <<stateVars, op, outcome, mutated, assigned>>

(* A fault: the error of the update is returned as it is. *)
ReportPlainError(p) ==
  /\ pc[p] = "n-failed"
  /\ NodeExit(p, "error")
  /\ UNCHANGED <<disk, swarmVars, assigned>>

ReportMutationError(p) ==
  /\ pc[p] = "n-failed"
  /\ NodeExit(p, "partial")
  /\ UNCHANGED <<disk, swarmVars, assigned>>

-----------------------------------------------------------------------------
(* Drain's two waits, and activate's one.  A wait of drain ends with any   *)
(* failing inspection; the wait of activate tries again.  All end when     *)
(* another Swarm answers, the node is gone or the deadline passes.         *)

SameNode(p) == endpoint = "cluster" /\ availability[plan[p].node] # "missing"

EvacuationNodes(p) ==
  /\ pc[p] = "d-nodes"
  /\ SameNode(p)
  /\ SetSafe(p, availability[plan[p].node] = "drain")
  /\ Goto(p, "d-tasks")
  /\ UNCHANGED <<stateVars, swarmVars, op, outcome, mutated, assigned>>

(* A fault: drained is taken for evacuated. *)
EvacuatedWhenDrained(p) == plan[p].safe

(* A task that was told to stop no longer counts, though its container may *)
(* still be stopping.                                                      *)
Evacuated(p) == plan[p].safe /\ ~assigned[plan[p].node]

EvacuationTasks(p) ==
  /\ pc[p] = "d-tasks"
  /\ \/ /\ Evacuated(p) /\ plan[p].awaited = {}
        /\ NodeExit(p, "success")
     \/ /\ ~ (Evacuated(p) /\ plan[p].awaited = {})
        /\ Goto(p, IF Evacuated(p) THEN "d-nodes-again" ELSE "d-nodes")
        /\ UNCHANGED <<lock, op, outcome, mutated, plan>>
  /\ UNCHANGED <<disk, swarmVars, assigned>>

AffectedNodes(p) ==
  /\ pc[p] = "d-nodes-again"
  /\ SameNode(p) /\ availability[plan[p].node] = "drain"
  /\ Goto(p, "d-services")
  /\ UNCHANGED <<stateVars, swarmVars, op, outcome, mutated, plan, assigned>>

AffectedConverge(p) ==
  /\ pc[p] = "d-services"
  /\ \/ /\ \A s \in plan[p].awaited : live[s].health = "converged"
        /\ NodeExit(p, "success")
     \/ /\ \E s \in plan[p].awaited : live[s].health # "converged"
        /\ Goto(p, "d-nodes-again")
        /\ UNCHANGED <<lock, op, outcome, mutated, plan>>
  /\ UNCHANGED <<disk, swarmVars, assigned>>

ActiveNodes(p) ==
  /\ pc[p] = "a-nodes"
  /\ SameNode(p)
  /\ SetSafe(p, NodesSafe(plan[p].node, "active"))
  /\ Goto(p, "a-services")
  /\ UNCHANGED <<stateVars, swarmVars, op, outcome, mutated, assigned>>

ActiveServices(p) ==
  /\ pc[p] = "a-services"
  /\ \/ /\ plan[p].safe /\ AllConverged
        /\ NodeExit(p, "success")
     \/ /\ Goto(p, "a-nodes")     \* not yet whole, or the inspection failed
        /\ UNCHANGED <<lock, op, outcome, mutated, plan>>
  /\ UNCHANGED <<disk, swarmVars, assigned>>

WaitFails(p) ==
  /\ pc[p] \in {"d-nodes", "d-tasks", "d-nodes-again", "d-services", "a-nodes"}
  /\ Failed(p)
  /\ UNCHANGED <<stateVars, swarmVars, op, outcome, mutated, assigned>>

KillNode(p) ==
  /\ pc[p] \in NodeLabels
  /\ Killed(p)
  /\ plan' = [plan EXCEPT ![p] = NoPlan]
  /\ UNCHANGED assigned

-----------------------------------------------------------------------------
Gating(p) ==
  \/ BeginNode(p) \/ GateNodes(p) \/ GateServices(p) \/ GateServicesAgain(p)
  \/ GateBlocks(p) \/ GateInspectFails(p)
  \/ LockNode(p) \/ EnsureNoActiveOperation(p) \/ GuardRefuses(p)

UpdatingNode(p) ==
  \/ ReadNode(p) \/ ReadNodeFails(p)
  \/ NodeUpdateAccepted(p) \/ NodeUpdateDelayed(p) \/ NodeUpdateFails(p)
  \/ ReportMutationError(p)

WaitingNode(p) ==
  \/ EvacuationNodes(p) \/ EvacuationTasks(p) \/ AffectedNodes(p) \/ AffectedConverge(p)
  \/ ActiveNodes(p) \/ ActiveServices(p) \/ WaitFails(p)

NodeStep(p) == Gating(p) \/ UpdatingNode(p) \/ WaitingNode(p) \/ KillNode(p)

(* The Swarm: a node's tasks end or are told to stop, and the scheduler    *)
(* assigns tasks to a node that is active.                                 *)
TasksMove ==
  \E n \in Node, some \in BOOLEAN :
    /\ some => availability[n] = "active"
    /\ assigned' = [assigned EXCEPT ![n] = some]
    /\ UNCHANGED <<stateVars, swarmVars, commandVars, plan>>

NodeCommandsInit ==
  /\ plan = [p \in Process |-> NoPlan]
  /\ assigned = [n \in Node |-> n # Target]
=============================================================================
