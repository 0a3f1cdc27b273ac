----------------------------- MODULE Skepr_proofs -----------------------------
(***************************************************************************)
(* Every command that changes the Swarm, together, for any number of       *)
(* processes, services and nodes: an operation that is not completed keeps *)
(* the node commands out, at most one manager is away, what drain and      *)
(* activate report is true, and what was proved of reconcile and of finish *)
(* holds beside the other commands too.                                    *)
(***************************************************************************)
EXTENDS Skepr, Maintenance_proofs, ReconcileReady_proofs, ReconcileJournal_proofs,
        FiniteSetTheorems

-----------------------------------------------------------------------------
(* SkeprInv, the inductive invariant: MaintenanceInv, and what the runs of *)
(* the node commands know.                                                 *)

(* Where a node command has not sent its update, and where it knows that   *)
(* no operation is active; the waits of drain and of activate.             *)
BeforeUpdate ==
  {"n-nodes", "n-services", "n-locking", "n-guard", "n-again", "n-services-again",
   "n-update", "n-send"}
Guarded == NodeLabels \ {"n-nodes", "n-services", "n-locking", "n-guard"}
DrainWaits == {"d-nodes", "d-tasks", "d-nodes-again", "d-services"}
ActivateWaits == {"a-nodes", "a-services"}

NodeFits(label, locals, changed, report) ==
  /\ label \in NodeLabels => report = "none"
  /\ label \in BeforeUpdate => ~changed
  /\ label \in DrainWaits => locals.kind = "drain"
  /\ label \in ActivateWaits => locals.kind = "activate"

NodesFit == \A p \in Process : NodeFits(pc[p], plan[p], mutated[p], outcome[p])

(* Past the guard the operation stays completed. *)
GuardHolds == \A p \in Process : pc[p] \in Guarded => disk.phase = "completed"

(* An update a node command has prepared is the one its arguments ask for. *)
PlansOwned ==
  \A u \in nodeUpdates :
    ~u.sent /\ pc[u.process] = "n-send"
      => u.node = plan[u.process].node /\ u.to = Wanted(plan[u.process].kind)

NodeTypeOK == plan \in [Process -> Plan] /\ assigned \in [Node -> BOOLEAN]

SkeprInv == MaintenanceInv /\ NodeTypeOK /\ NodesFit /\ GuardHolds /\ PlansOwned

-----------------------------------------------------------------------------
(* AwayInv, when updates are answered in time and operators at most        *)
(* activate the target: who is away, and who may still go.                 *)

SoleAway ==
  \A m, k \in Manager : availability[m] # "active" /\ availability[k] # "active" => m = k

(* A drain that is going to be sent leaves the others active. *)
GoesAlone(label, locals) ==
  /\ locals.kind = "drain"
  /\ \/ label \in {"n-update", "n-send"}
     \/ label = "n-services-again" /\ locals.safe

AwayInv ==
  /\ SoleAway
  /\ \A p \in Process : GoesAlone(pc[p], plan[p]) => OthersActive(plan[p].node)

(* WaitInv, when nobody else changes nodes: what was requested holds while *)
(* it is waited for, and a drained node seen without assigned tasks gets   *)
(* none.                                                                   *)
WaitInv ==
  \A p \in Process :
    /\ pc[p] \in DrainWaits \cup ActivateWaits
         => availability[plan[p].node] = Wanted(plan[p].kind)
    /\ pc[p] \in {"d-nodes-again", "d-services"} => ~assigned[plan[p].node]

-----------------------------------------------------------------------------
(* A step of a node command, seen from the others: it leaves the operation *)
(* alone, and takes or gives back the lock like every other command.       *)

NodeMove(p, label) ==
  /\ Goto(p, label) /\ label \in NodeLabels \cup {"idle"} /\ pc[p] \in NodeLabels \cup {"idle"}
  /\ UNCHANGED <<disk, assigned>>
  /\ op' = op \/ SetOp(p, NoOperation)
  /\ \/ lock' = lock /\ (label \notin Unlocked => pc[p] \notin Unlocked)
     \/ lock = NoProcess /\ lock' = p
     \/ ReleaseClusterLock(p) /\ label \in Unlocked
  /\ \E locals \in Plan, changed \in BOOLEAN, report \in Outcomes :
       /\ plan' = [plan EXCEPT ![p] = locals]
       /\ mutated' = [mutated EXCEPT ![p] = changed]
       /\ outcome' = [outcome EXCEPT ![p] = report]
       /\ NodeFits(label, locals, changed, report)
       /\ pc[p] \in NodeLabels /\ label = "idle" /\ report \in {"blocked", "error"} => ~mutated[p]
  /\ label \in Guarded => disk.phase = "completed"

(* What is known of a process in a node command. *)
LEMMA NodeHeld ==
  ASSUME SkeprInv, NEW p \in Process
  PROVE  /\ plan[p] \in Plan /\ mutated[p] \in BOOLEAN /\ outcome[p] \in Outcomes
         /\ plan = [plan EXCEPT ![p] = plan[p]]
         /\ mutated = [mutated EXCEPT ![p] = mutated[p]]
         /\ outcome = [outcome EXCEPT ![p] = outcome[p]]
         /\ NodeFits(pc[p], plan[p], mutated[p], outcome[p])
         /\ pc[p] \in Guarded => disk.phase = "completed"
BY DEF SkeprInv, NodeTypeOK, NodesFit, GuardHolds, MaintenanceInv, SafetyInv, TypeOK, CommandTypeOK

LEMMA NoPlanType == NoPlan \in Plan
BY SwarmAssumption DEF NoPlan, Plan, Kinds

LEMMA PlanTypes ==
  ASSUME NEW locals \in Plan
  PROVE  /\ \A safe \in BOOLEAN : [locals EXCEPT !.safe = safe] \in Plan
         /\ \A services \in SUBSET Service : [locals EXCEPT !.awaited = services] \in Plan
BY DEF Plan

(* A step in the middle of a command: its locals, its report and the lock  *)
(* stay.                                                                   *)
LEMMA GoesOn ==
  ASSUME SkeprInv, NEW p \in Process, NEW label \in NodeLabels, Goto(p, label),
         pc[p] \in NodeLabels, label \notin Unlocked => pc[p] \notin Unlocked,
         UNCHANGED <<stateVars, op, outcome, assigned>>,
         NEW locals \in Plan, plan' = [plan EXCEPT ![p] = locals], locals.kind = plan[p].kind,
         NEW changed \in BOOLEAN, mutated' = [mutated EXCEPT ![p] = changed],
         label \in BeforeUpdate => ~changed,
         label \in DrainWaits => plan[p].kind = "drain",
         label \in ActivateWaits => plan[p].kind = "activate",
         label \in Guarded => disk.phase = "completed"
  PROVE  NodeMove(p, label)
<1>1. NodeFits(label, locals, changed, "none") /\ outcome[p] = "none"
  BY NodeHeld DEF NodeFits
<1> QED
  BY <1>1, NodeHeld DEF NodeMove, stateVars, Outcomes

(* A command that ends. *)
LEMMA GoesHome ==
  ASSUME SkeprInv, NEW p \in Process, NEW result \in Outcomes, NodeExit(p, result),
         pc[p] \in NodeLabels, UNCHANGED <<disk, assigned>>,
         result \in {"blocked", "error"} => pc[p] \in BeforeUpdate
  PROVE  NodeMove(p, "idle")
<1>1. NodeFits("idle", NoPlan, mutated[p], result)
  BY DEF NodeFits, NodeLabels, BeforeUpdate, DrainWaits, ActivateWaits
<1>2. result \in {"blocked", "error"} => ~mutated[p]
  BY NodeHeld DEF NodeFits
<1> QED
  BY <1>1, <1>2, NodeHeld, NoPlanType
     DEF NodeMove, NodeExit, Leave, Unlocked, Guarded, NodeLabels

LEMMA GatingMoves ==
  ASSUME SkeprInv, NEW p \in Process, Gating(p)
  PROVE  \E label : NodeMove(p, label)
<1> USE NodeHeld DEF NodeLabels, BeforeUpdate, DrainWaits, ActivateWaits, Guarded, Unlocked
<1>1. CASE BeginNode(p)
  <2>1. PICK kind \in Kinds, n \in Node :
          plan' = [plan EXCEPT ![p] = [NoPlan EXCEPT !.kind = kind, !.node = n]]
    BY <1>1 DEF BeginNode
  <2>2. [NoPlan EXCEPT !.kind = kind, !.node = n] \in Plan
    BY NoPlanType DEF Plan
  <2>3. NodeFits("n-nodes", [NoPlan EXCEPT !.kind = kind, !.node = n], FALSE, "none")
    BY DEF NodeFits
  <2>4. NodeMove(p, "n-nodes")
    BY <1>1, <2>1, <2>2, <2>3 DEF BeginNode, NodeMove, Outcomes, stateVars
  <2> QED
    BY <2>4
<1>2. CASE GateNodes(p)
  <2>1. PICK safe \in BOOLEAN, label \in {"n-services", "n-services-again"} :
          /\ pc[p] \in {"n-nodes", "n-again"} /\ Goto(p, label)
          /\ label = IF pc[p] = "n-nodes" THEN "n-services" ELSE "n-services-again"
          /\ plan' = [plan EXCEPT ![p] = [plan[p] EXCEPT !.safe = safe]]
          /\ UNCHANGED <<stateVars, op, outcome, mutated, assigned>>
    BY <1>2 DEF GateNodes, SetSafe, NodesSafe
  <2>2. [plan[p] EXCEPT !.safe = safe] \in Plan /\ [plan[p] EXCEPT !.safe = safe].kind = plan[p].kind
    BY PlanTypes DEF Plan
  <2>3. NodeMove(p, label)
    BY <2>1, <2>2, GoesOn DEF NodeFits
  <2> QED
    BY <2>3
<1>3. CASE GateServices(p)
  <2>1. NodeMove(p, "n-locking")
    BY <1>3, GoesOn DEF GateServices, NodeFits
  <2> QED
    BY <2>1
<1>4. CASE GateServicesAgain(p)
  <2>1. PICK services \in SUBSET Service :
          plan' = [plan EXCEPT ![p] = [plan[p] EXCEPT !.awaited = services]]
    BY <1>4 DEF GateServicesAgain
  <2>2. /\ [plan[p] EXCEPT !.awaited = services] \in Plan
        /\ [plan[p] EXCEPT !.awaited = services].kind = plan[p].kind
    BY PlanTypes DEF Plan
  <2>3. NodeMove(p, "n-update")
    BY <1>4, <2>1, <2>2, GoesOn DEF GateServicesAgain, NodeFits
  <2> QED
    BY <2>3
<1>5. CASE GateBlocks(p) \/ GateInspectFails(p) \/ GuardRefuses(p)
  <2>1. NodeMove(p, "idle")
    BY <1>5, GoesHome DEF GateBlocks, GateInspectFails, GuardRefuses, Outcomes
  <2> QED
    BY <2>1
<1>6. CASE LockNode(p)
  <2>1. NodeFits("n-guard", plan[p], mutated[p], outcome[p])
    BY <1>6 DEF LockNode, Lock, NodeFits
  <2>2. NodeMove(p, "n-guard")
    BY <1>6, <2>1 DEF LockNode, Lock, AcquireClusterLock, NodeMove
  <2> QED
    BY <2>2
<1>7. CASE EnsureNoActiveOperation(p)
  <2>1. NodeMove(p, "n-again")
    BY <1>7, GoesOn DEF EnsureNoActiveOperation, NodeFits
  <2> QED
    BY <2>1
<1> QED
  BY <1>1, <1>2, <1>3, <1>4, <1>5, <1>6, <1>7 DEF Gating

LEMMA UpdatingNodeMoves ==
  ASSUME SkeprInv, NEW p \in Process, UpdatingNode(p)
  PROVE  \E label : NodeMove(p, label)
<1> USE NodeHeld DEF NodeLabels, BeforeUpdate, DrainWaits, ActivateWaits, Guarded, Unlocked
<1>1. CASE \/ ReadNode(p) \/ ReadNodeFails(p) \/ NodeUpdateDelayed(p) \/ NodeUpdateFails(p)
           \/ NodeUpdateAccepted(p)
  <2>1. PICK label \in {"n-send", "n-failed", "d-nodes", "a-nodes"}, changed \in BOOLEAN :
          /\ pc[p] \in {"n-update", "n-send"} /\ Goto(p, label)
          /\ mutated' = [mutated EXCEPT ![p] = changed]
          /\ label = "n-send" => ~changed
          /\ label = "d-nodes" => plan[p].kind = "drain"
          /\ label = "a-nodes" => plan[p].kind = "activate"
          /\ plan' = [plan EXCEPT ![p] = plan[p]]
          /\ UNCHANGED <<stateVars, op, outcome, assigned>>
    <3>1. ~mutated[p] /\ mutated[p] \in BOOLEAN
      BY <1>1
         DEF NodeFits, ReadNode, ReadNodeFails, NodeUpdateDelayed, NodeUpdateFails,
             NodeUpdateAccepted
    <3>2. CASE ReadNode(p) \/ ReadNodeFails(p) \/ NodeUpdateFails(p)
      BY <3>1, <3>2 DEF ReadNode, ReadNodeFails, NodeUpdateFails, Failed
    <3>3. CASE NodeUpdateDelayed(p)
      BY <3>3 DEF NodeUpdateDelayed, Failed
    <3>4. CASE NodeUpdateAccepted(p)
      BY <3>4 DEF NodeUpdateAccepted, Plan, Kinds
    <3> QED
      BY <1>1, <3>2, <3>3, <3>4
  <2>2. NodeMove(p, label)
    BY <2>1, GoesOn
  <2> QED
    BY <2>2
<1>2. CASE ReportMutationError(p)
  <2>1. NodeMove(p, "idle")
    BY <1>2, GoesHome DEF ReportMutationError, Outcomes
  <2> QED
    BY <2>1
<1> QED
  BY <1>1, <1>2 DEF UpdatingNode

LEMMA WaitingNodeMoves ==
  ASSUME SkeprInv, NEW p \in Process, WaitingNode(p)
  PROVE  \E label : NodeMove(p, label)
<1> USE NodeHeld DEF NodeLabels, BeforeUpdate, DrainWaits, ActivateWaits, Guarded, Unlocked
<1>1. CASE EvacuationNodes(p) \/ ActiveNodes(p)
  <2>1. PICK label \in {"d-tasks", "a-services"}, safe \in BOOLEAN :
          /\ pc[p] = IF label = "d-tasks" THEN "d-nodes" ELSE "a-nodes"
          /\ Goto(p, label)
          /\ plan' = [plan EXCEPT ![p] = [plan[p] EXCEPT !.safe = safe]]
          /\ UNCHANGED <<stateVars, op, outcome, mutated, assigned>>
    <3>1. CASE EvacuationNodes(p)
      BY <3>1 DEF EvacuationNodes, SetSafe
    <3>2. CASE ActiveNodes(p)
      BY <3>2 DEF ActiveNodes, SetSafe, NodesSafe
    <3> QED
      BY <1>1, <3>1, <3>2
  <2>2. [plan[p] EXCEPT !.safe = safe] \in Plan /\ [plan[p] EXCEPT !.safe = safe].kind = plan[p].kind
    BY PlanTypes DEF Plan
  <2>3. NodeMove(p, label)
    BY <2>1, <2>2, GoesOn DEF NodeFits
  <2> QED
    BY <2>3
<1>2. CASE EvacuationTasks(p) \/ AffectedConverge(p) \/ ActiveServices(p)
  <2>1. CASE NodeExit(p, "success")
    <3>1. NodeMove(p, "idle")
      BY <1>2, <2>1, GoesHome DEF EvacuationTasks, AffectedConverge, ActiveServices, Outcomes
    <3> QED
      BY <3>1
  <2>2. CASE ~NodeExit(p, "success")
    <3>1. PICK label \in {"d-nodes-again", "d-nodes", "a-nodes"} :
            /\ pc[p] \in IF label = "a-nodes" THEN ActivateWaits ELSE DrainWaits
            /\ Goto(p, label)
            /\ UNCHANGED <<stateVars, op, outcome, mutated, plan, assigned>>
      BY <1>2, <2>2 DEF EvacuationTasks, AffectedConverge, ActiveServices, stateVars
    <3>2. NodeMove(p, label)
      BY <3>1, GoesOn DEF NodeFits
    <3> QED
      BY <3>2
  <2> QED
    BY <2>1, <2>2
<1>3. CASE AffectedNodes(p)
  <2>1. NodeMove(p, "d-services")
    BY <1>3, GoesOn DEF AffectedNodes, NodeFits
  <2> QED
    BY <2>1
<1>4. CASE WaitFails(p)
  <2>1. NodeMove(p, "n-failed")
    BY <1>4, GoesOn DEF WaitFails, Failed, NodeFits
  <2> QED
    BY <2>1
<1> QED
  BY <1>1, <1>2, <1>3, <1>4 DEF WaitingNode

LEMMA KillNodeMoves ==
  ASSUME SkeprInv, NEW p \in Process, KillNode(p)
  PROVE  \E label : NodeMove(p, label)
<1>1. NodeFits("idle", NoPlan, mutated[p], outcome[p]) /\ outcome[p] = "none"
  BY NodeHeld DEF KillNode, NodeFits, NodeLabels, BeforeUpdate, DrainWaits, ActivateWaits
<1>2. NodeMove(p, "idle")
  BY <1>1, NodeHeld, NoPlanType DEF KillNode, Killed, NodeMove, Guarded, NodeLabels, Unlocked
<1> QED
  BY <1>2

LEMMA NodeMoves ==
  ASSUME SkeprInv, NEW p \in Process, NodeStep(p)
  PROVE  \E label : NodeMove(p, label)
BY GatingMoves, UpdatingNodeMoves, WaitingNodeMoves, KillNodeMoves DEF NodeStep

(* It is a move that the other commands know from finish. *)
LEMMA NodeIsCommandMove ==
  ASSUME SkeprInv, NEW p \in Process, NEW label, NodeMove(p, label), UNCHANGED seen
  PROVE  \E o : CommandMove(p, label, o)
<1>1. /\ op[p] \in Operations /\ op = [op EXCEPT ![p] = op[p]]
      /\ seen[p] \in {"drain", "active", "neither"} /\ seen = [seen EXCEPT ![p] = seen[p]]
      /\ mutated'[p] \in BOOLEAN /\ mutated' = [mutated EXCEPT ![p] = mutated'[p]]
      /\ outcome'[p] \in Outcomes /\ outcome' = [outcome EXCEPT ![p] = outcome'[p]]
      /\ disk \in Operations
  BY DEF NodeMove, SkeprInv, MaintenanceInv, SeenTypeOK, SafetyInv, TypeOK, CommandTypeOK
<1>2. PICK o \in Operations : SetOp(p, o)
  BY <1>1, NoOperationType DEF NodeMove, SetOp
<1>3. /\ pc[p] \notin Unlocked => lock = p
      /\ label \in OutOfStep
  BY DEF NodeMove, SkeprInv, MaintenanceInv, SafetyInv, NoLostUpdate, OutOfStep, Unlocked
<1>4. CopyFits(label, o, disk) /\ AccountFits(label, o, seen[p], mutated'[p], outcome'[p])
  BY DEF NodeMove, CopyFits, AccountFits, NodeLabels, FinishLabels
<1>5. /\ lock' # lock => lock \in {p, NoProcess}
      /\ lock' \in {lock, p, NoProcess}
      /\ label \notin Unlocked => lock' = p
  BY <1>3 DEF NodeMove, ReleaseClusterLock
<1> QED
  BY <1>1, <1>2, <1>3, <1>4, <1>5 DEF NodeMove, CommandMove, ReturnStep, PhaseStep

-----------------------------------------------------------------------------
(* What a command does to the nodes and to the requests in flight: only    *)
(* its own requests become pending, and a node changes when one of them is *)
(* accepted.                                                               *)

Touches(p) ==
  /\ \A u \in nodeUpdates' : ~u.sent /\ u.process # p => u \in nodeUpdates
  /\ availability' = availability
     \/ \E u \in UnsentOf(p, nodeUpdates) : availability' = [availability EXCEPT ![u.node] = u.to]

LEMMA QuietTouch ==
  ASSUME NEW p \in Process, UNCHANGED <<availability, nodeUpdates>>
  PROVE  Touches(p)
BY DEF Touches

LEMMA GivingUpTouches ==
  ASSUME SwarmTypeOK, NEW p \in Process, LeaveOnItsWay(p) \/ Discard(p)
  PROVE  Touches(p) /\ \A u \in nodeUpdates' : u.process = p => u.sent
BY DEF SwarmTypeOK, NodeUpdate, LeaveOnItsWay, Discard, OnItsWay, UnsentOf, Touches

LEMMA AcceptedTouches ==
  ASSUME NEW p \in Process, \E u \in UnsentOf(p, nodeUpdates) : AcceptNodeUpdate(u)
  PROVE  Touches(p)
BY DEF Touches, UnsentOf, AcceptNodeUpdate, NodeSpecChanged

LEMMA PreparedTouches ==
  ASSUME NEW p \in Process, NEW n, NEW to, ReadNodeVersion(p, n, to)
  PROVE  Touches(p)
BY DEF Touches, ReadNodeVersion

LEMMA FinishTouches ==
  ASSUME SwarmTypeOK, NEW p \in Process, FinishStep(p)
  PROVE  Touches(p)
<1>1. CASE ReadTarget(p) \/ ActivationAccepted(p)
  BY <1>1, PreparedTouches, AcceptedTouches DEF ReadTarget, ActivationAccepted
<1>2. CASE ActivationDelayed(p) \/ ActivationFails(p) \/ KillFinish(p)
  BY <1>2, GivingUpTouches DEF ActivationDelayed, ActivationFails, KillFinish, Killed
<1>3. FinishOpening(p) \/ Returning(p) \/ Verifying(p) \/ ReadTargetFails(p) \/ SaveVerifying(p)
        => UNCHANGED swarmVars
  BY DEF FinishOpening, BeginFinish, Begin, LockFinish, Lock, FinishLockRefused, ReloadFinish,
         FinishPhaseRefused, FinishOpeningFails, Returning, ReturnNodes, ReturnInspectFails,
         ReturnServices, SaveReturn, SaveActivating, SaveOrReturn, Verifying, VerifyNodes,
         VerifyServices, VerifyInspectFails, VerifyTimesOut, SaveCompleted, Fail,
         ReadTargetFails, SaveVerifying
<1> QED
  BY <1>1, <1>2, <1>3, QuietTouch DEF FinishStep, Activating, swarmVars

LEMMA ReconcileTouches ==
  ASSUME SwarmTypeOK, NEW p \in Process, ReconcileStep(p)
  PROVE  Touches(p)
<1>1. CASE ReadServiceSpec(p) \/ UpdateAccepted(p)
  BY <1>1, QuietTouch DEF ReadServiceSpec, ReadServiceVersion, UpdateAccepted, AcceptUpdate
<1>2. CASE UpdateDelayed(p) \/ UpdateFails(p) \/ KillReconcile(p)
  BY <1>2, GivingUpTouches DEF UpdateDelayed, UpdateFails, KillReconcile, Killed
<1>3. Opening(p) => UNCHANGED swarmVars
  BY DEF Opening, BeginReconcile, Begin, LockReconcile, Lock, LockRefused, ReloadReconcile,
         PhaseRefused, InspectNodes, InspectServices, OpeningFails, StateRefused
<1>4. Deciding(p) => UNCHANGED swarmVars
  BY DEF Deciding, ResumeRefused, Resume, SelectRefused, Select, ReadyAtOnce,
         CandidateRefused, CandidateConverged, Declare, Ready, RecordError
<1>5. CASE \/ ReadServiceSpecFails(p) \/ PollNodes(p) \/ PollServices(p) \/ PollRefused(p)
           \/ PollFails(p) \/ Complete(p) \/ Preserve(p)
  BY <1>5, QuietTouch
     DEF ReadServiceSpecFails, PollNodes, PollServices, PollRefused, PollFails, Complete,
         Preserve, swarmVars
<1> QED
  BY <1>1, <1>2, <1>3, <1>4, <1>5, QuietTouch DEF ReconcileStep, Updating, swarmVars

(* The steps of a node command: the update is prepared, accepted or given  *)
(* up; every other step leaves the Swarm alone.                            *)
LEMMA NodeRequests ==
  ASSUME NEW p \in Process, NodeStep(p)
  PROVE  \/ ReadNode(p)
         \/ NodeUpdateAccepted(p)
         \/ /\ LeaveOnItsWay(p) \/ Discard(p)
            /\ UNCHANGED disk
         \/ /\ UNCHANGED swarmVars
            /\ pc[p] \in NodeLabels \cup {"idle"} /\ pc[p] # "n-send"
<1> USE DEF NodeLabels
<1>1. CASE Gating(p)
  BY <1>1
     DEF Gating, BeginNode, GateNodes, GateServices, GateServicesAgain, GateBlocks,
         GateInspectFails, LockNode, Lock, EnsureNoActiveOperation, GuardRefuses
<1>2. CASE ReadNodeFails(p) \/ NodeUpdateDelayed(p) \/ NodeUpdateFails(p) \/ ReportMutationError(p)
  BY <1>2
     DEF ReadNodeFails, NodeUpdateDelayed, NodeUpdateFails, ReportMutationError, stateVars
<1>3. CASE WaitingNode(p)
  BY <1>3
     DEF WaitingNode, EvacuationNodes, EvacuationTasks, AffectedNodes, AffectedConverge,
         ActiveNodes, ActiveServices, WaitFails
<1>4. CASE KillNode(p)
  BY <1>4 DEF KillNode, Killed
<1> QED
  BY <1>1, <1>2, <1>3, <1>4 DEF NodeStep, UpdatingNode

LEMMA NodeTouches ==
  ASSUME SwarmTypeOK, NEW p \in Process, NodeStep(p)
  PROVE  Touches(p)
BY NodeRequests, PreparedTouches, AcceptedTouches, GivingUpTouches, QuietTouch
   DEF ReadNode, NodeUpdateAccepted, swarmVars

LEMMA NodeSwarm ==
  ASSUME SkeprInv, NEW p \in Process, NodeStep(p), UNCHANGED disk
  PROVE  SwarmTypeOK' /\ IntentFirst'
<1>1. SwarmTypeOK /\ IntentFirst /\ plan[p] \in Plan
  BY NodeHeld DEF SkeprInv, MaintenanceInv, SafetyInv, TypeOK
<1>2. plan[p].node \in Node /\ Wanted(plan[p].kind) \in {"active", "drain"}
  BY <1>1 DEF Plan, Wanted
<1> QED
  BY <1>1, <1>2, NodeRequests, NodeRequestKeeps, RequestKeeps
     DEF ReadNode, NodeUpdateAccepted, UnsentOf

LEMMA NodeOwned ==
  ASSUME SkeprInv, NEW p \in Process, NodeStep(p), NEW label, NodeMove(p, label)
  PROVE  RequestsOwned' /\ PlansOwned'
<1>1. /\ \A q \in Process : q # p => pc'[q] = pc[q] /\ op'[q] = op[q] /\ plan'[q] = plan[q]
      /\ pc'[p] = label /\ disk' = disk /\ PhaseStep(p)
  BY DEF NodeMove, Goto, SetOp, PhaseStep, SkeprInv, NodeTypeOK, MaintenanceInv, SafetyInv,
         TypeOK, CommandTypeOK
<1>2. /\ SwarmTypeOK /\ MaintenanceInv
      /\ \A u \in nodeUpdates :
           /\ u.process \in Process /\ NodeRequest(u)
           /\ ~u.sent /\ pc[u.process] = "n-send"
                => u.node = plan[u.process].node /\ u.to = Wanted(plan[u.process].kind)
  BY DEF SkeprInv, PlansOwned, MaintenanceInv, SafetyInv, TypeOK, SwarmTypeOK, NodeUpdate,
         RequestsOwned
<1>3. CASE ReadNode(p)
  <2>1. /\ pc[p] = "n-update" /\ label = "n-send" /\ plan' = plan
        /\ ReadNodeVersion(p, plan[p].node, Wanted(plan[p].kind))
    BY <1>1, <1>3 DEF ReadNode, Goto, SkeprInv, MaintenanceInv, SafetyInv, TypeOK, CommandTypeOK
  <2>2. plan[p].node \in Node /\ Wanted(plan[p].kind) \in {"active", "drain"}
    BY NodeHeld DEF Plan, Wanted
  <2>3. RequestsOwned'
    BY <1>1, <1>2, <2>1, <2>2, OwnedPrepared
  <2>4. PlansOwned'
    BY <1>1, <1>2, <2>1 DEF PlansOwned, ReadNodeVersion, NodeRequest
  <2> QED
    BY <2>3, <2>4
<1>4. CASE NodeUpdateAccepted(p)
  <2>1. pc[p] = "n-send" /\ label # "n-send"
    BY <1>1, <1>4
       DEF NodeUpdateAccepted, Goto, SkeprInv, MaintenanceInv, SafetyInv, TypeOK, CommandTypeOK
  <2>2. \A u, v \in UnsentOf(p, nodeUpdates) : u.node = v.node
    BY <1>2, <2>1 DEF UnsentOf
  <2>3. RequestsOwned'
    BY <1>1, <1>2, <1>4, <2>2, OwnedAccepted DEF NodeUpdateAccepted
  <2>4. PlansOwned'
    BY <1>1, <1>2, <1>4, <2>1 DEF PlansOwned, NodeUpdateAccepted, AcceptNodeUpdate, NodeSpecChanged
  <2> QED
    BY <2>3, <2>4
<1>5. CASE LeaveOnItsWay(p) \/ Discard(p)
  <2>1. pc[p] = "n-send" => disk.phase \in ActivatedPhases
    BY NodeHeld DEF Guarded, NodeLabels, ActivatedPhases
  <2>2. RequestsOwned'
    BY <1>1, <1>2, <1>5, <2>1, OwnedGivenUp
  <2>3. PlansOwned'
    BY <1>1, <1>2, <1>5, GivingUpTouches DEF PlansOwned, Touches
  <2> QED
    BY <2>2, <2>3
<1>6. CASE UNCHANGED swarmVars /\ pc[p] \in NodeLabels \cup {"idle"} /\ pc[p] # "n-send"
  <2>1. pc[p] \notin {"send", "f-send", "n-send"}
    BY <1>6 DEF NodeLabels
  <2>2. RequestsOwned'
    BY <1>1, <1>2, <1>6, <2>1, OwnedQuietly DEF swarmVars
  <2>3. PlansOwned'
    BY <1>1, <1>2, <1>6, <2>1 DEF PlansOwned, NodeRequest, swarmVars
  <2> QED
    BY <2>2, <2>3
<1> QED
  BY <1>3, <1>4, <1>5, <1>6, NodeRequests

-----------------------------------------------------------------------------
(* SkeprInv is inductive. *)

(* A step of reconcile or of finish, seen from the node commands. *)
LEMMA CommandBeside ==
  ASSUME MaintenanceInv, NEW p \in Process, CommandStep(p)
  PROVE  /\ pc'[p] \notin NodeLabels /\ pc[p] \notin NodeLabels
         /\ PhaseStep(p) /\ Touches(p)
         /\ \A q \in Process : q # p => /\ pc'[q] = pc[q] /\ op'[q] = op[q]
                                        /\ mutated'[q] = mutated[q] /\ outcome'[q] = outcome[q]
<1> USE DEF NodeLabels
<1>1. SafetyInv /\ SwarmTypeOK
  BY DEF MaintenanceInv, SafetyInv, TypeOK
<1>2. CASE ReconcileStep(p)
  BY <1>1, <1>2, ReconcileMoves, ReconcileStarts, ReconcileTouches, OthersKeep, OthersReport
     DEF ReconcileMove, ReconcileLabels, Polling
<1>3. CASE FinishStep(p)
  <2>1. PICK label, o : FinishMove(p, label, o)
    BY <1>3, FinishMoves
  <2>2. pc[p] \in FinishLabels \cup {"idle"}
    BY <1>3, FinishStarts
  <2>3. /\ pc'[p] = label /\ label \in FinishLabels \cup {"idle"}
        /\ PhaseStep(p)
        /\ \A q \in Process : q # p => /\ pc'[q] = pc[q] /\ op'[q] = op[q]
                                       /\ mutated'[q] = mutated[q] /\ outcome'[q] = outcome[q]
    BY <1>1, <2>1
       DEF FinishMove, CommandMove, ReturnStep, Goto, SetOp, SafetyInv, TypeOK, CommandTypeOK
  <2> QED
    BY <1>1, <1>3, <2>2, <2>3, FinishTouches DEF FinishLabels
<1> QED
  BY <1>2, <1>3 DEF CommandStep

LEMMA CommandKeeps ==
  ASSUME SkeprInv, NEW p \in Process, CommandStep(p), UNCHANGED <<plan, assigned>>
  PROVE  SkeprInv'
<1>1. MaintenanceInv /\ MaintenanceInv'
  BY ReconcileKeeps, FinishKeeps DEF SkeprInv, CommandStep
<1>2. /\ pc'[p] \notin NodeLabels /\ PhaseStep(p) /\ Touches(p)
      /\ \A q \in Process : q # p => /\ pc'[q] = pc[q]
                                     /\ mutated'[q] = mutated[q] /\ outcome'[q] = outcome[q]
  BY <1>1, CommandBeside
<1>3. NodeTypeOK'
  BY DEF SkeprInv, NodeTypeOK
<1>4. NodesFit'
  BY <1>2
     DEF SkeprInv, NodesFit, NodeFits, NodeLabels, BeforeUpdate, DrainWaits, ActivateWaits
<1>5. GuardHolds'
  BY <1>2 DEF SkeprInv, GuardHolds, Guarded, PhaseStep, MayMove, AllowedTransitions
<1>6. PlansOwned'
  <2>1. \A u \in nodeUpdates' : u.process \in Process
    BY <1>1 DEF MaintenanceInv, SafetyInv, TypeOK, SwarmTypeOK, NodeUpdate
  <2> QED
    BY <1>2, <2>1 DEF SkeprInv, PlansOwned, Touches, NodeLabels
<1> QED
  BY <1>1, <1>3, <1>4, <1>5, <1>6 DEF SkeprInv

LEMMA NodeKeeps ==
  ASSUME SkeprInv, NEW p \in Process, NodeStep(p), UNCHANGED <<run, seen>>
  PROVE  SkeprInv'
<1>1. PICK label : NodeMove(p, label)
  BY NodeMoves
<1>2. PICK o : CommandMove(p, label, o)
  BY <1>1, NodeIsCommandMove
<1>3. SwarmTypeOK' /\ IntentFirst' /\ RequestsOwned' /\ PlansOwned'
  BY <1>1, NodeSwarm, NodeOwned DEF NodeMove
<1>4. MaintenanceInv'
  BY <1>2, <1>3, CommandMoveKeeps DEF SkeprInv, MaintenanceInv
<1>5. PICK locals \in Plan, changed \in BOOLEAN, report \in Outcomes :
        /\ plan' = [plan EXCEPT ![p] = locals]
        /\ mutated' = [mutated EXCEPT ![p] = changed]
        /\ outcome' = [outcome EXCEPT ![p] = report]
        /\ NodeFits(label, locals, changed, report)
  BY <1>1 DEF NodeMove
<1>6. \A q \in Process :
        /\ pc'[q] = IF q = p THEN label ELSE pc[q]
        /\ plan'[q] = IF q = p THEN locals ELSE plan[q]
        /\ mutated'[q] = IF q = p THEN changed ELSE mutated[q]
        /\ outcome'[q] = IF q = p THEN report ELSE outcome[q]
  BY <1>1, <1>5
     DEF NodeMove, Goto, SkeprInv, NodeTypeOK, MaintenanceInv, SafetyInv, TypeOK, CommandTypeOK
<1>7. NodeTypeOK'
  BY <1>1, <1>5 DEF NodeMove, SkeprInv, NodeTypeOK
<1>8. NodesFit'
  BY <1>5, <1>6 DEF SkeprInv, NodesFit
<1>9. GuardHolds'
  BY <1>1, <1>6 DEF SkeprInv, GuardHolds, NodeMove
<1> QED
  BY <1>3, <1>4, <1>7, <1>8, <1>9 DEF SkeprInv

(* The scheduler and the Swarm. *)
LEMMA SkeprSwarmKeeps ==
  ASSUME SkeprInv, UNCHANGED <<stateVars, commandVars, run, seen, plan>>,
         SwarmStep \/ UNCHANGED swarmVars,
         assigned' \in [Node -> BOOLEAN]
  PROVE  SkeprInv'
<1>1. MaintenanceInv'
  BY SwarmKeepsRuns DEF SkeprInv
<1>2. nodeUpdates' \subseteq nodeUpdates
  BY SwarmUsesUp DEF swarmVars
<1>3. NodeTypeOK' /\ NodesFit' /\ GuardHolds' /\ PlansOwned'
  BY <1>2 DEF SkeprInv, NodeTypeOK, NodesFit, GuardHolds, PlansOwned, stateVars, commandVars
<1> QED
  BY <1>1, <1>3 DEF SkeprInv

LEMMA SkeprInitFits == SkeprInit => SkeprInv
<1> SUFFICES ASSUME SkeprInit
             PROVE  SkeprInv
  OBVIOUS
<1>1. MaintenanceInv
  BY MaintenanceInitFits DEF SkeprInit
<1>2. NodeTypeOK
  BY NoPlanType DEF SkeprInit, NodeCommandsInit, NodeTypeOK
<1>3. (\A p \in Process : pc[p] = "idle") /\ nodeUpdates = {}
  BY DEF SkeprInit, MaintenanceInit, Init, CommandInit, SwarmInit
<1>4. NodesFit /\ GuardHolds /\ PlansOwned
  BY <1>3
     DEF NodesFit, NodeFits, GuardHolds, PlansOwned, Guarded, NodeLabels, BeforeUpdate,
         DrainWaits, ActivateWaits
<1> QED
  BY <1>1, <1>2, <1>4 DEF SkeprInv

LEMMA SkeprNextFits ==
  ASSUME SkeprInv, [SkeprNext]_skeprVars
  PROVE  SkeprInv'
<1>1. CASE \E p \in Process : CommandStep(p) /\ UNCHANGED <<plan, assigned>>
  BY <1>1, CommandKeeps
<1>2. CASE \E p \in Process : NodeStep(p) /\ UNCHANGED <<run, seen>>
  BY <1>2, NodeKeeps
<1>3. CASE TasksMove /\ UNCHANGED <<run, seen>>
  BY <1>3, SkeprSwarmKeeps DEF TasksMove, SkeprInv, NodeTypeOK
<1>4. CASE SwarmStep /\ UNCHANGED <<stateVars, commandVars, run, seen, plan, assigned>>
  BY <1>4, SkeprSwarmKeeps DEF SkeprInv, NodeTypeOK
<1>5. CASE UNCHANGED skeprVars
  BY <1>5, SkeprSwarmKeeps DEF skeprVars, maintenanceVars, SkeprInv, NodeTypeOK
<1> QED
  BY <1>1, <1>2, <1>3, <1>4, <1>5 DEF SkeprNext

(* Every reachable state of the four commands satisfies SkeprInv. *)
THEOREM SkeprSafety == SkeprSpec => []SkeprInv
BY SkeprInitFits, SkeprNextFits, PTL DEF SkeprSpec

-----------------------------------------------------------------------------
(* The state of the four commands always has its type. *)
THEOREM SkeprTypeCorrect == SkeprSpec => []SkeprTypeOK
<1>1. SkeprInv => SkeprTypeOK
  BY DEF SkeprInv, NodeTypeOK, MaintenanceInv, SafetyInv, TypeOK, SeenTypeOK, SkeprTypeOK,
         MaintenanceTypeOK
<1> QED
  BY <1>1, SkeprSafety, PTL

(* However the four commands race and die, the only change of a node that  *)
(* is prepared while an operation is active is finish's activation of its  *)
(* target: a drain or an activation that found no operation past its guard *)
(* finds none until it ends, since a completed operation stays completed   *)
(* (when updates are answered in time).                                    *)
THEOREM ActiveOperationKeepsOut ==
  ASSUME LateDelivery = FALSE
  PROVE  SkeprSpec => []ActiveOperationOwnsNodes
<1>1. ASSUME SkeprInv PROVE ActiveOperationOwnsNodes
  <2> SUFFICES ASSUME disk.phase # "completed", NEW u \in nodeUpdates
               PROVE  u.node = Target /\ u.to = "active" /\ disk.phase = "activating"
    BY DEF ActiveOperationOwnsNodes
  <2>1. u.process \in Process /\ ~u.sent /\ NodeRequest(u)
    BY <1>1
       DEF SkeprInv, MaintenanceInv, SafetyInv, TypeOK, SwarmTypeOK, NodeUpdate, RequestsOwned,
           NodeRequest
  <2>2. pc[u.process] = "f-send" /\ u.node = Target /\ u.to = "active"
    BY <1>1, <2>1 DEF SkeprInv, GuardHolds, Guarded, NodeLabels, NodeRequest
  <2>3. op[u.process].phase = "activating" /\ disk = op[u.process]
    BY <1>1, <2>1, <2>2, FinishHeld DEF SkeprInv, CopyFits, OutOfStep, Unlocked, NodeLabels
  <2> QED
    BY <2>2, <2>3
<1> QED
  BY <1>1, SkeprSafety, PTL

(* A drain or an activation that reports "blocked" or "failed before       *)
(* mutation" has sent no update: neither report comes after the request,   *)
(* and every error from then on is reported as a possible change.          *)
THEOREM BeforeMutationIsProven == SkeprSpec => BeforeMutationIsTrue
<1> DEFINE Untouched ==
             \A p \in Process :
               pc[p] \in NodeLabels /\ pc'[p] = "idle" /\ outcome'[p] \in {"blocked", "error"}
               => ~mutated[p]
<1>1. ASSUME SkeprInv, [SkeprNext]_skeprVars
      PROVE  [Untouched]_skeprVars
  <2>1. ASSUME NEW p \in Process, CommandStep(p)
        PROVE  Untouched
    BY <1>1, <2>1, CommandBeside DEF SkeprInv, NodeLabels
  <2>2. ASSUME NEW p \in Process, NodeStep(p)
        PROVE  Untouched
    <3>1. PICK label : NodeMove(p, label)
      BY <1>1, <2>2, NodeMoves
    <3>2. /\ \A q \in Process : q # p => pc'[q] = pc[q]
          /\ pc'[p] = label
      BY <1>1, <3>1
         DEF NodeMove, Goto, SkeprInv, MaintenanceInv, SafetyInv, TypeOK, CommandTypeOK
    <3>3. PICK report \in Outcomes :
            /\ outcome' = [outcome EXCEPT ![p] = report]
            /\ pc[p] \in NodeLabels /\ label = "idle" /\ report \in {"blocked", "error"} => ~mutated[p]
      BY <3>1 DEF NodeMove
    <3>4. outcome'[p] = report
      BY <1>1, <3>3 DEF SkeprInv, MaintenanceInv, SafetyInv, TypeOK, CommandTypeOK
    <3> QED
      BY <3>2, <3>3, <3>4 DEF NodeLabels
  <2>3. CASE UNCHANGED pc
    BY <2>3 DEF NodeLabels
  <2> QED
    BY <1>1, <2>1, <2>2, <2>3
       DEF SkeprNext, TasksMove, commandVars, skeprVars, maintenanceVars
<1>2. SkeprSpec => [][Untouched]_skeprVars
  <2> HIDE DEF Untouched
  <2> QED
    BY <1>1, SkeprSafety, PTL DEF SkeprSpec
<1> QED
  BY <1>2 DEF BeforeMutationIsTrue

-----------------------------------------------------------------------------
(* AwayInv is inductive, when updates are answered in time and operators   *)
(* at most activate the target.                                            *)

(* Only the process with the lock changes a node: finish activates its     *)
(* target, a node command does what its arguments ask for.                 *)
LEMMA HolderChanges ==
  ASSUME SkeprInv, NEW p \in Process, Touches(p), availability' # availability
  PROVE  /\ lock = p
         /\ \/ /\ pc[p] = "f-send"
               /\ availability' = [availability EXCEPT ![Target] = "active"]
            \/ /\ pc[p] = "n-send"
               /\ availability' = [availability EXCEPT ![plan[p].node] = Wanted(plan[p].kind)]
<1>1. PICK u \in nodeUpdates :
        /\ u.process = p /\ ~u.sent
        /\ availability' = [availability EXCEPT ![u.node] = u.to]
  BY DEF Touches, UnsentOf
<1>2. NodeRequest(u) /\ NoLostUpdate
  BY DEF SkeprInv, MaintenanceInv, RequestsOwned, SafetyInv
<1> QED
  BY <1>1, <1>2 DEF NodeRequest, SkeprInv, PlansOwned, NoLostUpdate, Unlocked

(* The Swarm and its operators do not, but for activating the target. *)
LEMMA OutsideChanges ==
  ASSUME SkeprInv, LateDelivery = FALSE, SwarmStep \/ UNCHANGED swarmVars
  PROVE  \/ availability' = availability
         \/ \E a \in OutsideStates : availability' = [availability EXCEPT ![Target] = a]
<1>1. ~LateNodeUpdate
  BY DEF LateNodeUpdate, SkeprInv, MaintenanceInv, RequestsOwned, NodeRequest
<1> QED
  BY <1>1
     DEF SwarmStep, LateUpdate, AcceptUpdate, ServiceStep, Converge, TasksChange, RemoveService,
         OutsideForceUpdate, Rollback, TargetChanges, EndpointChanges, MembersChange, swarmVars

(* An activation only brings managers back. *)
LEMMA ActivationRestores ==
  ASSUME SkeprInv, AwayInv, NEW n \in Node,
         availability' = [availability EXCEPT ![n] = "active"]
  PROVE  SoleAway' /\ \A m \in Node : OthersActive(m) => OthersActive(m)'
<1>1. availability \in [Node -> Availabilities] /\ Manager \subseteq Node
  BY SwarmAssumption DEF SkeprInv, MaintenanceInv, SafetyInv, TypeOK, SwarmTypeOK
<1> QED
  BY <1>1 DEF AwayInv, SoleAway, OthersActive

LEMMA CommandAway ==
  ASSUME SkeprInv, AwayInv, NEW p \in Process, CommandStep(p), UNCHANGED <<plan, assigned>>
  PROVE  AwayInv'
<1>1. /\ pc'[p] \notin NodeLabels /\ pc[p] \notin NodeLabels /\ Touches(p)
      /\ \A q \in Process : q # p => pc'[q] = pc[q]
  BY CommandBeside DEF SkeprInv
<1>2. \A q \in Process : GoesAlone(pc'[q], plan'[q]) => GoesAlone(pc[q], plan[q]) /\ plan[q].node \in Node
  BY <1>1, NodeHeld DEF GoesAlone, NodeLabels, Plan
<1>3. CASE availability' = availability
  BY <1>2, <1>3 DEF AwayInv, SoleAway, OthersActive
<1>4. CASE availability' # availability
  <2>1. availability' = [availability EXCEPT ![Target] = "active"]
    BY <1>1, <1>4, HolderChanges DEF NodeLabels
  <2> QED
    BY <1>2, <2>1, ActivationRestores, SwarmAssumption DEF AwayInv
<1> QED
  BY <1>3, <1>4

(* The steps that lead to the update, past the guard. *)
LEMMA TowardsUpdate ==
  ASSUME SkeprInv, NEW p \in Process, NodeStep(p),
         pc'[p] \in {"n-services-again", "n-update", "n-send"}
  PROVE  GateNodes(p) \/ GateServicesAgain(p) \/ ReadNode(p)
<1>1. \A label : Goto(p, label) => pc'[p] = label
  BY DEF Goto, SkeprInv, MaintenanceInv, SafetyInv, TypeOK, CommandTypeOK
<1>2. ~UpdatingNode(p) \/ ReadNode(p)
  BY <1>1
     DEF UpdatingNode, ReadNodeFails, NodeUpdateAccepted, NodeUpdateDelayed, NodeUpdateFails,
         ReportMutationError, Failed, NodeExit, Leave
<1>3. ~WaitingNode(p) /\ ~KillNode(p)
  BY <1>1
     DEF WaitingNode, EvacuationNodes, EvacuationTasks, AffectedNodes, AffectedConverge,
         ActiveNodes, ActiveServices, WaitFails, Failed, NodeExit, Leave, KillNode, Killed
<1>4. ~Gating(p) \/ GateNodes(p) \/ GateServicesAgain(p)
  BY <1>1
     DEF Gating, BeginNode, GateServices, GateBlocks, GateInspectFails, LockNode, Lock,
         EnsureNoActiveOperation, GuardRefuses, NodeExit, Leave
<1> QED
  BY <1>2, <1>3, <1>4 DEF NodeStep

(* What a drain knows when it is about to be sent, it has seen under the   *)
(* lock.                                                                   *)
LEMMA DrainChecks ==
  ASSUME SkeprInv, AwayInv, NEW p \in Process, NodeStep(p), GoesAlone(pc'[p], plan'[p])
  PROVE  OthersActive(plan'[p].node)
<1>1. plan[p] \in Plan /\ plan \in [Process -> Plan]
  BY DEF SkeprInv, NodeTypeOK
<1>2. \A label : Goto(p, label) => pc'[p] = label
  BY DEF Goto, SkeprInv, MaintenanceInv, SafetyInv, TypeOK, CommandTypeOK
<1>3. CASE GateNodes(p)
  <2>1. plan'[p] = [plan[p] EXCEPT !.safe =
                     NodesSafe(plan[p].node, Expected(plan[p].kind))]
    BY <1>1, <1>3 DEF GateNodes, SetSafe
  <2>2. plan'[p].safe
    BY <1>2, <1>3 DEF GateNodes, GoesAlone
  <2> QED
    BY <1>1, <2>1, <2>2 DEF NodesSafe, Plan
<1>4. CASE GateServicesAgain(p) \/ ReadNode(p)
  <2>1. plan'[p].kind = plan[p].kind /\ plan'[p].node = plan[p].node
    BY <1>1, <1>4 DEF GateServicesAgain, ReadNode, Plan
  <2>2. GoesAlone(pc[p], plan[p])
    BY <1>4, <2>1 DEF GateServicesAgain, ReadNode, GoesAlone
  <2> QED
    BY <2>1, <2>2 DEF AwayInv
<1> QED
  BY <1>3, <1>4, TowardsUpdate DEF GoesAlone

LEMMA NodeAway ==
  ASSUME SkeprInv, AwayInv, NEW p \in Process, NodeStep(p)
  PROVE  AwayInv'
<1>1. PICK label : NodeMove(p, label)
  BY NodeMoves
<1>2. /\ Touches(p)
      /\ \A q \in Process : q # p => pc'[q] = pc[q] /\ plan'[q] = plan[q]
      /\ plan' \in [Process -> Plan]
      /\ availability \in [Node -> Availabilities] /\ Manager \subseteq Node
  BY <1>1, NodeTouches, SwarmAssumption
     DEF NodeMove, Goto, SkeprInv, NodeTypeOK, MaintenanceInv, SafetyInv, TypeOK, CommandTypeOK,
         SwarmTypeOK
<1>3. CASE availability' = availability
  BY <1>2, <1>3, DrainChecks DEF AwayInv, SoleAway, OthersActive
<1>4. CASE availability' # availability
  <2>1. /\ lock = p /\ pc[p] \in {"f-send", "n-send"}
        /\ availability' = [availability EXCEPT ![Target] = "active"] \/ pc[p] = "n-send"
        /\ pc[p] = "n-send" =>
             availability' = [availability EXCEPT ![plan[p].node] = Wanted(plan[p].kind)]
    BY <1>2, <1>4, HolderChanges
  <2>2. pc[p] = "n-send" /\ plan[p].node \in Node /\ plan[p].kind \in Kinds
    BY <1>1, <2>1, NodeHeld DEF NodeMove, NodeLabels, Plan
  <2>3. \A q \in Process : ~GoesAlone(pc'[q], plan'[q])
    <3>1. ~GoesAlone(pc'[p], plan'[p])
      BY <2>2, TowardsUpdate DEF GoesAlone, GateNodes, GateServicesAgain, ReadNode
    <3>2. \A q \in Process : q # p => pc[q] \in Unlocked
      BY <2>2, OthersWait DEF SkeprInv, MaintenanceInv, SafetyInv, Unlocked
    <3> QED
      BY <1>2, <3>1, <3>2 DEF GoesAlone, Unlocked
  <2>4. SoleAway'
    <3>1. CASE plan[p].kind = "drain"
      <4>1. OthersActive(plan[p].node)
        BY <2>2, <3>1 DEF AwayInv, GoesAlone
      <4> QED
        BY <1>2, <2>1, <2>2, <4>1 DEF SoleAway, OthersActive
    <3>2. CASE plan[p].kind = "activate"
      BY <2>1, <2>2, <3>2, ActivationRestores DEF Wanted
    <3> QED
      BY <2>2, <3>1, <3>2 DEF Kinds
  <2> QED
    BY <2>3, <2>4 DEF AwayInv
<1> QED
  BY <1>3, <1>4

LEMMA SwarmAway ==
  ASSUME SkeprInv, AwayInv, LateDelivery = FALSE, OutsideStates \subseteq {"active"},
         SwarmStep \/ UNCHANGED swarmVars, UNCHANGED <<commandVars, plan>>
  PROVE  AwayInv'
<1>1. \A q \in Process : GoesAlone(pc[q], plan[q]) => plan[q].node \in Node
  BY NodeHeld DEF Plan
<1>2. CASE availability' = availability
  BY <1>2 DEF AwayInv, SoleAway, OthersActive, commandVars
<1>3. CASE availability' = [availability EXCEPT ![Target] = "active"]
  BY <1>1, <1>3, ActivationRestores, SwarmAssumption DEF AwayInv, commandVars
<1> QED
  BY <1>2, <1>3, OutsideChanges

LEMMA NextAway ==
  ASSUME SkeprInv, AwayInv, LateDelivery = FALSE, OutsideStates \subseteq {"active"},
         [SkeprNext]_skeprVars
  PROVE  AwayInv'
<1>1. CASE \E p \in Process : CommandStep(p) /\ UNCHANGED <<plan, assigned>>
  BY <1>1, CommandAway
<1>2. CASE \E p \in Process : NodeStep(p) /\ UNCHANGED <<run, seen>>
  BY <1>2, NodeAway
<1>3. CASE TasksMove /\ UNCHANGED <<run, seen>>
  BY <1>3, SwarmAway DEF TasksMove
<1>4. CASE SwarmStep /\ UNCHANGED <<stateVars, commandVars, run, seen, plan, assigned>>
  BY <1>4, SwarmAway
<1>5. CASE UNCHANGED skeprVars
  BY <1>5, SwarmAway DEF skeprVars, maintenanceVars
<1> QED
  BY <1>1, <1>2, <1>3, <1>4, <1>5 DEF SkeprNext

LEMMA InitAway == SkeprInit => AwayInv
BY SwarmAssumption
   DEF SkeprInit, MaintenanceInit, Init, SwarmInit, CommandInit, AwayInv, SoleAway, GoesAlone

(* A drain is sent only with every other manager active, seen under the    *)
(* lock, and until it is answered nobody else changes a node.  So at most  *)
(* one manager is ever away, of however many or few there are, whatever    *)
(* the commands race for and wherever they die (when updates are answered  *)
(* in time and operators at most activate the target themselves).          *)
THEOREM AtMostOneAway ==
  ASSUME LateDelivery = FALSE, OutsideStates \subseteq {"active"}
  PROVE  SkeprSpec => []OneManagerAway
<1>1. SkeprSpec => []AwayInv
  <2>1. SkeprInv /\ AwayInv /\ [SkeprNext]_skeprVars => AwayInv'
    BY NextAway
  <2> QED
    BY <2>1, InitAway, SkeprSafety, PTL DEF SkeprSpec
<1>2. ASSUME AwayInv PROVE OneManagerAway
  <2> DEFINE Away == { m \in Manager : availability[m] # "active" }
  <2>1. CASE Away = {}
    BY <2>1, FS_EmptySet DEF OneManagerAway
  <2>2. CASE Away # {}
    <3>1. PICK m : Away = {m}
      BY <1>2, <2>2 DEF AwayInv, SoleAway
    <3> QED
      BY <3>1, FS_Singleton DEF OneManagerAway
  <2> QED
    BY <2>1, <2>2
<1> QED
  BY <1>1, <1>2, PTL

-----------------------------------------------------------------------------
(* WaitInv is inductive, when nobody but the commands changes a node.      *)

(* A wait is entered by an accepted update, and a node is taken for        *)
(* evacuated after a look at its tasks.                                    *)
LEMMA WaitEntered ==
  ASSUME SkeprInv, NEW p \in Process, NodeStep(p), pc'[p] \in DrainWaits \cup ActivateWaits
  PROVE  /\ plan'[p].node = plan[p].node /\ plan'[p].kind = plan[p].kind
         /\ \/ NodeUpdateAccepted(p) /\ pc'[p] \in {"d-nodes", "a-nodes"}
            \/ pc[p] \in DrainWaits \cup ActivateWaits /\ UNCHANGED availability
         /\ pc'[p] \in {"d-nodes-again", "d-services"} =>
              \/ pc[p] \in {"d-nodes-again", "d-services"}
              \/ ~assigned[plan[p].node]
<1> USE DEF DrainWaits, ActivateWaits
<1>1. \A label : Goto(p, label) => pc'[p] = label
  BY DEF Goto, SkeprInv, MaintenanceInv, SafetyInv, TypeOK, CommandTypeOK
<1>2. ~KillNode(p)
  BY <1>1 DEF KillNode, Killed
<1>3. ~Gating(p)
  BY <1>1
     DEF Gating, BeginNode, GateNodes, GateServices, GateServicesAgain, GateBlocks,
         GateInspectFails, LockNode, Lock, EnsureNoActiveOperation, GuardRefuses, NodeExit, Leave
<1>4. UpdatingNode(p) => NodeUpdateAccepted(p)
  BY <1>1
     DEF UpdatingNode, ReadNode, ReadNodeFails, NodeUpdateDelayed, NodeUpdateFails,
         ReportMutationError, Failed, NodeExit, Leave
<1>5. CASE NodeUpdateAccepted(p)
  BY <1>1, <1>5 DEF NodeUpdateAccepted
<1>6. CASE WaitingNode(p)
  <2>1. plan[p] \in Plan /\ plan \in [Process -> Plan]
    BY DEF SkeprInv, NodeTypeOK
  <2>2. CASE EvacuationNodes(p) \/ ActiveNodes(p)
    BY <1>1, <2>1, <2>2 DEF EvacuationNodes, ActiveNodes, SetSafe, swarmVars, Plan
  <2>3. CASE EvacuationTasks(p)
    BY <1>1, <2>3 DEF EvacuationTasks, NodeExit, Leave, Evacuated, swarmVars
  <2>4. CASE AffectedNodes(p) \/ AffectedConverge(p) \/ ActiveServices(p) \/ WaitFails(p)
    BY <1>1, <2>4
       DEF AffectedNodes, AffectedConverge, ActiveServices, WaitFails, Failed, NodeExit, Leave,
           swarmVars
  <2> QED
    BY <1>6, <2>2, <2>3, <2>4 DEF WaitingNode
<1> QED
  BY <1>2, <1>3, <1>4, <1>5, <1>6 DEF NodeStep

(* What a process waits for is left alone by the steps of the others. *)
LEMMA OthersWaitOn ==
  ASSUME SkeprInv, WaitInv, NEW p \in Process, Touches(p), NEW q \in Process, q # p,
         UNCHANGED assigned, pc'[q] = pc[q], plan'[q] = plan[q]
  PROVE  /\ pc'[q] \in DrainWaits \cup ActivateWaits
              => availability'[plan'[q].node] = Wanted(plan'[q].kind)
         /\ pc'[q] \in {"d-nodes-again", "d-services"} => ~assigned'[plan'[q].node]
<1>1. pc[q] \in DrainWaits \cup ActivateWaits => lock = q
  BY DEF SkeprInv, MaintenanceInv, SafetyInv, NoLostUpdate, Unlocked, DrainWaits, ActivateWaits
<1>2. availability' # availability => lock = p
  BY HolderChanges
<1> QED
  BY <1>1, <1>2 DEF WaitInv

LEMMA CommandWait ==
  ASSUME SkeprInv, WaitInv, NEW p \in Process, CommandStep(p), UNCHANGED <<plan, assigned>>
  PROVE  WaitInv'
<1>1. /\ pc'[p] \notin NodeLabels /\ Touches(p)
      /\ \A q \in Process : q # p => pc'[q] = pc[q]
  BY CommandBeside DEF SkeprInv
<1> QED
  BY <1>1, OthersWaitOn DEF WaitInv, DrainWaits, ActivateWaits, NodeLabels

LEMMA NodeWait ==
  ASSUME SkeprInv, WaitInv, NEW p \in Process, NodeStep(p)
  PROVE  WaitInv'
<1>1. PICK label : NodeMove(p, label)
  BY NodeMoves
<1>2. /\ Touches(p) /\ UNCHANGED assigned
      /\ \A q \in Process : q # p => pc'[q] = pc[q] /\ plan'[q] = plan[q]
  BY <1>1, NodeTouches
     DEF NodeMove, Goto, SkeprInv, NodeTypeOK, MaintenanceInv, SafetyInv, TypeOK, CommandTypeOK
<1>3. ASSUME pc'[p] \in DrainWaits \cup ActivateWaits
      PROVE  availability'[plan'[p].node] = Wanted(plan'[p].kind)
  <2>1. CASE NodeUpdateAccepted(p)
    <3>1. PICK u \in nodeUpdates : u.process = p /\ ~u.sent /\ AcceptNodeUpdate(u)
      BY <2>1 DEF NodeUpdateAccepted, UnsentOf
    <3>2. /\ availability' = [availability EXCEPT ![plan[p].node] = Wanted(plan[p].kind)]
          /\ plan[p].node \in Node /\ availability \in [Node -> Availabilities]
      BY <2>1, <3>1, NodeHeld
         DEF NodeUpdateAccepted, AcceptNodeUpdate, Plan, SkeprInv, PlansOwned, MaintenanceInv,
             SafetyInv, TypeOK, SwarmTypeOK
    <3> QED
      BY <1>3, <3>2, WaitEntered
  <2>2. CASE ~NodeUpdateAccepted(p)
    BY <1>3, <2>2, WaitEntered DEF WaitInv
  <2> QED
    BY <2>1, <2>2
<1>4. ASSUME pc'[p] \in {"d-nodes-again", "d-services"}
      PROVE  ~assigned'[plan'[p].node]
  BY <1>2, <1>4, WaitEntered DEF WaitInv, DrainWaits
<1> QED
  BY <1>2, <1>3, <1>4, OthersWaitOn DEF WaitInv

(* Tasks only arrive on a node that is active. *)
LEMMA TasksWait ==
  ASSUME SkeprInv, WaitInv, TasksMove
  PROVE  WaitInv'
<1>1. PICK n \in Node, some \in BOOLEAN :
        /\ some => availability[n] = "active"
        /\ assigned' = [assigned EXCEPT ![n] = some]
        /\ UNCHANGED <<swarmVars, commandVars, plan>>
  BY DEF TasksMove
<1>2. \A q \in Process : pc[q] \in {"d-nodes-again", "d-services"}
                           => availability[plan[q].node] = "drain" /\ plan[q].node \in Node
  BY NodeHeld DEF WaitInv, NodeFits, DrainWaits, Wanted, Plan
<1>3. assigned \in [Node -> BOOLEAN]
  BY DEF SkeprInv, NodeTypeOK
<1> QED
  BY <1>1, <1>2, <1>3 DEF WaitInv, swarmVars, commandVars

LEMMA NextWait ==
  ASSUME SkeprInv, WaitInv, LateDelivery = FALSE, OutsideStates = {},
         [SkeprNext]_skeprVars
  PROVE  WaitInv'
<1>1. CASE \E p \in Process : CommandStep(p) /\ UNCHANGED <<plan, assigned>>
  BY <1>1, CommandWait
<1>2. CASE \E p \in Process : NodeStep(p) /\ UNCHANGED <<run, seen>>
  BY <1>2, NodeWait
<1>3. CASE TasksMove /\ UNCHANGED <<run, seen>>
  BY <1>3, TasksWait
<1>4. CASE \/ SwarmStep /\ UNCHANGED <<stateVars, commandVars, run, seen, plan, assigned>>
           \/ UNCHANGED skeprVars
  <2>1. UNCHANGED <<commandVars, plan, assigned>> /\ (SwarmStep \/ UNCHANGED swarmVars)
    BY <1>4 DEF skeprVars, maintenanceVars
  <2>2. UNCHANGED availability
    BY <2>1, OutsideChanges
  <2> QED
    BY <2>1, <2>2 DEF WaitInv, commandVars
<1> QED
  BY <1>1, <1>2, <1>3, <1>4 DEF SkeprNext

LEMMA InitWait == SkeprInit => WaitInv
BY DEF SkeprInit, MaintenanceInit, Init, CommandInit, WaitInv, DrainWaits, ActivateWaits

(* Only a look at the Swarm ends a node command with success. *)
LEMMA SuccessSteps ==
  ASSUME SkeprInv, NEW p \in Process, NodeStep(p), pc[p] \in NodeLabels, pc'[p] = "idle",
         outcome'[p] = "success"
  PROVE  /\ UNCHANGED <<swarmVars, assigned>>
         /\ \/ pc[p] = "d-tasks" /\ ~assigned[plan[p].node]
            \/ pc[p] \in {"d-services", "a-services"}
<1> USE NodeHeld DEF NodeFits
<1>1. /\ \A label : Goto(p, label) => pc'[p] = label
      /\ \A report : outcome' = [outcome EXCEPT ![p] = report] => outcome'[p] = report
  BY DEF Goto, SkeprInv, MaintenanceInv, SafetyInv, TypeOK, CommandTypeOK
<1>2. ~KillNode(p)
  BY <1>1 DEF KillNode, Killed
<1>3. ~Gating(p)
  BY <1>1
     DEF Gating, BeginNode, GateNodes, GateServices, GateServicesAgain, GateBlocks,
         GateInspectFails, LockNode, Lock, EnsureNoActiveOperation, GuardRefuses, NodeExit, Leave
<1>4. ~UpdatingNode(p)
  BY <1>1
     DEF UpdatingNode, ReadNode, ReadNodeFails, NodeUpdateAccepted, NodeUpdateDelayed,
         NodeUpdateFails, ReportMutationError, Failed, NodeExit, Leave
<1>5. CASE WaitingNode(p)
  BY <1>1, <1>5
     DEF WaitingNode, EvacuationNodes, EvacuationTasks, AffectedNodes, AffectedConverge,
         ActiveNodes, ActiveServices, WaitFails, Failed, NodeExit, Leave, Evacuated
<1> QED
  BY <1>2, <1>3, <1>4, <1>5 DEF NodeStep

(* A drain that reports success leaves its node drained and with no task   *)
(* desired to run there, an activation leaves it active: from the accepted *)
(* update to the report the lock keeps every other command from the node,  *)
(* and no task is assigned to a drained node (when updates are answered in *)
(* time and nobody else changes nodes).                                    *)
THEOREM SuccessIsReal ==
  ASSUME LateDelivery = FALSE, OutsideStates = {}
  PROVE  SkeprSpec => NodeSuccessIsReal
<1> DEFINE Real ==
             \A p \in Process :
               pc[p] \in NodeLabels /\ pc'[p] = "idle" /\ outcome'[p] = "success"
               => /\ availability'[plan[p].node] = Wanted(plan[p].kind)
                  /\ plan[p].kind = "drain" => ~assigned'[plan[p].node]
<1>1. ASSUME SkeprInv, WaitInv, [SkeprNext]_skeprVars
      PROVE  [Real]_skeprVars
  <2>1. ASSUME NEW p \in Process, CommandStep(p)
        PROVE  Real
    BY <1>1, <2>1, CommandBeside DEF SkeprInv, NodeLabels
  <2>2. ASSUME NEW p \in Process, NodeStep(p)
        PROVE  Real
    <3>1. PICK label : NodeMove(p, label)
      BY <1>1, <2>2, NodeMoves
    <3>2. \A q \in Process : q # p => pc'[q] = pc[q]
      BY <1>1, <3>1 DEF NodeMove, Goto, SkeprInv, MaintenanceInv, SafetyInv, TypeOK, CommandTypeOK
    <3>3. ASSUME pc[p] \in NodeLabels, pc'[p] = "idle", outcome'[p] = "success"
          PROVE  /\ availability'[plan[p].node] = Wanted(plan[p].kind)
                 /\ plan[p].kind = "drain" => ~assigned'[plan[p].node]
      BY <1>1, <2>2, <3>3, SuccessSteps, NodeHeld
         DEF WaitInv, NodeFits, DrainWaits, ActivateWaits, swarmVars
    <3> QED
      BY <3>2, <3>3 DEF NodeLabels
  <2>3. CASE UNCHANGED pc
    BY <2>3 DEF NodeLabels
  <2> QED
    BY <1>1, <2>1, <2>2, <2>3
       DEF SkeprNext, TasksMove, commandVars, skeprVars, maintenanceVars
<1>2. SkeprInv /\ WaitInv /\ [SkeprNext]_skeprVars => WaitInv'
  BY NextWait
<1>3. SkeprSpec => [][Real]_skeprVars
  <2> HIDE DEF Real
  <2> QED
    BY <1>1, <1>2, InitWait, SkeprSafety, PTL DEF SkeprSpec
<1> QED
  BY <1>3 DEF NodeSuccessIsReal

-----------------------------------------------------------------------------
(* What was proved of reconcile alone, beside the other commands.  A step  *)
(* of theirs leaves reconcile's runs, its services, its log of attempts    *)
(* and its updates as they are, and moves the phase only on the way back.  *)

BesideStep(p) ==
  /\ pc[p] \notin ReconcileLabels /\ pc'[p] \notin ReconcileLabels
  /\ \A q \in Process : q # p => pc'[q] = pc[q] /\ op'[q] = op[q]
  /\ UNCHANGED <<run, live, updates, applied>>
  /\ disk' \in Operations /\ disk'.attempts = disk.attempts
  /\ disk'.phase # disk.phase =>
       /\ MayMove(disk, disk'.phase)
       /\ disk'.phase \in {"verifying-return"} \cup ActivatedPhases

(* A process that is not about to send a force update gives none up. *)
LEMMA NoneGivenUp ==
  ASSUME MaintenanceInv, NEW p \in Process, pc[p] # "send", LeaveOnItsWay(p) \/ Discard(p)
  PROVE  UNCHANGED <<live, updates, applied>>
<1>1. UnsentOf(p, updates) = {}
  BY DEF UnsentOf, MaintenanceInv, RequestsOwned, ServiceRequest
<1> QED
  BY <1>1 DEF LeaveOnItsWay, Discard, OnItsWay

LEMMA FinishServices ==
  ASSUME MaintenanceInv, NEW p \in Process, FinishStep(p)
  PROVE  UNCHANGED <<live, updates, applied>>
<1>1. CASE ReadTarget(p) \/ ActivationAccepted(p)
  BY <1>1 DEF ReadTarget, ActivationAccepted, ReadNodeVersion, AcceptNodeUpdate
<1>2. CASE ActivationDelayed(p) \/ ActivationFails(p) \/ KillFinish(p)
  BY <1>2, NoneGivenUp DEF ActivationDelayed, ActivationFails, KillFinish, Killed, FinishLabels
<1>3. FinishOpening(p) \/ Returning(p) \/ Verifying(p) \/ ReadTargetFails(p) \/ SaveVerifying(p)
        => UNCHANGED swarmVars
  BY DEF FinishOpening, BeginFinish, Begin, LockFinish, Lock, FinishLockRefused, ReloadFinish,
         FinishPhaseRefused, FinishOpeningFails, Returning, ReturnNodes, ReturnInspectFails,
         ReturnServices, SaveReturn, SaveActivating, SaveOrReturn, Verifying, VerifyNodes,
         VerifyServices, VerifyInspectFails, VerifyTimesOut, SaveCompleted, Fail,
         ReadTargetFails, SaveVerifying
<1> QED
  BY <1>1, <1>2, <1>3 DEF FinishStep, Activating, swarmVars

LEMMA FinishBeside ==
  ASSUME MaintenanceInv, NEW p \in Process, FinishStep(p), UNCHANGED run
  PROVE  BesideStep(p)
<1>1. PICK label, o : FinishMove(p, label, o)
  BY FinishMoves
<1>2. pc[p] \in FinishLabels \cup {"idle"}
  BY FinishStarts
<1>3. /\ pc'[p] = label /\ label \in FinishLabels \cup {"idle"}
      /\ \A q \in Process : q # p => pc'[q] = pc[q] /\ op'[q] = op[q]
  BY <1>1
     DEF FinishMove, CommandMove, Goto, SetOp, MaintenanceInv, SafetyInv, TypeOK, CommandTypeOK
<1> QED
  BY <1>1, <1>2, <1>3, FinishServices
     DEF BesideStep, FinishMove, CommandMove, ReturnStep, PhaseStep, FinishLabels,
         ReconcileLabels, Polling

LEMMA NodeBeside ==
  ASSUME SkeprInv, NEW p \in Process, NodeStep(p), UNCHANGED run
  PROVE  BesideStep(p)
<1>1. PICK label : NodeMove(p, label)
  BY NodeMoves
<1>2. /\ pc'[p] = label /\ disk' = disk /\ disk \in Operations
      /\ label \in NodeLabels \cup {"idle"} /\ pc[p] \in NodeLabels \cup {"idle"}
      /\ \A q \in Process : q # p => pc'[q] = pc[q] /\ op'[q] = op[q]
  BY <1>1
     DEF NodeMove, Goto, SetOp, SkeprInv, MaintenanceInv, SafetyInv, TypeOK, CommandTypeOK
<1>3. MaintenanceInv /\ pc[p] # "send"
  BY <1>2 DEF SkeprInv, NodeLabels
<1>4. UNCHANGED <<live, updates, applied>>
  BY <1>3, NodeRequests, NoneGivenUp
     DEF ReadNode, ReadNodeVersion, NodeUpdateAccepted, AcceptNodeUpdate, swarmVars
<1> QED
  BY <1>2, <1>4 DEF BesideStep, NodeLabels, ReconcileLabels, Polling

LEMMA ReconcileOrBeside ==
  ASSUME SkeprInv, [SkeprNext]_skeprVars
  PROVE  [Next]_vars \/ \E p \in Process : BesideStep(p)
<1>1. CASE \E p \in Process : CommandStep(p)
  BY <1>1, FinishBeside DEF CommandStep, Next, SkeprInv
<1>2. CASE \E p \in Process : NodeStep(p) /\ UNCHANGED <<run, seen>>
  BY <1>2, NodeBeside
<1>3. CASE SwarmStep /\ UNCHANGED <<stateVars, commandVars, run, seen, plan, assigned>>
  BY <1>3 DEF Next, Outside
<1>4. CASE UNCHANGED skeprVars \/ (TasksMove /\ UNCHANGED <<run, seen>>)
  BY <1>4 DEF skeprVars, maintenanceVars, TasksMove, vars
<1> QED
  BY <1>1, <1>2, <1>3, <1>4 DEF SkeprNext

LEMMA BesideDoubt ==
  ASSUME SafetyInv, DoubtInv, NEW p \in Process, BesideStep(p)
  PROVE  DoubtInv'
<1>1. DoubtIn(disk')
  <2>1. disk'.phase # disk.phase => disk.phase # "reconciling" /\ disk'.phase # "reconciling"
    BY DEF BesideStep, ActivatedPhases, MayMove, AllowedTransitions
  <2> QED
    BY <2>1 DEF BesideStep, DoubtInv, DoubtIn, Settled, AllClosed, Resumable, LastAttempt
<1> QED
  BY <1>1 DEF DoubtInv, DoubtFits, BesideStep, ReconcileLabels

LEMMA BesideProven ==
  ASSUME SafetyInv, ProvenInv, NEW p \in Process, BesideStep(p)
  PROVE  ProvenInv'
<1>1. RunFits(pc'[p], run[p], op'[p])
  BY DEF ProvenInv, RunFits, BesideStep, ReconcileLabels, WorkingLabels, Polling
<1> QED
  BY <1>1 DEF ProvenInv, BesideStep

LEMMA BesideCount ==
  ASSUME SafetyInv, CountInv, NEW p \in Process, BesideStep(p)
  PROVE  CountInv'
<1>1. CountIn(disk', live, applied)
  BY DEF CountInv, CountIn, BesideStep
<1>2. \A u \in updates : u.process \in Process
  BY DEF SafetyInv, TypeOK, SwarmTypeOK, Update
<1>3. UpdatesOwned'
  BY <1>2 DEF CountInv, UpdatesOwned, BesideStep, ReconcileLabels
<1>4. AtMostOnce'
  BY DEF CountInv, AtMostOnce, BesideStep
<1>5. IssueFits(pc'[p], op'[p], run[p], applied)
  BY DEF IssueFits, BesideStep, ReconcileLabels
<1> QED
  BY <1>1, <1>3, <1>4, <1>5 DEF CountInv, BesideStep

LEMMA BesideJournal ==
  ASSUME NEW p \in Process, BesideStep(p)
  PROVE  [Journal!JournalNext]_(Journal!journalVars)
BY JournalStutters DEF BesideStep, JournalOf

-----------------------------------------------------------------------------
(* The four commands start where reconcile alone starts, and each of its   *)
(* invariants holds in every state of theirs.                              *)

LEMMA SkeprStartsWithReconcile == SkeprInit => Init
BY DEF SkeprInit, MaintenanceInit

LEMMA SkeprKeepsSafety == SkeprSpec => []SafetyInv
<1>1. SkeprInv => SafetyInv
  BY DEF SkeprInv, MaintenanceInv
<1> QED
  BY <1>1, SkeprSafety, PTL

LEMMA SkeprKeepsDoubt ==
  ASSUME "reconciling" \notin InitialPhases
  PROVE  SkeprSpec => []DoubtInv
<1>1. SkeprInit => DoubtInv
  BY SkeprStartsWithReconcile, InitDoubt
<1>2. SkeprInv /\ DoubtInv /\ [SkeprNext]_skeprVars => DoubtInv'
  BY ReconcileOrBeside, NextDoubt, BesideDoubt DEF SkeprInv, MaintenanceInv
<1> QED
  BY <1>1, <1>2, SkeprSafety, PTL DEF SkeprSpec

LEMMA SkeprKeepsProven == SkeprSpec => []ProvenInv
<1>1. SkeprInit => ProvenInv
  BY SkeprStartsWithReconcile, InitProven
<1>2. SkeprInv /\ ProvenInv /\ [SkeprNext]_skeprVars => ProvenInv'
  BY ReconcileOrBeside, NextProven, BesideProven DEF SkeprInv, MaintenanceInv
<1> QED
  BY <1>1, <1>2, SkeprSafety, PTL DEF SkeprSpec

LEMMA SkeprKeepsCount ==
  ASSUME Orderly
  PROVE  SkeprSpec => []CountInv
<1>1. SkeprInit => CountInv
  BY SkeprStartsWithReconcile, InitCount
<1>2. SkeprInv /\ CountInv /\ [SkeprNext]_skeprVars => CountInv'
  BY ReconcileOrBeside, NextCount, BesideCount DEF SkeprInv, MaintenanceInv
<1> QED
  BY <1>1, <1>2, SkeprSafety, PTL DEF SkeprSpec

-----------------------------------------------------------------------------
(* Whatever the four commands do to each other, the file is what the       *)
(* process with the lock has in memory, no force update is prepared or     *)
(* applied that the file does not announce, and none while the operation   *)
(* is in a phase of finish (the last when updates are answered in time).   *)
THEOREM RecordKeptTogether ==
  /\ SkeprSpec => []NoLostUpdate
  /\ SkeprSpec => []IntentFirst
  /\ LateDelivery = FALSE => (SkeprSpec => []ForceUpdatesConfined)
<1>1. SkeprInv => NoLostUpdate /\ IntentFirst
  BY DEF SkeprInv, MaintenanceInv, SafetyInv
<1>2. LateDelivery = FALSE => (SkeprInv => ForceUpdatesConfined)
  BY ConfinedFits DEF SkeprInv
<1>3. SkeprSpec => []NoLostUpdate
  BY <1>1, SkeprSafety, PTL
<1>4. SkeprSpec => []IntentFirst
  BY <1>1, SkeprSafety, PTL
<1>5. ASSUME LateDelivery = FALSE
      PROVE  SkeprSpec => []ForceUpdatesConfined
  <2>1. SkeprInv => ForceUpdatesConfined
    BY <1>2, <1>5
  <2> QED
    BY <2>1, SkeprSafety, PTL
<1> QED
  BY <1>3, <1>4, <1>5

(* What the file says is in doubt is in doubt and the other way round,     *)
(* with finish moving the phase on and node commands reading it.           *)
THEOREM DoubtRecordedTogether ==
  ASSUME "reconciling" \notin InitialPhases
  PROVE  SkeprSpec => []DoubtRecorded
<1>1. DoubtInv => DoubtRecorded
  BY DEF DoubtInv, DoubtIn, Settled, AllClosed, DoubtRecorded
<1> QED
  BY <1>1, SkeprKeepsDoubt, PTL

(* A first-time force update goes to a service seen at 0/1 with the target *)
(* drained, and maintenance-ready is saved by a run that has seen every    *)
(* affected service converged while the target was drained and found it    *)
(* drained last, beside finish and the node commands too.                  *)
THEOREM ReadyProvenTogether ==
  /\ SkeprSpec => []FreshlyJustified
  /\ SkeprSpec => ReadyIsProven
<1>1. ProvenInv => FreshlyJustified
  BY DEF ProvenInv, RunFits, FreshlyJustified, Current, SeenCurrent
<1> DEFINE ReadySaved == disk.phase # "maintenance-ready" /\ disk'.phase = "maintenance-ready"
                      => \E p \in Process :
                           lock = p /\ run[p].held /\ AffectedServices \subseteq run[p].proven
<1>2. ASSUME SkeprInv, ProvenInv, [SkeprNext]_skeprVars
      PROVE  [ReadySaved]_vars
  <2>1. (\E p \in Process : BesideStep(p)) => ReadySaved
    BY DEF BesideStep, ActivatedPhases
  <2>2. [Next]_vars => ReadySaved
    BY <1>2, ReadyStep DEF SkeprInv, MaintenanceInv
  <2> QED
    BY <1>2, <2>1, <2>2, ReconcileOrBeside
<1>3. SkeprSpec => []FreshlyJustified
  BY <1>1, SkeprKeepsProven, PTL
<1>4. SkeprSpec => [][ReadySaved]_vars
  <2> HIDE DEF ReadySaved
  <2> QED
    BY <1>2, SkeprSafety, SkeprKeepsProven, PTL DEF SkeprSpec
<1> QED
  BY <1>3, <1>4 DEF ReadyIsProven

(* Each attempt is applied at most once and the counter saved with it      *)
(* tells whether it was, however reconcile's runs, finish and the node     *)
(* commands die and resume around it (without late updates, rollbacks and  *)
(* records of other versions).                                             *)
THEOREM AtMostOnceTogether ==
  ASSUME Orderly
  PROVE  SkeprSpec => []AtMostOnce /\ []CounterTells
<1>1. SafetyInv /\ CountInv => AtMostOnce /\ CounterTells
  BY DEF CountInv, CountIn, CounterTells
<1> QED
  BY <1>1, SkeprKeepsSafety, SkeprKeepsCount, PTL

(* The whole program implements the journal of intents: finish and the     *)
(* node commands are stuttering steps of it.                               *)
THEOREM JournalImplementedTogether ==
  ASSUME Orderly
  PROVE  SkeprSpec => ImplementsJournal
<1>1. SkeprInit => Journal!JournalInit
  BY SkeprStartsWithReconcile, JournalStarts
<1>2. SkeprInv /\ CountInv /\ DoubtInv /\ [SkeprNext]_skeprVars
        => [Journal!JournalNext]_(Journal!journalVars)
  BY ReconcileOrBeside, JournalSteps, BesideJournal DEF SkeprInv, MaintenanceInv
<1>3. SkeprSpec => []DoubtInv
  BY SkeprKeepsDoubt DEF Orderly
<1> QED
  BY <1>1, <1>2, <1>3, SkeprSafety, SkeprKeepsCount, PTL
     DEF SkeprSpec, ImplementsJournal, Journal!JournalSpec

(* Every step of the four commands moves the phase on disk as PhaseStep.   *)
LEMMA EverySkeprStepMoves ==
  ASSUME SkeprInv, [SkeprNext]_skeprVars
  PROVE  disk'.phase = disk.phase \/ \E p \in Process : PhaseStep(p)
<1>1. CASE \E p \in Process : CommandStep(p)
  BY <1>1, CommandBeside DEF SkeprInv
<1>2. CASE \E p \in Process : NodeStep(p)
  BY <1>2, NodeMoves DEF NodeMove
<1> QED
  BY <1>1, <1>2
     DEF SkeprNext, TasksMove, skeprVars, maintenanceVars, stateVars

(* The phases on disk follow allowedTransitions, completion rests on what  *)
(* the run with the lock has seen, and a refused finish has requested      *)
(* nothing, with the node commands running beside.                         *)
THEOREM LifecycleTogether ==
  SkeprSpec => LifecycleFollowsTable /\ CompletedIsProven /\ FinishRefusalUntouched
<1> DEFINE Proven == disk.phase # "completed" /\ disk'.phase = "completed"
                       => \E p \in Process : lock = p /\ seen[p] = "active"
           Tabled == disk'.phase # disk.phase => MayMove(disk, disk'.phase)
<1>1. ASSUME SkeprInv, [SkeprNext]_skeprVars
      PROVE  Tabled /\ Proven /\ [RefusedUntouched]_maintenanceVars
  <2>1. Tabled /\ Proven
    BY <1>1, EverySkeprStepMoves DEF PhaseStep
  <2>2. ASSUME NEW p \in Process, NodeStep(p)
        PROVE  RefusedUntouched
    <3>1. PICK label : NodeMove(p, label)
      BY <1>1, <2>2, NodeMoves
    <3>2. \A q \in Process : q # p => pc'[q] = pc[q]
      BY <1>1, <3>1 DEF NodeMove, Goto, SkeprInv, MaintenanceInv, SafetyInv, TypeOK, CommandTypeOK
    <3> QED
      BY <3>1, <3>2 DEF NodeMove, RefusedUntouched, FinishLabels, NodeLabels
  <2>3. UNCHANGED pc => RefusedUntouched
    BY DEF RefusedUntouched, FinishLabels
  <2> QED
    BY <1>1, <2>1, <2>2, <2>3, CommandRefuses
       DEF SkeprInv, SkeprNext, TasksMove, skeprVars, maintenanceVars, commandVars
<1>2. SkeprSpec => [][Tabled]_maintenanceVars
  <2> HIDE DEF Tabled, Proven
  <2> QED
    BY <1>1, SkeprSafety, PTL DEF SkeprSpec
<1>3. SkeprSpec => [][Proven]_maintenanceVars
  <2> HIDE DEF Tabled, Proven
  <2> QED
    BY <1>1, SkeprSafety, PTL DEF SkeprSpec
<1>4. SkeprSpec => [][RefusedUntouched]_maintenanceVars
  <2> HIDE DEF Tabled, Proven
  <2> QED
    BY <1>1, SkeprSafety, PTL DEF SkeprSpec
<1> QED
  BY <1>2, <1>3, <1>4
     DEF LifecycleFollowsTable, CompletedIsProven, FinishRefusalUntouched, RefusedUntouched
=============================================================================
