------------------------------ MODULE NodeCycle ------------------------------
(***************************************************************************)
(* What skepr concludes, put to the test: a node is drained on a safe      *)
(* preview, its tasks find other places, it goes offline and comes back,   *)
(* and is activated again, while operators follow the rebalance report.    *)
(* The commands themselves, their locks and failures are in NodeCommands;  *)
(* here the Swarm's scheduler and agents do what they do, and every step   *)
(* of skepr is one conclusion of Placement.                                *)
(***************************************************************************)
EXTENDS Placement

CONSTANTS
  Inventories     \* the specs, nodes and places of tasks to start from

NodeFields == {"ready", "availability", "standing", "capacity", "labels", "platform"}

IsNodes(ns) == ns = [n \in Node |-> [field \in NodeFields |-> ns[n][field]]]

(* A node offers, and a service reserves, no negative amount; a service    *)
(* without a limit has the limit 0.                                        *)
ASSUME InventoriesAssumption ==
  \A i \in Inventories :
    /\ IsNodes(i.nodes) /\ i.places \in [Task -> Node]
    /\ \A n \in Node : i.nodes[n].capacity \in [Resource -> Nat]
    /\ \A s \in Service : i.specs[s].limit \in Nat /\ i.specs[s].reserve \in [Resource -> Nat]

VARIABLES
  stage,       \* of the target: "before", "drained", "offline", "back", "active"
  preview      \* what the drain's preview said: services moving, safe to take offline

cycleVars == <<inventory, stage, preview>>

Stages == {"before", "drained", "offline", "back", "active"}
States == {"pending", "starting", "running", "ended"}

(* What the scheduler checks: every constraint, and the host ports of      *)
(* every task it has assigned.                                             *)
Fits(s, n) ==
  /\ HasRoom(s, n)
  /\ \A c \in specs[s].constraints : Matches(c, n)
  /\ specs[s].ports \cap PortsOf(TasksOn(n)) = {}

(* Tasks where a scheduler can have put them. *)
WellPlaced ==
  \A n \in Node :
    /\ \A r \in Resource : Reserved(n, r) <= nodes[n].capacity[r]
    /\ \A s \in Service :
         ServiceTasksOn(s, n) # {} =>
           /\ specs[s].limit > 0 => Cardinality(ServiceTasksOn(s, n)) <= specs[s].limit
           /\ \A c \in specs[s].constraints : Matches(c, n)
           /\ specs[s].platforms # {} => nodes[n].platform \in specs[s].platforms
    /\ \A k, l \in TasksOn(n) : k = l \/ PortsOf({k}) \cap PortsOf({l}) = {}

Init ==
  /\ \E i \in Inventories :
       /\ specs = i.specs
       /\ nodes = i.nodes
       /\ tasks = [k \in Task |-> [node |-> i.places[k], state |-> "running"]]
  /\ WellPlaced
  /\ stage = "before"
  /\ preview = [moving |-> {}, offline |-> FALSE]

-----------------------------------------------------------------------------
(* Steps that skepr's conclusions allow. *)

SetTarget(field, value) == nodes' = [nodes EXCEPT ![Target][field] = value]

Drain ==
  /\ stage = "before"
  /\ SafeToDrain
  /\ SetTarget("availability", "drain")
  /\ stage' = "drained"
  /\ preview' = [moving |-> Moving, offline |-> SafeToTakeOffline]
  /\ UNCHANGED <<specs, tasks>>

(* The host is shut down after the drain succeeded, if the preview said    *)
(* that it may be.  A leader would be replaced.                            *)
TakeOffline ==
  /\ stage = "drained" /\ preview.offline
  /\ AllConverged /\ TasksOn(Target) = {}
  /\ stage' = "offline"
  /\ nodes' = [nodes EXCEPT ![Target].ready = FALSE,
                            ![Target].standing = IF @ = "worker" THEN @ ELSE "unreachable"]
  /\ UNCHANGED <<specs, tasks, preview>>

Activate ==
  /\ stage \in {"drained", "back"}
  /\ ActivationSafe("drain")
  /\ SetTarget("availability", "active")
  /\ tasks' = [k \in Task |-> IF tasks[k].state = "ended"
                                THEN [node |-> NoNode, state |-> "pending"] ELSE tasks[k]]
  /\ stage' = "active"
  /\ UNCHANGED <<specs, preview>>

(* An operator makes one task of an overloaded node run on a destination   *)
(* of the report, in a cluster that is otherwise at rest.                  *)
FollowReport ==
  /\ AllConverged
  /\ nodes[Target].availability = "drain" => TasksOn(Target) = {}
  /\ \E s \in Service :
       /\ Opportunity(s)
       /\ \E n \in KnownEligibleDestinations(s) :
            /\ Fits(s, n)
            /\ \E k \in UNION { ServiceTasksOn(s, m) : m \in OverloadedNodes(s) } :
                 tasks' = [tasks EXCEPT ![k] = [node |-> n, state |-> "starting"]]
  /\ UNCHANGED <<specs, nodes, stage, preview>>

-----------------------------------------------------------------------------
(* Steps of the Swarm: a drained node loses its tasks, a replicated one    *)
(* gets another place and starts there; the host returns; raft elects.     *)

Displace(k) ==
  /\ k \in TasksOn(Target) /\ nodes[Target].availability = "drain"
  /\ tasks' = [tasks EXCEPT ![k] =
       IF specs[ServiceOf[k]].mode = "global" THEN [@ EXCEPT !.state = "ended"]
       ELSE [node |-> NoNode, state |-> "pending"]]
  /\ UNCHANGED <<specs, nodes, stage, preview>>

Place(k) ==
  /\ tasks[k].state = "pending"
  /\ \E n \in Node :
       /\ Fits(ServiceOf[k], n)
       /\ tasks' = [tasks EXCEPT ![k] = [node |-> n, state |-> "starting"]]
  /\ UNCHANGED <<specs, nodes, stage, preview>>

Start(k) ==
  /\ tasks[k].state = "starting"
  /\ tasks' = [tasks EXCEPT ![k].state = "running"]
  /\ UNCHANGED <<specs, nodes, stage, preview>>

HostReturns ==
  /\ stage = "offline"
  /\ stage' = "back"
  /\ nodes' = [nodes EXCEPT ![Target].ready = TRUE,
                            ![Target].standing = IF @ = "worker" THEN @ ELSE "reachable"]
  /\ UNCHANGED <<specs, tasks, preview>>

Elect(n) ==
  /\ nodes[n].standing = "reachable"
  /\ nodes' = [m \in Node |->
       CASE m = n -> [nodes[m] EXCEPT !.standing = "leader"]
         [] m # n /\ nodes[m].standing = "leader" -> [nodes[m] EXCEPT !.standing = "reachable"]
         [] OTHER -> nodes[m]]
  /\ UNCHANGED <<specs, tasks, stage, preview>>

SwarmStep ==
  \/ \E k \in Task : Displace(k) \/ Place(k) \/ Start(k)
  \/ HostReturns

Next ==
  \/ Drain \/ TakeOffline \/ Activate
  \/ FollowReport
  \/ SwarmStep
  \/ \E n \in Node : Elect(n)

(* The Swarm keeps working; an operator brings the target back, and goes   *)
(* on following the rebalance report for as long as it suggests a move.    *)
Fairness ==
  /\ WF_cycleVars(SwarmStep)
  /\ WF_cycleVars(Activate)
  /\ WF_cycleVars(FollowReport)

Spec == Init /\ [][Next]_cycleVars /\ Fairness

-----------------------------------------------------------------------------
(* The estimate is per service, and blind to constraints it cannot read.   *)
PreviewComplete ==
  Cardinality(preview.moving) <= 1 /\ \A s \in preview.moving : Unevaluated(s) = {}

(* A drain that the preview calls safe strands no task: in whatever order  *)
(* the tasks leave the target, and wherever the scheduler puts those that  *)
(* left first, there is a place for each of the others.                    *)
EvacuationFits ==
  stage = "drained" /\ PreviewComplete =>
    \A k \in Task : tasks[k].state = "pending" => \E n \in Node : Fits(ServiceOf[k], n)

(* A manager that the preview calls safe to take offline leaves a majority *)
(* of the managers that `skepr status` counts as healthy.                  *)
QuorumOutlivesTarget ==
  stage = "offline" => 2 * Cardinality(HealthyManagers) > Cardinality(Managers)
                       \/ ~IsManager(Target)

(* skepr does not lock a node out: one that it drained passes the checks   *)
(* of its own `node activate`, and the cluster ends up whole.              *)
DrainedNodeReturns ==
  stage = "drained" /\ PreviewComplete ~> stage = "active" /\ Healthy

(* The rebalance report does not send tasks in circles: whoever does what  *)
(* it says comes to a report without an opportunity.                       *)
RebalanceSettles ==
  <>[](AllConverged => \A s \in Service : ~Opportunity(s))
=============================================================================
