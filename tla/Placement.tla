------------------------------ MODULE Placement ------------------------------
(***************************************************************************)
(* What skepr concludes from one inventory: where a service may run, what  *)
(* a drain would do, whether a node may go offline or come back, and what  *)
(* is unevenly spread.                                                     *)
(* Source: internal/status/status.go, internal/drain/preview.go,           *)
(* internal/preflight/check.go, internal/rebalance/report.go and the       *)
(* gates of internal/activate/activate.go.                                 *)
(*                                                                         *)
(* CPU and memory are two members of Resource and treated alike.  A        *)
(* platform requirement is the set of the platforms it matches.  No        *)
(* service has placement preferences or generic resources, no two nodes    *)
(* share a name, and the endpoint is a manager of this Swarm.              *)
(***************************************************************************)
EXTENDS Integers, FiniteSets, FiniteSetsExt

CONSTANTS
  Node, Target, Service,
  Task,           \* the replicas (slots) of all services
  ServiceOf,      \* the service each of them belongs to
  Resource,
  EvaluatedKeys,  \* the keys of constraints that skepr understands
  NoNode          \* a task that is assigned to no node

ASSUME PlacementAssumption ==
  /\ IsFiniteSet(Node) /\ IsFiniteSet(Service) /\ IsFiniteSet(Task)
  /\ Target \in Node /\ NoNode \notin Node
  /\ ServiceOf \in [Task -> Service]

VARIABLES
  specs,     \* each service's mode, reserve, limit, ports, constraints, platforms
  nodes,     \* each node's ready, availability, standing, capacity, labels, platform
  tasks      \* where each replica's newest task is, and its state

inventory == <<specs, nodes, tasks>>

-----------------------------------------------------------------------------
(* assessNodePlacement: PassesEvaluatedChecks.  Docker reports a task's    *)
(* host ports once it is running.                                          *)

TasksOn(n) == { k \in Task : tasks[k].node = n /\ tasks[k].state # "ended" }
ServiceTasksOn(s, n) == { k \in TasksOn(n) : ServiceOf[k] = s }

Reserved(n, r) ==
  MapThenSumSet(LAMBDA s : specs[s].reserve[r] * Cardinality(ServiceTasksOn(s, n)), Service)
Available(n, r) == Max({nodes[n].capacity[r] - Reserved(n, r), 0})

PortsOf(ks) == UNION { specs[ServiceOf[k]].ports : k \in ks }
UsedHostPorts(n) == PortsOf({ k \in TasksOn(n) : tasks[k].state = "running" })

(* A label the node lacks equals nothing. *)
Matches(constraint, n) ==
  (constraint.equal) <=> (/\ constraint.key \in DOMAIN nodes[n].labels
                          /\ nodes[n].labels[constraint.key] = constraint.value)

Evaluated(s) == { c \in specs[s].constraints : c.key \in EvaluatedKeys }
Unevaluated(s) == specs[s].constraints \ Evaluated(s)

HasRoom(s, n) ==
  /\ nodes[n].ready
  /\ nodes[n].availability = "active"
  /\ specs[s].platforms # {} => nodes[n].platform \in specs[s].platforms
  /\ \A r \in Resource : specs[s].reserve[r] <= Available(n, r)
  /\ specs[s].limit > 0 => Cardinality(ServiceTasksOn(s, n)) < specs[s].limit

Passes(s, n) ==
  /\ HasRoom(s, n)
  /\ \A c \in Evaluated(s) : Matches(c, n)
  /\ specs[s].ports \cap UsedHostPorts(n) = {}

-----------------------------------------------------------------------------
(* BuildPreview: the gates of CheckNode, and for each replicated service   *)
(* with tasks on the target its destinations and their capacity.           *)

IsManager(n) == nodes[n].standing # "worker"
Managers == { n \in Node : IsManager(n) }
InOffice(n) == nodes[n].standing \in {"leader", "reachable"}

ManagerHealthy(n, availability) ==
  nodes[n].ready /\ nodes[n].availability = availability /\ InOffice(n)

(* A global service is not desired on a node that is drained. *)
Converged(s) ==
  \A k \in Task : ServiceOf[k] = s => tasks[k].state \in {"running", "ended"}
AllConverged == \A s \in Service : Converged(s)

CheckNode ==
  /\ nodes[Target].ready
  /\ nodes[Target].availability = "active"
  /\ \A n \in Managers : ManagerHealthy(n, "active")
  /\ AllConverged

Majority == Cardinality(Managers) \div 2 + 1

(* A fault: half of the managers are taken for a quorum. *)
KeepsHalf ==
  Cardinality({ n \in Managers \ {Target} : ManagerHealthy(n, "active") })
    >= Cardinality(Managers) \div 2

KeepsQuorum ==
  Cardinality({ n \in Managers \ {Target} : ManagerHealthy(n, "active") }) >= Majority

MayGoOffline == IsManager(Target) => nodes[Target].standing = "reachable" /\ KeepsQuorum

Affected == { s \in Service : ServiceTasksOn(s, Target) # {} }
Moving == { s \in Affected : specs[s].mode = "replicated" }
Destinations(s) == { n \in Node \ {Target} : Passes(s, n) }

CapacityBounds(s, n) ==
  {Cardinality(ServiceTasksOn(s, Target))}
    \cup (IF specs[s].limit = 0 THEN {}
          ELSE {Max({specs[s].limit - Cardinality(ServiceTasksOn(s, n)), 0})})
    \cup (IF specs[s].ports = {} THEN {} ELSE {1})

(* A fault: what one task reserves does not bound how many fit. *)
CapacityUndivided(s, n) == Min(CapacityBounds(s, n))

TaskCapacity(s, n) ==
  Min(CapacityBounds(s, n)
      \cup { Available(n, r) \div specs[s].reserve[r] :
             r \in { x \in Resource : specs[s].reserve[x] > 0 } })

EstimatedTaskCapacity(s) ==
  Min({Cardinality(ServiceTasksOn(s, Target)),
       MapThenSumSet(LAMBDA n : TaskCapacity(s, n), Destinations(s))})

SafeToDrain ==
  /\ CheckNode
  /\ \A s \in Affected : specs[s].mode \in {"replicated", "global"}
  /\ \A s \in Moving :
       /\ Destinations(s) # {}
       /\ EstimatedTaskCapacity(s) >= Cardinality(ServiceTasksOn(s, Target))

SafeToTakeOffline == SafeToDrain /\ MayGoOffline

-----------------------------------------------------------------------------
(* BuildSafetyReport of `node activate`, before and after the update. *)

(* A fault: the drained target has to be active already, as every manager. *)
ActivationAllActive(availability) ==
  /\ nodes[Target].ready
  /\ nodes[Target].availability = availability
  /\ \A n \in Managers : ManagerHealthy(n, "active")
  /\ Managers # {}
  /\ AllConverged

ActivationSafe(availability) ==
  /\ nodes[Target].ready
  /\ nodes[Target].availability = availability
  /\ \A n \in Managers :
       ManagerHealthy(n, IF n = Target THEN availability ELSE "active")
  /\ Managers # {}
  /\ AllConverged

-----------------------------------------------------------------------------
(* AssessHealth: `skepr status`.  A drained manager counts as healthy. *)

HealthyManagers == { n \in Managers : nodes[n].ready /\ InOffice(n) }

Healthy ==
  /\ HealthyManagers = Managers
  /\ \A n \in Node : nodes[n].ready
  /\ AllConverged

-----------------------------------------------------------------------------
(* assessService: `skepr rebalance`. *)

TaskCount(s, n) == Cardinality(ServiceTasksOn(s, n))
Considered(s) == { n \in Node : TaskCount(s, n) > 0 \/ Passes(s, n) }
Maximum(s) == Max({ TaskCount(s, n) : n \in Considered(s) })

OverloadedNodes(s) ==
  LET maximum == Maximum(s)
  IN  { n \in Considered(s) : TaskCount(s, n) = maximum /\ maximum > 0 }

(* A fault: a difference of one is taken for an opportunity. *)
AnyLowerNode(s) ==
  LET maximum == Maximum(s)
  IN  { n \in Considered(s) : maximum >= TaskCount(s, n) + 1 /\ Passes(s, n) }

KnownEligibleDestinations(s) ==
  LET maximum == Maximum(s)
  IN  { n \in Considered(s) : maximum >= TaskCount(s, n) + 2 /\ Passes(s, n) }

Opportunity(s) ==
  /\ specs[s].mode = "replicated"
  /\ Converged(s)
  /\ Unevaluated(s) = {}
  /\ KnownEligibleDestinations(s) # {}
=============================================================================
