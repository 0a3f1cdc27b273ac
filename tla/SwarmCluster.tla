---------------------------- MODULE SwarmCluster ----------------------------
(***************************************************************************)
(* The Docker Swarm behind the client interface: what Inspect reads, what  *)
(* ForceUpdateService changes, and everything operators and the scheduler  *)
(* do meanwhile.  The Swarm itself is external; the two mutations are      *)
(* translated from internal/docker/status.go.                              *)
(*                                                                         *)
(* A service's task counts are abstracted to what skepr tells apart:       *)
(*   converged    running = desired                                        *)
(*   stalled      0/1 with no task coming up                               *)
(*   starting     0/1 with a task coming up (skepr sees it as stalled)     *)
(*   unconverged  any other counts, such as 1/2 after a scale              *)
(*   missing      the service was removed                                  *)
(*                                                                         *)
(* An update carries the version it was read at and is rejected when the   *)
(* spec has changed since.  `updates` holds the updates that would still   *)
(* be accepted, so every change of a spec removes that service's updates   *)
(* from it, and no version number is needed.                               *)
(***************************************************************************)
EXTENDS Operation, FiniteSets

CONSTANTS
  Node,            \* the nodes whose availability matters
  Manager,         \* those of them that are managers
  Target,          \* the node the operation maintains
  LateDelivery,    \* may an update be applied after its sender gave up on it?
  Rollbacks,       \* may an operator roll a service back to an older spec?
  OutsideStates,   \* availabilities operators may give the target ("missing": removed)
  EndpointStates,  \* what the Docker endpoint may be connected to
  MemberStates,    \* may node and manager health fail?
  MaxForce,        \* bound on force updates made outside skepr
  MaxAttempts      \* bound on recorded attempts

Availabilities == {"active", "pause", "drain", "missing"}
Endpoints == {"cluster", "other-cluster", "no-control"}

ASSUME SwarmAssumption ==
  /\ Manager \subseteq Node
  /\ Target \in Node
  /\ LateDelivery \in BOOLEAN
  /\ Rollbacks \in BOOLEAN
  /\ OutsideStates \subseteq Availabilities
  /\ EndpointStates \subseteq Endpoints
  /\ MemberStates \subseteq BOOLEAN
  /\ MaxForce \in Nat
  /\ MaxAttempts \in Nat

VARIABLES
  endpoint,      \* "cluster": the operation's Swarm, active and with control
  availability,  \* of each node
  membersWell,   \* the target is ready, every manager ready and reachable
  live,          \* each service's health and its spec's ForceUpdate counter
  updates,       \* service updates read or sent that would still be accepted
  nodeUpdates,   \* the same for updates of a node's availability
  applied        \* observation: updates applied per attempt (2 = two or more)

swarmVars == <<endpoint, availability, membersWell, live, updates, nodeUpdates, applied>>

Healths == {"converged", "stalled", "starting", "unconverged", "missing"}
Conditions == Healths \ {"starting"}
LiveService == [health : Healths, force : Nat]
ServiceView == [condition : Conditions, force : Nat]
Update == [process : Process, service : Service, attempt : Nat, sent : BOOLEAN]
NodeUpdate == [process : Process, node : Node, to : {"active", "drain"}, sent : BOOLEAN]

SwarmTypeOK ==
  /\ endpoint \in Endpoints
  /\ availability \in [Node -> Availabilities]
  /\ membersWell \in BOOLEAN
  /\ live \in [Service -> LiveService]
  /\ updates \in SUBSET Update
  /\ nodeUpdates \in SUBSET NodeUpdate
  /\ applied \in [1..MaxAttempts -> 0..2]

SwarmInit ==
  /\ endpoint \in EndpointStates
  /\ availability = [n \in Node |-> IF n = Target THEN "drain" ELSE "active"]
  /\ membersWell \in MemberStates
  /\ live \in [Service -> [health : {"converged", "stalled", "unconverged"}, force : {0}]]
  /\ updates = {}
  /\ nodeUpdates = {}
  /\ applied = [k \in 1..MaxAttempts |-> 0]

-----------------------------------------------------------------------------
(* What one pass of Inspect reports.  The node list and the service list   *)
(* are separate requests, so callers read them in separate steps.  A       *)
(* service still starting is seen at 0/1.                                  *)

TargetHeld == endpoint = "cluster" /\ availability[Target] = "drain"

ConditionOf(s) == IF live[s].health = "starting" THEN "stalled" ELSE live[s].health

ServiceViews == [s \in Service |-> [condition |-> ConditionOf(s), force |-> live[s].force]]

-----------------------------------------------------------------------------
(* ForceUpdateService and UpdateNodeAvailability: an inspect, then an      *)
(* update with the version and the spec that were read.  Another Swarm     *)
(* knows neither the service nor the node, so it rejects both.             *)

ReadServiceVersion(p, s, k) ==
  /\ endpoint = "cluster"
  /\ live[s].health # "missing"
  /\ updates' = updates \cup {[process |-> p, service |-> s, attempt |-> k, sent |-> FALSE]}
  /\ UNCHANGED <<endpoint, availability, membersWell, live, nodeUpdates, applied>>

ReadNodeVersion(p, n, to) ==
  /\ endpoint = "cluster"
  /\ availability[n] # "missing"
  /\ nodeUpdates' = nodeUpdates \cup {[process |-> p, node |-> n, to |-> to, sent |-> FALSE]}
  /\ UNCHANGED <<endpoint, availability, membersWell, live, updates, applied>>

SpecChanged(s) == updates' = { u \in updates : u.service # s }
NodeSpecChanged(n) == nodeUpdates' = { u \in nodeUpdates : u.node # n }

(* The Swarm accepts a service update: it schedules new tasks. *)
Rescheduled(service) ==
  [health |-> IF service.health = "unconverged" THEN "unconverged" ELSE "starting",
   force  |-> service.force + 1]

AcceptUpdate(u) ==
  /\ u \in updates
  /\ live' = [live EXCEPT ![u.service] = Rescheduled(@)]
  /\ applied' = [applied EXCEPT ![u.attempt] = IF @ = 2 THEN 2 ELSE @ + 1]
  /\ SpecChanged(u.service)
  /\ UNCHANGED <<endpoint, availability, membersWell, nodeUpdates>>

AcceptNodeUpdate(u) ==
  /\ u \in nodeUpdates
  /\ availability' = [availability EXCEPT ![u.node] = u.to]
  /\ NodeSpecChanged(u.node)
  /\ UNCHANGED <<endpoint, membersWell, live, updates, applied>>

UnsentOf(p, requests) == { u \in requests : u.process = p /\ ~u.sent }

(* The request is on its way when its sender times out or loses the link.  *)
OnItsWay(p, requests) ==
  (requests \ UnsentOf(p, requests))
    \cup { [u EXCEPT !.sent = TRUE] : u \in UnsentOf(p, requests) }

LeaveOnItsWay(p) ==
  /\ LateDelivery
  /\ updates' = OnItsWay(p, updates)
  /\ nodeUpdates' = OnItsWay(p, nodeUpdates)
  /\ UNCHANGED <<endpoint, availability, membersWell, live, applied>>

(* The request is rejected, because the version read is no longer current, *)
(* or it is never delivered.                                               *)
Discard(p) ==
  /\ updates' = updates \ UnsentOf(p, updates)
  /\ nodeUpdates' = nodeUpdates \ UnsentOf(p, nodeUpdates)
  /\ UNCHANGED <<endpoint, availability, membersWell, live, applied>>

-----------------------------------------------------------------------------
(* Steps of the Swarm and of its operators. *)

LateUpdate == \E u \in updates : u.sent /\ AcceptUpdate(u)
LateNodeUpdate == \E u \in nodeUpdates : u.sent /\ AcceptNodeUpdate(u)

Converge(s) ==
  /\ live[s].health = "starting"
  /\ live' = [live EXCEPT ![s].health = "converged"]
  /\ UNCHANGED <<endpoint, availability, membersWell, updates, nodeUpdates, applied>>

(* Tasks fail or come up on their own, or an operator scales the service;  *)
(* whether that invalidates an update in flight is left open.              *)
TasksChange(s) ==
  /\ live[s].health # "missing"
  /\ \E h \in {"converged", "stalled", "unconverged"} :
       live' = [live EXCEPT ![s].health = h]
  /\ SpecChanged(s) \/ UNCHANGED updates
  /\ UNCHANGED <<endpoint, availability, membersWell, nodeUpdates, applied>>

RemoveService(s) ==
  /\ live' = [live EXCEPT ![s].health = "missing"]
  /\ SpecChanged(s)
  /\ UNCHANGED <<endpoint, availability, membersWell, nodeUpdates, applied>>

OutsideForceUpdate(s) ==
  /\ live[s].health # "missing"
  /\ live[s].force < MaxForce
  /\ live' = [live EXCEPT ![s] = Rescheduled(@)]
  /\ SpecChanged(s)
  /\ UNCHANGED <<endpoint, availability, membersWell, nodeUpdates, applied>>

Rollback(s) ==
  /\ Rollbacks
  /\ live[s].health # "missing"
  /\ live[s].force > 0
  /\ live' = [live EXCEPT ![s].force = @ - 1]
  /\ SpecChanged(s)
  /\ UNCHANGED <<endpoint, availability, membersWell, nodeUpdates, applied>>

ServiceStep(s) ==
  \/ Converge(s) \/ TasksChange(s) \/ RemoveService(s)
  \/ OutsideForceUpdate(s) \/ Rollback(s)

TargetChanges ==
  /\ availability[Target] # "missing"
  /\ \E a \in OutsideStates : availability' = [availability EXCEPT ![Target] = a]
  /\ NodeSpecChanged(Target)
  /\ UNCHANGED <<endpoint, membersWell, live, updates, applied>>

EndpointChanges ==
  /\ endpoint' \in EndpointStates
  /\ UNCHANGED <<availability, membersWell, live, updates, nodeUpdates, applied>>

MembersChange ==
  /\ membersWell' \in MemberStates
  /\ UNCHANGED <<endpoint, availability, live, updates, nodeUpdates, applied>>

SwarmStep ==
  \/ LateUpdate \/ LateNodeUpdate
  \/ \E s \in Service : ServiceStep(s)
  \/ TargetChanges \/ EndpointChanges \/ MembersChange
=============================================================================
