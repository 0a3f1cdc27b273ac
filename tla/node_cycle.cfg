SPECIFICATION Spec
CONSTANTS
  Node = {"n1", "n2", "n3"}
  Target = "n1"
  Service = {"a", "b"}
  Task = {"a1", "a2", "a3", "b1"}
  ServiceOf <- Replicas
  Resource = {"cpu"}
  EvaluatedKeys = {"zone"}
  NoNode = NoNode
  Inventories <- AllInventories
INVARIANTS
  EvacuationFits
  QuorumOutlivesTarget
PROPERTIES
  DrainedNodeReturns
  RebalanceSettles
CHECK_DEADLOCK FALSE
