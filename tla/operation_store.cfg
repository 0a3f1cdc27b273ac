SPECIFICATION Spec
CONSTANTS
  p1 = p1
  p2 = p2
  Process = {p1, p2}
  Id = {1, 2}
  Cluster = {"swarm", "other"}
  ClusterOf <- TwoClusters
  NoProcess = NoProcess
  Unreadable = Unreadable
  Nothing = Nothing
  MaxTime = 2
SYMMETRY Symmetry
INVARIANTS
  StoreTypeOK
  AcknowledgedSurvives
  GuardAnswerHolds
  ShowAnswerIsRecent
PROPERTIES
  RegisterImplemented
CHECK_DEADLOCK FALSE
