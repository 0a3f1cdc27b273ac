SPECIFICATION SkeprSpec
CONSTANTS
  p1 = p1
  p2 = p2
  n1 = n1
  n2 = n2
  n3 = n3
  Process = {p1, p2}
  Service = {"db"}
  Affected <- One
  SavedSingleton = {"db"}
  NoCounter = NoCounter
  NoProcess = NoProcess
  LateDelivery = FALSE
  Rollbacks = FALSE
  OutsideStates = {}
  Node = {n1, n2, n3}
  Manager = {n1, n2, n3}
  Target = n1
  MemberStates = {TRUE}
  EndpointStates = {"cluster"}
  MaxForce = 0
  MaxAttempts = 0
  InitialPhases = {"maintenance-ready", "completed"}
SYMMETRY Symmetry
INVARIANTS
  SkeprTypeOK
  OneManagerAway
  ActiveOperationOwnsNodes
PROPERTIES
  NodeSuccessIsReal
  BeforeMutationIsTrue
CHECK_DEADLOCK FALSE
