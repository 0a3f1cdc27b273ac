SPECIFICATION Spec
CONSTANTS
  p1 = p1
  Process = {p1}
  Service = {"db"}
  Affected <- One
  SavedSingleton = {"db"}
  NoCounter = NoCounter
  NoProcess = NoProcess
  LateDelivery = TRUE
  Rollbacks = TRUE
  OutsideStates = {"drain", "pause", "missing"}
  Node = {"n1"}
  Manager = {"n1"}
  Target = "n1"
  MemberStates = {TRUE}
  EndpointStates = {"cluster", "no-control"}
  MaxForce = 1
  MaxAttempts = 2
  InitialPhases = {"waiting-services", "reconciling", "draining"}
INVARIANTS
  FreshlyJustified
PROPERTIES
  ReadyIsProven
CHECK_DEADLOCK FALSE
