SPECIFICATION Spec
CONSTANTS
  p1 = p1
  Process = {p1}
  Service = {"db"}
  Affected <- One
  SavedSingleton = {"db"}
  NoCounter = NoCounter
  NoProcess = NoProcess
  LateDelivery = TRUE
  Rollbacks = FALSE
  OutsideStates = {"drain", "active"}
  Node = {"n1"}
  Manager = {"n1"}
  Target = "n1"
  MemberStates = {TRUE}
  EndpointStates = {"cluster"}
  MaxForce = 0
  MaxAttempts = 1
  InitialPhases = {"waiting-services"}
INVARIANTS
  AtMostOnce
CHECK_DEADLOCK FALSE
