SPECIFICATION ProgressSpec
CONSTANTS
  p1 = p1
  Process = {p1}
  Service = {"db"}
  Affected <- One
  SavedSingleton = {"db"}
  NoCounter = NoCounter
  NoProcess = NoProcess
  LateDelivery = FALSE
  Rollbacks = FALSE
  OutsideStates = {"drain", "active"}
  Node = {"n1"}
  Manager = {"n1"}
  Target = "n1"
  MemberStates = {TRUE}
  EndpointStates = {"cluster"}
  MaxForce = 1
  MaxAttempts = 2
  InitialPhases = {"waiting-services"}
PROPERTIES
  OperationCompletes
CHECK_DEADLOCK FALSE
