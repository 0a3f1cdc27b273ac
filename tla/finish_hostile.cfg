SPECIFICATION MaintenanceSpec
CONSTANTS
  p1 = p1
  p2 = p2
  Process = {p1, p2}
  Service = {"db"}
  Affected <- One
  SavedSingleton = {"db"}
  NoCounter = NoCounter
  NoProcess = NoProcess
  LateDelivery = TRUE
  Rollbacks = FALSE
  OutsideStates = {"drain", "active", "missing"}
  Node = {"n1"}
  Manager = {"n1"}
  Target = "n1"
  MemberStates = {TRUE, FALSE}
  EndpointStates = {"cluster", "other-cluster"}
  MaxForce = 0
  MaxAttempts = 0
  InitialPhases = {"maintenance-ready"}
SYMMETRY Symmetry
INVARIANTS
  ActivationDeclared
PROPERTIES
  CompletedIsProven
CHECK_DEADLOCK FALSE
