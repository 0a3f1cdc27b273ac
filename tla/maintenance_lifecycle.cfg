SPECIFICATION MaintenanceSpec
CONSTANTS
  p1 = p1
  p2 = p2
  Process = {p1, p2}
  Service = {"db"}
  Affected <- One
  SavedSingleton = {"db"}
  NoCounter = NoCounter
  NoProcess = NoProcess
  LateDelivery = FALSE
  Rollbacks = FALSE
  OutsideStates = {"drain", "active"}
  Node = {"n1"}
  Manager = {"n1"}
  Target = "n1"
  MemberStates = {TRUE}
  EndpointStates = {"cluster"}
  MaxForce = 0
  MaxAttempts = 1
  InitialPhases = {"waiting-services"}
SYMMETRY Symmetry
INVARIANTS
  MaintenanceTypeOK
  ActivationDeclared
  ForceUpdatesConfined
PROPERTIES
  CompletedIsProven
  FinishRefusalUntouched
  LifecycleFollowsTable
CHECK_DEADLOCK FALSE
