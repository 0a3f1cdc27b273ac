SPECIFICATION Spec
CONSTANTS
  p1 = p1
  Process = {p1}
  Service = {"cache", "db"}
  Affected <- Two
  SavedSingleton = {"cache", "db"}
  NoCounter = NoCounter
  NoProcess = NoProcess
  LateDelivery = FALSE
  Rollbacks = FALSE
  OutsideStates = {"drain"}
  Node = {"n1"}
  Manager = {"n1"}
  Target = "n1"
  MemberStates = {TRUE}
  EndpointStates = {"cluster"}
  MaxForce = 1
  MaxAttempts = 2
  InitialPhases = {"waiting-services"}
INVARIANTS
  FreshlyJustified
PROPERTIES
  ReadyIsProven
  ImplementsJournal
CHECK_DEADLOCK FALSE
