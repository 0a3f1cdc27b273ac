SPECIFICATION Spec
CONSTANTS
  p1 = p1
  p2 = p2
  Process = {p1, p2}
  Service = {"db"}
  Affected <- One
  SavedSingleton = {"db"}
  NoCounter = NoCounter
  NoProcess = NoProcess
  LateDelivery = FALSE
  Rollbacks = FALSE
  OutsideStates = {"drain", "active"}
  Node = {"n1"}
  Manager = {"n1"}
  Target = "n1"
  MemberStates = {TRUE}
  EndpointStates = {"cluster"}
  MaxForce = 1
  MaxAttempts = 2
  InitialPhases = {"waiting-services"}
SYMMETRY Symmetry
INVARIANTS
  TypeOK
  NoLostUpdate
  IntentFirst
  DoubtRecorded
  AtMostOnce
  CounterTells
  FreshlyJustified
PROPERTIES
  ReadyIsProven
  ImplementsJournal
CHECK_DEADLOCK FALSE
