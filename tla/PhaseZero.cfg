SPECIFICATION Spec
CONSTANTS
  Parts = {"alerts", "evidence", "deployment"}
  Workers = {w1, w2}
  Attempts = {a1}
  Nothing = Nothing
  Ingresses <- AllTraffic
  Configurations <- TwoEpochs
  Outcomes <- Answers
  Controls <- OneControl
  Corrections <- OneCorrection
  FirstStates <- SomeStates
  LeaseTime = 1
  Week = 2
  Horizon = 1
  MaxRevision = 4
  MaxItems = 14
  Revisions <- CommitsOf
  Callbacks <- SomeCallbacks
  Denied = {"SharedStoreBypass"}
  Authorities = {"route", "scheduler"}
  Fences = {1, 2}
  FenceMax = 2
  RetryLimit = 2
  Environments <- SomeMachines
  MaxGenerations = 2
  MaxEvents = 5
SYMMETRY WorkerSymmetry
INVARIANTS AlertsSafety EvidenceSafety BoundarySafety
PROPERTIES PhaseZeroSteps
CHECK_DEADLOCK FALSE
