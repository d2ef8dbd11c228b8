CONSTANTS
  None = None
  Requests = {r1, r2, r3}
  Concurrent = TRUE
  ProcessesMayExit = TRUE
  StepsMayFail = TRUE
  HalfSteps = FALSE
  StopsMayFail = FALSE
SPECIFICATION Spec
SYMMETRY Symmetry
INVARIANTS FailedConnectIsUndone RecordCoversHost RolledBackIsClean
