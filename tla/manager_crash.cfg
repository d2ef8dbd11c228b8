CONSTANTS
  None = None
  Requests = {r1, r2}
  Concurrent = FALSE
  ProcessesMayExit = TRUE
  StepsMayFail = FALSE
  HalfSteps = FALSE
  StopsMayFail = FALSE
SPECIFICATION Spec
INVARIANT InactiveMeansClean
