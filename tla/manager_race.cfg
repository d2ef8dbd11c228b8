CONSTANTS
  None = None
  Requests = {r1, r2}
  Concurrent = TRUE
  ProcessesMayExit = FALSE
  StepsMayFail = FALSE
  HalfSteps = FALSE
  StopsMayFail = FALSE
SPECIFICATION Spec
INVARIANT InactiveMeansClean
