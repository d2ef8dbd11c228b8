CONSTANTS
  None = None
  Requests = {r1, r2, r3, r4, r5}
  Concurrent = FALSE
  ProcessesMayExit = FALSE
  StepsMayFail = FALSE
  HalfSteps = FALSE
  StopsMayFail = FALSE
SPECIFICATION Spec
SYMMETRY Symmetry
INVARIANTS InactiveMeansClean ConfigMatchesCore
