CONSTANTS
  None = None
  Requests = {r1, r2, r3}
  Concurrent = TRUE
  ProcessesMayExit = TRUE
  StepsMayFail = FALSE
  HalfSteps = FALSE
  StopsMayFail = TRUE
SPECIFICATION FairSpec
PROPERTIES CallsReturn CrashReported
