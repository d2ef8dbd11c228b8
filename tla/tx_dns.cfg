CONSTANTS
  StepsMayFail = FALSE
  HalfSteps = FALSE
  Foreign = {}
  RuntimeDirKept = TRUE
  RecoverMayOverlap = FALSE
  MaxCrashes = 1
SPECIFICATION Spec
INVARIANTS RecoveryFinishes
