CONSTANTS
  StepsMayFail = TRUE
  HalfSteps = FALSE
  Foreign = {"bypassRoute"}
  RuntimeDirKept = TRUE
  RecoverMayOverlap = FALSE
  MaxCrashes = 0
SPECIFICATION Spec
PROPERTIES RollbackOnlyApplied
