CONSTANTS
  StepsMayFail = TRUE
  HalfSteps = TRUE
  Foreign = {"bypassRoute"}
  RuntimeDirKept = TRUE
  RecoverMayOverlap = TRUE
  MaxCrashes = 1
SPECIFICATION Spec
INVARIANTS TypeOK RolledBackLeavesOneStep CommittedRecordIsExact
PROPERTIES IsUndoLog ForeignOutlivesRecords
