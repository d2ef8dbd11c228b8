\* Deadlock: a behaviour ends when its commands are used up.
SPECIFICATION Spec
CONSTANTS
  Procs = {c1, c2}
  Worlds <- MCWorlds
SYMMETRY MCSymmetry
INVARIANTS
  TypeOK
  StoresReadable
  OwnedOnce
  NoOrphans
  LinkedProfilesStored
  NamesDistinct
  TunRunsProxyOnly
  OneClientId
PROPERTIES
  FailedCommandChangesNothing
  OthersProfilesStay
  SameIdSameOutbound
CHECK_DEADLOCK FALSE
