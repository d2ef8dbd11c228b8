\* Deadlock: a behaviour ends when its budgets are used up.
SPECIFICATION CommandsSpec
CONSTANTS
  d1 = d1
  d2 = d2
  Daemons = {d1, d2}
  Recovers = {r1, r2}
  None = None
  MaxTx = 2
  Worlds <- MCWorlds
INVARIANTS
  TypeOK
  OneServer
  SocketIsServers
  PlanCarriesTraffic
  NothingForgotten
  RecoverDoesAllItCan
  RecoverOkMeansClean
  ScanIsCurrent
  CleanExit
  ReportsMissNothing
  CheckLeavesNoProxy
PROPERTIES
  UnitServesAgain
  CheckSparesOthers
CHECK_DEADLOCK FALSE
