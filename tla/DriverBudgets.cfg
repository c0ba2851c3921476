CONSTANTS
  Values     <- MCValues
  Canonical  <- MCValues
  Claiming   = {}
  ValidNames <- MCValues
  Rank       <- MCRank
  NameRank   <- MCRank
  Instants   = {0}
  Handler    <- MCHandler
  Paths      <- MCPaths
  Space      = 1
  MaxBlock   = 0
  Hash       <- NoDraw
  Registry   <- MCRegistry
  NodeOf     <- MCNodeOf
  InitState  <- MCInitState
  Routes     <- MCRoutes
  RouteLimit = 20
  BootInput  = "boot"
  Processes  <- MCProcesses
  MaxRuns    = 3
  MaxSteps   = 20
  MaxEvents  = 11
  Evaluate   <- MCEvaluate
  EmptySignature = "empty"

SPECIFICATION Spec

INVARIANTS BudgetsExact DrawnOnce MenusAnswered DiscoveryReplays
PROPERTY RunEnds
