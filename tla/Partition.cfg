CONSTANTS
  RetryLimit = 3
  Values     <- ScenarioValues
  Canonical  <- ScenarioValues
  Claiming   = {}
  ValidNames <- ScenarioNameSet
  Rank       <- ScenarioRank
  NameRank   <- ScenarioNameRank
  Instants   = {0}
  Handler    <- ScenarioHandler
  Paths      <- ScenarioPaths
  Space      = 1
  MaxBlock   = 0
  Hash       <- NoDraw
  Registry   <- Roster
  NodeOf     <- ScenarioNodes
  InitState  <- ScenarioInitial
  Routes     <- ScenarioRoutes
  RouteLimit = 32
  BootInput  <- Boot
  Processes  <- Roster
  MaxRuns    = 3
  MaxSteps   = 32
  MaxEvents  = 32
  Evaluate   <- ScenarioEvaluate
  EmptySignature <- ScenarioPasses

SPECIFICATION Spec

INVARIANTS OneInFlight PartitionDiscovered
