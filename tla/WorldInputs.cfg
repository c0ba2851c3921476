CONSTANTS
  Values     <- MCValues
  Canonical  <- MCCanonical
  Claiming   <- MCClaiming
  ValidNames <- MCNames
  Rank       <- MCRank
  NameRank   <- MCNameRank
  Instants   <- MCInstants
  Handler    <- MCHandler
  OtherHandler <- MCOtherHandler
  Paths      <- MCPaths
  Space      <- MCSpace
  MaxBlock   <- MCMaxBlock
  Hash       <- MCHash
  Registry   <- MCRegistry
  NodeOf     <- MCNodeOf
  InitState  <- MCInitState
  Routes     <- MCRoutes
  RouteLimit = 5
  Inputs     <- AnyInputs
  MaxInputs  = 3
  Declared   <- MCDeclared

SPECIFICATION Spec

INVARIANTS Provenance NoAuthorityClaimed StreamIsolation CausesTraced
  AlterationsClassified DivergenceLocated

\* The run ends at the first refused input.
CHECK_DEADLOCK FALSE
