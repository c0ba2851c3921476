CONSTANTS
  Values     <- MCValues
  Canonical  <- MCCanonical
  Claiming   <- MCClaiming
  ValidNames <- MCNames
  Rank       <- MCRank
  NameRank   <- MCNameRank
  Instants   <- MCInstants
  Handler    <- MCHandler
  OtherHandler <- MCOtherHandler
  Paths      <- MCPaths
  Space      <- MCSpace
  MaxBlock   <- MCMaxBlock
  Hash       <- MCHash
  Registry   <- MCRegistry
  NodeOf     <- MCNodeOf
  InitState  <- MCInitState
  Routes     <- MCRoutes
  RouteLimit = 8
  Inputs     <- RoutingInputs
  MaxInputs  = 3
  Declared   <- MCDeclared

SPECIFICATION Spec

INVARIANTS DispatchOrder EventsConserved CascadeBounded RoutedOnce ReplayAgrees
PROPERTIES RefusedWhole VerdictsSettle

\* The run ends at the first refused input.
CHECK_DEADLOCK FALSE
