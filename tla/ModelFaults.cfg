CONSTANTS
  Values     <- MCValues
  Canonical  <- MCValues
  Claiming   = {}
  ValidNames <- MCNames
  Rank       <- MCRank
  NameRank   <- MCNameRank
  Instants   = {0, 1, 2}
  Handler    <- ModelHandler
  Paths      = {}
  Space      = 1
  MaxBlock   = 0
  Hash       <- NoDraw
  Registry   <- FaultRoster
  NodeOf     <- MCNodeOf
  InitState  <- ModelInit
  Routes     <- FaultRoutes
  RouteLimit = 20
  Inputs     <- FaultAndTimerInputs
  MaxInputs  = 4
  Unspecified <- MCUnspecified
  Links      <- MCLinks
  AddressOf  <- MCAddressOf
  Baseline   <- MCBaseline
  BaselineMakes <- MCBaselineMakes
  Vocabulary <- MCVocabulary
  MaxTermNodes = 43
  Masks      <- MCDeclaredMasks
  Policies   <- MCPolicies
  Domains    = {"d", "e"}
  KindsOf    <- FaultKinds
  MembersOf  <- MCMembersOf
  MaskId     <- MCMaskId
  KindOf     <- FaultKindOf
  InnerInit  <- MCInnerInit
  InnerHandler <- MCInner
  MaxQueue   = 0

SPECIFICATION Spec
CONSTRAINTS FewPending OneSubject

INVARIANTS FaultsLand ProcessLifetimes TimersConserved

\* The run ends at the first refused input.
CHECK_DEADLOCK FALSE
