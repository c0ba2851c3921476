CONSTANTS
  Values     <- MCValues
  Canonical  <- MCValues
  Claiming   = {}
  ValidNames <- MCNames
  Rank       <- MCRank
  NameRank   <- MCNameRank
  Instants   = {0}
  Handler    <- ModelHandler
  Paths      = {}
  Space      = 1
  MaxBlock   = 0
  Hash       <- NoDraw
  Registry   <- NetRoster
  NodeOf     <- MCNodeOf
  InitState  <- ModelInit
  Routes     <- MaskRoutes
  RouteLimit = 20
  Inputs     <- NetInputs
  MaxInputs  = 4
  Unspecified <- MCUnspecified
  Links      <- MCLinks
  AddressOf  <- MCAddressOf
  Baseline   <- MCBaseline
  BaselineMakes <- MCBaselineMakes
  Vocabulary <- MCVocabulary
  MaxTermNodes = 43
  Masks      <- MCDeclaredMasks
  Policies   <- MCPolicies
  Domains    = {"d", "e"}
  KindsOf    <- NetKinds
  MembersOf  <- MCMembersOf
  MaskId     <- MCMaskId
  KindOf     <- NetKindOf
  InnerInit  <- MCInnerInit
  InnerHandler <- MCInner
  MaxQueue   = 3

SPECIFICATION Spec
CONSTRAINTS FewPending AheadOfFaults

INVARIANTS NoCrossing PacketsConserved MenusExact WitnessesExhibited

\* The run ends at the first refused input.
CHECK_DEADLOCK FALSE
