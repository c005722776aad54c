SPECIFICATION Spec
CONSTANTS
  Map = Map
  Null = Null
  Scalar = Scalar
  Paths = {"f", "g"}
  Pem <- MCPem
  Unreadable = "unreadable"
  Missing = "missing"
  SystemCerts = {"s"}
  MaxChanges = 2
  URLs = {"p", "q", "e"}
  OtherURLs = {"", "ftp"}
  NoURLs = {"%"}
  Targets = {"t", "u"}
  Scenarios <- MCScenarios
  MaxCerts = 3
  MaxChain = 4
INVARIANTS
  UserWins
  DefaultsFillIn
  PoolIsCurrent
  LoadOutcomeHasCause
  OutcomeFollowsChains
  ExplicitInOrder
  EnvironmentInPlace
