SPECIFICATION FairSpec
CONSTANTS
  Names <- MCNames
  Hosts = {"x", "y"}
  Literals = {"0.0.0.0", "10.0.0.1"}
  Unspecified = {"0.0.0.0"}
  Hostnames = {"localhost"}
  Ports = {"80", "81"}
  BusySets <- MCBusySets
  HTTPEdge = "http-edge"
  OtherType = "tcp-edge"
  Configs <- MCConfigs
  Clients = {c1}
INVARIANTS
  TypeOK
  OutcomeFollowsConfig
  ReadyServesEverySite
  ExitCodeTells
  CutHasCause
PROPERTY
  TerminateStops
