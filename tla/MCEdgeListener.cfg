SPECIFICATION FairSpec
CONSTANTS
  Wildcard = "*"
  Label <- MCLabel
  SiteSets <- MCSiteSets
  Hosts <- MCHosts
  r1 = r1
  Requests = {r1}
INVARIANTS
  TypeOK
  TrieMatchesAttached
  NoOverride
  DispatchCovered
  AttachedHostWins
  SettledRouting
PROPERTIES
  ImplementsSiteTable
  RequestDecided
  StartupCompletes
