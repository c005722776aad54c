SPECIFICATION Spec
CONSTANTS
  r1 = r1
  r2 = r2
  Requests = {r1, r2}
  Hosts = {"a", "b"}
  SNIs = {"s"}
  Certs <- MCCerts
  Configs <- MCConfigs
  Torn = "torn"
SYMMETRY Symmetry
INVARIANTS
  TypeOK
  FixedNameSent
  UndisturbedNameSent
  AnsweredByTarget
