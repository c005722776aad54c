SPECIFICATION Spec
CONSTANTS
  Wildcard = "*"
  NotANumber <- MCNotANumber
  MaxInt = 100
  NotConfigured <- MCNotConfigured
  Ported = "c:80:443"
  HeaderNames = {"Accept-Encoding", "Cookie"}
  AcceptEncoding = "Accept-Encoding"
  Undeclared <- MCUndeclared
  Families <- MCFamilies
INVARIANT
  MatchingSiteServes
