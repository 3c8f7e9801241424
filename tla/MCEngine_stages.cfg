SPECIFICATION MCSpec
CONSTANTS
  Id = {1, 2, 3}
  Nameless = {3}
  Sensitive = {2}
  LastDate = 9
  Clock = {1, 2}
  LongLifetime = 2
  MaximumValue = 8
  MaximumDomain = 3
  MaximumPath = 4
  MaximumBytes = 10
  MaximumSegments = 2
  MaximumCookies = 2
  Word = {"u", "v"}
  Host <- TheHosts
  Names <- TheNames
INVARIANTS PrefixRulesHold PathsResolved Idempotent AcceptedStaysValid RemovalsExplained DeniedDomainsStayOut AuditForetells ParsedAsGrouped
CHECK_DEADLOCK FALSE
