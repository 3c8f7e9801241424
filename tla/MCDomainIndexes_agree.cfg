SPECIFICATION IndexSpec
CONSTANTS
  CookieKey = {"a", "b", "c", "d", "e", "f", "g"}
  Letter <- Letters
  Dot = "."
  Blank = {" "}
  WideBlank = {"wide"}
  DomainOf <- SomeDomains
  Flag = {"secure"}
  List <- Lists
  HostName <- Hosts
INVARIANTS IndexValid TrieExact MatchingAgrees
