SPECIFICATION Spec
CONSTANTS
  Client = {c1, c2}
  Key = {k1, k2}
  Cookie = {a, b}
  NoCookie = NoCookie
  NoTransaction = NoTransaction
  NothingSeen = NothingSeen
  MaxVersion = 3
  MaxOperations = 2
SYMMETRY Symmetry
VIEW Read
INVARIANTS VersionsDistinct VersionIdentifiesCookie
CHECK_DEADLOCK FALSE
PROPERTIES ImplementsOptimisticStore
