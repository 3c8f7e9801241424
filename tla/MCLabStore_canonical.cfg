SPECIFICATION Spec
CONSTANTS
  hostRoot = hostRoot
  hostPath = hostPath
  dots3 = dots3
  dots2 = dots2
  dots1 = dots1
  plain = plain
  Cookie = {hostRoot, hostPath}
  Key = {hostRoot, hostPath}
  KeyOf <- Same
  CloneOf <- Same
  Canonical <- HostPathLost
  Candidate = {hostRoot}
  Row = {r1, r2}
  Filter <- All
  Input <- Distinct
  File = {}
  MaximumHistory = 2
PROPERTIES CanonicalizeDeduplicates
