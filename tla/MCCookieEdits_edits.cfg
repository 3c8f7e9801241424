SPECIFICATION Spec
CONSTANTS
  root = root
  sub = sub
  far = far
  v1 = v1
  v2 = v2
  Handler = {h1, h2}
  Key = {root, sub, far}
  Value = {v1, v2}
  None = None
  Reach <- Urls
  InScope <- Scope
  Input <- Inputs
  MaxJobs = 2
  MaxChanges = 1
SYMMETRY Symmetry
INVARIANTS EditLosesNothing ImportKeeps NoFailureMeansGone
CHECK_DEADLOCK FALSE
