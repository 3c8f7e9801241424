SPECIFICATION Spec
CONSTANTS
  Call = {u1, u2}
  Limit <- TwoEach
  MaxIds = 4
SYMMETRY Symmetry
INVARIANTS EntriesDistinct LossNeedsOverlap
PROPERTIES ForgottenForGood
