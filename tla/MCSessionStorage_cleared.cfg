SPECIFICATION Spec
CONSTANTS
  Call = {u1, u2}
  Limit <- TwoEach
  MaxIds = 3
PROPERTIES ClearedStaysCleared
