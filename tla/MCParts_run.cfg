SPECIFICATION MCSpec
CONSTANTS
  None = None
  Refused = Refused
  Closed = Closed
  Nothing = Nothing
  Rendering = Rendering
  Unsupported = Unsupported
  HashBits = 5
  Seed = 5
  Factor = 3
  Text <- Texts
  NotUnicode = 3
  MaximumText = 2
  MaximumCount = 2
  MaximumEntries = 2
  MaximumFile = 29
  Fault = {0, 1}
  Repairs = 2
  MaximumId = 6
  MaximumEvents = 0
  MaximumSnapshots = 2
  Width = 6
  SIZE_MAX = 63
  SmallestBuffer = 4
  SmallestCollection = 2
  ItemSize = 3
  Chunk = {0, 1, 3, 20, 40, 62, 63}
  Setting = {"confirm", "mask"}
  DEFAULT_SETTINGS <- Defaults
  Tab = {t1, t2}
  Site = {"site"}
  MostCookies = 1
  MaximumWrites = 2
  MaximumUpdates = 3
  MaximumFailures = 1
VIEW Seen
SYMMETRY Symmetry
INVARIANTS ReadOrRefused AcceptedIsOwn LogsKeepNewest GrowthNeverWraps WrongBadgeExplained
PROPERTIES LostChoiceNeedsStaleForm
CHECK_DEADLOCK FALSE
