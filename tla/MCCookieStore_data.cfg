SPECIFICATION Spec
CONSTANTS
  k1 = k1
  f1 = f1
  nan = nan
  blank = blank
  unset = unset
  Key = {k1}
  Field = {f1, nan}
  Spelling = {unset, blank}
  NaN = {nan}
  NoCookie = NoCookie
  Transaction = {t1}
  NoTransaction = NoTransaction
  HistoryLimit = 1
  MaxRevision = 2
  Batch <- RepeatingBatch
  ExternalDiff <- AnyDiff
INVARIANTS RollbackNeverRefused
PROPERTIES RollbackRestores RejectIsReversible
