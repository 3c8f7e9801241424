SPECIFICATION Spec
CONSTANTS
  k1 = k1
  f1 = f1
  nan = nan
  blank = blank
  unset = unset
  Key = {k1, k2}
  Field = {f1}
  Spelling = {unset}
  NaN = {}
  NoCookie = NoCookie
  Transaction = {t1, t2}
  NoTransaction = NoTransaction
  HistoryLimit = 2
  MaxRevision = 3
  Batch <- SmallBatch
  ExternalDiff <- AddAndMove
SYMMETRY Symmetry
INVARIANTS HistoryChain RevisionNamesContents
PROPERTIES ImplementsOptimisticStore
