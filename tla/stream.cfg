\* Two workers scan three units for one cursor that may narrow the scan, or
\* for two cursors of a shared scan; every one of them may be let go at any
\* moment and reading may fail at any batch.
SPECIFICATION FairSpec
CONSTANTS
  c1 = c1
  f = f
  Workers = {w1, w2}
  Units <- Trace
  UnitBytes <- Sizes
  Cursors = {c1, f}
  Alone = c1
  Framed = f
  Selected <- Asked
  Kept <- Left
  MemoryBudget = 2
  DecodeBudget = 2
  Plenty = 100
INVARIANTS CleanScanHasAllRows RowsArriveOnce BudgetIsExact WholeIsRead
PROPERTIES ScanReturns
\* The system may stop.
CHECK_DEADLOCK FALSE
