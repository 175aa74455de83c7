\* A worker of the scan throws: the scan ends as if it had succeeded, and the
\* cursor ends without an exception and without the rows of that unit.
SPECIFICATION Spec
CONSTANTS
  c1 = c1
  f = f
  Workers = {w1, w2}
  Units <- Trace
  UnitBytes <- Sizes
  Cursors = {c1, f}
  Alone = c1
  Framed = f
  Selected <- Asked
  Kept <- Left
  MemoryBudget = 2
  DecodeBudget = 2
  Plenty = 100
INVARIANT EndedHasAllRows
\* The system may stop.
CHECK_DEADLOCK FALSE
