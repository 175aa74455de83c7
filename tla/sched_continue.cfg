\* CONTINUE, two branches that fail in every combination and order, a task
\* that hangs on both, and a second call of schedule() among the late steps of
\* the first: nothing runs that should be skipped, everybody is executed,
\* failed or skipped, and no call returns while its tasks run.
CONSTANTS
  s = s
  a = a
  b = b
  c = c
  d = d
  e = e
  x = x
  NoTask = NoTask
  Tasks = {s, a, b, c, d, e}
  Parents <- Lopsided
  Sources <- LopsidedSources
  Outputs <- LopsidedOutputs
  Dynamic <- Nothing
  FailFast = FALSE
  MayFail = {a, b}
  BadInput = {}
  MayInterrupt = FALSE
  HasWatchdog = FALSE
  Timed = FALSE
SPECIFICATION FairSpec
INVARIANTS
  DependenciesRespected
  PendingExact
  ReadsLiveValues
  QuietOnReturn
PROPERTIES
  ResultIsFinal
  EverybodySettles
