\* FAIL_FAST: a task that may throw, a combiner that may, a dynamic task, and
\* request_shutdown() of a user, the watchdog's callback and the global
\* timeout racing every step: execute() always returns, with the right
\* verdict.
CONSTANTS
  s = s
  a = a
  b = b
  c = c
  d = d
  e = e
  x = x
  NoTask = NoTask
  Tasks = {s, a, b, x}
  Parents <- Triangle
  Sources <- OneSource
  Outputs <- TriangleOutput
  Dynamic <- TriangleGuest
  FailFast = TRUE
  MayFail = {a}
  BadInput = {b}
  MayInterrupt = TRUE
  HasWatchdog = TRUE
  Timed = TRUE
SPECIFICATION FairSpec
INVARIANTS
  OutcomeIsTrue
PROPERTIES
  ExecuteReturns
