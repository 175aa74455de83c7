\* One permit, up to three workers, five jobs of which two wait for others,
\* hand-offs that race returns, somebody who looks at the workers, and a
\* shutdown at any moment: every permit is used by one worker and comes back.
SPECIFICATION Spec
CONSTANTS
  w1 = w1 w2 = w2 w3 = w3
  a = a b = b c = c d = d e = e
  Workers = {w1, w2, w3}
  NumThreads = 1
  MinWorkers = 1
  MaxLive = 3
  Jobs = {a, b, c, d, e}
  Inner <- Nested
  Peeks = 1
  Stops = "any"
  NoJob = NoJob
  NoWorker = NoWorker
INVARIANTS PermitsExact BlockedExact CapRespected
\* The system may stop.
CHECK_DEADLOCK FALSE
