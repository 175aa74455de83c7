\* A pool that grows and shrinks between one and two workers, one of two jobs
\* waiting for the other, runs everything and shuts down; with as many waiting
\* jobs as threads it would not.
SPECIFICATION FairSpec
CONSTANTS
  w1 = w1 w2 = w2 w3 = w3
  a = a b = b c = c d = d e = e
  Workers = {w1, w2, w3}
  NumThreads = 2
  MinWorkers = 1
  MaxLive = 2
  Jobs = {a, b}
  Inner <- Pair
  Peeks = 0
  Stops = "idle"
  NoJob = NoJob
  NoWorker = NoWorker
PROPERTIES EveryJobRuns ShutdownReturns
\* The system may stop.
CHECK_DEADLOCK FALSE
