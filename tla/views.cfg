\* Two builders of one view, at any step a crash, a failed write, a failed or
\* cancelled scan or a consumer that throws, a channel that fills up, appends
\* between builds and two readers that choose, evict and scan views: answers
\* and trusted views lack no row but those that a swallowed exception or the
\* removal of a chosen view took away, no two builders share a directory, and
\* everybody returns but a build whose consumer has stopped with its channel
\* full.
SPECIFICATION FairSpec
CONSTANTS
  b1 = b1 b2 = b2 r1 = r1 r2 = r2
  Fields = {"name", "dur"}
  Absent = Absent
  Values <- MCValues
  Events <- AllEvents
  Queries <- MCQueries
  NoLo <- Bottom
  NoHi = 100
  Builders = {b1, b2}
  Readers = {r1, r2}
  Plan <- Kept
  Questions <- Asked
  Chunks <- Trace
  Matching <- MCMatching
  Subsumed <- MCSubsumed
  First = 1
  PartSize = 1
  Slots = 1
  Faults = {"crash", "write", "read", "throw"}
  MaxFaults = 1
  NoOne = NoOne
  NoDir = NoDir
INVARIANTS AnswerIsRight OneBuilder RegisteredIsWhole
PROPERTIES EverybodyReturns
