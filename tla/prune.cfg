\* Every file of two chunks of up to three events, cut into slices in every
\* way, and some 300 queries: the chunks that the index rules out have no
\* event that matches, and a view that is said to answer a query has its
\* events.
SPECIFICATION Spec
CONSTANTS
  Fields = {"name", "pid", "dur", "arg", "tag"}
  Absent = Absent
  None = None
  Events <- Lines
  Queries <- MCQueries
  Values <- MCValues
  NoLo <- Bottom
  NoHi = 100
  Extra = {"arg", "tag"}
  AutoFields = {"tag"}
  AutoMaxDistinct = 1
  NumChunks = 2
  MaxRows = 3
  OtherNames = {4}
  ValueCountsCap = 1
  Wide = 16
INVARIANTS PrunerKeepsMatches SlicingIsInvisible SubsumptionIsSound
