CONSTANTS
  p1 = p1
  p2 = p2
  r1 = r1
  r2 = r2
  Players <- MCOnePlayer
  Readers <- MCTwoReaders
  NChunks = 2
  Batch = 1
  Readahead = 1
  SaveEvery = 1
  Radix = 2
SPECIFICATION MCFairSpec
PROPERTIES
  ReadsEnd
  CloseEnds
