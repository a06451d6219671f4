CONSTANTS
  p1 = p1
  p2 = p2
  r1 = r1
  r2 = r2
  Players <- MCOnePlayer
  Readers <- MCOneReader
  NChunks = 3
  Batch = 2
  Readahead = 1
  SaveEvery = 2
  Radix = 2
SPECIFICATION Spec
INVARIANTS
  TypeOK
  IndexTruthful
  PublishedIsStored
  ReadsStored
  LocalPlayIsWhole
  NoRefetch
