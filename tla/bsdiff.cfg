SPECIFICATION FairDiffSpec
CONSTANTS
  Capacity = 1
  Eoc <- EndOfBlock
  NoMatch <- Nothing
  Slack = 1
  Values = 3
  Cases <- ContentsAndRings
  BlockLen = 4
  PerPartition = 1
INVARIANTS
  DiffIsRight
  InOrder
PROPERTIES
  Settles
