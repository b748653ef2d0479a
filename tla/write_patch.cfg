SPECIFICATION FairSpec
CONSTANTS
  BlockSize = 2
  MaxDataOp = 3
  Modulus = 2
  RediffSizeLimit = 5
  BigBlockSizes = {3, 4}
  Cases <- ContentsOrFailures
INVARIANTS
  PatchIsRight
  RolledIsHash
  UntouchedIsOneRange
  MapsNaturally
  ExplainsBlocks
PROPERTIES
  Returns
