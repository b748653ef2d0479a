SPECIFICATION Spec
CONSTANTS
  BlockSize = 2
  MaxDataOp = 4
  Modulus = 2
  RediffSizeLimit = 5
  BigBlockSizes = {4}
  Cases <- FreshFile
INVARIANTS
  DataBounded
