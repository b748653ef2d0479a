SPECIFICATION FairSpec
CONSTANTS
  Expected <- Contents
  Targets <- CloseFails
  Consumers = {"collector"}
  Cancellable = FALSE
  BlockSize = 2
  MaxWoundSize = 4
  Capacity = 1
CHECK_DEADLOCK FALSE
PROPERTIES
  Returns
