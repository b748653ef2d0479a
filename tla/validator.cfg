SPECIFICATION FairSpec
CONSTANTS
  Expected <- Contents
  Targets <- AllTargets
  Consumers = {"guardian", "collector", "faulty"}
  Cancellable = TRUE
  BlockSize = 2
  MaxWoundSize = 4
  Capacity = 1
INVARIANTS
  NoSendOnClosed
  TrueVerdict
  AllReported
  ProgressAddsUp
PROPERTIES
  Returns
