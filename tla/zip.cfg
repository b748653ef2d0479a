SPECIFICATION FairSpec
CONSTANTS
  Top = {"a", "f", "s"}
  Leaf = {"l"}
  Chunk = {"x", "y"}
  Entries <- Archive
  Disks <- AnyDisk
  Concurrency = {1, 2}
  MaxKills = 1
  MaxFailures = 1
INVARIANTS
  ExtractsAll
PROPERTIES
  EveryCallEnds
