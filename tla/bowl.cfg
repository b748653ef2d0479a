SPECIFICATION Spec
CONSTANTS
  Top = {"a", "b", "c"}
  Leaf = {"l"}
  Chunk = {"x", "y"}
  Upgrades <- AllUpgrades
  MaxCrashes = 1
INVARIANTS
  RecordedOnce
  CommitIsFaithful
  CommitSucceeds
  NothingLost
  WrittenFilesInPlace
