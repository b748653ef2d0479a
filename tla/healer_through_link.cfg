SPECIFICATION Spec
CONSTANTS
  Top = {"a", "f", "s"}
  Leaf = {"l"}
  Chunk = {"x", "y"}
  Wanted <- LinkedWants
  Dirs <- WantedDirs
  Symlinks <- WantedLinks
  Files <- OnlyFile
  Disks <- ThroughLink
  Archives <- GoodArchive
  Locks <- NoLocks
  Cancellable = FALSE
  Capacity = 2
INVARIANTS
  Healed
