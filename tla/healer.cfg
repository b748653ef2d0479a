SPECIFICATION FairSpec
CONSTANTS
  Top = {"a", "f", "s"}
  Leaf = {"l"}
  Chunk = {"x", "y"}
  Wanted <- Wants
  Dirs <- WantedDirs
  Symlinks <- WantedLinks
  Files <- WantedFiles
  Disks <- AnyDisk
  Archives <- AnyArchive
  Locks <- AnyLocks
  Cancellable = TRUE
  Capacity = 2
CHECK_DEADLOCK FALSE
INVARIANTS
  Healed
  Accounted
PROPERTIES
  StaysRight
  LockedUntouched
  Returns
