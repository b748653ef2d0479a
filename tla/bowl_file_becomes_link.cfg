SPECIFICATION Spec
CONSTANTS
  Top = {"a", "b"}
  Leaf = {"l"}
  Chunk = {"x", "y"}
  Upgrades <- FileBecomesLink
  MaxCrashes = 0
INVARIANTS
  InPlaceCommit
