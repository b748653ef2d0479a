SPECIFICATION FairSpec
CONSTANTS
  Boundary <- StreamBoundary
  NoCheckpoint = NoCheckpoint
  Old <- OldFiles
  Patch <- SavedPatch
  Bowls = {"fresh", "overlay"}
  Skipped = {4}
  EndMarker = 9
  BufSize = 2
  Values = 2
  PowerLoss = {"overlay"}
  MaxCrashes = 2
INVARIANTS
  PatchedFaithfully
  WriterInStep
  CheckpointHolds
  ReaderInStep
  WaitsForSource
PROPERTIES
  Resumable
  ReadsAsClient
  Finishes
