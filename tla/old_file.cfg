SPECIFICATION Spec
CONSTANTS
  Signed <- SignedFiles
  Disk <- CutAndChanged
  BlockSize = 4
  ChunkSize = 2
  NumEntries = 2
  MaxRead = 3
  MaxFailures = 1
INVARIANTS
  TypeOK
  CacheCoherent
  FindsRoom
  ReadsRight
  ReadsAreGuarded
