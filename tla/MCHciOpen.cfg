CONSTANTS
  VersionLen <- VersionString
  Unit = 4
  MaxChunk = 512
  Window = 4096
  BufSize = 320
  WriteRetries = 3
  ExtendedUnit = 65536
  SegmentUnit = 16
  PollRetries = 2
  Addresses <- MCAddresses
  Blobs <- MCBlobs
  FileLens <- MCFileLens
  Probes <- MCProbes
SPECIFICATION OpenSpec
INVARIANTS
  OpenTypeOK
  LoadedSoFar
  OthersKept
  WholeUnlessCut
  WellFormedLoads
  LiveOnlyWhenReady
  HandsOver
PROPERTIES
  OpenReturns
  OpenGoesForward
CHECK_DEADLOCK FALSE
