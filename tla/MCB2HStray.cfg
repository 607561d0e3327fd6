CONSTANTS
  evt = evt
  acl = acl
  tight = tight
  odd = odd
  bare = bare
  long = long
  broken = broken
  NoPacket = NoPacket
  BrokenLen = 9
  FwBufSize = 24
  RxBufSize = 12
  NbCount = 1
  StrayLens = {0, 3, 12, 17, 25}
  Packets <- Dirty
  PayloadLen <- MCPayloadLen
  RealLen <- MCRealLen
  Kind <- MCKind
  Tailroom <- MCTailroom

SPECIFICATION Spec

INVARIANTS
  NoBufferLeak
  CopyInBounds

PROPERTY
  OutNeverPassesIn
