CONSTANTS
  evt = evt
  acl = acl
  tight = tight
  odd = odd
  bare = bare
  long = long
  broken = broken
  NoPacket = NoPacket
  BrokenLen = 12
  FwBufSize = 16
  RxBufSize = 8
  NbCount = 1
  StrayLens = {}
  Packets <- Few
  PayloadLen <- MCPayloadLen
  RealLen <- MCRealLen
  Kind <- MCKind
  Tailroom <- MCTailroom
SPECIFICATION FairSpec
PROPERTY
  TooLongIsDropped
