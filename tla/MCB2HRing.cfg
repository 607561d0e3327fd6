CONSTANTS
  evt = evt
  acl = acl
  tight = tight
  odd = odd
  bare = bare
  long = long
  broken = broken
  NoPacket = NoPacket
  BrokenLen = 21
  FwBufSize = 24
  RxBufSize = 12
  NbCount = 1
  StrayLens = {}
  Packets <- Honest
  PayloadLen <- MCPayloadLen
  RealLen <- MCRealLen
  Kind <- MCKind
  Tailroom <- MCTailroom
SPECIFICATION FairSpec
PROPERTIES
  ImplementsPacketStream
  KeepsReading
