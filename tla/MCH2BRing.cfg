CONSTANTS
  cmd = cmd
  acl = acl
  full = full
  huge = huge
  NoPacket = NoPacket
  FwBufSize = 32
  TxBufSize = 28
  Packets <- MCPackets
  PayloadLen <- MCPayloadLen

SPECIFICATION Spec

INVARIANTS
  WritesFreeSpace

PROPERTIES
  PublishNeverAliases
  ImplementsPacketStream
