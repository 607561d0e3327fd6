CONSTANTS
  cmd = cmd
  evt = evt
  NoPacket = NoPacket
  FwBufSize = 16
  RxBufSize = 8
  Retries = 2
  BusErrors = FALSE
  TxPackets <- MCTx
  RxPackets <- MCRx
  TxLen <- MCTxLen
  RxLen <- MCRxLen
SPECIFICATION FairSpec
PROPERTY
  PublishedIsTaken
CHECK_DEADLOCK FALSE
