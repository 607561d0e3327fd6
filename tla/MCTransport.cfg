CONSTANTS
  cmd = cmd
  evt = evt
  NoPacket = NoPacket
  FwBufSize = 16
  RxBufSize = 8
  Retries = 2
  BusErrors = TRUE
  TxPackets <- MCTx
  RxPackets <- MCRx
  TxLen <- MCTxLen
  RxLen <- MCRxLen
SPECIFICATION FairSpec
INVARIANTS
  NoLostDoorbell
  AwakeUnlessRaced
PROPERTIES
  SendReturns
  SendGoesForward
  TakenUnlessRaced
CHECK_DEADLOCK FALSE
