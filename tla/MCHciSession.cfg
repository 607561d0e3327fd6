CONSTANTS
  NoPacket = NoPacket
  FwBufSize = 16
  RxBufSize = 8
  Retries = 2
  BusErrors = TRUE
  NbCount = 1
  MaxErrors = 2
  TxPackets <- MCTx
  RxPackets <- MCRx
  TxLen <- MCTxLen
  RxLen <- MCRxLen
SPECIFICATION SFairSpec
INVARIANTS
  STypeOK
  CommandNotForgotten
  AnswersAreAwaited
PROPERTY
  AnsweredUnlessLost
CHECK_DEADLOCK FALSE
