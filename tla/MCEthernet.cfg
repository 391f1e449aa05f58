SPECIFICATION Spec
CONSTANTS
  Word = {0, 1, 2}
  Frame <- MCFrame
  Packet <- MCPacket
  MTU = 2
  Cnt = 3
  MaxTx = 2
INVARIANTS
  EthTypeOK
  NotForgotten
  SendsKept
PROPERTIES
  DeliveredWhole
  SentWhole
  Attended
CHECK_DEADLOCK FALSE
