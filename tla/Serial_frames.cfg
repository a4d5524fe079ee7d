SPECIFICATION Spec
CONSTANTS
  Width = 4
  Sync1 = 3
  Sync2 = 2
  PeerFrames <- MCPeerFrames
  Acted = {0}
  MsgSize = 2
  MaxNoise = 2
  Tr_Sync1 = 2
  Tr_Sync2 = 3
  Greeting <- MCGreeting
  Messages <- MCMessages
  LanSize = 12
  MaxTold = 3
  RegWidth = 10
  SYNC1 = 9
  SYNC2 = 8
  CardID = 2
  Dummy = 5
  Idle = 0
  Registers = {0, 1}
  Requests <- MCRequests
  MaxResets = 2
INVARIANTS FramesTypeOK HandedAsReceived HandedOnce WireReads RegistersTypeOK ReadReturnsRegister
PROPERTIES Resynchronises FileSpec Recovers
