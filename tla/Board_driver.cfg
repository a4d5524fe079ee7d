SPECIFICATION Spec
CONSTANTS
  Callers = {u1, u2}
  SpiBytes = {0, 1}
  SpiFifo = 1
  Transfers <- MCTransfers
  I2cBytes = {0, 1}
  I2cFifo = 2
  I2cCalls <- MCI2cCalls
  StWidth = 3
  Delays = {0, 4}
  MaxTicks = 3
  Cards = 2
  Watched = 2
  Changing = {1}
  MaxRises = 2
INVARIANTS TransferMovesBytes OkMeansAll DelayLasts
PROPERTIES StopJoins QueuedIsRead
CHECK_DEADLOCK FALSE
