\* One stimulus at a time: the mailboxes behave as a FIFO channel.
CONSTANTS
  MaxFrames = 3
  MaxResponses = 2
  MaxErrors = 1
  MaxRedirects = 1
  MaxQueue = 1
  Garbage <- MCGarbage
  LinkFailures = FALSE
  Paced = TRUE
SPECIFICATION Spec
INVARIANTS PairsMatch
PROPERTIES ImplementsFifo ReplyDelivered
