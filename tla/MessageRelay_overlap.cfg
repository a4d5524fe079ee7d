\* Frames, a response, a renewal by the pool and checks interleave freely.
CONSTANTS
  MaxFrames = 2
  MaxResponses = 1
  MaxErrors = 0
  MaxRedirects = 1
  MaxQueue = 2
  Garbage <- MCGarbage
  LinkFailures = FALSE
  Paced = FALSE
SPECIFICATION Spec
INVARIANTS TypeOK InOrder NoAmplification
