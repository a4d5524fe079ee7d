\* Both programs, every interleaving of frames, slots, checks and ticks.
CONSTANTS
  Peer <- Both
  CntMod = 5
  MaxPending = 1
SPECIFICATION Spec
INVARIANTS TypeOK SilenceIsShown
PROPERTIES AlarmMeansSilence SilenceIsReported
