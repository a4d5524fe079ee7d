\* Comment at controller.cpp:539: the alarm is AQC_KeepAlive_NotRcv.
CONSTANTS
  Peer <- OnlyAqc
  CntMod = 6
  MaxPending = 1
SPECIFICATION Spec
PROPERTIES AlarmMeansNotReceived
