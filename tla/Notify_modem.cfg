\* controller.cpp:394 and CommonDefines.h:63-64: 0 is a modem disconnected.
CONSTANTS
  Var <- Modem
  Worker = {w1}
  Main = main
  MaxJobs = 1
  MaxNotices = 1
SPECIFICATION Spec
PROPERTIES ModemConnectsAgain
