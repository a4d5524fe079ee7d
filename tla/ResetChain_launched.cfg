\* Comment at controller.cpp:319: all of this is launched with SMS.
CONSTANTS
  Relay = {1}
  Text <- OneText
  PageSize = 2
  Keep = 1
  Garbage <- NoRelay
  MaxSms = 1
  MaxFailures = 0
  MaxPending = 1
SPECIFICATION Spec
PROPERTIES LaunchedBySms
