\* Links fail and come back; what is owed once they stay as they are.
CONSTANTS
  MaxFrames = 0
  MaxResponses = 1
  MaxErrors = 1
  MaxRedirects = 1
  MaxQueue = 1
  Garbage = {"other"}
  LinkFailures = TRUE
  Paced = FALSE
SPECIFICATION Spec
PROPERTIES AwareConverges LossReported
