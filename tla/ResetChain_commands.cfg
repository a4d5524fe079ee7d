\* Commands and strangers, more than a page holds, failing requests, checks of
\* the links; relay 2 is selected at start by what the memory held.
CONSTANTS
  Relay = {1, 2}
  Text <- MCText
  PageSize = 2
  Keep = 1
  Garbage <- Leftover
  MaxSms = 3
  MaxFailures = 1
  MaxPending = 1
SPECIFICATION Spec
INVARIANTS TypeOK OnlyRequested LatestWins RelaunchNeedsFailure
PROPERTIES Obeyed LastReachesRelays
