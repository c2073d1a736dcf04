SPECIFICATION FairSpec
CONSTANTS
  MaxRequests = 2
  MaxEvents = 1
  Methods <- ClientMethods
  Connected = TRUE
  MayBreak = FALSE
PROPERTY StopReachesTheWatch
