SPECIFICATION FairSpec
CONSTANTS
  MaxRequests = 3
  MaxEvents = 1
  Methods <- AnyMethods
  Connected = FALSE
  MayBreak = TRUE
INVARIANTS TypeOK LinesAreWhole OneLastFrame RegistryIsExact NothingLeftUnsaid
PROPERTIES RequestsAreAnswered StopAfterFrameEndsWatch ReturnsUnlessWatched
