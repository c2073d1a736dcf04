SPECIFICATION Spec
CONSTANTS
  get1 = get1
  watch1 = watch1
  stop1 = stop1
  watch2 = watch2
  stop2 = stop2
  Calls = {get1, watch1, stop1, watch2, stop2}
  Streams = {watch1, watch2}
  stopFor <- StopOfTwo
  Cancellable = {watch1, watch2}
  MayRefuse = TRUE
  MaxEvents = 3
CHECK_DEADLOCK FALSE
PROPERTIES KeepsContractUntilRefused
INVARIANTS TypeOK RegistryFollowsWatches
