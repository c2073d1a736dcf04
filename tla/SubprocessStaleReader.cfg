SPECIFICATION Spec
CONSTANTS
  get1 = get1
  get2 = get2
  get3 = get3
  watch1 = watch1
  stop1 = stop1
  watch2 = watch2
  stop2 = stop2
  Free = Free
  None = None
  Calls = {get1, watch1, stop1}
  Streams = {watch1}
  stopFor <- StopOfOne
  within <- NoFunction
  Cancellable = {}
  FrameCap = 1
  InCap = 3
  OutCap = 1
  MaxGen = 2
  MaxEvents = 1
  Faults = {"crash"}
  MaxFaults = 1
  MayClose = FALSE
CHECK_DEADLOCK FALSE
INVARIANT StaleReaderWakes
