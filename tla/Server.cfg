SPECIFICATION Spec
CONSTANTS
  pods = pods
  nodes = nodes
  jobs = jobs
  good = good
  twice = twice
  other = other
  clash = clash
  broken = broken
  None = None
  Refs = {pods, nodes, jobs}
  Configs = {good, twice, other, clash, broken}
  Kinds <- SomeKinds
  Failing = {broken}
  Implements <- Interfaces
  Lists <- SomeLists
  Declares <- SomeVerbs
  Contexts <- SomeContexts
CHECK_DEADLOCK FALSE
INVARIANTS TypeOK WelcomesAreWhole OptionsCross PublishedIsServed
PROPERTIES HandlersStay
