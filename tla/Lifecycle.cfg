\* A main goroutine and another, two runtimes, every fault.
SPECIFICATION FairSpec
CONSTANTS
  main = main
  other = other
  Callers = {main, other}
  Does <- Roles
  NoCaller = NoCaller
  MaxRuntimes = 2
  Faults = {"deadline", "exit", "bus", "fail"}
INVARIANTS NoStrayChild LoopIsAttached StopLeavesNothing
PROPERTIES NotRunningMeansNotDone EndIsExplained StopEndsRuntime CallReturns
