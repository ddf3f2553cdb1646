\* Two managers, one of which starts a second child, two callers of Stop, every
\* fault.  The instance ends when all starts are used up.
SPECIFICATION FairSpec
CONSTANTS
  m1 = m1
  m2 = m2
  Managers = {m1, m2}
  Callers = {c1, c2}
  Free = Free
  MaxStarts <- TwiceAndOnce
  Faults = {"bus", "refused", "deadline", "cancel", "exit", "fork"}
INVARIANTS OneChild NotRunningIsGone StoppingHasStopper
PROPERTIES LostLockEndsChild StopReturns
CHECK_DEADLOCK FALSE
