\* The child and another peer, a channel that is soon full, every fault.
\* A behaviour ends when the session is over and the bus at its bounds.
SPECIFICATION FairSpec
CONSTANTS
  Child = child
  Peers = {child, other}
  NoOwner = NoOwner
  EventBuffer = 1
  Attempts = 2
  MaxChanges = 2
  MaxReports = 2
  Faults = {"call", "bus", "deadline"}
INVARIANTS OnlyOwnChildIsCommanded RegistrationAgrees
PROPERTIES OwnerLossEndsClient CloseReturns
CHECK_DEADLOCK FALSE
