\* Three writers, two addresses, every failure of a call, deaths of programs and
\* power failures.
SPECIFICATION FairSpec
CONSTANTS
  Writers = {w1, w2, w3}
  Contacts = {alice, bob}
  Free = Free
  Garbage = Garbage
  Faults = {"io", "die", "power"}
INVARIANTS SuccessIsDurable LockIsInUse
PROPERTIES NoLostUpdate OperationReturns
