\* Two attempts after an earlier one the file holds: the second passes the limit.
\* Every fault and every way a runtime ends.
\* No symmetry: a liveness property is checked.
SPECIFICATION FairSpec
CONSTANTS
  Calls = {c1, c2, c3}
  NoCall = NoCall
  IgnoredSlots = 1
  IndexModulus = 2
  Actions = {"dial", "answer", "hangup", "toggle_dnd"}
  Infos = {"registered"}
  Reports = {}
  Impatient = {c1, c2, c3}
  Overtaking = {c1, c2, c3}
  Oversized = {}
  Saved <- OneSaved
  MaxHistory = 2
  MaxLate = 1
  MaxQueue = 0
  Faults = {"timeout", "refused_dial", "disk"}
  Disruptions = {"stop", "exit", "account", "crash"}
INVARIANTS AtMostOneEntry HistoryExtendsDisk
PROPERTIES PersistedHistoryOnlyGrows ShutdownRecordsTrackedCall CallEventuallyCleared
