\* Every caller may give up, and be taken for the current call, at any moment.
\* One slot: the ring of ignored ids overflows with two rejected callers.
SPECIFICATION Spec
CONSTANTS
  Calls = {c1, c2, c3}
  NoCall = NoCall
  IgnoredSlots = 1
  IndexModulus = 2
  Actions = {"dial", "answer", "hangup", "toggle_dnd"}
  Infos = {"registered"}
  Reports = {}
  Impatient = {c1, c2, c3}
  Overtaking = {c1, c2, c3}
  Oversized = {}
  Saved <- NothingSaved
  MaxHistory = 4
  MaxLate = 0
  MaxQueue = 0
  Faults = {}
  Disruptions = {}
SYMMETRY CallSymmetry
INVARIANTS TrackedCallIsReal ConnectedIncomingWasAnswered
