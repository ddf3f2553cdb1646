\* A caller gives up while the session is turning it away.
SPECIFICATION Spec
CONSTANTS
  Calls = {c1, c2, c3}
  NoCall = NoCall
  IgnoredSlots = 2
  IndexModulus = 4
  Actions = {"dial", "answer", "hangup", "toggle_mute", "toggle_dnd"}
  Infos = {"registered"}
  Reports = {}
  Impatient = {c1, c2, c3}
  Overtaking = {}
  Oversized = {}
  Saved <- NothingSaved
  MaxHistory = 4
  MaxLate = 0
  MaxQueue = 0
  Faults = {}
  Disruptions = {}
SYMMETRY CallSymmetry
INVARIANT RecordedMeansOver
