\* Every registration answer and report; no call changes before the session has been told of it, and nothing fails.
SPECIFICATION Spec
CONSTANTS
  Calls = {c1, c2, c3}
  NoCall = NoCall
  IgnoredSlots = 2
  IndexModulus = 2
  Actions = {"dial", "answer", "hangup", "toggle_mute", "toggle_dnd"}
  Infos = {"registered", "failed", "pending", "no_agents", "not_known"}
  Reports = {"REGISTER_OK", "REGISTER_FAIL", "UNREGISTERING"}
  Impatient = {}
  Overtaking = {}
  Oversized = {}
  Saved <- NothingSaved
  MaxHistory = 4
  MaxLate = 0
  MaxQueue = 1
  Faults = {}
  Disruptions = {}
SYMMETRY CallSymmetry
INVARIANTS RecordedMeansOver EveryAttemptRecorded NoOrphanCall MuteAgrees
