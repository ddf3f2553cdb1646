\* Every request, with refused commands and failing writes, on every file; the
\* default devices are chosen as such and not by name.
SPECIFICATION Spec
CONSTANTS
  Sinks = {headset}
  Sources = {webcam}
  System = System
  DefaultSink = speaker
  DefaultSource = mic
  Requests = {"select", "apply", "persist", "start", "account"}
  Faults = {"refused", "save"}
INVARIANT SnapshotIsSaved
PROPERTY NoHalfSelection
