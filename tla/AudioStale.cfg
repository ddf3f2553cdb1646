\* The child is replaced for a new account after a ringtone was chosen.
SPECIFICATION Spec
CONSTANTS
  Sinks = {speaker, headset, dock}
  Sources = {mic, webcam}
  System = System
  DefaultSink = speaker
  DefaultSource = mic
  Requests = {"select", "account"}
  Faults = {}
INVARIANT RingsElsewhereIsFlagged
