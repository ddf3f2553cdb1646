----------------------------- MODULE AudioSelection -----------------------------
(***************************************************************************)
(* Choosing the call output, the call input and the ringtone output         *)
(* (selectAudio and its neighbours in internal/session/runtime.go, the      *)
(* audio lines of internal/storage/audio.go).                               *)
(*                                                                         *)
(* A request runs to its end on the run goroutine, so it is one step here,  *)
(* with every outcome its commands and its write can have.  baresip's auplay *)
(* command moves the ringtone along with the call output; nothing moves the *)
(* ringtone alone.                                                          *)
(*                                                                         *)
(*   config           Snapshot.AudioConfig                                  *)
(*   restartRequired  Snapshot.RingtoneRestartRequired                      *)
(*   ringtone         runtime.ringtone, a selection                         *)
(*   file             the three audio lines of ~/.baresip/config, which     *)
(*                    people edit too                                       *)
(*   baresip          the devices the child plays, records and rings on     *)
(***************************************************************************)
EXTENDS Naturals, FiniteSets

CONSTANTS
  Sinks, Sources,              \* PipeWire nodes that selections and files name
  System,                      \* the empty name: the system default
  DefaultSink, DefaultSource,  \* what PipeWire marks as default, named or not
  Requests,                    \* subset of {"select", "apply", "persist", "account", "start"}
  Faults                       \* subset of {"unplug", "refused", "timeout", "restore", "save"}

ASSUME DeviceAssumption ==
  /\ System \notin Sinks \cup Sources \cup {DefaultSink, DefaultSource}
  /\ (Sinks \cup {DefaultSink}) \cap (Sources \cup {DefaultSource}) = {}

VARIABLES config, restartRequired, ringtone, file, baresip,
          saveFailed    \* history: a save has failed and none has succeeded since

vars == <<config, restartRequired, ringtone, file, baresip, saveFailed>>

AudioConfig == [output : Sinks \cup {System}, input : Sources \cup {System}, alert : Sinks \cup {System}]

Lines == [player : Sinks \cup {System}, source : Sources \cup {System}, alert : Sinks \cup {System}]

\* The lines WriteAudioConfig renders: audio_alert repeats the output when no
\* ringtone is set.
device(c) == [player |-> c.output, source |-> c.input,
              alert  |-> IF c.alert = System THEN c.output ELSE c.alert]

\* ReadAudioConfig: an alert line naming the output device, or none, is no ringtone.
ReadAudioConfig(lines) ==
  [output |-> lines.player, input |-> lines.source,
   alert  |-> IF lines.alert = lines.player THEN System ELSE lines.alert]

ringtoneSelection(c) == IF c.alert = System THEN c.output ELSE c.alert

\* A starting baresip takes its devices from the file.
Started(lines) == [player |-> lines.player, source |-> lines.source, ring |-> lines.alert]

-----------------------------------------------------------------------------
(* Node list and validation *)

\* What audio.Lister may report: everything, or less once devices were unplugged.
Nodes == Sinks \cup Sources \cup {DefaultSink, DefaultSource}
NodeLists == IF "unplug" \in Faults THEN SUBSET Nodes ELSE {Nodes}

validateAudioSelection(nodes, names) == names \subseteq nodes \cup {System}

DefaultOf(command) == IF command = "auplay" THEN DefaultSink ELSE DefaultSource

\* liveAudioDevice: System when the default is missing, which is the empty
\* device name and the error of the code in one.
liveAudioDevice(nodes, command, selected) ==
  IF selected # System THEN selected
  ELSE IF DefaultOf(command) \in nodes THEN DefaultOf(command) ELSE System

-----------------------------------------------------------------------------
(* Commands.  An Attempt is the child, runtime.ringtone and the verdict. *)

Outcome(child, ring, ok) == [baresip |-> child, ringtone |-> ring, ok |-> ok]

Switch(child, command, name) ==
  IF command = "auplay"
  THEN [child EXCEPT !.player = name, !.ring = name]
  ELSE [child EXCEPT !.source = name]

noteAudioCommand(ring, command, selected) == IF command = "auplay" THEN selected ELSE ring

\* A command succeeds, is refused, or times out although baresip executed it.
applyAudioCommand(before, command, name, selected, failures) ==
  {Outcome(Switch(before.baresip, command, name),
           noteAudioCommand(before.ringtone, command, selected), TRUE)}
    \cup (IF failures \cap Faults # {} THEN {[before EXCEPT !.ok = FALSE]} ELSE {})
    \cup (IF "timeout" \in Faults
          THEN {Outcome(Switch(before.baresip, command, name), before.ringtone, FALSE)} ELSE {})

\* Definitions named X_... are mutants of X: plausible bugs the runs are shown to
\* catch, used by no other definition.
restoreAudio_Skipped(nodes, failed) == {failed}

\* restoreAudio puts the output back after the input failed; without a device
\* to go back to it does nothing.
restoreAudio(nodes, failed) ==
  LET previous == liveAudioDevice(nodes, "auplay", config.output) IN
  IF previous = System
  THEN {failed}
  ELSE {[o EXCEPT !.ok = FALSE] :
          o \in applyAudioCommand(failed, "auplay", previous, config.output, {"restore"})}

Now == Outcome(baresip, ringtone, TRUE)

SwitchOutput(nodes, c) ==
  IF c.output = config.output THEN {Now}
  ELSE applyAudioCommand(Now, "auplay", liveAudioDevice(nodes, "auplay", c.output), c.output, {"refused"})

SwitchInput(nodes, c, before) ==
  IF ~ before.ok \/ c.input = config.input THEN {before}
  ELSE UNION {IF o.ok \/ c.output = config.output THEN {o} ELSE restoreAudio(nodes, o) :
                o \in applyAudioCommand(before, "ausrc", liveAudioDevice(nodes, "ausrc", c.input),
                                        c.input, {"refused"})}

\* Every change is resolved before the first command is sent.
Resolvable(nodes, c) ==
  /\ c.alert = config.alert \/ validateAudioSelection(nodes, {c.alert})
  /\ c.output # config.output =>
       /\ validateAudioSelection(nodes, {c.output})
       /\ liveAudioDevice(nodes, "auplay", c.output) # System
  /\ c.input # config.input =>
       /\ validateAudioSelection(nodes, {c.input})
       /\ liveAudioDevice(nodes, "ausrc", c.input) # System

SelectOutcomes(nodes, c) ==
  IF Resolvable(nodes, c)
  THEN UNION {SwitchInput(nodes, c, before) : before \in SwitchOutput(nodes, c)}
  ELSE {[Now EXCEPT !.ok = FALSE]}

-----------------------------------------------------------------------------
(* Requests *)

\* atomicWrite fails before its rename, or after it with the file replaced.
FailsToSave(c) ==
  /\ "save" \in Faults
  /\ file' \in {file, device(c)}
  /\ UNCHANGED config
  /\ saveFailed' = TRUE

persistAudio_SkipsUnchanged(c) ==
  \/ /\ file' = IF c = config THEN file ELSE device(c)
     /\ config' = c
     /\ saveFailed' = FALSE
  \/ FailsToSave(c)

\* The file first, then the snapshot, which a failed write leaves alone.
persistAudio(c) ==
  \/ file' = device(c) /\ config' = c /\ saveFailed' = FALSE
  \/ FailsToSave(c)

publishRingtoneState == restartRequired' = (ringtone' # ringtoneSelection(config'))

\* SelectAudio; SelectAudioDevice and SelectRingtone change one field of it.
selectAudio(c) ==
  /\ "select" \in Requests
  /\ c # config
  /\ \E nodes \in NodeLists : \E o \in SelectOutcomes(nodes, c) :
       /\ baresip' = o.baresip
       /\ ringtone' = o.ringtone
       /\ IF o.ok THEN persistAudio(c) ELSE UNCHANGED <<file, config, saveFailed>>
  /\ publishRingtoneState

\* ApplyAudio: both commands, no way back and nothing saved.  A selection that
\* cannot be resolved is refused before anything is sent or published.
applySelectedAudio(c) ==
  /\ "apply" \in Requests
  /\ \E nodes \in NodeLists :
       LET output == liveAudioDevice(nodes, "auplay", c.output)
           input  == liveAudioDevice(nodes, "ausrc", c.input) IN
       /\ validateAudioSelection(nodes, {c.output, c.input, c.alert})
       /\ output # System /\ input # System
       /\ \E o \in applyAudioCommand(Now, "auplay", output, c.output, {"refused"}) :
          \E p \in IF o.ok THEN applyAudioCommand(o, "ausrc", input, c.input, {"refused"}) ELSE {o} :
            baresip' = p.baresip /\ ringtone' = p.ringtone
  /\ UNCHANGED <<file, config, saveFailed>>
  /\ publishRingtoneState

\* PersistAudio: the file and the snapshot only.
requestPersistAudio(c) ==
  /\ "persist" \in Requests
  /\ persistAudio(c)
  /\ UNCHANGED <<restartRequired, ringtone, baresip>>

\* Stop and Start: everything is read from the file again.
Start ==
  /\ "start" \in Requests
  /\ config' = ReadAudioConfig(file)
  /\ ringtone' = ringtoneSelection(config')
  /\ restartRequired' = FALSE
  /\ baresip' = Started(file)
  /\ saveFailed' = FALSE
  /\ UNCHANGED file

\* writeAccount starts another child and leaves the runtime's own record.
RestartForAccount ==
  /\ "account" \in Requests
  /\ baresip' = Started(file)
  /\ UNCHANGED <<config, restartRequired, ringtone, file, saveFailed>>

\* A first start, on a file GoSipTea or its user has written.
Init ==
  /\ file \in Lines
  /\ config = ReadAudioConfig(file)
  /\ ringtone = ringtoneSelection(config)
  /\ restartRequired = FALSE
  /\ baresip = Started(file)
  /\ saveFailed = FALSE

Next ==
  \/ \E c \in AudioConfig : selectAudio(c) \/ applySelectedAudio(c) \/ requestPersistAudio(c)
  \/ Start
  \/ RestartForAccount

Spec == Init /\ [][Next]_vars

-----------------------------------------------------------------------------
(* Properties *)

\* Every variable holds a value of its kind.
TypeOK ==
  /\ config \in AudioConfig
  /\ restartRequired \in BOOLEAN
  /\ ringtone \in Sinks \cup {System}
  /\ file \in Lines
  /\ baresip \in [player : Sinks \cup {System, DefaultSink}, source : Sources \cup {System, DefaultSource},
                  ring : Sinks \cup {System, DefaultSink}]
  /\ saveFailed \in BOOLEAN

Resolved(name, default) == IF name = System THEN default ELSE name

\* The child still rings on the default because the alert line it was started
\* with names no device, while the player line names one.
RingsOnUnnamed == baresip.ring = System /\ ringtone # System

\* The audio view never stays silent while the phone rings somewhere else than
\* the selection says: "RingtoneRestartRequired reports that baresip rings on
\* another device than AudioConfig selects, until GoSipTea starts it again".
\* A child that was started with an alert line without a device is left out.
RingsElsewhereIsFlagged ==
  /\ Resolved(baresip.ring, DefaultSink) # Resolved(ringtoneSelection(config), DefaultSink)
  /\ ~ RingsOnUnnamed
  => restartRequired

PlaysOn(child, c) == Resolved(child.player, DefaultSink) = Resolved(c.output, DefaultSink)
RecordsFrom(child, c) == Resolved(child.source, DefaultSource) = Resolved(c.input, DefaultSource)

\* A selection of both directions moves both or none: whoever finds the output
\* moved to the new device finds the input moved too, for a failure in between
\* has been undone (resolve before the first command, restoreAudio).
NoHalfSelection ==
  [][\A c \in AudioConfig :
       ~ PlaysOn(baresip, c) /\ PlaysOn(baresip', c) /\ c.input # config.input
         /\ Resolved(config.output, DefaultSink) # Resolved(c.output, DefaultSink)
         /\ selectAudio(c)
       => RecordsFrom(baresip', c)]_vars

\* The selection shown is the one the next start will find, unless a save was
\* reported as failed and none has succeeded since: whatever a failed write has
\* left in the file, the next save that succeeds brings the two together again.
SnapshotIsSaved == ~ saveFailed => ReadAudioConfig(file) = ReadAudioConfig(device(config))
================================================================================
