-------------------------- MODULE AudioSelectionProofs --------------------------
(***************************************************************************)
(* AudioSelection for any devices and any file to start with: type         *)
(* correctness; that the file and the selection shown part only by a save   *)
(* reported as failed; the ringtone hint where the three things that break  *)
(* it are left out (an account restart, PersistAudio, a command that is      *)
(* executed although it timed out) and the one kind of file that it does not *)
(* see; and that a selection moves both directions or none where a failure  *)
(* can be undone.                                                          *)
(***************************************************************************)
EXTENDS AudioSelection, TLAPS

Outputs == Sinks \cup {System}
Inputs  == Sources \cup {System}

\* A device in use may be a default that no selection names.
Players   == Outputs \cup {DefaultSink}
Recorders == Inputs \cup {DefaultSource}
Devices == [player : Players, source : Recorders, ring : Players]
Attempts == [baresip : Devices, ringtone : Outputs, ok : BOOLEAN]

\* The runtime's record names the device the child rings on, or a device of the
\* player line above an alert line that names none.
Known(child, ring) ==
  \/ Resolved(child.ring, DefaultSink) = Resolved(ring, DefaultSink)
  \/ child.ring = System /\ ring # System

KnownAttempt(o) == Known(o.baresip, o.ringtone)

\* The published flag is never behind the runtime's record after a request, the
\* failing ones included (the deferred publishRingtoneState).
FlagIsCurrent == restartRequired <=> ringtone # ringtoneSelection(config)

Undisturbed ==
  /\ Requests \cap {"account", "persist"} = {}
  /\ "timeout" \notin Faults

-----------------------------------------------------------------------------
(* Commands *)

\* What a successful or timed out command leaves behind.
LEMMA OutputCommand ==
  ASSUME NEW before \in Attempts, NEW name \in Players, NEW selected \in Outputs, NEW failures,
         NEW o \in applyAudioCommand(before, "auplay", name, selected, failures)
  PROVE  /\ o \in Attempts
         /\ (/\ "timeout" \notin Faults /\ KnownAttempt(before)
             /\ name = Resolved(selected, DefaultSink) /\ name # System)
            => KnownAttempt(o)
<1> DEFINE child == [before.baresip EXCEPT !.player = name, !.ring = name]
<1>1. child \in Devices /\ child.ring = name
  BY DEF Devices, Attempts
<1>2. \/ o = Outcome(child, selected, TRUE)
      \/ o = [before EXCEPT !.ok = FALSE]
      \/ "timeout" \in Faults /\ o = Outcome(child, before.ringtone, FALSE)
  BY DEF applyAudioCommand, Switch, noteAudioCommand
<1> HIDE DEF child
<1>3. CASE o = Outcome(child, selected, TRUE)
  BY <1>1, <1>3 DEF Outcome, Attempts, KnownAttempt, Known, Resolved
<1>4. CASE o = [before EXCEPT !.ok = FALSE]
  BY <1>4 DEF Attempts, KnownAttempt
<1>5. CASE "timeout" \in Faults /\ o = Outcome(child, before.ringtone, FALSE)
  BY <1>1, <1>5 DEF Outcome, Attempts
<1> QED
  BY <1>2, <1>3, <1>4, <1>5

LEMMA InputCommand ==
  ASSUME NEW before \in Attempts, NEW name \in Recorders, NEW selected \in Inputs, NEW failures,
         NEW o \in applyAudioCommand(before, "ausrc", name, selected, failures)
  PROVE  /\ o \in Attempts
         /\ KnownAttempt(before) => KnownAttempt(o)
<1> DEFINE child == [before.baresip EXCEPT !.source = name]
<1>1. child \in Devices /\ child.ring = before.baresip.ring
  BY DEF Devices, Attempts
<1>2. \/ \E ok \in BOOLEAN : o = Outcome(child, before.ringtone, ok)
      \/ o = [before EXCEPT !.ok = FALSE]
  BY DEF applyAudioCommand, Switch, noteAudioCommand
<1> HIDE DEF child
<1>3. ASSUME NEW ok \in BOOLEAN, o = Outcome(child, before.ringtone, ok)
      PROVE  o \in Attempts /\ (KnownAttempt(before) => KnownAttempt(o))
  BY <1>1, <1>3 DEF Outcome, Attempts, KnownAttempt, Known
<1>4. CASE o = [before EXCEPT !.ok = FALSE]
  BY <1>4 DEF Attempts, KnownAttempt
<1> QED
  BY <1>2, <1>3, <1>4

\* The device of a selection, or System when there is none.
LEMMA LiveDevice ==
  ASSUME NEW nodes
  PROVE  /\ \A name \in Outputs :
              LET live == liveAudioDevice(nodes, "auplay", name) IN
              /\ live \in Players
              /\ live # System => live = Resolved(name, DefaultSink)
         /\ \A name \in Inputs : liveAudioDevice(nodes, "ausrc", name) \in Recorders
  BY DeviceAssumption DEF liveAudioDevice, DefaultOf, Outputs, Inputs, Players, Recorders, Resolved

\* The way back after a failed input.
LEMMA RestoreOutput ==
  ASSUME config \in AudioConfig, NEW nodes, NEW failed \in Attempts,
         NEW o \in restoreAudio(nodes, failed)
  PROVE  /\ o \in Attempts
         /\ "timeout" \notin Faults /\ KnownAttempt(failed) => KnownAttempt(o)
<1> DEFINE previous == liveAudioDevice(nodes, "auplay", config.output)
<1>1. config.output \in Outputs
  BY DEF AudioConfig, Outputs
<1>2. previous \in Players /\ (previous # System => previous = Resolved(config.output, DefaultSink))
  BY <1>1, LiveDevice
<1> HIDE DEF previous
<1>3. CASE previous = System
  BY <1>3 DEF restoreAudio, previous
<1>4. CASE previous # System
  <2>1. PICK p \in applyAudioCommand(failed, "auplay", previous, config.output, {"restore"}) :
          o = [p EXCEPT !.ok = FALSE]
    BY <1>4 DEF restoreAudio, previous
  <2>2. p \in Attempts /\ ("timeout" \notin Faults /\ KnownAttempt(failed) => KnownAttempt(p))
    BY <1>1, <1>2, <1>4, OutputCommand
  <2> QED
    BY <2>1, <2>2 DEF Attempts, KnownAttempt
<1> QED
  BY <1>3, <1>4

-----------------------------------------------------------------------------
(* Selections *)

LEMMA NowType ==
  ASSUME baresip \in Devices, ringtone \in Outputs
  PROVE  Now \in Attempts /\ (Known(baresip, ringtone) => KnownAttempt(Now))
  BY DEF Now, Outcome, Attempts, KnownAttempt

\* selectAudio, up to the write: whatever fails, the record stays right.
LEMMA SelectOutcome ==
  ASSUME config \in AudioConfig, baresip \in Devices, ringtone \in Outputs,
         NEW nodes, NEW c \in AudioConfig, NEW o \in SelectOutcomes(nodes, c)
  PROVE  /\ o \in Attempts
         /\ "timeout" \notin Faults /\ Known(baresip, ringtone) => KnownAttempt(o)
<1> DEFINE Good(a) == /\ a \in Attempts
                      /\ "timeout" \notin Faults /\ Known(baresip, ringtone) => KnownAttempt(a)
<1>1. c.output \in Outputs /\ c.input \in Inputs
  BY DEF AudioConfig, Outputs, Inputs
<1>2. Good(Now)
  BY NowType
<1>3. CASE ~ Resolvable(nodes, c)
  <2>1. o = [Now EXCEPT !.ok = FALSE]
    BY <1>3 DEF SelectOutcomes
  <2> QED
    BY <1>2, <2>1 DEF Attempts, KnownAttempt
<1>4. CASE Resolvable(nodes, c)
  <2>1. PICK before \in SwitchOutput(nodes, c) : o \in SwitchInput(nodes, c, before)
    BY <1>4 DEF SelectOutcomes
  <2>2. Good(before)
    <3>1. CASE c.output = config.output
      BY <1>2, <2>1, <3>1 DEF SwitchOutput
    <3>2. CASE c.output # config.output
      <4> DEFINE name == liveAudioDevice(nodes, "auplay", c.output)
      <4>1. name \in Players /\ name # System /\ name = Resolved(c.output, DefaultSink)
        BY <1>1, <1>4, <3>2, LiveDevice DEF Resolvable
      <4>2. before \in applyAudioCommand(Now, "auplay", name, c.output, {"refused"})
        BY <2>1, <3>2 DEF SwitchOutput
      <4> HIDE DEF name
      <4> QED
        BY <1>1, <1>2, <4>1, <4>2, OutputCommand
    <3> QED
      BY <3>1, <3>2
  <2>3. CASE ~ before.ok \/ c.input = config.input
    BY <2>1, <2>2, <2>3 DEF SwitchInput
  <2>4. CASE ~ (~ before.ok \/ c.input = config.input)
    <3> DEFINE name == liveAudioDevice(nodes, "ausrc", c.input)
    <3>1. name \in Recorders
      BY <1>1, LiveDevice
    <3> HIDE DEF name
    <3>2. PICK p \in applyAudioCommand(before, "ausrc", name, c.input, {"refused"}) :
            o \in IF p.ok \/ c.output = config.output THEN {p} ELSE restoreAudio(nodes, p)
      BY <2>1, <2>4 DEF SwitchInput, name
    <3>3. Good(p)
      BY <1>1, <2>2, <3>1, <3>2, InputCommand
    <3> QED
      BY <3>2, <3>3, RestoreOutput
  <2> QED
    BY <2>3, <2>4
<1> QED
  BY <1>3, <1>4

-----------------------------------------------------------------------------
(* The invariant *)

AudioInv ==
  /\ TypeOK
  /\ SnapshotIsSaved
  /\ Undisturbed => Known(baresip, ringtone) /\ FlagIsCurrent

\* Reading a file and writing what was read changes nothing that is read, and a
\* child started on it rings where the record says, unless the alert line names
\* no device while the player line does.
LEMMA FileIsRead ==
  ASSUME NEW lines \in Lines
  PROVE  /\ ReadAudioConfig(lines) \in AudioConfig
         /\ ReadAudioConfig(device(ReadAudioConfig(lines))) = ReadAudioConfig(lines)
         /\ ringtoneSelection(ReadAudioConfig(lines)) \in Outputs
         /\ Started(lines) \in Devices
         /\ Known(Started(lines), ringtoneSelection(ReadAudioConfig(lines)))
<1>1. PICK player \in Outputs, source \in Inputs, alert \in Outputs :
        lines = [player |-> player, source |-> source, alert |-> alert]
  BY DEF Lines, Outputs, Inputs
<1>2. ReadAudioConfig(lines) =
        [output |-> player, input |-> source, alert |-> IF alert = player THEN System ELSE alert]
  BY <1>1 DEF ReadAudioConfig
<1>3. ReadAudioConfig(lines) \in AudioConfig /\ ringtoneSelection(ReadAudioConfig(lines)) \in Outputs
  BY <1>2 DEF AudioConfig, Outputs, Inputs, ringtoneSelection
<1>4. ReadAudioConfig(device(ReadAudioConfig(lines))) = ReadAudioConfig(lines)
  BY <1>2 DEF ReadAudioConfig, device
<1>5. Started(lines) \in Devices
  BY <1>1 DEF Started, Devices, Players, Recorders
<1>6. Known(Started(lines), ringtoneSelection(ReadAudioConfig(lines)))
  BY <1>1, <1>2 DEF Started, Known, ringtoneSelection
<1> QED
  BY <1>3, <1>4, <1>5, <1>6

LEMMA WrittenLines ==
  ASSUME NEW c \in AudioConfig
  PROVE  device(c) \in Lines
  BY DEF device, AudioConfig, Lines

\* The parts of TypeOK by the names of this module.
LEMMA AudioTypes ==
  TypeOK <=> /\ config \in AudioConfig /\ restartRequired \in BOOLEAN /\ ringtone \in Outputs
             /\ file \in Lines /\ baresip \in Devices /\ saveFailed \in BOOLEAN
<1>1. Players = Sinks \cup {System, DefaultSink} /\ Recorders = Sources \cup {System, DefaultSource}
  BY DEF Players, Recorders, Outputs, Inputs
<1> QED
  BY <1>1 DEF TypeOK, Outputs, Devices

LEMMA AudioInvInit == Init => AudioInv
<1> SUFFICES ASSUME Init PROVE AudioInv
  OBVIOUS
<1>1. TypeOK
  BY FileIsRead, AudioTypes DEF Init
<1>2. SnapshotIsSaved /\ FlagIsCurrent /\ Known(baresip, ringtone)
  BY FileIsRead DEF Init, SnapshotIsSaved, FlagIsCurrent
<1> QED
  BY <1>1, <1>2 DEF AudioInv

\* A save that succeeds brings file and snapshot together; one that fails says so.
LEMMA PersistKeeps ==
  ASSUME config \in AudioConfig, file \in Lines, saveFailed \in BOOLEAN, SnapshotIsSaved,
         NEW c \in AudioConfig,
         persistAudio(c) \/ UNCHANGED <<file, config, saveFailed>>
  PROVE  config' \in AudioConfig /\ file' \in Lines /\ saveFailed' \in BOOLEAN /\ SnapshotIsSaved'
  BY WrittenLines DEF persistAudio, FailsToSave, SnapshotIsSaved

LEMMA AudioInvStep == AudioInv /\ [Next]_vars => AudioInv'
<1> SUFFICES ASSUME AudioInv, [Next]_vars PROVE AudioInv'
  OBVIOUS
<1>1. /\ config \in AudioConfig /\ restartRequired \in BOOLEAN /\ ringtone \in Outputs
      /\ file \in Lines /\ baresip \in Devices /\ saveFailed \in BOOLEAN /\ SnapshotIsSaved
      /\ Undisturbed => Known(baresip, ringtone) /\ FlagIsCurrent
  BY AudioTypes DEF AudioInv
<1> DEFINE Saved == config' \in AudioConfig /\ file' \in Lines /\ saveFailed' \in BOOLEAN /\ SnapshotIsSaved'
           Rings == /\ restartRequired' \in BOOLEAN /\ ringtone' \in Outputs /\ baresip' \in Devices
                    /\ Undisturbed => Known(baresip', ringtone') /\ FlagIsCurrent'
<1>2. SUFFICES Saved /\ Rings
  <2>1. TypeOK'
    BY <1>2, AudioTypes DEF TypeOK, Outputs, Devices, Players, Recorders, Inputs
  <2> QED
    BY <1>2, <2>1 DEF AudioInv, Undisturbed
<1>3. ASSUME NEW c \in AudioConfig, selectAudio(c)
      PROVE  Saved /\ Rings
  <2> PICK nodes \in NodeLists : \E o \in SelectOutcomes(nodes, c) :
          /\ baresip' = o.baresip /\ ringtone' = o.ringtone
          /\ persistAudio(c) \/ UNCHANGED <<file, config, saveFailed>>
    BY <1>3 DEF selectAudio
  <2>1. PICK o \in SelectOutcomes(nodes, c) :
          /\ baresip' = o.baresip /\ ringtone' = o.ringtone
          /\ persistAudio(c) \/ UNCHANGED <<file, config, saveFailed>>
    OBVIOUS
  <2>2. o \in Attempts /\ ("timeout" \notin Faults /\ Known(baresip, ringtone) => KnownAttempt(o))
    BY <1>1, SelectOutcome
  <2>3. Saved
    BY <1>1, <2>1, PersistKeeps
  <2>4. restartRequired' \in BOOLEAN /\ FlagIsCurrent'
    BY <1>3 DEF selectAudio, publishRingtoneState, FlagIsCurrent
  <2> QED
    BY <1>1, <2>1, <2>2, <2>3, <2>4 DEF Attempts, KnownAttempt, Undisturbed
<1>4. ASSUME NEW c \in AudioConfig, applySelectedAudio(c)
      PROVE  Saved /\ Rings
  <2> DEFINE output(nodes) == liveAudioDevice(nodes, "auplay", c.output)
             input(nodes) == liveAudioDevice(nodes, "ausrc", c.input)
  <2>1. PICK nodes \in NodeLists :
          /\ output(nodes) # System
          /\ \E o \in applyAudioCommand(Now, "auplay", output(nodes), c.output, {"refused"}) :
             \E p \in IF o.ok THEN applyAudioCommand(o, "ausrc", input(nodes), c.input, {"refused"}) ELSE {o} :
               baresip' = p.baresip /\ ringtone' = p.ringtone
    BY <1>4 DEF applySelectedAudio
  <2>2. c.output \in Outputs /\ c.input \in Inputs
    BY DEF AudioConfig, Outputs, Inputs
  <2>3. output(nodes) \in Players /\ output(nodes) = Resolved(c.output, DefaultSink)
        /\ input(nodes) \in Recorders
    BY <2>1, <2>2, LiveDevice
  <2> HIDE DEF output, input
  <2>4. PICK o \in applyAudioCommand(Now, "auplay", output(nodes), c.output, {"refused"}) :
             \E p \in IF o.ok THEN applyAudioCommand(o, "ausrc", input(nodes), c.input, {"refused"}) ELSE {o} :
               baresip' = p.baresip /\ ringtone' = p.ringtone
    BY <2>1
  <2>5. o \in Attempts /\ ("timeout" \notin Faults /\ Known(baresip, ringtone) => KnownAttempt(o))
    BY <1>1, <2>1, <2>2, <2>3, NowType, OutputCommand
  <2>6. PICK p \in IF o.ok THEN applyAudioCommand(o, "ausrc", input(nodes), c.input, {"refused"}) ELSE {o} :
               baresip' = p.baresip /\ ringtone' = p.ringtone
    BY <2>4
  <2>7. p \in Attempts /\ (KnownAttempt(o) => KnownAttempt(p))
    BY <2>2, <2>3, <2>5, <2>6, InputCommand
  <2>8. Saved
    BY <1>1, <1>4 DEF applySelectedAudio, SnapshotIsSaved
  <2>9. restartRequired' \in BOOLEAN /\ FlagIsCurrent'
    BY <1>4 DEF applySelectedAudio, publishRingtoneState, FlagIsCurrent
  <2> QED
    BY <1>1, <2>5, <2>6, <2>7, <2>8, <2>9 DEF Attempts, KnownAttempt, Undisturbed
<1>5. ASSUME NEW c \in AudioConfig, requestPersistAudio(c)
      PROVE  Saved /\ Rings
  <2>1. Saved
    BY <1>1, <1>5, PersistKeeps DEF requestPersistAudio
  <2> QED
    BY <1>1, <1>5, <2>1 DEF requestPersistAudio, Undisturbed
<1>6. CASE Start
  <2>1. Saved
    BY <1>1, <1>6, FileIsRead DEF Start, SnapshotIsSaved
  <2>2. Rings
    BY <1>1, <1>6, FileIsRead DEF Start, FlagIsCurrent
  <2> QED
    BY <2>1, <2>2
<1>7. CASE RestartForAccount
  BY <1>1, <1>7, FileIsRead DEF RestartForAccount, SnapshotIsSaved, Undisturbed
<1>8. CASE UNCHANGED vars
  BY <1>1, <1>8 DEF vars, SnapshotIsSaved, FlagIsCurrent, Known
<1> QED
  BY <1>3, <1>4, <1>5, <1>6, <1>7, <1>8 DEF Next

-----------------------------------------------------------------------------
(* Theorems *)

\* The invariant holds throughout.
THEOREM AudioInvariant == Spec => []AudioInv
  BY AudioInvInit, AudioInvStep, PTL DEF Spec

\* Type correctness for every request and fault.
THEOREM AudioTypeCorrect == Spec => []TypeOK
<1>1. AudioInv => TypeOK
  BY DEF AudioInv
<1> QED
  BY <1>1, AudioInvariant, PTL

\* For any requests, devices and faults, a write that fails behind its rename
\* included: the selection shown is the one the next start reads, unless a save
\* was reported as failed and none has succeeded since (persistAudio, Start).
THEOREM ShownSelectionIsSaved == Spec => []SnapshotIsSaved
<1>1. AudioInv => SnapshotIsSaved
  BY DEF AudioInv
<1> QED
  BY <1>1, AudioInvariant, PTL

\* Without an account restart, PersistAudio and late commands, on whatever file,
\* the hint is shown whenever baresip rings elsewhere than selected, however
\* selections and saves fail, but for a child that still rings where an alert
\* line without a device left it (RingtoneRestartRequired, noteAudioCommand,
\* restoreAudio).
THEOREM HintIsShown == ASSUME Undisturbed PROVE Spec => []RingsElsewhereIsFlagged
<1>1. AudioInv => RingsElsewhereIsFlagged
  BY DEF AudioInv, FlagIsCurrent, Known, RingsElsewhereIsFlagged, RingsOnUnnamed
<1> QED
  BY <1>1, AudioInvariant, PTL

\* That exception is real: started on an alert line without a device below a
\* player line with one other than the default, baresip rings on the default,
\* the selection shown names the other, and no hint says so (ReadAudioConfig,
\* ringtoneSelection, Start).
THEOREM UnnamedAlertIsSilent ==
  Spec => [][Start /\ file.alert = System /\ file.player \notin {System, DefaultSink}
             => /\ Resolved(baresip'.ring, DefaultSink) # Resolved(ringtoneSelection(config'), DefaultSink)
                /\ ~ restartRequired']_vars
<1>1. ASSUME TypeOK, Start, file.alert = System, file.player \notin {System, DefaultSink}
      PROVE  /\ Resolved(baresip'.ring, DefaultSink) # Resolved(ringtoneSelection(config'), DefaultSink)
             /\ ~ restartRequired'
  <2>1. config'.alert = System /\ config'.output = file.player /\ baresip'.ring = System
    BY <1>1 DEF Start, ReadAudioConfig, Started
  <2> QED
    BY <1>1, <2>1 DEF Start, Resolved, ringtoneSelection
<1>2. TypeOK
      => [Start /\ file.alert = System /\ file.player \notin {System, DefaultSink}
          => /\ Resolved(baresip'.ring, DefaultSink) # Resolved(ringtoneSelection(config'), DefaultSink)
             /\ ~ restartRequired']_vars
  BY <1>1
<1> QED
  BY <1>2, AudioTypeCorrect, PTL

-----------------------------------------------------------------------------
(* Both directions or none *)

\* A command that was executed reports it, the way back works, and no device is
\* missing that the way back needs.
Reversible == Faults \cap {"timeout", "restore", "unplug"} = {}

\* Without a timeout a command succeeds or does nothing.
LEMMA CommandIsKnown ==
  ASSUME "timeout" \notin Faults, NEW before, NEW command, NEW name, NEW selected, NEW failures,
         NEW o \in applyAudioCommand(before, command, name, selected, failures)
  PROVE  \/ o = Outcome(Switch(before.baresip, command, name),
                        noteAudioCommand(before.ringtone, command, selected), TRUE)
         \/ o = [before EXCEPT !.ok = FALSE] /\ failures \cap Faults # {}
  BY DEF applyAudioCommand

LEMMA LiveInput ==
  ASSUME NEW nodes, NEW name \in Inputs, liveAudioDevice(nodes, "ausrc", name) # System
  PROVE  liveAudioDevice(nodes, "ausrc", name) = Resolved(name, DefaultSource)
  BY DEF liveAudioDevice, DefaultOf, Resolved

\* After a restored output baresip plays where it was told to before.
LEMMA RestoredOutput ==
  ASSUME Reversible, NEW nodes \in NodeLists, config \in AudioConfig,
         NEW failed \in Attempts, NEW o \in restoreAudio(nodes, failed)
  PROVE  o.baresip.player = Resolved(config.output, DefaultSink)
<1> DEFINE previous == liveAudioDevice(nodes, "auplay", config.output)
<1>1. config.output \in Outputs /\ DefaultSink \in nodes
  BY DEF AudioConfig, Outputs, NodeLists, Nodes, Reversible
<1>2. previous # System /\ previous = Resolved(config.output, DefaultSink)
  BY <1>1, DeviceAssumption DEF liveAudioDevice, DefaultOf, Resolved, Outputs
<1> HIDE DEF previous
<1>3. PICK p \in applyAudioCommand(failed, "auplay", previous, config.output, {"restore"}) :
        o = [p EXCEPT !.ok = FALSE]
  BY <1>2 DEF restoreAudio, previous
<1>4. p = Outcome(Switch(failed.baresip, "auplay", previous),
                  noteAudioCommand(failed.ringtone, "auplay", config.output), TRUE)
  <2>1. "timeout" \notin Faults /\ {"restore"} \cap Faults = {}
    BY DEF Reversible
  <2> QED
    BY <2>1, CommandIsKnown
<1>5. o.baresip = [failed.baresip EXCEPT !.player = previous, !.ring = previous]
  BY <1>3, <1>4 DEF Outcome, Switch
<1> QED
  BY <1>2, <1>5 DEF Attempts, Devices

\* A selection that moves the output moves the input.
LEMMA BothMove ==
  ASSUME Reversible, config \in AudioConfig, baresip \in Devices, ringtone \in Outputs,
         NEW nodes \in NodeLists, NEW c \in AudioConfig, NEW o \in SelectOutcomes(nodes, c),
         ~ PlaysOn(baresip, c), PlaysOn(o.baresip, c), c.input # config.input,
         Resolved(config.output, DefaultSink) # Resolved(c.output, DefaultSink)
  PROVE  RecordsFrom(o.baresip, c)
<1>1. c.output \in Outputs /\ c.input \in Inputs /\ c.output # config.output
  BY DEF AudioConfig, Outputs, Inputs
<1>2. Now \in Attempts /\ Now.baresip = baresip /\ "timeout" \notin Faults
  BY NowType DEF Now, Outcome, Reversible
<1>3. Resolvable(nodes, c)
  <2>1. CASE ~ Resolvable(nodes, c)
    <3>1. o = [Now EXCEPT !.ok = FALSE]
      BY <2>1 DEF SelectOutcomes
    <3>2. o.baresip = baresip
      BY <1>2, <3>1 DEF Attempts
    <3> QED
      BY <3>2
  <2> QED
    BY <2>1
<1>4. PICK before \in SwitchOutput(nodes, c) : o \in SwitchInput(nodes, c, before)
  BY <1>3 DEF SelectOutcomes
<1> DEFINE output == liveAudioDevice(nodes, "auplay", c.output)
           input == liveAudioDevice(nodes, "ausrc", c.input)
<1>5. output \in Players /\ input \in Recorders /\ input = Resolved(c.input, DefaultSource)
  BY <1>1, <1>3, LiveDevice, LiveInput DEF Resolvable
<1>6. before \in applyAudioCommand(Now, "auplay", output, c.output, {"refused"})
  BY <1>1, <1>4 DEF SwitchOutput
<1> HIDE DEF output
<1>7. before \in Attempts
  BY <1>1, <1>2, <1>5, <1>6, OutputCommand
<1>8. before.ok
  <2>1. CASE before = [Now EXCEPT !.ok = FALSE]
    <3>1. before.baresip = baresip /\ ~ before.ok
      BY <1>2, <2>1 DEF Attempts
    <3>2. o = before
      BY <1>4, <3>1 DEF SwitchInput
    <3> QED
      BY <3>1, <3>2
  <2>2. CASE before # [Now EXCEPT !.ok = FALSE]
    <3>1. before = Outcome(Switch(Now.baresip, "auplay", output),
                           noteAudioCommand(Now.ringtone, "auplay", c.output), TRUE)
      BY <1>2, <1>6, <2>2, CommandIsKnown
    <3> QED
      BY <3>1 DEF Outcome
  <2> QED
    BY <2>1, <2>2
<1>9. PICK p \in applyAudioCommand(before, "ausrc", input, c.input, {"refused"}) :
        o \in IF p.ok \/ c.output = config.output THEN {p} ELSE restoreAudio(nodes, p)
  BY <1>1, <1>4, <1>8 DEF SwitchInput
<1> HIDE DEF input
<1>10. p \in Attempts
  BY <1>1, <1>5, <1>7, <1>9, InputCommand
<1>11. CASE p.ok
  <2>1. p = Outcome(Switch(before.baresip, "ausrc", input),
                    noteAudioCommand(before.ringtone, "ausrc", c.input), TRUE)
    <3>1. p # [before EXCEPT !.ok = FALSE]
      BY <1>7, <1>11 DEF Attempts
    <3> QED
      BY <1>2, <1>9, <3>1, CommandIsKnown
  <2>2. o = p
    BY <1>9, <1>11
  <2>3. o.baresip = [before.baresip EXCEPT !.source = input]
    BY <2>1, <2>2 DEF Outcome, Switch
  <2>4. o.baresip.source = input
    BY <1>7, <2>3 DEF Attempts, Devices
  <2>5. Resolved(input, DefaultSource) = input
    BY <1>5 DEF Resolved
  <2> QED
    BY <1>5, <2>4, <2>5 DEF RecordsFrom
<1>12. CASE ~ p.ok
  <2>1. o.baresip.player = Resolved(config.output, DefaultSink)
    BY <1>1, <1>9, <1>10, <1>12, RestoredOutput
  <2>2. Resolved(o.baresip.player, DefaultSink) = o.baresip.player
    BY <2>1 DEF Resolved
  <2> QED
    BY <2>1, <2>2 DEF PlaysOn
<1> QED
  BY <1>11, <1>12

\* A selection of both directions that fails between its commands leaves neither
\* moved, for any devices and whatever is refused, if the failure shows what was
\* done and the way back is open (resolve before the first command, restoreAudio).
THEOREM BothDirectionsOrNone == ASSUME Reversible PROVE Spec => NoHalfSelection
<1>1. ASSUME AudioInv, NEW c \in AudioConfig, ~ PlaysOn(baresip, c), PlaysOn(baresip', c),
             c.input # config.input,
             Resolved(config.output, DefaultSink) # Resolved(c.output, DefaultSink),
             selectAudio(c)
      PROVE  RecordsFrom(baresip', c)
  <2>1. config \in AudioConfig /\ baresip \in Devices /\ ringtone \in Outputs
    BY <1>1, AudioTypes DEF AudioInv
  <2>2. PICK nodes \in NodeLists : \E o \in SelectOutcomes(nodes, c) : baresip' = o.baresip
    BY <1>1 DEF selectAudio
  <2>3. PICK o \in SelectOutcomes(nodes, c) : baresip' = o.baresip
    BY <2>2
  <2>4. ~ PlaysOn(baresip, c) /\ PlaysOn(o.baresip, c)
    BY <1>1, <2>3 DEF PlaysOn
  <2>5. RecordsFrom(o.baresip, c)
    BY <1>1, <2>1, <2>4, BothMove
  <2> QED
    BY <2>3, <2>5 DEF RecordsFrom
<1>2. AudioInv
        => [\A c \in AudioConfig :
              ~ PlaysOn(baresip, c) /\ PlaysOn(baresip', c) /\ c.input # config.input
                /\ Resolved(config.output, DefaultSink) # Resolved(c.output, DefaultSink)
                /\ selectAudio(c)
              => RecordsFrom(baresip', c)]_vars
  BY <1>1
<1> QED
  BY <1>2, AudioInvariant, PTL DEF NoHalfSelection
================================================================================
