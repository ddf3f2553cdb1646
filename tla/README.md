# GoSipTea in TLA+

GoSipTea is a terminal telephone: a Go program that starts one `baresip` child,
drives it over D-Bus and shows calls, contacts, audio devices and the account in
a terminal screen. This directory holds TLA+ modules of the parts whose order of
steps matters, TLC configurations that check them on small instances, and
proofs for TLAPS. Every definition is written from the Go source;
`PROJECT.json` names the lines ("map").

## The system

| part | source | state | operations |
|---|---|---|---|
| Call reducer | `internal/app/state.go`, `parse.go` | none: `Reduce(state, event)` is pure | dial, answer, hang up, mute, do not disturb; CALL_INCOMING, CALL_ESTABLISHED, CALL_CLOSED; REGISTER_OK, REGISTER_FAIL, UNREGISTERING; a reginfo answer |
| Session run loop | `internal/session/runtime.go`, `operations.go`, `events.go` | `Snapshot` (state, history, audio, account, error), the runtime (child, client, ringtone) | one goroutine takes a request or an event, reduces it, executes its commands, writes the history, publishes |
| Session life | `internal/session/session.go` | `active`, lifecycle lock, subscribers | `Start`, `Stop`, `Subscribe`, account restart |
| Snapshot feed | `internal/session/session.go` | `Revision`, one buffered channel per subscriber | `updateSnapshot`, `publish`, `Subscribe`, cancel |
| Audio selection | `runtime.go`, `internal/storage/audio.go`, `internal/audio` | `AudioConfig`, ringtone record, the audio lines of baresip's config | select, apply, persist, restore |
| Storage | `internal/storage` | contacts, account, config, call history | locked read-modify-write, temporary file and rename |
| D-Bus client | `internal/baresip/dbus.go` | event channel, owner | `Command`, `Events`, `VerifyOwner`, `Close` |
| Process manager | `internal/baresip/process*.go`, `ownership.go` | the child, the startup lock | `Start`, `Stop` with escalation, reaction to a lost lock |
| Program and screen | `cmd/gosiptea/main.go`, `internal/tui` | the Bubble Tea model | dispatch of actions, forwarding of snapshots, forms |
| Contacts, texts | `internal/app/contacts.go`, `text.go` | none | number normalisation, names, clamping |
| Desktop | `internal/desktop`, `media`, `notify` | none | focus the window, pause players, notify |

How they interact: the screen calls `Session` methods; each becomes a request
on a channel to the run goroutine, which answers on another. baresip's events come
through D-Bus signals into one channel read by the same goroutine. The run
goroutine changes the snapshot and publishes a copy; a forwarder goroutine hands
copies to the screen. `pauseMedia` and `focusWindow` start goroutines that may
record an error, so they also update and publish. Only the run goroutine
reduces events, so the call state has a single writer; but while it waits for
the answer to a command, baresip and the peers go on.

What is hard here:

- between the reduction of an event and the commit of its transition lies a
  command with a timeout, and commands mostly carry no call id;
- events of turned-away calls come later and must not touch the tracked call;
- a call can be finalised by its CLOSED, by `Stop`, by the loss of the child or
  by a failed dial, and must be recorded once;
- the file write may fail, the program may die between any two steps;
- snapshots are copied under one lock and published under another;
- a selection of two audio devices can fail between its two commands;
- three kinds of goroutines send to the screen, each with snapshots of its own
  age, and the end of the session must reach it and close it;
- any program of the bus may own baresip's name, at any moment of connecting;
- a request may be given up, answered or refused while its runtime ends, and
  `Stop` waits for a run goroutine that may be ending on its own;
- the child may ignore signals, leave helpers behind, or have to go because the
  startup lock was lost while another instance already starts its own;
- several programs change the contacts file, and any of them may die doing it.

`PROJECT.json` lists each of these with its line under "hazards".

## Modules

| module | models |
|---|---|
| `CallReducer` | `Reduce` and its helpers as operators on a record |
| `PhoneSession` | run loop, baresip child, history and its file; extends `CallReducer` |
| `SnapshotFeed` | `updateSnapshot`, `publish`, `Subscribe`, cancel, one action per lock or channel step |
| `Screen` | `run`, the forwarder, the dispatch goroutines and what messages do to the screen; extends `SnapshotFeed` |
| `BusClient` | the D-Bus client and how `connect`, `registrationState` and the run loop use it |
| `AudioSelection` | device and ringtone selection, one action per request with all outcomes |
| `Lifecycle` | `Start`, `Stop`, the way of a request, the ends of a runtime, `LastError` |
| `OwnedProcess` | the child, its process group and the startup lock; `Start`, `wait`, `Stop` |
| `FileStore` | lock file, temporary file, sync and rename around a change of the contacts |
| `ContactFile` | what the contacts file promises, abstractly; `FileStore` implements it |
| `MC...` | instances for TLC |
| `PhoneSessionProofs`, `PhoneCallProofs`, `ScreenProofs`, `AudioSelectionProofs`, `BusClientProofs`, `FileStoreProofs`, `OwnedProcessProofs`, `LifecycleProofs` | theorems |

Definitions named `X_...` are mutants of `X`: the plausible bug that shows that a
property can fail. No other definition uses them.

### CallReducer

`State` has the fields of `app.State` that matter: `CallID`, `CallTarget`,
`CallDirection`, `EndRequested`, `LastCallID`, the ring `IgnoredCallIDs` with its
wrapping index. `Reduce` returns a transition with at most one command,
notification and history entry (no branch of the Go code appends two). A call
attempt is a model value that stands for its id and for its peer's address. The
display name and the times are left out, except whether `CallStartedAt` is set,
which a history entry shows as `connected`.

### PhoneSession

`UserRequest` and `HandleBaresipEvent` are the two cases of `run` that reduce an
event. `applyDomainEvent` has the four outcomes of the Go function: an error, a
transition without command, a command sent, a command that fails at once
because the child is gone. A sent command leaves the event in `pending`; until
`FinishCommand` or `CommandTimesOut` the loop takes nothing else, while
`PeerCalls`, `PeerAnswers`, `PeerEnds`, `RegistrarReports`, `BaresipExecutes` and
`BaresipExits` may all happen. `Commit` and `Abandon` are the two ends of
`applyDomainEvent`. A command that timed out stays in `wire` and may be executed
later. `Stop`, `LoseBaresip`, `RestartForAccount`, `RestartFails` and `Crash` are
the ends of a child; `Stop`, `LoseBaresip` and `RestartFails` contain, in one action, as the run
goroutine does nothing else in between: both calls of `finalizeActiveCall`, that of
`cleanupRuntime` and that of `finishRuntime`, the reset of the state in
`finishRuntime` and the end of the child. `Saved` is what the history file holds of
earlier runs of the program when it is first started.

baresip and the peers are external and modelled as the code uses them. A
command with a call id acts on that call. A command without one acts on any live
call (any ringing one for accept). Two constants restrict this:

- `Impatient`: callers that may give up before the session has dealt with their
  CALL_INCOMING. The others wait until it has.
- `Overtaking`: attempts that an unnamed command may hit before the session has
  read their CALL_INCOMING.

With both empty and no faults the agreement of history, screen and baresip
holds (run Announced); with `Impatient` callers it does not, which is the first
finding. Racing and Disrupted have both full.

### SnapshotFeed

The two critical sections are separate actions, so another updater can come
between copy and publish. `TrySend`, `Drain` and `Resend` are the three channel
operations of `publish`; receivers take no lock and may act between them.
A snapshot is its revision number. The module is checked inside `Screen`, which has
all its steps.

### Screen

`Screen` adds to the feed who updates it and who reads it. The run loop (`loop`)
takes a dispatch's request, changes the snapshot once, records or clears the error
and replies, as `handleRequest` does; an account that was saved replaces baresip in
between (`FinishRestart`, `FailRestart`). `BackgroundFails` is the error of
`pauseMedia` or `focusWindow`. `snap` says what each revision holds: `Running` and
`LastError`. `overtaken` is a history variable: the newest snapshot got `subMu` before an
older one that was waiting for it.

A dispatch goroutine waits for the reply (`GiveUp` when its context ends),
takes a snapshot (`TakeSnapshot`) and sends it with the result (`SendResult`); other
steps fall in between. The forwarder receives one snapshot and then sends up to
three messages (`Forward`): the snapshot, the error if it changed, and quit when the
session has ended. `main` follows the goroutine of `run`: subscribe, create, run,
unsubscribe, wait for the forwarder, stop, return. Bubble Tea is external: its event
loop takes one message at a time from any sender, and `Send` returns once it has
ended. Of the model the screen has `errText` and the account form with its dirty
flag; of a snapshot message only its arrival matters.

### BusClient

`Setup` lists the calls of `NewClient` in order; each is an action, so the name may
change hands between any two, and each may fail (`SetupFails`), which closes the
connection and makes `connect` try again. `CheckPID`, `VerifyOwner`, `CheckPID` is
the rest of `connect`; `AskRegistration` is `registrationState`. After that the
session is ready, asking (a command is on its way), closing or over. The goroutine
`DBusClient.run` is `TakeSignal`, `DeliverEvent` (a send that blocks when the channel
is full), `SeeContext` at both of its selects, and `Finish`. Peers, the bus daemon
and godbus are external: signals come in the order they were sent, only to those
who asked for them; no two peers have the same process id. The event of a
registration stands for all events, for it is also asked for. `commanded` is a
history variable: the peers that were sent a command.

### AudioSelection

A request runs on the run goroutine without anything in between, so it is one
action; the set of outcomes of its commands is computed by operators with the
names of the Go functions. baresip's `auplay` moves the call output and the
ringtone together, as the comment on `noteAudioCommand` says. The file holds any three
lines, for people edit it too: `ReadAudioConfig` takes an alert line that names the
output, or no device, for no ringtone. A save fails before the rename of
`atomicWrite`, or after it with the file already replaced (`FailsToSave`); the
snapshot stays as it was in both cases, and `saveFailed`, a history variable, says
that this was the last save's end.

### Lifecycle

The frame around `PhoneSession`: callers are goroutines with contexts that may end
at any time; `Lock`, `Launch`, `ConnectFails` and `Activate` are `Start`, `Receive`
is the unbuffered request channel, `reply` the buffered channel of the answer.
`GetReply`, `SeeExpired` and `SeeDone` are the cases of the selects in
`sendRequest`, where a reply that is there goes before `rt.done`; `StopEnds` and
`StopGivesUp` are those of `Stop`. What a request does is left to `PhoneSession`:
here it succeeds, fails, or is the account restart that takes child and client away
and may then fail (`RestartChild`). A runtime has five ends: the request of
`Stop`, its context (cancelled by a `Stop` whose own context ended), the lost client,
the lost child and the failed restart.
As a runtime that is not active any more only closes its `done`, one set of loop
variables serves all runtimes. The child is alive, dying (signalled and not yet
reaped, when `process.Stop` ran into its timeout) or gone; `OwnedProcess` has the
details.

### OwnedProcess

Any number of managers, of one program or of many, on one session bus. The
goroutine of `wait` is the sequence `Reap`, `Sweep`, `CloseLock`, `CloseDone`; the
lock watcher is `WatchLock`, the escalation after `cmd.Cancel` is
`KillAfterCancel`. Callers of `Stop` send SIGTERM (`Terminate`), then SIGKILL to the
group (`Escalate`), and return when `done` is closed or their context ends; a
second caller joins the first. `starts` names the current `done` channel, so that
`finishStopping` of an old child leaves a newer one alone. The child may exit at
any time, or never; helpers in its group may outlive it.

### FileStore and ContactFile

One action per system call that can be seen from outside: take the lock, read and
change, create, write and sync the temporary file, rename, sync the directory,
unlock. Each may fail; a writer may die between any two, and the power may fail.
`file` is what a reader finds, `durable` what is left after a power failure. A
rename without a sync before it leaves `Torn`. `ContactFile` is a set that changes
by one whole `Add` or `Remove` at a time; `NoLostUpdate` says that `FileStore`
implements it under the identity mapping of its two files.

## Runs

| run | instance | what it shows |
|---|---|---|
| Announced | 3 calls, ring of 2, every registration answer and report, no faults | `RecordedMeansOver`, `EveryAttemptRecorded`, `NoOrphanCall`, `MuteAgrees`: whenever nothing is on its way, history, screen and baresip agree |
| Racing | 3 calls, ring of 1, impatient callers, overtaking commands | `TrackedCallIsReal`, `ConnectedIncomingWasAnswered` |
| Disrupted | 2 calls after one in the file, a history of 2, all faults and disruptions, one late command, with fairness | `AtMostOneEntry`, `HistoryExtendsDisk`, `PersistedHistoryOnlyGrows`, `ShutdownRecordsTrackedCall` and `CallEventuallyCleared` |
| Screen | the run loop and a background goroutine, a channel of 1, one dispatch at a time, 4 revisions, with fairness | `ResendHasRoom`, `NoSendAfterCancel`, `NewestUnlessOvertaken`, `DraftKept`, `ClosingIsExplained`, `SessionEndQuits`, `MainReturns` |
| Bus | the child and another peer, 2 changes of the name, 2 of the registration, 2 attempts, a channel of 1, all faults, with fairness | `OnlyOwnChildIsCommanded`, `RegistrationAgrees`, `OwnerLossEndsClient`, `CloseReturns` |
| Audio | 2 outputs, 2 inputs, every file, every request, refused commands, writes that fail before or behind the rename | `SnapshotIsSaved`, `NoHalfSelection` |
| Contacts | 3 writers, 2 addresses, failing calls, deaths, power failures, with fairness | `NoLostUpdate` (the refinement of `ContactFile`), `SuccessIsDurable`, `LockIsInUse`, `OperationReturns` |
| Process | 2 managers, one of which starts twice, 2 callers of `Stop`, all faults, with fairness | `OneChild`, `NotRunningIsGone`, `StoppingHasStopper`, `LostLockEndsChild`, `StopReturns` |
| Lifecycle | a goroutine that starts and stops, one that requests and stops, 2 runtimes, all faults, with fairness | `NoStrayChild`, `LoopIsAttached`, `StopLeavesNothing`, `NotRunningMeansNotDone`, `EndIsExplained`, `StopEndsRuntime`, `CallReturns`, no deadlock |
| RejectRace | as Racing, ring of 2 | `RecordedMeansOver` violated: finding 1 |
| AudioStale | 3 outputs, selections and account restarts | `RingsElsewhereIsFlagged` violated: finding 2 |
| ErrorHidden | the run loop, a channel of 2, one dispatch | `SessionErrorVisible` violated: finding 3 |

The comment over each property in its module says what it means and which code
it is about. `TypeOK` of `PhoneSession`, `SnapshotFeed`, `AudioSelection`,
`FileStore`, `OwnedProcess` and `Lifecycle` are theorems and not checked again by a run.

Bounds. Three attempts are enough for the interesting cases of the ring: one
tracked, one turned away and one dialled afterwards; a fourth adds another
turned-away caller, which the ring of one or two slots of the runs already
overflows. `IgnoredSlots`, `IndexModulus` (a `uint8`) and `MaxHistory` (200) are
constants so that wrap and eviction are reached by a few calls.
Disrupted has two attempts, enough for a tracked call and one that comes while a
runtime ends or a command is late. The file it starts from holds a third, so that the
second of the two passes `MaxHistory` and pushes it out, after failed writes, crashes
and restarts too; until then `AtMostOneEntry` sees every entry. Entries the store
refuses (`Oversized`) are covered by the theorems `ShownHistoryExtendsFile` and
`FileOnlyGrows` alone.
`MaxLate` bounds timed-out commands still on their way, `MaxQueue` only the
reports of the registrar, `MaxRevision` the number of updates. No bound restricts
the events of calls: each attempt causes at most three.
In Contacts three writers give one inside the lock, one that waits and one that
comes after a death of the first; two addresses tell a lost update from a
repeated one. In Process the second start of one manager is what shows that a
late `Stop` or watcher of the first child does not touch the second; the other
manager competes for the lock. In Lifecycle two runtimes let a caller of the first
still wait while the second is active; a `Stop` meets a `Start`, a request and
another `Stop`. Two `Start`s or two requests at a time differ only in who gets the
lock or the channel first and are left out.
In Screen a channel of one snapshot (the program has eight) makes every second
publish drop one; the four revisions are the first one, a change, an error or its
clearing, and the end, for which the last is kept; the session may start with an
error of the audio devices. With one dispatch at a time an
action still meets the forwarder, the background error and the end.
ErrorHidden has the same revisions.
In Bus two changes let the name leave the child and come back, or go to the other
peer before it comes to the child; two registration changes fill the channel of one
(the program has 64) with another in the reader's hand and put one before and one
after the question.
In Audio a selection or a line names System or a device that is not the default, each
direction has one, and the default is chosen as such; AudioStale can name three
outputs, the default among them, because its counterexample needs the ringtone, the
output before and the output after to differ.

Symmetry of attempts is used where no liveness is checked and no constant tells
attempts apart.

What three runs leave out. Announced has no caller that gives up first and no
timeout: with them its properties are false of the code (finding 1 and the list
below). Screen leaves out, in `NewestUnlessOvertaken` and `SessionEndQuits`, what
follows when an older snapshot is published last (`overtaken`); without that
exception TLC finds both violated. Audio has no command that is executed after its
timeout, for `restoreAudio` takes back only those that succeeded.

Fairness. `FinishCommand`, `CommandTimesOut` and `BaresipExecutes` are weakly
fair: the loop, its timer and baresip do not rest. `HandleBaresipEvent` and
`LoseBaresip` are strongly fair: `select` chooses among ready cases at random, so
a ready event is not passed over for ever, though the loop is busy in between.
In `Screen` publishing, the forwarder and
the goroutine of `run` are weakly fair; the user, the loop, dispatches and deadlines
may rest for ever. Weak fairness of the mutex is enough, as updates end.
In `BusClient` the goroutine of the session while it connects or calls and the reader
are weakly fair, for every call has a deadline; the cases of the run loop's `select`
are strongly fair. In `FileStore` the
steps of a writer are weakly fair; a wait for a held lock has to end, other failures
need never happen. In `OwnedProcess` the goroutines of `wait`, the lock watcher, the
timers of `KillAfterCancel` and `Escalate` and the callers of `Stop` are weakly fair;
no step of the child is. In `Lifecycle` the steps of callers and of the run
goroutine's work are weakly fair; `Lock`, `Receive` and `SeeCancelled`, each a queue
or a `select` that serves its waiters in turn or at random, are strongly fair.
Nothing is assumed of users, peers, the bus, or of the ends of contexts.

## Findings

1. **RejectRace** (`runtime.go:121`). A second caller is turned away and gives up
   at the same moment; the hangup is refused, so the whole transition is dropped
   and the id is not remembered. When the first call ends and the user dials, the
   CLOSED of that caller matches the outgoing call, which has no id yet.
2. **AudioStale** (`runtime.go:671`). An account restart keeps the ringtone record
   of the old child, so the hint is wrong after it.
3. **ErrorHidden** (`main.go:224`). A dispatch takes its snapshot, an event then
   records an error, the forwarder shows it, and the late result of the action, which
   holds no error, clears it. The comment at `main.go:223` wants such an error to stay
   visible; it stays in the session, but the forwarder sends an error only when it
   changes.

Also seen while modelling, without a run of their own:

- in the case of finding 1 the caller turned away has no history entry, though
  `docs/decisions.md:18-20` counts rejected, busy and DND calls in
  (`EveryAttemptRecorded` fails with `Impatient` callers);
- a dial whose answer is late leaves a call in baresip that no screen shows and
  no key ends (`NoOrphanCall` fails with `timeout` in `Faults`);
- a rejection that baresip executes only after the session has given it up can end a
  call the session tracks by then (`RejectionSparesTrackedCall` fails with `timeout` in
  `Faults`, `RejectionSparesOthers` proves it without);
- an input refused after the output has moved leaves the output there when the old
  output was the system default and that device has vanished (`restoreAudio` has no
  device to go back to; `NoHalfSelection` fails with `unplug` in `Faults`);
- with as many turned-away callers at once as the ring has slots (eight), the
  oldest is forgotten before its CLOSED arrives and finding 1 occurs without a
  race;
- that the registration could not be read is put into `LastError` by `Start`, but
  forgotten after an account restart (`clearError`, as `writeAccount` returned no
  error) and after the `ListAudio` with which the program follows `Start`
  (`main.go:108`);
- `Stop` returns `ErrNotRunning` if its runtime ended on its own meanwhile;
- an error recorded by `pauseMedia` or `focusWindow` while the run goroutine
  publishes can leave a subscriber with the older of the two snapshots
  (`session.go:518`), for `updateSnapshot` gives up `s.mu` before `publish` takes
  `s.subMu`. The comment at `session.go:348-350` promises the newest. If the newer one
  is the last of the session, the screen stays open: `SessionEndQuits` leaves this
  case out (`overtaken`), as does `NewestUnlessOvertaken`;
- a toggle of mute that baresip executes after the session has given it up leaves the
  two opposed for the rest of the call, as baresip cannot be asked (`MuteAgrees` fails
  with `timeout` in `Faults`);
- a selection whose first command is executed after its timeout is not taken back
  (`runtime.go:494-497`), nor does the ringtone record follow it;
- a save of the audio selection that fails behind its rename (`storage.go:302-309`)
  leaves the new selection in the file and the old one on the screen; choosing the old
  one again is then no change (`selectAudio`), and the next start takes the new one;
- an alert line without a device below a player line with one, as after an edit of the
  player line alone (the template, `config.tmpl:16`, names no alert device), makes
  baresip ring on the default while the selection says the player's device, and no
  hint is shown (`RingsOnUnnamed`, proved in `UnnamedAlertIsSilent`);
- a late action result can also put an older call state on the screen until the next
  snapshot, and with it skip the question before quitting during a call;
- `clearError` after any successful request wipes an error a background goroutine has
  just recorded;
- two actions of one user run in two goroutines, so the session may get them in the
  other order;
- the account form is no longer dirty once submitted, so when the save fails the next
  snapshot replaces what was typed;
- `syncAudioSelection` (`model.go:536`) looks up the node under the cursor in the
  new list with the old index, so the cursor does not stay "on the same node" (its
  comment) when the list changes;
- a signal about a peer that gave the name up and took it again before it was pinned
  ends the client although its owner is there; the session then ends too;
- what an unnamed hangup hits when a second call has just arrived depends on
  baresip's choice of its current call.

## Proofs

The constants are any sets and numbers that satisfy the named assumptions:
`NoCallAssumption`, `RingAssumption`, `SessionAssumption`, `BufferAssumption`,
`NameAssumption`, `ScreenAssumption`, `DeviceAssumption`, `FreeAssumption`,
`CallerAssumption`, `DoesAssumption`, `RuntimesAssumption`. A theorem with a further
hypothesis names it: `Punctual`, `Undisrupted`, `RingKeepsIgnored`, `RingSuffices`,
`Undisturbed`, `Reversible`, or the absence of one fault. Every invariant
was checked by TLC before it was proved.

- `PhoneSessionProofs`: first the reducer: `Reduce` maps a state and an event to a
  state, a command and an entry of the right kind (`ReduceType`), branch by branch.
  `SessionInv` is type correctness, the limit on history
  and file, and `HistoryExtendsDisk`. The last is not inductive without the
  limit: at the limit a merge drops the oldest entry, and what is left still
  extends the file only because both are full. `MergeIs` says what a merge
  returns, `MergeExtends` that it puts at most one more entry in front of
  whatever the history extends, `MergedHistoryKept` that the invariant holds
  whether or not the write succeeds. From these follow `SessionTypeCorrect`,
  `ShownHistoryExtendsFile` and `FileOnlyGrows`: the history gets one entry at a
  time, and a write brings the file exactly the entries it lacked. `EndRuntimeOnce` shows
  that the second `finalizeActiveCall` of an ending runtime finds no call and changes
  nothing, for a made-up CLOSED of the tracked call either clears the state or, where
  it is ignored, changes nothing the first time either.
- `PhoneCallProofs`: `CallInv` adds the calls. An attempt is in one place at a time:
  unused, announced by a CALL_INCOMING in the queue or in the loop's hand, being
  dialed, shown, or recorded (`Places`). The events queued about it are in the order
  baresip sent them, so that CLOSED is the last of an attempt (`QueueInOrder`), and
  say what baresip did (`QueueIsTrue`). A command awaits its answer only while it is the
  last one sent (`FlightOK`), and a dial on the wire is about an attempt that waits
  for it (`WireOK`). None of these alone is inductive: an event is taken from the queue
  and its transition committed after the answer to its command, so what excludes a
  second entry is in the queue at one time and in `pending` at another. From `CallInv`
  follow `TrackedCallStaysReal`, `OneEntryPerAttempt`, `ConnectedMeansAnswered` and
  `ShutdownRecords`, for all faults and disruptions, any callers, any size of ring.
  `RejectionSparesOthers` needs that no command is executed after its timeout.
  `AgreeInv` is for the properties of run Announced. They hold only under `Punctual`: no
  caller gives up, and baresip takes no call for its current one, before the session
  has read its CALL_INCOMING (finding 1 shows what happens otherwise), and no command is
  given up on its timeout. And the ring has to keep a caller turned away while events of
  that call are to come (`RingKeepsIgnored`, a property of the behaviour, as eight slots
  do not guarantee it for any number of callers; `LargeRingKeepsIgnored` proves it by
  the pigeonhole principle for a ring with a slot per attempt). `KnownCalls` says that
  baresip has or reports on no call but those announced, dialed, shown or ignored, and
  that an ignored one is over; `SentIsAsked` that the one command on the wire is that of
  the pending event, so that what it hits is known (`ExecutionAgrees`); `QuietKnown` and
  `MuteFollows` that the muted call is the one shown, with the toggle that is under way
  taken into account. None is inductive alone: that a caller turned away is over when it
  is committed as ignored rests on the hangup that was executed in between. From it
  follow `RecordedCallsAreOver`, `LiveCallsAreShown` and `MuteStateAgrees`, with all
  disruptions, refused dials and failed writes, which the run leaves out. `RecordedInv`
  adds that a call that is over is in a history that is not full, or its CLOSED is to be
  read, or it is in the loop's hand (`Accounted`), and gives `EveryAttemptIsRecorded`
  under `Undisrupted`: a runtime that ends drops callers it has not heard of.
- `ScreenProofs`: first the feed. `FeedInv` adds mutual exclusion in `publish`, that
  nobody is left to serve when the lock is free, and that the served subscriber exists.
  `ResendHasRoom` needs that receives only shorten a channel and that
  `Subscribe`, which lengthens one, is excluded by the lock. From it follow
  `FeedTypeCorrect`, `PublishNeverBlocks`, `NoSendOnClosedChannel`. `OrderInv`
  follows the newest snapshot through any number of updaters: while it has not been
  published before an older one, whatever older snapshot is still on its way comes
  before it (`OldestFirst`), and each subscriber has the newest last in its channel, or
  has received it, or is still to be served with it (`NewestReaches`). That gives
  `NewestArrivesInOrder`: `TrySend`, `Drain` and `Resend` lose only snapshots that a
  newer one replaces, whatever the subscriber receives in between.
  `Published` bounds what publishers hold
  and channels contain, so that every snapshot received is one the session made
  (`OnlyPublishedArrives`).
  Then the program: every step of it is a step of the feed or leaves the feed alone
  (`ScreenImplementsFeed`), so the theorems about the feed hold in the program
  (`ScreenCannotBlockSession`, `UnsubscribeIsSafe`). `DraftIsKept` needs that a draft
  implies the dirty flag, which `applySnapshot` respects. `SessionEndIsExplained`
  rests on `EndInv`: a session that has ended stays so and keeps an error until
  `run` stops it, and the quit message is sent and taken only after that end. The
  error is there when `run` takes its terminal snapshot because the snapshot the
  forwarder received was published (`OnlyPublishedArrives`), and no updater clears
  an error once the loop has ended.
- `BusClientProofs`: `PinInv` says that nothing is verified before `VerifyOwner` and
  that what is verified is pinned and is the child; as an owner is pinned only before
  that, every command goes to the child (`OnlyChildIsCommanded`). Signals, faults and
  the number of peers play no part. `NewsInv` follows the registration: while the reader
  is at work on a connection that stands and the child is pinned, the last thing still to
  be heard of it is true, wherever that is (`LastNewsIsTrue`): the last event queued, or
  with none queued the event in the reader's hand, or else the last of the channel, or
  else what is shown and the answer on its way. Once nothing is left to be heard, that
  is `RegistrationAgrees` (`RegistrationIsShown`). It needs that nothing is heard before
  the match rule is there (`Unheard`), hence the order of the calls in `Setup`, and
  `PinInv` for the peer that is asked.
- `AudioSelectionProofs`: `AudioInv` is type correctness, `SnapshotIsSaved` and,
  under `Undisturbed`, that `runtime.ringtone` names the device baresip rings on, or
  that the child still rings where an alert line without a device left it (`Known`), and
  that the published flag follows it (`FlagIsCurrent`). One lemma
  per stage of a selection (`OutputCommand`, `InputCommand`, `RestoreOutput`,
  `SelectOutcome`) carries `Known` through failures half way. From it follow
  `AudioTypeCorrect`, `ShownSelectionIsSaved` and `HintIsShown`.
  `ShownSelectionIsSaved` has no hypothesis: file and snapshot part only with a save
  that was reported as failed, and any save or start that succeeds joins them. `Undisturbed`
  leaves out account restarts (finding 2 shows why), `PersistAudio`, which saves
  without touching the hint, and commands that are executed although they timed
  out, after which the runtime cannot know the device; it does not restrict the file.
  `UnnamedAlertIsSilent` shows that the exception `RingsOnUnnamed` is real.
  `BothDirectionsOrNone` is
  `NoHalfSelection` under `Reversible`: commands that are executed say so, the way back
  is not refused, and no device vanishes; what else is refused does not matter.
- `FileStoreProofs`: `FileInv` is type correctness, `LockIsInUse`, that file and disk
  are whole, and `WriterOK`: a writer inside the lock is about to do one operation on
  the file as it still is (`OneOperation`, which only the lock preserves), has all of
  it in the temporary file before the sync and on the disk before the rename. From it
  follow `FileStoreTypes`, `LockIsNeverLost`, `SuccessSurvivesPowerFailure` and
  `FilesAreWhole`, and step by step the refinement of `ContactFile` (`NoUpdateIsLost`):
  a rename is one `Add` or `Remove`, the directory's sync or the disk's own writing is
  `ContactFile`'s, every other step stutters.
- `OwnedProcessProofs`: `ProcessInv` says of every manager that the stage of `wait`
  determines child, group, lock and `running` (`ManagerOK`), and of its stopping that
  exactly one caller of `Stop` is at it, for the current start (`StopOK`). Without the
  last conjunct a late `finishStopping` could leave a newer child unstoppable or open the
  manager too early. From it follow `ProcessTypes`, `OneChildAtATime`, `NothingIsLeft`
  and `OneStopper`, for any number of programs, callers and starts.
- `LifecycleProofs`: `LifeInv` is type correctness, `NoStrayChild`, what the run
  goroutine has and why it ends at each stage (`LoopOK`), and what each caller may rely
  on (`CallerOK`): the lifecycle lock is held by who is in `Start` or `Stop`, `Start` has
  no runtime beside it, `Stop` is about the last one, and a request that was received
  and not answered is the one the loop works on. From it follow `LifecycleTypes`,
  `ChildHasOwner`, `LoopHasClient`, `StopIsComplete`, and the action properties
  `NotRunningIsTrue` and `EndIsToldWhy`.

Only model-checked: the liveness properties (`CallEventuallyCleared`, `SessionEndQuits`,
`MainReturns`, `OwnerLossEndsClient`, `CloseReturns`, `OperationReturns`,
`LostLockEndsChild`, `StopReturns`, `StopEndsRuntime`, `CallReturns`), which are out of
the prover's reach, as they rest on fairness and ENABLED. `EveryAttemptRecorded` is proved
while the history is not full; run Announced has room for more entries than calls.

## Not modelled

- Pure functions of strings: number normalisation, contact and history names, text
  clamping, the parsing of `pw-dump`, `reginfo` and event bodies, command lines.
  No state depends on their order; the repository tests them by tables.
- What is local to the screen: views, lists, cursors, the contact form, the question
  before quitting; rendering. The conversion of snapshots for the screen.
- The formats and field checks of the account, audio and history files (they are
  replaced the way `FileStore` has it for contacts).
- The death of the program inside `OwnedProcess` (it is `Crash` in `PhoneSession`; the
  kernel then ends the child by `Pdeathsig`), signals the kernel refuses and the
  reuse of process numbers, there and in `BusClient`.
- Flags and configuration, desktop commands, the notification texts and the session
  log, which are input and output without state.

## Plan

Done first, as they carry the program's promise (one call at a time, every call
recorded): the reducer and the run loop; then the feed, the audio selection, the
life of a session, the child and the file store; then the program with its screen
and the connection to the bus, the last places where goroutines meet. Then proofs: the
types and files of a session first, the feed, the screen; then the calls of
`PhoneSession`, and the modules of the store, the child, the life of a session and the
bus, each from an inductive strengthening that TLC had checked before.

Last the four properties of run Announced, which need an invariant of their own
(`AgreeInv`, checked on three calls with every disruption before it was proved). With
them every safety property the runs check is proved. Left is the refinement of a
specification of one call attempt as a user sees it (unheard, heard of, over,
recorded) by `PhoneSession`, whose steps `KnownCalls` and `Accounted` already describe.
