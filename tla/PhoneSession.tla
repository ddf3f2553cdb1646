------------------------------ MODULE PhoneSession ------------------------------
(***************************************************************************)
(* One GoSipTea session driving one baresip child (internal/session,       *)
(* internal/app, internal/baresip/dbus.go).                                *)
(*                                                                         *)
(* The run loop of Session.run takes one request or one event at a time,    *)
(* reduces it against the current snapshot, executes the command of the     *)
(* transition over D-Bus and only then commits the new state and history.   *)
(* While it waits for the answer baresip and the peers go on: `pending' is  *)
(* the event whose transition is computed but not yet committed.            *)
(*                                                                         *)
(*   running, state, history  Session.active # nil, Snapshot.State, .History *)
(*   disk                     gosiptea-call-history.json                     *)
(*   pending, reply           the transition in flight and baresip's answer  *)
(*   queue                    D-Bus signals and client.Events(), one FIFO    *)
(*   wire                     commands sent that baresip has not executed    *)
(*   up, calls, talked, quiet the baresip child: alive, the calls it has,    *)
(*                            those ever established, those it muted         *)
(*                                                                         *)
(* baresip and the peers are external: what they may do is taken from how   *)
(* the code uses them.  A command without a call id acts on a call of       *)
(* baresip's own choice (any live one here, any ringing one for accept).    *)
(***************************************************************************)
EXTENDS CallReducer, Sequences

CONSTANTS
  Actions,       \* the user requests of the instance, a subset of ActionTypes
  Infos,         \* the reginfo answers a starting baresip may give
  Reports,       \* the register events the registrar may cause
  Impatient,     \* attempts whose peer may give up before the session has dealt
                 \* with its CALL_INCOMING; the others wait for that
  Overtaking,    \* attempts baresip may take for its current call before the
                 \* session has read their CALL_INCOMING; see Addressed
  Oversized,     \* attempts whose target ValidateCallHistoryEntry refuses
  Saved,         \* what the history file holds of earlier runs of the program
  MaxHistory,    \* MaxCallHistoryEntries, 200 in the code
  MaxLate,       \* bound: no command is sent behind more late ones than this
  MaxQueue,      \* bound: events queued before the registrar reports again
  Faults,        \* subset of {"timeout", "refused_dial", "disk"}
  Disruptions    \* subset of {"stop", "exit", "account", "crash"}

ASSUME SessionAssumption ==
  /\ Actions \subseteq ActionTypes
  /\ Infos \subseteq RegistrationInfos
  /\ Reports \subseteq RegisterEventTypes
  /\ Impatient \subseteq Calls
  /\ Overtaking \subseteq Calls
  /\ Oversized \subseteq Calls
  /\ MaxHistory \in Nat \ {0}
  /\ Saved \in Seq(Entries) /\ Len(Saved) <= MaxHistory
  /\ \A i \in 1 .. Len(Saved) : Saved[i].call \in Calls
  /\ \A i, j \in 1 .. Len(Saved) : Saved[i].call = Saved[j].call => i = j
  /\ MaxLate \in Nat
  /\ MaxQueue \in Nat

VARIABLES running, state, history, disk, pending, reply, queue, wire, up, calls, talked, quiet

snapshotVars == <<running, state, history, disk>>
flightVars   == <<pending, reply, wire>>
baresipVars  == <<up, calls, talked, quiet>>
vars == <<running, state, history, disk, pending, reply, queue, wire, up, calls, talked, quiet>>

Live == {"ringing", "dialing", "established"}
CallStatuses == Live \cup {"unused", "requested", "over"}

NoEvent == [kind |-> "none", type |-> "none", id |-> NoCall, peer |-> NoCall]

BaresipEvents ==
  {CallEvent(type, c, c) : type \in CallEventTypes, c \in Calls}
    \cup {RegisterEvent(type) : type \in RegisterEventTypes}
UserEvents == {ActionEvent(type, c) : type \in ActionTypes, c \in CallOrNone}

-----------------------------------------------------------------------------
(* History: newest first, cut to MaxHistory, invalid entries dropped.  As in
   CallReducer, X_... is a mutant of X. *)

mergeCallHistory_CutsTwo(entries, entry) ==
  IF entry = NoEntry \/ entry.call \in Oversized
  THEN entries
  ELSE SubSeq(<<entry>> \o entries, 1,
              IF Len(entries) < MaxHistory THEN Len(entries) + 1 ELSE MaxHistory - 1)

mergeCallHistory(entries, entry) ==
  IF entry = NoEntry \/ entry.call \in Oversized
  THEN entries
  ELSE SubSeq(<<entry>> \o entries, 1,
              IF Len(entries) < MaxHistory THEN Len(entries) + 1 ELSE MaxHistory)

\* What WriteCallHistory makes of the file: it is replaced by the merged history,
\* or the write fails first.  The snapshot takes the entry either way.
WriteCallHistory(file, merged) == {merged} \cup {f \in {file} : "disk" \in Faults}

appendCallHistory(entry) ==
  /\ history' = mergeCallHistory(history, entry)
  /\ disk' \in IF entry = NoEntry THEN {disk} ELSE WriteCallHistory(disk, history')

-----------------------------------------------------------------------------
(* The run loop: reduce, execute, commit *)

Commit(transition) ==
  /\ state' = transition.state
  /\ appendCallHistory(transition.entry)

\* A refused or unanswered command leaves the state; only a dial is recorded.
failedDialHistory(event) ==
  IF event.kind = "action" /\ event.type = "dial"
  THEN Entry(event.peer, "outgoing", "not_connected", FALSE)
  ELSE NoEntry

Abandon(event) ==
  /\ appendCallHistory(failedDialHistory(event))
  /\ UNCHANGED state

\* The attempt a dial stands for gets its name when the command is sent.
Requested(command) ==
  IF command.kind = "dial" THEN [calls EXCEPT ![command.call] = "requested"] ELSE calls

applyDomainEvent(event) ==
  LET transition == Reduce(state, event) IN
  \/ /\ transition.err
     /\ UNCHANGED <<state, history, disk, pending, reply, wire, calls>>
  \/ /\ ~ transition.err
     /\ transition.command = NoCommand
     /\ Commit(transition)
     /\ UNCHANGED <<pending, reply, wire, calls>>
  \/ /\ transition.command # NoCommand
     /\ up
     /\ Len(wire) <= MaxLate
     /\ wire' = Append(wire, transition.command)
     /\ pending' = event
     /\ calls' = Requested(transition.command)
     /\ UNCHANGED <<state, history, disk, reply>>
  \/ /\ transition.command # NoCommand
     /\ ~ up
     /\ Abandon(event)
     /\ calls' = IF transition.command.kind = "dial"
                 THEN [calls EXCEPT ![transition.command.call] = "over"] ELSE calls
     /\ UNCHANGED <<pending, reply, wire>>

LoopReady == running /\ pending = NoEvent

UserRequest(type, target) ==
  /\ LoopReady
  /\ type \in Actions
  /\ IF type = "dial" THEN target \in Calls /\ calls[target] = "unused" ELSE target = NoCall
  /\ applyDomainEvent(ActionEvent(type, target))
  /\ UNCHANGED <<running, queue, up, talked, quiet>>

HandleBaresipEvent ==
  /\ LoopReady
  /\ queue # <<>>
  /\ queue' = Tail(queue)
  /\ applyDomainEvent(Head(queue))
  /\ UNCHANGED <<running, up, talked, quiet>>

Waiting == running /\ pending # NoEvent /\ reply = "none"

FinishCommand ==
  /\ running /\ pending # NoEvent /\ reply # "none"
  /\ IF reply = "ok" THEN Commit(Reduce(state, pending)) ELSE Abandon(pending)
  /\ pending' = NoEvent
  /\ reply' = "none"
  /\ UNCHANGED <<running, queue, wire, baresipVars>>

\* CommandTimeout: the session gives the command up, baresip may still run it.
CommandTimesOut ==
  /\ "timeout" \in Faults
  /\ Waiting
  /\ Abandon(pending)
  /\ pending' = NoEvent
  /\ UNCHANGED <<running, reply, queue, wire, baresipVars>>

-----------------------------------------------------------------------------
(* baresip and the peers *)

IsQueued(type, c) == \E i \in 1 .. Len(queue) : queue[i] = CallEvent(type, c, c)
Emit(type, c) == queue' = Append(queue, CallEvent(type, c, c))

PeerCalls(c) ==
  /\ up /\ calls[c] = "unused"
  /\ calls' = [calls EXCEPT ![c] = "ringing"]
  /\ Emit("CALL_INCOMING", c)
  /\ UNCHANGED <<snapshotVars, flightVars, up, talked, quiet>>

PeerAnswers(c) ==
  /\ up /\ calls[c] = "dialing"
  /\ calls' = [calls EXCEPT ![c] = "established"]
  /\ talked' = talked \cup {c}
  /\ Emit("CALL_ESTABLISHED", c)
  /\ UNCHANGED <<snapshotVars, flightVars, up, quiet>>

PeerEnds(c) ==
  /\ up /\ calls[c] \in Live
  /\ c \in Impatient \/ (~ IsQueued("CALL_INCOMING", c) /\ pending.id # c)
  /\ calls' = [calls EXCEPT ![c] = "over"]
  /\ Emit("CALL_CLOSED", c)
  /\ UNCHANGED <<snapshotVars, flightVars, up, talked, quiet>>

RegistrarReports(type) ==
  /\ up /\ Len(queue) < MaxQueue
  /\ queue' = Append(queue, RegisterEvent(type))
  /\ UNCHANGED <<snapshotVars, flightVars, baresipVars>>

\* The calls a command can act on: the one it names or, without a name, any
\* that baresip may hold to be the current one.
Addressed(command, statuses) ==
  {c \in Calls :
     /\ calls[c] \in statuses
     /\ \/ command.call = c
        \/ command.call = NoCall /\ (c \in Overtaking \/ ~ IsQueued("CALL_INCOMING", c))}

\* The effect of one command on baresip, and its answer.
Dial(c, answer) ==
  /\ \/ answer = "ok" /\ calls' = [calls EXCEPT ![c] = "dialing"]
     \/ "refused_dial" \in Faults /\ answer = "refused" /\ calls' = [calls EXCEPT ![c] = "over"]
  /\ UNCHANGED <<queue, talked, quiet>>

Accept(c, answer) ==
  /\ answer = "ok"
  /\ calls' = [calls EXCEPT ![c] = "established"]
  /\ talked' = talked \cup {c}
  /\ Emit("CALL_ESTABLISHED", c)
  /\ UNCHANGED quiet

Hangup(c, answer) ==
  /\ answer = "ok"
  /\ calls' = [calls EXCEPT ![c] = "over"]
  /\ Emit("CALL_CLOSED", c)
  /\ UNCHANGED <<talked, quiet>>

ToggleMute(c, answer) ==
  /\ answer = "ok"
  /\ quiet' = IF c \in quiet THEN quiet \ {c} ELSE quiet \cup {c}
  /\ UNCHANGED <<queue, calls, talked>>

\* "no active call", "could not find call"
NothingToDo(answer) == answer = "refused" /\ UNCHANGED <<queue, calls, talked, quiet>>

Perform(command, answer) ==
  \/ command.kind = "dial" /\ Dial(command.call, answer)
  \/ /\ command.kind = "accept"
     /\ \/ \E c \in Addressed(command, {"ringing"}) : Accept(c, answer)
        \/ Addressed(command, {"ringing"}) = {} /\ NothingToDo(answer)
  \/ /\ command.kind \in {"hangup", "reject"}
     /\ \/ \E c \in Addressed(command, Live) : Hangup(c, answer)
        \/ Addressed(command, Live) = {} /\ NothingToDo(answer)
  \/ /\ command.kind = "mute"
     /\ \/ \E c \in Addressed(command, {"established"}) : ToggleMute(c, answer)
        \/ Addressed(command, {"established"}) = {} /\ NothingToDo(answer)

\* The command awaited is the last one sent; earlier ones have timed out and
\* their answer reaches nobody.
BaresipExecutes ==
  /\ up /\ wire # <<>>
  /\ wire' = Tail(wire)
  /\ \E answer \in {"ok", "refused"} :
       /\ Perform(Head(wire), answer)
       /\ reply' = IF Waiting /\ Len(wire) = 1 THEN answer ELSE reply
  /\ UNCHANGED <<snapshotVars, pending, up>>

-----------------------------------------------------------------------------
(* The ends of a runtime, and its start *)

AllOver == [c \in Calls |-> IF calls[c] = "unused" THEN "unused" ELSE "over"]

\* The child exits or leaves the bus.  Events already read stay in the channel,
\* a command in flight fails.
BaresipExits ==
  /\ "exit" \in Disruptions
  /\ up
  /\ up' = FALSE
  /\ calls' = AllOver
  /\ wire' = <<>>
  /\ reply' = IF Waiting THEN "refused" ELSE reply
  /\ UNCHANGED <<snapshotVars, pending, queue, talked, quiet>>

\* finalizeActiveCall: a CLOSED event for the tracked call, made up by the
\* session; what a snapshot and the file can be after it.
finalizeActiveCall_AsLost(from, endRequested) ==
  IF from.state.callState = "idle" THEN {from}
  ELSE LET transition == Reduce(from.state, CallEvent("CALL_CLOSED", from.state.callID, NoCall))
           merged == mergeCallHistory(from.history, transition.entry)
       IN  {[state |-> transition.state, history |-> merged, disk |-> file] :
              file \in WriteCallHistory(from.disk, merged)}

finalizeActiveCall_KeepsCall(from, endRequested) ==
  IF from.state.callState = "idle" THEN {from}
  ELSE LET current == [from.state EXCEPT !.endRequested = @ \/ endRequested]
           merged == mergeCallHistory(from.history,
                       Reduce(current, CallEvent("CALL_CLOSED", current.callID, NoCall)).entry)
       IN  {[from EXCEPT !.history = merged, !.disk = file] :
              file \in WriteCallHistory(from.disk, merged)}

finalizeActiveCall(from, endRequested) ==
  IF from.state.callState = "idle" THEN {from}
  ELSE LET current == [from.state EXCEPT !.endRequested = @ \/ endRequested]
           transition == Reduce(current, CallEvent("CALL_CLOSED", current.callID, NoCall))
           merged == mergeCallHistory(from.history, transition.entry)
       IN  {[state |-> transition.state, history |-> merged, disk |-> file] :
              file \in WriteCallHistory(from.disk, merged)}

\* The child is gone, with the queue and what was on its way to it.
DropBaresip ==
  /\ up' = FALSE
  /\ calls' = AllOver
  /\ queue' = <<>>
  /\ wire' = <<>>
  /\ UNCHANGED talked
  /\ quiet' = {}

\* cleanupRuntime and then finishRuntime, which both finalize the call; only do
\* not disturb survives.
EndRuntime(endRequested) ==
  /\ \E cleaned \in finalizeActiveCall([state |-> state, history |-> history, disk |-> disk],
                                       endRequested) :
     \E finished \in finalizeActiveCall(cleaned, FALSE) :
       /\ state' = [NewState EXCEPT !.dnd = finished.state.dnd]
       /\ history' = finished.history
       /\ disk' = finished.disk
  /\ running' = FALSE
  /\ DropBaresip
  /\ UNCHANGED <<pending, reply>>

Stop == "stop" \in Disruptions /\ LoopReady /\ EndRuntime(TRUE)

LoseBaresip == LoopReady /\ ~ up /\ EndRuntime(FALSE)

\* launch, then registrationState on a state that keeps do not disturb
FreshState(info) == Reduce([NewState EXCEPT !.dnd = state.dnd], RegistrationSnapshot(info)).state

Start_Unloaded ==
  /\ ~ running
  /\ running' = TRUE
  /\ up' = TRUE
  /\ history' = <<>>
  /\ \E info \in Infos : state' = FreshState(info)
  /\ UNCHANGED <<disk, pending, reply, queue, wire, calls, talked, quiet>>

Start ==
  /\ ~ running
  /\ running' = TRUE
  /\ up' = TRUE
  /\ history' = disk
  /\ \E info \in Infos : state' = FreshState(info)
  /\ UNCHANGED <<disk, pending, reply, queue, wire, calls, talked, quiet>>

\* writeAccount replaces the child without ending the runtime; the events of
\* the old child are gone.
RestartForAccount ==
  /\ "account" \in Disruptions
  /\ LoopReady
  /\ state.callState = "idle"
  /\ \E info \in Infos : state' = FreshState(info)
  /\ up' = TRUE
  /\ calls' = AllOver
  /\ queue' = <<>>
  /\ wire' = <<>>
  /\ quiet' = {}
  /\ UNCHANGED <<running, history, disk, pending, reply, talked>>

\* The account is written, the old child stopped, and the new one fails.
RestartFails ==
  /\ "account" \in Disruptions
  /\ LoopReady
  /\ state.callState = "idle"
  /\ EndRuntime(FALSE)

\* GoSipTea itself dies, and its child with it (Pdeathsig).
Crash ==
  /\ "crash" \in Disruptions
  /\ running
  /\ running' = FALSE
  /\ state' = NewState
  /\ history' = <<>>
  /\ pending' = NoEvent
  /\ reply' = "none"
  /\ DropBaresip
  /\ UNCHANGED disk

-----------------------------------------------------------------------------
EntriesOf(c, entries) == {i \in DOMAIN entries : entries[i].call = c}

\* No session runs yet; the file is that of earlier runs, whose attempts are over.
Init ==
  /\ running = FALSE
  /\ state = NewState
  /\ history = <<>>
  /\ disk = Saved
  /\ pending = NoEvent
  /\ reply = "none"
  /\ queue = <<>>
  /\ wire = <<>>
  /\ up = FALSE
  /\ calls = [c \in Calls |-> IF EntriesOf(c, Saved) = {} THEN "unused" ELSE "over"]
  /\ talked = {Saved[i].call : i \in {j \in 1 .. Len(Saved) : Saved[j].outcome = "connected"}}
  /\ quiet = {}

SessionStep ==
  \/ \E type \in ActionTypes, target \in CallOrNone : UserRequest(type, target)
  \/ HandleBaresipEvent
  \/ FinishCommand
  \/ CommandTimesOut

BaresipStep ==
  \/ \E c \in Calls : PeerCalls(c) \/ PeerAnswers(c) \/ PeerEnds(c)
  \/ \E type \in Reports : RegistrarReports(type)
  \/ BaresipExecutes

LifecycleStep ==
  \/ Start \/ Stop \/ BaresipExits \/ LoseBaresip
  \/ RestartForAccount \/ RestartFails \/ Crash

Next == SessionStep \/ BaresipStep \/ LifecycleStep

Spec == Init /\ [][Next]_vars
-----------------------------------------------------------------------------
(* Properties *)

\* Every variable holds a value of its kind.
TypeOK ==
  /\ running \in BOOLEAN
  /\ state \in State
  /\ history \in Seq(Entries)
  /\ disk \in Seq(Entries)
  /\ pending \in BaresipEvents \cup UserEvents \cup {NoEvent}
  /\ reply \in {"none", "ok", "refused"}
  /\ queue \in Seq(BaresipEvents)
  /\ wire \in Seq(Commands)
  /\ up \in BOOLEAN
  /\ calls \in [Calls -> CallStatuses]
  /\ talked \subseteq Calls
  /\ quiet \subseteq Calls

Tracked == IF state.callID # NoCall THEN state.callID ELSE state.target

\* The call the session shows is one baresip has, or baresip's word that it
\* is over is on its way: the session never shows a call for ever that no
\* event can end (applyDomainEvent against the event order of the client).
TrackedCallIsReal ==
  running /\ up /\ state.callState # "idle" =>
    calls[Tracked] \in Live \/ IsQueued("CALL_CLOSED", Tracked)

\* "CallHistoryEntry is one completed call attempt": no attempt has two
\* entries, whichever of reducer, failed dial and shutdown records it.
AtMostOneEntry ==
  \A c \in Calls, entries \in {history, disk} :
    \A i, j \in EntriesOf(c, entries) : i = j

\* An incoming call the history calls connected was answered in baresip.
ConnectedIncomingWasAnswered ==
  \A i \in DOMAIN history :
    history[i].direction = "incoming" /\ history[i].outcome = "connected"
      => history[i].call \in talked

\* A history entry is about a call that is over.
RecordedMeansOver ==
  \A i \in DOMAIN history : calls[history[i].call] = "over"

Quiescent == LoopReady /\ up /\ queue = <<>> /\ wire = <<>>

\* When nothing is on its way, a call that is over is in the history.
EveryAttemptRecorded ==
  Quiescent => \A c \in Calls : calls[c] = "over" => EntriesOf(c, history) # {}

\* When nothing is on its way, a call baresip has is the one the session shows.
NoOrphanCall ==
  Quiescent => \A c \in Calls : calls[c] \in Live => state.callState # "idle" /\ Tracked = c

\* When nothing is on its way, the mute state shown is that of baresip's call.
MuteAgrees ==
  Quiescent /\ state.callState = "active" => (state.muted <=> Tracked \in quiet)

\* `new' is `old' with n entries put in front and, at MaxHistory, the oldest cut off.
ExtendsBy(new, old, n) ==
  /\ n \in 0 .. Len(new)
  /\ Len(new) - n = Len(old) \/ (Len(new) - n < Len(old) /\ Len(new) = MaxHistory)
  /\ \A i \in 1 .. Len(new) - n : new[n + i] = old[i]

\* What the session shows is what the file holds plus newer entries it could
\* not save, so the next successful write saves them too.
HistoryExtendsDisk == running => \E n \in 0 .. Len(history) : ExtendsBy(history, disk, n)

ShownGrows == \E n \in {0, 1} : ExtendsBy(history', history, n)

FileCatchesUp ==
  \A unsaved \in 0 .. Len(history) :
    ExtendsBy(history, disk, unsaved)
      => \E n \in {unsaved, unsaved + 1} : ExtendsBy(disk', disk, n)

\* No step loses or reorders an entry but the oldest at the limit: the history
\* gets one entry at a time, and the file exactly those it lacked and at most
\* that one, through failed writes, restarts and crashes (mergeCallHistory,
\* WriteCallHistory, Start).
PersistedHistoryOnlyGrows ==
  [][(Start \/ Crash \/ ShownGrows) /\ (disk' # disk => FileCatchesUp)]_<<history, disk>>

\* A runtime that ends with a call, other than by a crash, leaves that call as
\* the newest entry, with an outcome that fits how far it had come and whether
\* the user asked for the end (finalizeActiveCall in cleanupRuntime and in
\* finishRuntime).
ShutdownRecordsTrackedCall ==
  [][(Stop \/ LoseBaresip) /\ state.callState # "idle" /\ state.target \notin Oversized
       => /\ history' # <<>>
          /\ history'[1].call = state.target
          /\ history'[1].direction = state.direction
          /\ history'[1].outcome \in
               IF state.callState = "active" THEN {"connected"}
               ELSE IF up THEN {"rejected", "canceled"}
               ELSE {"rejected", "canceled", "missed", "not_connected"}]_vars

\* Turning a second caller away never ends the call the session shows.
RejectionSparesTrackedCall ==
  [][BaresipExecutes /\ Head(wire).kind = "hangup" /\ Head(wire).call # NoCall
       /\ state.callState # "idle" /\ calls[Tracked] \in Live
       => calls'[Tracked] \in Live]_vars

-----------------------------------------------------------------------------
(* Liveness *)

\* select picks among ready cases at random, so an event waiting in the channel
\* is not overtaken by requests for ever (SF); the loop itself does not rest,
\* and baresip executes what it receives.
Fairness ==
  /\ WF_vars(FinishCommand)
  /\ WF_vars(CommandTimesOut)
  /\ WF_vars(BaresipExecutes)
  /\ SF_vars(HandleBaresipEvent)
  /\ SF_vars(LoseBaresip)

FairSpec == Spec /\ Fairness

\* A call that is over does not stay on the screen.
CallEventuallyCleared ==
  \A c \in Calls :
    (running /\ state.callState # "idle" /\ Tracked = c /\ calls[c] = "over")
      ~> (~ running \/ state.callState = "idle" \/ Tracked # c)

================================================================================
