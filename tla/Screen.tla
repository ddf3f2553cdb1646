--------------------------------- MODULE Screen ---------------------------------
(***************************************************************************)
(* The program around a session and its terminal screen: run, makeDispatch  *)
(* (cmd/gosiptea/main.go) and what messages do to the Bubble Tea model      *)
(* (internal/tui/model.go), on top of SnapshotFeed.                         *)
(*                                                                         *)
(* Three kinds of goroutines send messages to the screen.  The forwarder    *)
(* takes snapshots from its subscription; a dispatch goroutine per user     *)
(* action waits for the session's answer and then takes a snapshot of its   *)
(* own; keys come from the user.  Bubble Tea receives one message at a time *)
(* from whichever sender its select picks.                                  *)
(*                                                                         *)
(*   snap       what the snapshot of each revision holds                    *)
(*   loop       where Session.run is, served the dispatch whose request it has *)
(*   dispatch   the goroutines of makeDispatch                              *)
(*   outbox     what the forwarder still has to send of the last snapshot   *)
(*   main       where run is, terminal and exit its results                 *)
(*   screen     tui.Model: errText and the account form                     *)
(*                                                                         *)
(* Bubble Tea is external: Send hands a message to the event loop or, once   *)
(* that has ended, returns at once.                                         *)
(***************************************************************************)
EXTENDS SnapshotFeed

CONSTANTS
  Loop,          \* the updater that is Session.run; the others are goroutines
                 \* of pauseMedia and focusWindow
  Forwarder,     \* the subscriber of the forwarder goroutine
  Dispatches,    \* dispatch goroutines that exist at a time
  Errors,        \* error texts
  NoError,
  NoOne          \* no dispatch

ASSUME ScreenAssumption ==
  /\ Loop \in Updaters
  /\ Forwarder \in Subscribers
  /\ NoError \notin Errors
  /\ NoOne \notin Dispatches

VARIABLES snap, loop, served, dispatch, outbox, lastError, main, terminal, exit, screen,
          cause, draft,          \* history: why the program ended, whether there is
                                 \* typing not yet submitted, whether the newest
          overtaken              \* snapshot was published before an older one

sessionVars == <<snap, loop, served, overtaken>>
programVars == <<main, terminal, exit, cause>>
screenVars  == <<screen, draft>>
forwardVars == <<outbox, lastError>>
allVars     == <<vars, sessionVars, programVars, screenVars, forwardVars, dispatch>>

Current == snap[revision]
IdleDispatch == [at |-> "free", save |-> FALSE, error |-> NoError]

NewScreen == [error |-> NoError, form |-> "synced", dirty |-> FALSE]

\* Of a snapshot message only its arrival matters here.
SnapshotMsg == [kind |-> "snapshot", error |-> NoError]
ActionResultMsg(e) == [kind |-> "result", error |-> e]
ErrorMsg(e) == [kind |-> "error", error |-> e]
QuitMsg == [kind |-> "quit", error |-> NoError]

-----------------------------------------------------------------------------
(* The session *)

\* An updater puts an error, or none, into the snapshot.  Bound: the last
\* revision is kept for finishRuntime.
recordError(u, e) ==
  /\ revision + 1 < MaxRevision
  /\ updateSnapshot(u)
  /\ snap' = Append(snap, [Current EXCEPT !.error = e])
  /\ overtaken' = FALSE

\* When run has returned the process ends, with all its goroutines.
Alive == main # "done"

LoopIs(place) == Alive /\ loop = place /\ stage[Loop] = "idle"

\* An event of baresip that changes the state, or whose handling fails.
HandleBaresipEvent ==
  /\ LoopIs("select")
  /\ \E e \in Errors \cup {Current.error} : recordError(Loop, e)
  /\ UNCHANGED <<loop, served, dispatch, forwardVars, programVars, screenVars>>

\* pauseMedia or focusWindow reports a failure, whatever the loop does.
BackgroundFails(u) ==
  /\ Alive /\ u # Loop
  /\ \E e \in Errors : recordError(u, e)
  /\ UNCHANGED <<loop, served, dispatch, forwardVars, programVars, screenVars>>

TakeRequest(d) ==
  /\ LoopIs("select") /\ dispatch[d].at = "waiting"
  /\ loop' = "handling"
  /\ served' = d
  /\ dispatch' = [dispatch EXCEPT ![d].at = "served"]
  /\ UNCHANGED <<vars, snap, overtaken, forwardVars, programVars, screenVars>>

\* The change a request makes to the state, the contacts, the selection or the
\* account; an account that was written needs another baresip.
ApplyRequest ==
  /\ LoopIs("handling")
  /\ recordError(Loop, Current.error)
  /\ loop' = IF dispatch[served].save THEN "restarting" ELSE "applied"
  /\ UNCHANGED <<served, dispatch, forwardVars, programVars, screenVars>>

\* baresip has been replaced; its registration could be read or not.
FinishRestart ==
  /\ LoopIs("restarting")
  /\ \E e \in Errors \cup {NoError} : recordError(Loop, e)
  /\ loop' = "applied"
  /\ UNCHANGED <<served, dispatch, forwardVars, programVars, screenVars>>

FailRequest ==
  /\ LoopIs("handling")
  /\ \E e \in Errors :
       /\ recordError(Loop, e)
       /\ dispatch' = [dispatch EXCEPT ![served].error = e]
  /\ loop' = "failed"
  /\ UNCHANGED <<served, forwardVars, programVars, screenVars>>

clearError ==
  /\ LoopIs("applied") /\ Current.error # NoError
  /\ recordError(Loop, NoError)
  /\ loop' = "cleared"
  /\ UNCHANGED <<served, dispatch, forwardVars, programVars, screenVars>>

\* req.result <- result, which the dispatch may have given up waiting for
Reply ==
  /\ \/ LoopIs("failed")
     \/ LoopIs("cleared")
     \/ LoopIs("applied") /\ Current.error = NoError
  /\ dispatch' = [dispatch EXCEPT ![served] =
       IF @.at = "served" THEN [@ EXCEPT !.at = IF loop = "failed" THEN "failed" ELSE "answered"] ELSE @]
  /\ loop' = "select"
  /\ served' = NoOne
  /\ UNCHANGED <<vars, snap, overtaken, forwardVars, programVars, screenVars>>

\* The replaced baresip does not come up: the request fails and the loop ends.
FailRestart ==
  /\ LoopIs("restarting")
  /\ \E e \in Errors :
       dispatch' = [dispatch EXCEPT ![served] =
         IF @.at = "served" THEN [@ EXCEPT !.at = "failed", !.error = e] ELSE @]
  /\ loop' = "leaving"
  /\ served' = NoOne
  /\ UNCHANGED <<vars, snap, overtaken, forwardVars, programVars, screenVars>>

\* finishRuntime with a terminal error, or none to keep the last one.
finishRuntime_Silent(e) ==
  /\ updateSnapshot(Loop)
  /\ snap' = Append(snap, [Current EXCEPT !.running = FALSE])
  /\ loop' = "ended"
  /\ overtaken' = FALSE

finishRuntime(e) ==
  /\ updateSnapshot(Loop)
  /\ snap' = Append(snap, [Current EXCEPT !.running = FALSE, !.error = IF e = NoError THEN @ ELSE e])
  /\ loop' = "ended"
  /\ overtaken' = FALSE

\* The client, the child or the restart is lost.
LoseRuntime ==
  /\ LoopIs("select") \/ LoopIs("leaving")
  /\ \E e \in Errors : finishRuntime(e)
  /\ UNCHANGED <<served, dispatch, forwardVars, programVars, screenVars>>

-----------------------------------------------------------------------------
(* The dispatch goroutines *)

Message(d) ==
  IF dispatch[d].at = "failed" THEN ErrorMsg(dispatch[d].error)
  ELSE ActionResultMsg(dispatch[d].error)

\* The answer does not come in time, or the session is not running.
GiveUp(d) ==
  /\ Alive /\ dispatch[d].at \in {"waiting", "served"}
  /\ \E e \in Errors :
       dispatch' = [dispatch EXCEPT ![d].at = "failed", ![d].error = e]
  /\ UNCHANGED <<vars, sessionVars, forwardVars, programVars, screenVars>>

\* The action succeeded: the goroutine takes a snapshot to send with the result.
TakeSnapshot(d) ==
  /\ Alive /\ dispatch[d].at = "answered"
  /\ dispatch' = [dispatch EXCEPT ![d].at = "result", ![d].error = Current.error]
  /\ UNCHANGED <<vars, sessionVars, forwardVars, programVars, screenVars>>

-----------------------------------------------------------------------------
(* The screen *)

applySnapshot_Overwrites == [screen EXCEPT !.form = "synced", !.dirty = FALSE]

\* A form that is being edited is left alone, another takes the saved account.
applySnapshot == IF screen.dirty THEN screen ELSE [screen EXCEPT !.form = "synced"]

\* Run returns and its model is thrown away.
EndProgram(why) ==
  /\ main' = "ended"
  /\ cause' = why
  /\ screen' = NewScreen
  /\ draft' = FALSE
  /\ UNCHANGED <<terminal, exit>>

\* Model.Update; Bubble Tea itself takes the quit message.
Update(msg) ==
  LET shown == IF msg.kind = "error" THEN screen ELSE applySnapshot IN
  /\ screen' = IF msg.kind = "snapshot" THEN shown ELSE [shown EXCEPT !.error = msg.error]
  /\ UNCHANGED <<draft, programVars>>

Receives(msg) ==
  /\ main = "running"
  /\ IF msg = QuitMsg THEN EndProgram("session") ELSE Update(msg)

Running == main \in {"creating", "running"}

\* program.Send once the program has ended
Dropped == ~ Running /\ UNCHANGED <<programVars, screenVars>>

Send(msg) == Receives(msg) \/ Dropped

SendResult(d) ==
  /\ Alive /\ dispatch[d].at \in {"failed", "result"}
  /\ Send(Message(d))
  /\ dispatch' = [dispatch EXCEPT ![d] = IdleDispatch]
  /\ UNCHANGED <<vars, sessionVars, forwardVars>>

\* A key starts an action; that of the dial field clears the error line.
EmitAction(d) ==
  /\ main = "running" /\ dispatch[d].at = "free"
  /\ dispatch' = [dispatch EXCEPT ![d].at = "waiting"]
  /\ \E e \in {screen.error, NoError} : screen' = [screen EXCEPT !.error = e]
  /\ UNCHANGED <<vars, sessionVars, forwardVars, programVars, draft>>

TypeInForm ==
  /\ main = "running"
  /\ screen' = [screen EXCEPT !.form = "typed", !.dirty = TRUE]
  /\ draft' = TRUE
  /\ UNCHANGED <<vars, sessionVars, forwardVars, programVars, dispatch>>

SubmitForm(d) ==
  /\ main = "running" /\ dispatch[d].at = "free"
  /\ dispatch' = [dispatch EXCEPT ![d].at = "waiting", ![d].save = TRUE]
  /\ screen' = [screen EXCEPT !.dirty = FALSE]
  /\ draft' = FALSE
  /\ UNCHANGED <<vars, sessionVars, forwardVars, programVars>>

\* q, answered with y when a call is shown, or a signal
UserQuits ==
  /\ main = "running"
  /\ EndProgram("user")
  /\ UNCHANGED <<vars, sessionVars, forwardVars, dispatch>>

-----------------------------------------------------------------------------
(* The forwarder and run *)

Forward_QuitsOnNewError(r) ==
  IF snap[r].error = lastError THEN <<SnapshotMsg>>
  ELSE <<SnapshotMsg, ErrorMsg(snap[r].error)>> \o (IF snap[r].running THEN <<>> ELSE <<QuitMsg>>)

\* What the forwarder sends for a snapshot: errors only when they change.
Forward(r) ==
  <<SnapshotMsg>>
    \o (IF snap[r].error = lastError THEN <<>> ELSE <<ErrorMsg(snap[r].error)>>)
    \o (IF snap[r].running THEN <<>> ELSE <<QuitMsg>>)

ForwarderReceives ==
  /\ outbox = <<>> /\ main # "creating"
  /\ Receive(Forwarder)
  /\ LET r == Head(channel[Forwarder]) IN
       /\ outbox' = Forward(r)
       /\ lastError' = snap[r].error
  /\ UNCHANGED <<sessionVars, programVars, screenVars, dispatch>>

ForwarderSends ==
  /\ outbox # <<>>
  /\ Send(Head(outbox))
  /\ outbox' = Tail(outbox)
  /\ UNCHANGED <<vars, sessionVars, lastError, dispatch>>

\* close(updatesDone)
UpdatesDone == outbox = <<>> /\ channel[Forwarder] = <<>> /\ Forwarder \notin open

SubscribeUpdates ==
  /\ main = "subscribing" /\ Subscribe(Forwarder)
  /\ main' = "creating"
  /\ UNCHANGED <<sessionVars, forwardVars, screenVars, dispatch, terminal, exit, cause>>

\* tui.New with a snapshot of its own
NewProgram ==
  /\ main = "creating"
  /\ main' = "running"
  /\ UNCHANGED <<vars, sessionVars, forwardVars, screenVars, dispatch, terminal, exit, cause>>

Unsubscribe_Deferred ==
  /\ main = "ended"
  /\ main' = "unsubscribed"
  /\ UNCHANGED <<vars, sessionVars, forwardVars, screenVars, dispatch, terminal, exit, cause>>

Unsubscribe ==
  /\ main = "ended" /\ Cancel(Forwarder)
  /\ main' = "unsubscribed"
  /\ UNCHANGED <<sessionVars, forwardVars, screenVars, dispatch, terminal, exit, cause>>

\* <-updatesDone, then the snapshot that tells how the session ended
AwaitForwarder ==
  /\ main = "unsubscribed" /\ UpdatesDone
  /\ main' = "stopping"
  /\ terminal' = revision
  /\ UNCHANGED <<vars, sessionVars, forwardVars, screenVars, dispatch, exit, cause>>

\* phone.Stop is served by the loop, or finds it ended, or runs out of time.
StopSession ==
  /\ main = "stopping" /\ LoopIs("select")
  /\ \E e \in Errors \cup {NoError} : finishRuntime(e)
  /\ UNCHANGED <<served, forwardVars, programVars, screenVars, dispatch>>

Failed == ~ snap[terminal].running /\ snap[terminal].error # NoError

Return ==
  /\ main = "stopping"
  /\ main' = "done"
  /\ \E stopFailed \in BOOLEAN :
       /\ stopFailed \/ LoopIs("ended")
       /\ exit' = IF stopFailed \/ Failed THEN "error" ELSE "ok"
  /\ UNCHANGED <<vars, sessionVars, forwardVars, screenVars, dispatch, terminal, cause>>

-----------------------------------------------------------------------------
\* The session has started and the audio devices are listed, or could not be.
ScreenInit ==
  /\ Init
  /\ \E e \in Errors \cup {NoError} : snap = <<[running |-> TRUE, error |-> e]>>
  /\ screen = NewScreen
  /\ loop = "select" /\ served = NoOne /\ overtaken = FALSE
  /\ dispatch = [d \in Dispatches |-> IdleDispatch]
  /\ outbox = <<>> /\ lastError = NoError
  /\ main = "subscribing" /\ terminal = 0 /\ exit = "none" /\ cause = "none"
  /\ draft = FALSE

SessionStep ==
  \/ HandleBaresipEvent
  \/ \E d \in Dispatches : TakeRequest(d)
  \/ ApplyRequest \/ FinishRestart \/ FailRequest \/ clearError \/ Reply \/ FailRestart
  \/ LoseRuntime
  \/ \E u \in Updaters : BackgroundFails(u)

\* The newest snapshot gets subMu while an older one still waits for it.
Overtakes(u) ==
  /\ stage[u] = "locking" /\ held[u] = revision
  /\ \E v \in Updaters : stage[v] = "locking" /\ held[v] < revision

FeedStep ==
  /\ Alive
  /\ \E u \in Updaters :
       /\ Publish(u)
       /\ overtaken' = (overtaken \/ Overtakes(u))
  /\ UNCHANGED <<snap, loop, served, forwardVars, programVars, screenVars, dispatch>>

UserStep ==
  \/ \E d \in Dispatches : EmitAction(d) \/ SubmitForm(d)
  \/ TypeInForm
  \/ UserQuits

DispatchStep == \E d \in Dispatches : GiveUp(d) \/ TakeSnapshot(d) \/ SendResult(d)

ForwarderStep == ForwarderReceives \/ ForwarderSends

\* The goroutine of run, and the loop that serves its Stop.
MainStep == SubscribeUpdates \/ NewProgram \/ Unsubscribe \/ AwaitForwarder \/ Return

ProgramStep == DispatchStep \/ ForwarderStep \/ MainStep \/ StopSession

ScreenNext == SessionStep \/ FeedStep \/ UserStep \/ ProgramStep

ScreenSpec == ScreenInit /\ [][ScreenNext]_allVars

\* Goroutines that can go on do so: publishers, the forwarder and run.  That is
\* enough where updates end, so a mutex is free in the end; SnapshotFeed says
\* what is assumed where they do not.  Nothing is assumed of the user, of
\* baresip, of deadlines, nor of the run loop and the dispatch goroutines.
ScreenFairness ==
  /\ WF_allVars(FeedStep)
  /\ WF_allVars(ForwarderStep)
  /\ WF_allVars(MainStep)

FairScreenSpec == ScreenSpec /\ ScreenFairness

-----------------------------------------------------------------------------
(* Properties *)

\* What the user has typed into the account form since the last submit stays
\* there, whichever snapshots and results arrive meanwhile (applySnapshot).
DraftKept == draft => screen.form = "typed"

\* No snapshot is being published or is on its way to the screen.
AtRest ==
  /\ main = "running" /\ outbox = <<>> /\ channel[Forwarder] = <<>>
  /\ \A u \in Updaters : stage[u] = "idle"
  /\ \A d \in Dispatches : dispatch[d].at = "free"

\* A program closed because the session ended returns the reason as its error
\* (finishRuntime, the forwarder, the terminal snapshot of run).
ClosingIsExplained == main = "done" /\ cause = "session" => exit = "error"

\* With several updaters publishing at once, draining and refilling channels a
\* subscriber reads meanwhile: when all of them are done every subscriber ends up
\* with the newest snapshot, unless that one was published before an older one
\* (updateSnapshot gives s.mu up before publish takes s.subMu).
NewestUnlessOvertaken == ~ overtaken => NewestDelivered

\* The session's end closes the program, however slow the screen and whatever
\* is published and dropped meanwhile: no screen stays open over a dead session,
\* unless an older snapshot is published after that of the end.
SessionEndQuits == ~ Current.running ~> (main = "done" \/ overtaken)

\* A program that has ended returns: neither unsubscribing, nor waiting for the
\* forwarder, nor Stop holds it for ever.
MainReturns == main = "ended" ~> main = "done"

\* "A session error from a concurrent event must stay visible."
SessionErrorVisible == AtRest /\ Current.error # NoError => screen.error # NoError
=================================================================================
