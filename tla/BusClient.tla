-------------------------------- MODULE BusClient --------------------------------
(***************************************************************************)
(* The connection to baresip over the session bus (internal/baresip/dbus.go) *)
(* and how a session makes, uses and closes it (connect, registrationState  *)
(* and the client's cases of run in internal/session).                      *)
(*                                                                         *)
(* Any peer of the bus may own com.github.Baresip, and the owner may change  *)
(* at any time.  A client pins one owner, is told of changes by signals it   *)
(* reads in a goroutine of its own (reader), and hands baresip's events to   *)
(* the session over a bounded channel.  The session reads that channel only  *)
(* while it does nothing else.                                               *)
(*                                                                         *)
(* The bus daemon, the peers and the signal queue of godbus are external:    *)
(* signals arrive in the order they were sent.  No two peers have the same   *)
(* process id.  Of baresip's state only its registration is modelled, for    *)
(* that is both asked for and reported.                                      *)
(***************************************************************************)
EXTENDS Naturals, Sequences

CONSTANTS
  Peers,         \* connections to the bus other than the client's
  Child,         \* the peer that is the session's child process
  NoOwner,
  EventBuffer,   \* EventBufferSize
  Attempts,      \* ConnectAttempts
  MaxChanges,    \* bound: how often the name changes hands
  MaxReports,    \* bound: how often the registration changes
  Faults         \* subset of {"call", "bus", "deadline"}

ASSUME ChildAssumption == Child \in Peers /\ NoOwner \notin Peers
ASSUME BufferAssumption == EventBuffer \in Nat \ {0} /\ Attempts \in Nat \ {0}
ASSUME BoundAssumption == MaxChanges \in Nat /\ MaxReports \in Nat

VARIABLES
  owner, alive, changes,         \* the name's owner; the child is on the bus
  registered, reports,           \* baresip's registration
  running,                       \* PID() is that of the child, not 0
  connected, watching, signals,  \* the client's connection, match rules, queue
  pinned, verified, cancelled,   \* DBusClient.owner, verified, and its context
  reader, event, events,         \* the goroutine, the event it sends, the channel
  session, step, attempt,        \* where the session is, and NewClient
  call, known,                   \* its command; State.Registration
  commanded                      \* history: the peers that were sent a command

daemonVars == <<owner, alive, changes>>
phoneVars == <<registered, reports, running>>
connVars == <<connected, watching>>
clientVars == <<pinned, verified, cancelled>>
readerVars == <<reader, event, events>>
sessionVars == <<session, step, attempt, call, known, commanded>>
vars == <<daemonVars, phoneVars, connVars, signals, clientVars, readerVars, sessionVars>>

NoCall == [kind |-> "none", result |-> "none"]

\* A signal reaches the client if it has asked for such signals.
Emit(rule, signal) ==
  signals' = IF connected /\ rule \in watching THEN Append(signals, signal) ELSE signals

-----------------------------------------------------------------------------
(* The bus.  Definitions named X_... are mutants of X: plausible bugs the run is
   shown to catch, used by no other definition. *)

OwnerSignal(new) == [kind |-> "owner", old |-> owner, new |-> new]
EventSignal(value) == [kind |-> "event", registered |-> value]

\* A peer takes a free name, gives it up, or the next in the daemon's queue gets it.
NameMoves(new) ==
  /\ changes < MaxChanges
  /\ new # owner /\ (new = Child => alive)
  /\ owner' = new
  /\ changes' = changes + 1
  /\ Emit("owner", OwnerSignal(new))
  /\ UNCHANGED <<alive, phoneVars, connVars, clientVars, readerVars, sessionVars>>

\* To the client the death of another peer is no more than its giving up the name.
ChildDies ==
  /\ alive
  /\ alive' = FALSE
  /\ IF owner = Child
     THEN owner' = NoOwner /\ Emit("owner", OwnerSignal(NoOwner))
     ELSE UNCHANGED <<owner, signals>>
  /\ UNCHANGED <<changes, phoneVars, connVars, clientVars, readerVars, sessionVars>>

ChildIsReaped ==
  /\ ~ alive /\ running
  /\ running' = FALSE
  /\ UNCHANGED <<daemonVars, registered, reports, connVars, signals, clientVars, readerVars, sessionVars>>

\* baresip registers, or its registration fails; the rule names the pinned owner.
RegistrationChanges ==
  /\ alive /\ reports < MaxReports
  /\ registered' = ~ registered
  /\ reports' = reports + 1
  /\ IF pinned = Child THEN Emit("events", EventSignal(registered')) ELSE UNCHANGED signals
  /\ UNCHANGED <<daemonVars, running, connVars, clientVars, readerVars, sessionVars>>

BusDrops ==
  /\ "bus" \in Faults /\ connected
  /\ connected' = FALSE
  /\ UNCHANGED <<daemonVars, phoneVars, watching, signals, clientVars, readerVars, sessionVars>>

-----------------------------------------------------------------------------
(* NewClient *)

Setup_ReadsFirst == <<"has_owner", "get_owner", "watch_owner", "watch_events">>

\* The calls NewClient makes, in order
Setup == <<"watch_owner", "has_owner", "get_owner", "watch_events">>

\* Attempt number attempt begins: ConnectSessionBus.
ConnectSessionBus ==
  /\ session = "waiting" /\ attempt <= Attempts
  /\ connected' = TRUE
  /\ session' = "setup" /\ step' = 1
  /\ UNCHANGED <<daemonVars, phoneVars, watching, signals, clientVars, readerVars, attempt, call, known, commanded>>

Doing(what) == session = "setup" /\ connected /\ Setup[step] = what

Go(place) == session' = place /\ UNCHANGED step

NextStep ==
  /\ step' = step + 1
  /\ session' = IF step = Len(Setup) THEN "pid" ELSE "setup"

\* RemoveSignal and conn.Close
Disconnect == connected' = FALSE /\ watching' = {} /\ signals' = <<>>

WatchOwner ==
  /\ Doing("watch_owner")
  /\ watching' = watching \cup {"owner"}
  /\ NextStep
  /\ UNCHANGED <<daemonVars, phoneVars, connected, signals, clientVars, readerVars, attempt, call, known, commanded>>

HasOwner ==
  /\ Doing("has_owner") /\ owner # NoOwner
  /\ NextStep
  /\ UNCHANGED <<daemonVars, phoneVars, connVars, signals, clientVars, readerVars, attempt, call, known, commanded>>

GetOwner ==
  /\ Doing("get_owner") /\ owner # NoOwner
  /\ pinned' = owner
  /\ NextStep
  /\ UNCHANGED <<daemonVars, phoneVars, connVars, signals, verified, cancelled, readerVars, attempt, call, known, commanded>>

\* The last step starts the reader.
WatchEvents ==
  /\ Doing("watch_events")
  /\ watching' = watching \cup {"events"}
  /\ reader' = "select"
  /\ NextStep
  /\ UNCHANGED <<daemonVars, phoneVars, connected, signals, clientVars, event, events, attempt, call, known, commanded>>

\* Nobody has the name, or a call fails: the connection is closed, and another
\* attempt made after a while.
SetupFails ==
  /\ session = "setup"
  /\ \/ ~ connected \/ "call" \in Faults
     \/ Doing("has_owner") /\ owner = NoOwner
     \/ Doing("get_owner") /\ owner = NoOwner
  /\ Disconnect
  /\ pinned' = NoOwner
  /\ attempt' = attempt + 1
  /\ session' = "waiting" /\ step' = 0
  /\ UNCHANGED <<daemonVars, phoneVars, verified, cancelled, readerVars, call, known, commanded>>

\* The attempts or the time are used up, or the child is gone.
GiveUp ==
  /\ session = "waiting"
  /\ attempt > Attempts \/ ~ running \/ "deadline" \in Faults
  /\ Go("over")
  /\ UNCHANGED <<daemonVars, phoneVars, connVars, signals, clientVars, readerVars, attempt, call, known, commanded>>

-----------------------------------------------------------------------------
(* The session and its client *)

\* Close cancels the reader and waits for it.
Close == cancelled' = TRUE /\ Go("closing")

CloseReturned ==
  /\ session = "closing" /\ reader = "done"
  /\ Go("over")
  /\ UNCHANGED <<daemonVars, phoneVars, connVars, signals, clientVars, readerVars, attempt, call, known, commanded>>

\* process.PID before and after the verification
CheckPID(here, next) ==
  /\ session = here
  /\ IF running THEN Go(next) /\ UNCHANGED cancelled ELSE Close
  /\ UNCHANGED <<daemonVars, phoneVars, connVars, signals, pinned, verified, readerVars, attempt, call, known, commanded>>

VerifyOwner_ByName ==
  /\ session = "verify"
  /\ \/ /\ reader # "done" /\ connected
        /\ owner = Child
        /\ verified' = TRUE
        /\ Go("recheck") /\ UNCHANGED cancelled
     \/ Close /\ UNCHANGED verified
  /\ UNCHANGED <<daemonVars, phoneVars, connVars, signals, pinned, readerVars, attempt, call, known, commanded>>

\* The daemon tells the process id of the pinned connection, while that exists.
VerifyOwner ==
  /\ session = "verify"
  /\ \/ /\ reader # "done" /\ connected
        /\ pinned = Child /\ alive
        /\ verified' = TRUE
        /\ Go("recheck") /\ UNCHANGED cancelled
     \/ /\ \/ reader = "done" \/ ~ connected
           \/ pinned # Child \/ ~ alive
           \/ "call" \in Faults
        /\ Close /\ UNCHANGED verified
  /\ UNCHANGED <<daemonVars, phoneVars, connVars, signals, pinned, readerVars, attempt, call, known, commanded>>

\* Invoke, up to the reply.  A client that has ended or is not verified refuses.
Invoke(kind) ==
  /\ Go("asking")
  /\ IF reader # "done" /\ verified
     THEN /\ call' = [kind |-> kind, result |-> "none"]
          /\ commanded' = commanded \cup {pinned}
     ELSE /\ call' = [kind |-> kind, result |-> "error"]
          /\ UNCHANGED commanded
  /\ UNCHANGED <<daemonVars, phoneVars, connVars, signals, clientVars, readerVars, attempt, known>>

\* registrationState, before the run goroutine is started
AskRegistration == session = "registration" /\ Invoke("reginfo")

\* The command of a request or event, and the last one of quitBaresip
Command == session = "ready" /\ \E kind \in {"other", "quit"} : Invoke(kind)

Answer ==
  /\ session = "asking" /\ call.result = "none"
  /\ pinned = Child /\ alive
  /\ call' = [call EXCEPT !.result = IF registered THEN "registered" ELSE "failed"]
  /\ UNCHANGED <<daemonVars, phoneVars, connVars, signals, clientVars, readerVars, session, step, attempt, known, commanded>>

\* InvokeTimeout, or the deadline of the caller
CallFails ==
  /\ session = "asking" /\ call.result # "error"
  /\ call' = [call EXCEPT !.result = "error"]
  /\ UNCHANGED <<daemonVars, phoneVars, connVars, signals, clientVars, readerVars, session, step, attempt, known, commanded>>

\* A registration that cannot be read stays unknown; after quit comes Close.
CallReturns ==
  /\ session = "asking" /\ call.result # "none"
  /\ call.result = "error" \/ connected
  /\ known' = IF call.kind = "reginfo" /\ call.result # "error" THEN call.result ELSE known
  /\ call' = NoCall
  /\ IF call.kind = "quit" THEN Close ELSE Go("ready") /\ UNCHANGED cancelled
  /\ UNCHANGED <<daemonVars, phoneVars, connVars, signals, pinned, verified, readerVars, attempt, commanded>>

TakeEvent ==
  /\ session = "ready" /\ events # <<>>
  /\ known' = Head(events)
  /\ events' = Tail(events)
  /\ UNCHANGED <<daemonVars, phoneVars, connVars, signals, clientVars, reader, event, session, step, attempt, call, commanded>>

\* client.Events is closed or client.Done, and process.Done
SeeEnd ==
  /\ session = "ready"
  /\ reader = "done" \/ ~ running
  /\ Close
  /\ UNCHANGED <<daemonVars, phoneVars, connVars, signals, pinned, verified, readerVars, attempt, call, known, commanded>>

\* The lifetime context ends because a Stop ran out of time.
EndLifetime ==
  /\ "deadline" \in Faults /\ session \in {"ready", "asking"} /\ ~ cancelled
  /\ cancelled' = TRUE
  /\ UNCHANGED <<daemonVars, phoneVars, connVars, signals, pinned, verified, readerVars, sessionVars>>

-----------------------------------------------------------------------------
(* The reader: DBusClient.run *)

ownerChanged(signal) == signal.old = pinned /\ signal.new # pinned

TakeSignal ==
  /\ reader = "select" /\ signals # <<>>
  /\ LET signal == Head(signals) IN
       CASE signal.kind = "event" ->
              reader' = "sending" /\ event' = IF signal.registered THEN "registered" ELSE "failed"
         [] signal.kind = "owner" ->
              reader' = (IF ownerChanged(signal) THEN "leaving" ELSE "select") /\ UNCHANGED event
  /\ signals' = Tail(signals)
  /\ UNCHANGED <<daemonVars, phoneVars, connVars, clientVars, events, sessionVars>>

DeliverEvent_OrDrops ==
  /\ reader = "sending"
  /\ events' = IF Len(events) < EventBuffer THEN Append(events, event) ELSE events
  /\ reader' = "select" /\ event' = "none"
  /\ UNCHANGED <<daemonVars, phoneVars, connVars, signals, clientVars, sessionVars>>

DeliverEvent ==
  /\ reader = "sending" /\ Len(events) < EventBuffer
  /\ events' = Append(events, event)
  /\ reader' = "select" /\ event' = "none"
  /\ UNCHANGED <<daemonVars, phoneVars, connVars, signals, clientVars, sessionVars>>

SeeContext_AtSelect ==
  /\ reader = "select" /\ (cancelled \/ ~ connected)
  /\ reader' = "leaving" /\ event' = "none"
  /\ UNCHANGED <<daemonVars, phoneVars, connVars, signals, clientVars, events, sessionVars>>

\* ctx.Done or the end of the connection, at both selects
SeeContext ==
  /\ reader \in {"select", "sending"} /\ (cancelled \/ ~ connected)
  /\ reader' = "leaving" /\ event' = "none"
  /\ UNCHANGED <<daemonVars, phoneVars, connVars, signals, clientVars, events, sessionVars>>

\* The deferred function
Finish ==
  /\ reader = "leaving"
  /\ Disconnect
  /\ reader' = "done"
  /\ UNCHANGED <<daemonVars, phoneVars, clientVars, event, events, sessionVars>>

-----------------------------------------------------------------------------
\* The child has been started; other peers may have been there before.
Init ==
  /\ owner \in (Peers \ {Child}) \cup {NoOwner}
  /\ alive = TRUE /\ changes = 0
  /\ registered = FALSE /\ reports = 0 /\ running = TRUE
  /\ connected = FALSE /\ watching = {} /\ signals = <<>>
  /\ pinned = NoOwner /\ verified = FALSE /\ cancelled = FALSE
  /\ reader = "none" /\ event = "none" /\ events = <<>>
  /\ session = "waiting" /\ step = 0 /\ attempt = 1
  /\ call = NoCall /\ known = "unknown"
  /\ commanded = {}

NewClient ==
  ConnectSessionBus \/ WatchOwner \/ HasOwner \/ GetOwner \/ WatchEvents \/ SetupFails

Connect == NewClient \/ GiveUp \/ CheckPID("pid", "verify") \/ VerifyOwner \/ CheckPID("recheck", "registration")

\* What the session does of itself once it has a client
Serve == AskRegistration \/ CallFails \/ CallReturns \/ CloseReturned \/ SeeEnd

Reader == TakeSignal \/ DeliverEvent \/ SeeContext \/ Finish

BusStep ==
  \/ \E p \in Peers \cup {NoOwner} : NameMoves(p)
  \/ ChildDies \/ ChildIsReaped \/ RegistrationChanges \/ Answer \/ BusDrops

\* What comes after the session is over is of no interest.
Bus ==
  /\ session # "over"
  /\ BusStep

Next == Connect \/ Serve \/ TakeEvent \/ Command \/ EndLifetime \/ Reader \/ Bus

Spec == Init /\ [][Next]_vars

\* The two goroutines go on, every call ends by its deadline, and select passes
\* no ready case over for ever.  Nothing is assumed of the bus.
Fairness ==
  /\ WF_vars(Connect) /\ WF_vars(Serve) /\ SF_vars(TakeEvent) /\ SF_vars(SeeEnd)
  /\ WF_vars(Reader)

FairSpec == Spec /\ Fairness

-----------------------------------------------------------------------------
(* Properties *)

\* Whoever has the name when, only the own child is ever sent a command: not
\* another that had the name at any step of connect, nor one that gets it while
\* the client lives ("never the replaceable service name").
OnlyOwnChildIsCommanded == commanded \subseteq {Child}

\* A client whose pinned owner has lost the name ends, also when that happened
\* while NewClient was still at work or while the reader waits for a slow session.
OwnerLossEndsClient == reader # "none" /\ owner # pinned ~> reader = "done"

\* Once everything has been read, the registration shown is that of baresip,
\* however its changes fell between the watch, the question and the answer: none
\* is lost and an old one does not win.
RegistrationAgrees ==
  /\ session = "ready" /\ connected /\ alive
  /\ reader = "select" /\ signals = <<>> /\ events = <<>>
  /\ known # "unknown"
  => known = IF registered THEN "registered" ELSE "failed"

\* Close, called by the goroutine that should read the events, returns although
\* the reader may be waiting to send one.
CloseReturns == session = "closing" ~> session = "over"
=================================================================================
