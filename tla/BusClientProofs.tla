----------------------------- MODULE BusClientProofs -----------------------------
(***************************************************************************)
(* Proofs about BusClient, for any peers, buffer and bounds.                 *)
(***************************************************************************)
EXTENDS BusClient, TLAPS

\* The inductive invariant.  Nothing is verified before VerifyOwner, and the
\* owner is pinned before that and never again: what was verified stays pinned.
PinInv ==
  /\ session \in {"waiting", "setup", "pid", "verify"} => verified = FALSE
  /\ verified # FALSE => pinned = Child
  /\ OnlyOwnChildIsCommanded

LEMMA PinInit == Init => PinInv
  BY DEF Init, PinInv, OnlyOwnChildIsCommanded

LEMMA BusKeepsPin ==
  ASSUME PinInv, Bus \/ Reader \/ TakeEvent
  PROVE  PinInv'
<1> USE DEF PinInv, OnlyOwnChildIsCommanded, clientVars, sessionVars
<1>1. CASE Reader
  BY <1>1 DEF Reader, TakeSignal, DeliverEvent, SeeContext, Finish
<1>2. CASE TakeEvent
  BY <1>2 DEF TakeEvent
<1>3. CASE BusStep
  BY <1>3 DEF BusStep, NameMoves, ChildDies, ChildIsReaped, RegistrationChanges, Answer, BusDrops
<1> QED
  BY <1>1, <1>2, <1>3 DEF Bus

\* Setup may pin anybody, for nothing is verified yet.
LEMMA SetupKeepsPin ==
  ASSUME PinInv, NewClient
  PROVE  PinInv'
<1> USE DEF PinInv, OnlyOwnChildIsCommanded, clientVars, sessionVars, NextStep, Doing
<1>1. CASE ConnectSessionBus
  BY <1>1 DEF ConnectSessionBus
<1>2. CASE WatchOwner
  BY <1>2 DEF WatchOwner
<1>3. CASE HasOwner
  BY <1>3 DEF HasOwner
<1>4. CASE GetOwner
  BY <1>4 DEF GetOwner
<1>5. CASE WatchEvents
  BY <1>5 DEF WatchEvents
<1>6. CASE SetupFails
  BY <1>6 DEF SetupFails
<1> QED
  BY <1>1, <1>2, <1>3, <1>4, <1>5, <1>6 DEF NewClient

LEMMA ConnectKeepsPin ==
  ASSUME PinInv, Connect
  PROVE  PinInv'
<1> USE DEF PinInv, OnlyOwnChildIsCommanded, clientVars, sessionVars, Go, Close
<1>1. CASE NewClient
  BY <1>1, SetupKeepsPin
<1>2. CASE GiveUp
  BY <1>2 DEF GiveUp
<1>3. CASE CheckPID("pid", "verify")
  BY <1>3 DEF CheckPID
<1>4. CASE VerifyOwner
  BY <1>4 DEF VerifyOwner
<1>5. CASE CheckPID("recheck", "registration")
  BY <1>5 DEF CheckPID
<1> QED
  BY <1>1, <1>2, <1>3, <1>4, <1>5 DEF Connect

\* A command goes to the pinned peer, and only when that is verified.
LEMMA ServeKeepsPin ==
  ASSUME PinInv, Serve \/ Command \/ EndLifetime
  PROVE  PinInv'
<1> USE DEF PinInv, OnlyOwnChildIsCommanded, clientVars, sessionVars, Go, Close
<1>1. ASSUME NEW kind, Invoke(kind)
      PROVE  PinInv'
  BY <1>1 DEF Invoke
<1>2. CASE AskRegistration \/ Command
  BY <1>1, <1>2 DEF AskRegistration, Command
<1>3. CASE CallFails
  BY <1>3 DEF CallFails
<1>4. CASE CallReturns
  BY <1>4 DEF CallReturns
<1>5. CASE CloseReturned
  BY <1>5 DEF CloseReturned
<1>6. CASE SeeEnd
  BY <1>6 DEF SeeEnd
<1>7. CASE EndLifetime
  BY <1>7 DEF EndLifetime
<1> QED
  BY <1>2, <1>3, <1>4, <1>5, <1>6, <1>7 DEF Serve

LEMMA PinKept == PinInv /\ [Next]_vars => PinInv'
<1> SUFFICES ASSUME PinInv, [Next]_vars PROVE PinInv'
  OBVIOUS
<1>1. CASE UNCHANGED vars
  BY <1>1 DEF vars, clientVars, sessionVars, PinInv, OnlyOwnChildIsCommanded
<1> QED
  BY <1>1, BusKeepsPin, ConnectKeepsPin, ServeKeepsPin DEF Next

\* Only the session's own child is ever sent a command, whatever happens to the
\* name on the bus and however many peers there are (getNameOwner, VerifyOwner,
\* Invoke and connect).
THEOREM OnlyChildIsCommanded == Spec => []OnlyOwnChildIsCommanded
<1>1. PinInv => OnlyOwnChildIsCommanded
  BY DEF PinInv
<1> QED
  BY PinInit, PinKept, <1>1, PTL DEF Spec

-----------------------------------------------------------------------------
(* The registration *)

Reports == {"registered", "failed"}
Signals == [kind : {"event"}, registered : BOOLEAN]
             \cup [kind : {"owner"}, old : Peers \cup {NoOwner}, new : Peers \cup {NoOwner}]

BusTypes ==
  /\ owner \in Peers \cup {NoOwner}
  /\ registered \in BOOLEAN
  /\ signals \in Seq(Signals) /\ events \in Seq(Reports)
  /\ reader \in {"none", "select", "sending", "leaving", "done"}
  /\ reader = "sending" => event \in Reports
  /\ session = "setup" => step \in 1 .. Len(Setup)

\* What baresip would answer now
Report == IF registered THEN "registered" ELSE "failed"

IsEvent(i) == signals[i].kind = "event"

\* No event is queued on the connection.
NoEventQueued == \A i \in 1 .. Len(signals) : ~ IsEvent(i)

\* An event with no other behind it tells the registration as it is.
LastEventIsTrue ==
  \A i \in 1 .. Len(signals) :
    IsEvent(i) /\ (\A j \in i + 1 .. Len(signals) : ~ IsEvent(j)) => signals[i].registered = registered

\* The last thing that is heard of the registration is true, wherever it is: on
\* the connection, in the hand of the reader, in the channel, or shown, or the
\* answer to the question.
LastNewsIsTrue ==
  /\ LastEventIsTrue
  /\ NoEventQueued /\ reader = "sending" => event = Report
  /\ NoEventQueued /\ reader = "select" /\ events # <<>> => events[Len(events)] = Report
  /\ NoEventQueued /\ reader = "select" /\ events = <<>>
       => /\ known \in {"unknown", Report}
          /\ session = "asking" /\ call.kind = "reginfo" => call.result \in {"none", "error", Report}

\* Before the reader is started nothing is heard.
Unheard ==
  session \in {"waiting", "setup"}
    => /\ reader = "none" /\ events = <<>> /\ known = "unknown"
       /\ "events" \notin watching /\ NoEventQueued

\* The reader is at work on a connection that stands.
Live == connected /\ reader \in {"select", "sending"}

NewsInv ==
  /\ BusTypes
  /\ Unheard
  /\ Live => "events" \in watching /\ (pinned = Child => LastNewsIsTrue)
  /\ session \in {"recheck", "registration", "asking", "ready"} => verified # FALSE

-----------------------------------------------------------------------------
(* The queue of signals *)

\* A change of the name says nothing of the registration.
LEMMA QueueOwner ==
  ASSUME BusTypes, NEW s \in Signals, s.kind = "owner", signals' = Append(signals, s),
         registered' = registered
  PROVE  (NoEventQueued' <=> NoEventQueued) /\ (LastEventIsTrue => LastEventIsTrue')
<1>1. /\ signals \in Seq(Signals) /\ Len(signals') = Len(signals) + 1
      /\ signals'[Len(signals) + 1] = s
      /\ \A i \in 1 .. Len(signals) : signals'[i] = signals[i]
  BY DEF BusTypes
<1> QED
  BY <1>1 DEF NoEventQueued, LastEventIsTrue, IsEvent

\* A new event tells the registration of now and is the last.
LEMMA QueueEvent ==
  ASSUME BusTypes, registered' \in BOOLEAN, signals' = Append(signals, EventSignal(registered'))
  PROVE  ~ NoEventQueued' /\ LastEventIsTrue' /\ signals' \in Seq(Signals)
<1> DEFINE s == EventSignal(registered')
<1>1. s \in Signals /\ s.kind = "event" /\ s.registered = registered'
  BY DEF EventSignal, Signals
<1> HIDE DEF s
<1>2. /\ signals \in Seq(Signals) /\ signals' \in Seq(Signals) /\ Len(signals') = Len(signals) + 1
      /\ signals'[Len(signals) + 1] = s
      /\ \A i \in 1 .. Len(signals) : signals'[i] = signals[i]
  BY <1>1 DEF BusTypes, s
<1>3. Len(signals) \in Nat
  BY <1>2
<1> QED
  BY <1>1, <1>2, <1>3 DEF NoEventQueued, LastEventIsTrue, IsEvent

\* What is behind the signal that is taken is as before; a taken event without
\* another behind it is true.
LEMMA Unqueue ==
  ASSUME BusTypes, signals # <<>>, signals' = Tail(signals), registered' = registered
  PROVE  /\ signals' \in Seq(Signals)
         /\ NoEventQueued' /\ Head(signals).kind # "event" => NoEventQueued
         /\ LastEventIsTrue => LastEventIsTrue'
         /\ NoEventQueued' /\ Head(signals).kind = "event" /\ LastEventIsTrue
              => Head(signals).registered = registered
<1>1. /\ signals \in Seq(Signals) /\ signals' \in Seq(Signals) /\ Head(signals) = signals[1]
      /\ Len(signals) \in Nat \ {0} /\ Len(signals') = Len(signals) - 1
      /\ \A i \in 1 .. Len(signals') : signals'[i] = signals[i + 1]
  BY DEF BusTypes
<1>2. \A j \in 2 .. Len(signals) : j - 1 \in 1 .. Len(signals') /\ signals'[j - 1] = signals[j]
  BY <1>1
<1>3. NoEventQueued' => \A j \in 2 .. Len(signals) : ~ IsEvent(j)
  BY <1>2 DEF NoEventQueued, IsEvent
<1>4. NoEventQueued' /\ Head(signals).kind # "event" => NoEventQueued
  BY <1>1, <1>3 DEF NoEventQueued, IsEvent
<1>5. ASSUME LastEventIsTrue PROVE LastEventIsTrue'
  <2> SUFFICES ASSUME NEW i \in 1 .. Len(signals'), IsEvent(i)',
                      \A j \in i + 1 .. Len(signals') : ~ IsEvent(j)'
               PROVE  signals'[i].registered = registered'
    BY DEF LastEventIsTrue
  <2>1. i + 1 \in 1 .. Len(signals) /\ IsEvent(i + 1) /\ signals'[i] = signals[i + 1]
    BY <1>1 DEF IsEvent
  <2>2. ASSUME NEW j \in i + 1 + 1 .. Len(signals) PROVE ~ IsEvent(j)
    <3>1. j - 1 \in i + 1 .. Len(signals') /\ signals'[j - 1] = signals[j]
      BY <1>1, <1>2
    <3> QED
      BY <3>1 DEF IsEvent
  <2> QED
    BY <1>5, <2>1, <2>2 DEF LastEventIsTrue
<1>6. ASSUME NoEventQueued', Head(signals).kind = "event", LastEventIsTrue
      PROVE  Head(signals).registered = registered
  BY <1>1, <1>3, <1>6 DEF LastEventIsTrue, IsEvent
<1> QED
  BY <1>1, <1>4, <1>5, <1>6

-----------------------------------------------------------------------------
(* What each step does to the news *)

LEMMA NothingQueued == <<>> \in Seq(Signals) /\ <<>> \in Seq(Reports)
  OBVIOUS

LEMMA NewsInit == Init => NewsInv
<1> SUFFICES ASSUME Init PROVE NewsInv
  OBVIOUS
<1>1. signals = <<>> /\ events = <<>> /\ owner \in Peers \cup {NoOwner}
  BY DEF Init
<1>2. BusTypes
  BY <1>1, NothingQueued DEF Init, BusTypes
<1>3. Unheard
  BY <1>1 DEF Init, Unheard, NoEventQueued
<1> QED
  BY <1>2, <1>3 DEF Init, NewsInv, Live

\* A step of the session alone: what it knows or is answered has to be true only if
\* there is nothing more to be heard.
LEMMA AnsweredStepKeeps ==
  ASSUME NewsInv, UNCHANGED <<owner, registered, connected, watching, signals, reader, event, events, pinned>>,
         session' \notin {"waiting", "setup"},
         session' \in {"recheck", "registration", "asking", "ready"} => verified' # FALSE,
         LastNewsIsTrue /\ NoEventQueued /\ reader = "select" /\ events = <<>>
           => /\ known' \in {"unknown", Report}
              /\ session' = "asking" /\ call'.kind = "reginfo" => call'.result \in {"none", "error", Report}
  PROVE  NewsInv'
<1>1. BusTypes' /\ Unheard'
  BY DEF NewsInv, BusTypes, Unheard
<1>2. Live' <=> Live
  BY DEF Live
<1>3. NoEventQueued' <=> NoEventQueued
  BY DEF NoEventQueued, IsEvent
<1>4. LastEventIsTrue' <=> LastEventIsTrue
  BY DEF LastEventIsTrue, IsEvent
<1>5. LastNewsIsTrue => LastNewsIsTrue'
  BY <1>3, <1>4 DEF LastNewsIsTrue, Report
<1> QED
  BY <1>1, <1>2, <1>5 DEF NewsInv

\* The calls of NewClient, in their order
LEMMA SetupOrder ==
  ASSUME NewsInv, session = "setup"
  PROVE  step \in 1 .. 4 /\ Len(Setup) = 4 /\ (Setup[step] = "watch_events" <=> step = 4)
  BY DEF NewsInv, BusTypes, Setup

\* Until its last step setup hears nothing.
LEMMA SetupStepKeeps ==
  ASSUME NewsInv, session \in {"waiting", "setup"}, session' \in {"waiting", "setup"},
         session' = "setup" => step' \in 1 .. Len(Setup),
         UNCHANGED <<owner, registered, reader, events, known>>,
         signals' \in {signals, <<>>}, watching' \subseteq watching \cup {"owner"}
  PROVE  NewsInv'
<1>1. NoEventQueued'
  BY DEF NewsInv, Unheard, NoEventQueued, IsEvent
<1>2. BusTypes'
  BY NothingQueued DEF NewsInv, BusTypes, Unheard
<1>3. Unheard' /\ ~ Live'
  BY <1>1 DEF NewsInv, Unheard, Live
<1> QED
  BY <1>2, <1>3 DEF NewsInv

LEMMA NewClientKeeps ==
  ASSUME NewsInv, NewClient
  PROVE  NewsInv'
<1>1. CASE ConnectSessionBus
  BY <1>1, SetupStepKeeps DEF ConnectSessionBus, daemonVars, phoneVars, readerVars, Setup
<1>2. CASE WatchOwner \/ HasOwner \/ GetOwner
  <2>1. session = "setup" /\ Setup[step] # "watch_events" /\ NextStep
    BY <1>2 DEF WatchOwner, HasOwner, GetOwner, Doing
  <2>2. session' = "setup" /\ step' \in 1 .. Len(Setup)
    <3>1. step \in 1 .. 4 /\ Len(Setup) = 4 /\ step # 4
      BY <2>1, SetupOrder
    <3> QED
      BY <2>1, <3>1 DEF NextStep
  <2> QED
    BY <1>2, <2>1, <2>2, SetupStepKeeps
       DEF WatchOwner, HasOwner, GetOwner, daemonVars, phoneVars, connVars, readerVars
<1>3. CASE WatchEvents
  <2>1. session = "setup" /\ session' = "pid"
    BY <1>3, SetupOrder DEF WatchEvents, Doing, NextStep
  <2>2. /\ watching' = watching \cup {"events"} /\ reader' = "select"
        /\ UNCHANGED <<owner, registered, connected, signals, pinned, event, events, known, call>>
    BY <1>3 DEF WatchEvents, daemonVars, phoneVars, clientVars
  <2>3. reader = "none" /\ events = <<>> /\ known = "unknown" /\ NoEventQueued
    BY <2>1 DEF NewsInv, Unheard
  <2>4. NoEventQueued' /\ LastEventIsTrue'
    BY <2>2, <2>3 DEF NoEventQueued, LastEventIsTrue, IsEvent
  <2>5. LastNewsIsTrue'
    BY <2>1, <2>2, <2>3, <2>4 DEF LastNewsIsTrue
  <2>6. BusTypes' /\ Unheard'
    BY <2>1, <2>2 DEF NewsInv, BusTypes, Unheard
  <2> QED
    BY <2>1, <2>2, <2>5, <2>6 DEF NewsInv
<1>4. CASE SetupFails
  BY <1>4, SetupStepKeeps DEF SetupFails, Disconnect, daemonVars, phoneVars, readerVars
<1> QED
  BY <1>1, <1>2, <1>3, <1>4 DEF NewClient

LEMMA ConnectKeeps ==
  ASSUME NewsInv, Connect
  PROVE  NewsInv'
<1> USE DEF daemonVars, phoneVars, connVars, clientVars, readerVars, sessionVars, Go, Close
<1>1. CASE NewClient
  BY <1>1, NewClientKeeps
<1>2. CASE GiveUp
  <2>1. reader = "none"
    BY <1>2 DEF GiveUp, NewsInv, Unheard
  <2> QED
    BY <1>2, <2>1, AnsweredStepKeeps DEF GiveUp
<1>3. CASE CheckPID("pid", "verify")
  BY <1>3, AnsweredStepKeeps DEF CheckPID, LastNewsIsTrue
<1>4. CASE VerifyOwner
  <2>1. /\ UNCHANGED <<owner, registered, connected, watching, signals, reader, event, events,
                       pinned, call, known>>
        /\ session' \in {"recheck", "closing"} /\ (session' = "recheck" => verified' = TRUE)
    BY <1>4 DEF VerifyOwner
  <2> QED
    BY <2>1, AnsweredStepKeeps DEF LastNewsIsTrue
<1>5. CASE CheckPID("recheck", "registration")
  <2>1. session = "recheck" => verified # FALSE
    BY DEF NewsInv
  <2> QED
    BY <1>5, <2>1, AnsweredStepKeeps DEF CheckPID, LastNewsIsTrue
<1> QED
  BY <1>1, <1>2, <1>3, <1>4, <1>5 DEF Connect

\* What is asked and answered.  The answer is what baresip says at that moment; a
\* change after it is a signal on the way.
LEMMA ServeKeeps ==
  ASSUME NewsInv, Serve \/ Command \/ EndLifetime \/ Answer
  PROVE  NewsInv'
<1> USE DEF daemonVars, phoneVars, connVars, clientVars, readerVars, sessionVars, Go, Close
<1>verified. session \in {"registration", "asking", "ready"} => verified # FALSE
  BY DEF NewsInv
<1>1. ASSUME NEW kind, session \in {"registration", "ready"}, Invoke(kind)
      PROVE  NewsInv'
  <2>1. /\ UNCHANGED <<owner, registered, connected, watching, signals, reader, event, events,
                       pinned, verified, known>>
        /\ session' = "asking" /\ call'.result \in {"none", "error"}
    BY <1>1 DEF Invoke
  <2> QED
    BY <1>verified, <1>1, <2>1, AnsweredStepKeeps DEF LastNewsIsTrue
<1>2. CASE AskRegistration \/ Command
  BY <1>1, <1>2 DEF AskRegistration, Command
<1>3. CASE CallFails
  <2>1. /\ UNCHANGED <<owner, registered, connected, watching, signals, reader, event, events,
                       pinned, verified, known>>
        /\ session = "asking" /\ session' = "asking"
        /\ call' = [call EXCEPT !.result = "error"]
    BY <1>3 DEF CallFails
  <2>2. call'.kind = call.kind /\ call'.result = "error"
    BY <2>1
  <2> QED
    BY <1>verified, <2>1, <2>2, AnsweredStepKeeps DEF LastNewsIsTrue
<1>4. CASE CallReturns
  <2>1. /\ UNCHANGED <<owner, registered, connected, watching, signals, reader, event, events,
                       pinned, verified>>
        /\ session = "asking" /\ session' \in {"closing", "ready"}
        /\ known' = IF call.kind = "reginfo" /\ call.result # "error" THEN call.result ELSE known
        /\ call.result # "none"
    BY <1>4 DEF CallReturns
  <2> QED
    BY <1>verified, <2>1, AnsweredStepKeeps DEF LastNewsIsTrue
<1>5. CASE CloseReturned
  BY <1>5, AnsweredStepKeeps DEF CloseReturned, LastNewsIsTrue
<1>6. CASE SeeEnd
  BY <1>6, AnsweredStepKeeps DEF SeeEnd, LastNewsIsTrue
<1>7. CASE EndLifetime
  BY <1>verified, <1>7, AnsweredStepKeeps DEF EndLifetime, LastNewsIsTrue
<1>8. CASE Answer
  <2>1. /\ UNCHANGED <<owner, registered, connected, watching, signals, reader, event, events,
                       pinned, verified, known>>
        /\ session = "asking" /\ session' = "asking"
        /\ call' = [call EXCEPT !.result = Report]
    BY <1>8 DEF Answer, Report
  <2>2. call.result = "none"
    BY <1>8 DEF Answer
  <2> QED
    BY <1>verified, <2>1, <2>2, AnsweredStepKeeps DEF LastNewsIsTrue
<1> QED
  BY <1>2, <1>3, <1>4, <1>5, <1>6, <1>7, <1>8 DEF Serve

\* The session takes the oldest event of the channel, which is the last news only if
\* there is no other.
LEMMA TakeEventKeeps ==
  ASSUME NewsInv, TakeEvent
  PROVE  NewsInv'
<1>1. /\ session = "ready" /\ events # <<>> /\ known' = Head(events) /\ events' = Tail(events)
      /\ UNCHANGED <<owner, registered, connected, watching, signals, reader, event, pinned,
                     verified, session, call>>
  BY DEF TakeEvent, daemonVars, phoneVars, connVars, clientVars
<1>2. /\ events \in Seq(Reports) /\ events' \in Seq(Reports)
      /\ events' = <<>> => Head(events) = events[Len(events)]
      /\ events' # <<>> => events'[Len(events')] = events[Len(events)]
  <2>1. /\ events \in Seq(Reports) /\ Len(events) \in Nat \ {0} /\ Head(events) = events[1]
        /\ events' \in Seq(Reports) /\ Len(events') = Len(events) - 1
        /\ \A i \in 1 .. Len(events') : events'[i] = events[i + 1]
    BY <1>1 DEF NewsInv, BusTypes
  <2>2. events' = <<>> <=> Len(events') = 0
    BY <2>1
  <2> QED
    BY <2>1, <2>2
<1>3. (NoEventQueued' <=> NoEventQueued) /\ (LastEventIsTrue' <=> LastEventIsTrue)
  BY <1>1 DEF NoEventQueued, LastEventIsTrue, IsEvent
<1>4. LastNewsIsTrue => LastNewsIsTrue'
  BY <1>1, <1>2, <1>3 DEF LastNewsIsTrue, Report
<1>5. BusTypes' /\ Unheard'
  BY <1>1, <1>2 DEF NewsInv, BusTypes, Unheard
<1> QED
  BY <1>1, <1>4, <1>5 DEF NewsInv, Live

LEMMA ReaderKeeps ==
  ASSUME NewsInv, Reader
  PROVE  NewsInv'
<1> USE DEF daemonVars, phoneVars, connVars, clientVars, sessionVars
<1>1. reader # "none" /\ session \notin {"waiting", "setup"}
  BY DEF Reader, TakeSignal, DeliverEvent, SeeContext, Finish, NewsInv, Unheard
<1>2. CASE TakeSignal
  <2> DEFINE signal == Head(signals)
  <2>1. /\ reader = "select" /\ signals # <<>> /\ signals' = Tail(signals)
        /\ UNCHANGED <<owner, registered, connected, watching, pinned, verified, events,
                       session, step, call, known>>
    BY <1>2 DEF TakeSignal
  <2>2. signal \in Signals
    BY <2>1 DEF NewsInv, BusTypes
  <2>3. \/ /\ signal.kind = "event"
           /\ reader' = "sending" /\ event' = IF signal.registered THEN "registered" ELSE "failed"
        \/ signal.kind = "owner" /\ reader' \in {"leaving", "select"} /\ event' = event
    <3>1. signal.kind \in {"event", "owner"}
      BY <2>2 DEF Signals
    <3>2. CASE signal.kind = "event"
      BY <1>2, <3>2 DEF TakeSignal
    <3>3. CASE signal.kind = "owner"
      BY <1>2, <3>3 DEF TakeSignal
    <3> QED
      BY <3>1, <3>2, <3>3
  <2>4. /\ signals' \in Seq(Signals)
        /\ NoEventQueued' /\ signal.kind # "event" => NoEventQueued
        /\ LastEventIsTrue => LastEventIsTrue'
        /\ NoEventQueued' /\ signal.kind = "event" /\ LastEventIsTrue => signal.registered = registered
    BY <2>1, Unqueue DEF NewsInv
  <2> HIDE DEF signal
  <2>5. LastNewsIsTrue => LastNewsIsTrue'
    BY <2>1, <2>3, <2>4 DEF LastNewsIsTrue, Report
  <2>6. BusTypes' /\ Unheard'
    BY <1>1, <2>1, <2>3, <2>4 DEF NewsInv, BusTypes, Unheard, Reports
  <2> QED
    BY <2>1, <2>3, <2>5, <2>6 DEF NewsInv, Live
<1>3. CASE DeliverEvent
  <2>1. /\ reader = "sending" /\ reader' = "select" /\ events' = Append(events, event)
        /\ UNCHANGED <<owner, registered, connected, watching, signals, pinned, verified,
                       session, step, call, known>>
    BY <1>3 DEF DeliverEvent
  <2>2. (NoEventQueued' <=> NoEventQueued) /\ (LastEventIsTrue' <=> LastEventIsTrue)
    BY <2>1 DEF NoEventQueued, LastEventIsTrue, IsEvent
  <2>3. events \in Seq(Reports) /\ events' # <<>> /\ events'[Len(events')] = event
    BY <2>1 DEF NewsInv, BusTypes
  <2>4. LastNewsIsTrue => LastNewsIsTrue'
    BY <2>1, <2>2, <2>3 DEF LastNewsIsTrue, Report
  <2>5. BusTypes' /\ Unheard'
    BY <1>1, <2>1 DEF NewsInv, BusTypes, Unheard
  <2> QED
    BY <2>1, <2>4, <2>5 DEF NewsInv, Live
<1>4. CASE SeeContext
  <2>1. BusTypes' /\ Unheard' /\ ~ Live'
    BY <1>1, <1>4 DEF SeeContext, NewsInv, BusTypes, Unheard, Live
  <2> QED
    BY <1>4, <2>1 DEF SeeContext, NewsInv
<1>5. CASE Finish
  <2>1. BusTypes' /\ Unheard' /\ ~ Live'
    BY <1>1, <1>5 DEF Finish, Disconnect, NewsInv, BusTypes, Unheard, Live
  <2> QED
    BY <1>5, <2>1 DEF Finish, NewsInv
<1> QED
  BY <1>2, <1>3, <1>4, <1>5 DEF Reader

\* A step of the bus that leaves the registration alone queues at most a change of
\* the name.
LEMMA QuietStepKeeps ==
  ASSUME NewsInv, NEW s \in Signals, s.kind = "owner",
         signals' \in {signals, Append(signals, s)}, connected' => connected,
         owner' \in Peers \cup {NoOwner},
         UNCHANGED <<registered, watching, clientVars, readerVars, sessionVars>>
  PROVE  NewsInv'
<1> USE DEF clientVars, readerVars, sessionVars
<1>1. (NoEventQueued' <=> NoEventQueued) /\ (LastEventIsTrue => LastEventIsTrue')
  <2>1. CASE signals' = signals
    BY <2>1 DEF NoEventQueued, LastEventIsTrue, IsEvent
  <2>2. CASE signals' = Append(signals, s)
    BY <2>2, QueueOwner DEF NewsInv
  <2> QED
    BY <2>1, <2>2
<1>2. LastNewsIsTrue => LastNewsIsTrue'
  BY <1>1 DEF LastNewsIsTrue, Report
<1>3. signals' \in Seq(Signals)
  <2>1. signals \in Seq(Signals) /\ Append(signals, s) \in Seq(Signals)
    BY DEF NewsInv, BusTypes
  <2> QED
    BY <2>1
<1>4. BusTypes'
  BY <1>3 DEF NewsInv, BusTypes
<1>5. Unheard'
  BY <1>1 DEF NewsInv, Unheard
<1>6. Live' => Live
  BY DEF Live
<1> QED
  BY <1>2, <1>4, <1>5, <1>6 DEF NewsInv

\* A change of the registration is queued for a client that watches, behind all that
\* is queued already.
LEMMA RegistrationChangesKeeps ==
  ASSUME NewsInv, RegistrationChanges
  PROVE  NewsInv'
<1> USE DEF daemonVars, connVars, clientVars, readerVars, sessionVars
<1>1. /\ registered' \in BOOLEAN
      /\ UNCHANGED <<owner, connVars, clientVars, readerVars, sessionVars>>
  BY DEF RegistrationChanges, NewsInv, BusTypes
<1>2. CASE pinned = Child /\ connected /\ "events" \in watching
  <2>1. signals' = Append(signals, EventSignal(registered'))
    BY <1>2 DEF RegistrationChanges, Emit
  <2>2. ~ NoEventQueued' /\ LastEventIsTrue' /\ signals' \in Seq(Signals)
    BY <1>1, <2>1, QueueEvent DEF NewsInv
  <2>3. LastNewsIsTrue'
    BY <2>2 DEF LastNewsIsTrue
  <2>4. BusTypes' /\ Unheard'
    BY <1>1, <1>2, <2>2 DEF NewsInv, BusTypes, Unheard
  <2> QED
    BY <1>1, <2>3, <2>4 DEF NewsInv, Live
<1>3. CASE ~ (pinned = Child /\ connected /\ "events" \in watching)
  <2>1. signals' = signals
    BY <1>3 DEF RegistrationChanges, Emit
  <2>2. NoEventQueued' <=> NoEventQueued
    BY <2>1 DEF NoEventQueued, IsEvent
  <2>3. BusTypes' /\ Unheard'
    BY <1>1, <2>1, <2>2 DEF NewsInv, BusTypes, Unheard
  <2>4. ~ (Live' /\ pinned' = Child)
    BY <1>1, <1>3 DEF NewsInv, Live
  <2>5. Live' => "events" \in watching'
    BY <1>1 DEF NewsInv, Live
  <2> QED
    BY <1>1, <2>3, <2>4, <2>5 DEF NewsInv
<1> QED
  BY <1>2, <1>3

LEMMA BusStepKeeps ==
  ASSUME NewsInv, BusStep
  PROVE  NewsInv'
<1> USE DEF daemonVars, phoneVars, connVars
<1>1. ASSUME NEW new \in Peers \cup {NoOwner}
      PROVE  OwnerSignal(new) \in Signals /\ OwnerSignal(new).kind = "owner"
  BY DEF OwnerSignal, Signals, NewsInv, BusTypes
<1>2. NoOwner \in Peers \cup {NoOwner}
  OBVIOUS
<1>3. ASSUME NEW p \in Peers \cup {NoOwner}, NameMoves(p)
      PROVE  NewsInv'
  <2>1. PICK s : s = OwnerSignal(p)
    OBVIOUS
  <2>2. s \in Signals /\ s.kind = "owner"
    BY <1>1, <2>1
  <2>3. /\ signals' \in {signals, Append(signals, s)} /\ connected' = connected
        /\ owner' \in Peers \cup {NoOwner}
        /\ UNCHANGED <<registered, watching, clientVars, readerVars, sessionVars>>
    BY <1>3, <2>1 DEF NameMoves, Emit
  <2> QED
    BY <2>2, <2>3, QuietStepKeeps
<1>4. CASE ChildDies \/ ChildIsReaped \/ BusDrops \/ Answer
  <2>1. PICK s : s = OwnerSignal(NoOwner)
    OBVIOUS
  <2>2. s \in Signals /\ s.kind = "owner"
    BY <1>1, <1>2, <2>1
  <2>3. CASE ChildDies
    <3>1. /\ signals' \in {signals, Append(signals, s)} /\ connected' = connected
          /\ owner' \in {owner, NoOwner}
          /\ UNCHANGED <<registered, watching, clientVars, readerVars, sessionVars>>
      BY <2>1, <2>3 DEF ChildDies, Emit
    <3> QED
      BY <2>2, <3>1, QuietStepKeeps DEF NewsInv, BusTypes
  <2>4. CASE ChildIsReaped \/ BusDrops
    <3>1. /\ signals' = signals /\ (connected' => connected) /\ owner' = owner
          /\ UNCHANGED <<registered, watching, clientVars, readerVars, sessionVars>>
      BY <2>4 DEF ChildIsReaped, BusDrops
    <3>2. owner' \in Peers \cup {NoOwner}
      BY <3>1 DEF NewsInv, BusTypes
    <3> QED
      BY <2>2, <3>1, <3>2, QuietStepKeeps
  <2> QED
    BY <1>4, <2>3, <2>4, ServeKeeps
<1> QED
  BY <1>3, <1>4, RegistrationChangesKeeps DEF BusStep

LEMMA NewsKept == NewsInv /\ [Next]_vars => NewsInv'
<1> SUFFICES ASSUME NewsInv, [Next]_vars PROVE NewsInv'
  OBVIOUS
<1>1. CASE UNCHANGED vars
  BY <1>1 DEF vars, daemonVars, phoneVars, connVars, clientVars, readerVars, sessionVars, NewsInv,
              BusTypes, Unheard, Live, NoEventQueued, LastNewsIsTrue, LastEventIsTrue, IsEvent, Report
<1>2. CASE Bus
  BY <1>2, BusStepKeeps DEF Bus
<1> QED
  BY <1>1, <1>2, ConnectKeeps, ServeKeeps, TakeEventKeeps, ReaderKeeps DEF Next

\* The registration shown, once all that was sent has been read, is that of baresip,
\* for a channel of any size and any number of changes, wherever they fall between
\* the watch, the question and its answer (NewClient, registrationState, run).
THEOREM RegistrationIsShown == Spec => []RegistrationAgrees
<1>1. PinInv /\ NewsInv => RegistrationAgrees
  <2> SUFFICES ASSUME PinInv, NewsInv, session = "ready", connected, reader = "select",
                      signals = <<>>, events = <<>>, known # "unknown"
               PROVE  known = Report
    BY DEF RegistrationAgrees, Report
  <2>1. pinned = Child
    BY DEF PinInv, NewsInv
  <2>2. NoEventQueued
    BY DEF NoEventQueued
  <2> QED
    BY <2>1, <2>2 DEF NewsInv, Live, LastNewsIsTrue
<1> QED
  BY PinInit, PinKept, NewsInit, NewsKept, <1>1, PTL DEF Spec
=================================================================================
