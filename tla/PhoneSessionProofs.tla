------------------------- MODULE PhoneSessionProofs -------------------------
(***************************************************************************)
(* PhoneSession for any set of calls, any limits and any combination of    *)
(* faults: type correctness, and that the call history is never lost.      *)
(*                                                                         *)
(* First what Reduce of CallReducer returns for every state and every      *)
(* event: a state, a command and a history entry of the right kind, and    *)
(* which call it moves to where.                                           *)
(***************************************************************************)
EXTENDS PhoneSession, SequenceTheorems, TLAPS

(* The reducer *)

TransitionOK(t) ==
  /\ t.state \in State
  /\ t.command \in Commands \cup {NoCommand}
  /\ t.entry \in Entries \cup {NoEntry}

LEMMA NewStateType == NewState \in State
  BY RingAssumption, SMT DEF NewState, State, CallStates, Directions, Registrations, CallOrNone

LEMMA ResultType ==
  ASSUME NEW s \in State
  PROVE  TransitionOK(Result(s))
  BY DEF TransitionOK, Result

LEMMA BeginCallType ==
  ASSUME NEW s \in State, NEW cs \in CallStates, NEW d \in Directions,
         NEW id \in CallOrNone, NEW target \in CallOrNone
  PROVE  beginCall(s, cs, d, id, target) \in State
  BY DEF beginCall, State

LEMMA IndexStays ==
  ASSUME NEW n \in Nat
  PROVE  n % IndexModulus \in 0 .. IndexModulus - 1
  BY RingAssumption

LEMMA RememberIgnoredCallType ==
  ASSUME NEW s \in State, NEW id \in CallOrNone
  PROVE  rememberIgnoredCall(s, id) \in State
<1>1. s.nextIgnored + 1 \in Nat
  BY RingAssumption DEF State
<1>2. (s.nextIgnored + 1) % IndexModulus \in 0 .. IndexModulus - 1
  BY <1>1, IndexStays
<1> QED
  BY <1>2 DEF rememberIgnoredCall, State

\* A transition of reduceAction or the rejections: Result with a command and
\* an entry put in.
LEMMA EffectsType ==
  ASSUME NEW s \in State,
         NEW command \in Commands \cup {NoCommand}, NEW entry \in Entries \cup {NoEntry},
         NEW notification
  PROVE  /\ TransitionOK([Result(s) EXCEPT !.command = command])
         /\ TransitionOK([Result(s) EXCEPT !.notification = notification])
         /\ TransitionOK([Result(s) EXCEPT !.entry = entry, !.notification = notification])
         /\ TransitionOK([Result(s) EXCEPT !.command = command, !.notification = notification,
                                           !.entry = entry])
  BY DEF TransitionOK, Result

LEMMA CommandType ==
  ASSUME NEW kind \in CommandKinds, NEW call \in CallOrNone
  PROVE  Command(kind, call) \in Commands
  BY DEF Command, Commands

LEMMA EntryType ==
  ASSUME NEW call \in CallOrNone, NEW direction \in Directions,
         NEW outcome \in Outcomes, NEW connected \in BOOLEAN
  PROVE  Entry(call, direction, outcome, connected) \in Entries
  BY DEF Entry, Entries

\* User requests.
LEMMA ReduceActionType ==
  ASSUME NEW s \in State, NEW type, NEW target \in CallOrNone
  PROVE  TransitionOK(reduceAction(s, type, target))
<1> DEFINE dialed == beginCall(s, "outgoing", "outgoing", NoCall, target)
           ending == [s EXCEPT !.endRequested = TRUE]
           muting == [s EXCEPT !.muted = ~ s.muted]
           toggled == [s EXCEPT !.dnd = ~ s.dnd]
<1>1. dialed \in State
  BY BeginCallType DEF CallStates, Directions, CallOrNone
<1>2. ending \in State /\ muting \in State /\ toggled \in State
  BY DEF State
<1>3. TransitionOK(Result(s)) /\ TransitionOK(Failed(s))
  BY ResultType DEF TransitionOK, Failed, Result
<1>4. \A kind \in CommandKinds, call \in CallOrNone : Command(kind, call) \in Commands
  BY CommandType
<1> HIDE DEF dialed, ending, muting, toggled
<1>5. ASSUME NEW x \in State, NEW kind \in CommandKinds, NEW call \in CallOrNone
      PROVE  TransitionOK([Result(x) EXCEPT !.command = Command(kind, call)])
  BY <1>4, EffectsType
<1>6. CASE type = "dial"
  <2>1. reduceAction(s, type, target) \in
          {Failed(s), [Result(dialed) EXCEPT !.command = Command("dial", target)]}
    BY <1>6, Zenon DEF reduceAction, dialed
  <2> QED
    BY <1>1, <1>3, <1>5, <2>1 DEF CommandKinds
<1>7. CASE type # "dial"
  <2>1. \/ reduceAction(s, type, target) = Result(s)
        \/ reduceAction(s, type, target) = Result(toggled)
        \/ reduceAction(s, type, target) = [Result(s) EXCEPT !.command = Command("accept", NoCall)]
        \/ reduceAction(s, type, target) = [Result(muting) EXCEPT !.command = Command("mute", NoCall)]
        \/ \E kind \in {"reject", "hangup"} :
             reduceAction(s, type, target) = [Result(ending) EXCEPT !.command = Command(kind, NoCall)]
    BY <1>7 DEF reduceAction, ending, muting, toggled
  <2> QED
    BY <1>2, <1>3, <1>5, <2>1, ResultType DEF CommandKinds, CallOrNone
<1> QED
  BY <1>6, <1>7

\* Call events: an incoming call, with the two ways of turning it away.
LEMMA ReduceIncomingType ==
  ASSUME NEW s \in State, NEW id \in CallOrNone, NEW peer \in CallOrNone
  PROVE  TransitionOK(reduceIncoming(s, id, peer))
<1> DEFINE kept == rememberIgnoredCall(s, id)
           ringing == beginCall(s, "incoming", "incoming", id, peer)
<1>1. kept \in State /\ ringing \in State
  BY RememberIgnoredCallType, BeginCallType DEF CallStates, Directions
<1>2. /\ Command("hangup", NoCall) \in Commands
      /\ Command("hangup", id) \in Commands
      /\ immediateIncomingHistory(peer, "rejected_dnd") \in Entries
      /\ immediateIncomingHistory(peer, "rejected_busy") \in Entries
  BY CommandType, EntryType
     DEF immediateIncomingHistory, CommandKinds, CallOrNone, Directions, Outcomes
<1> HIDE DEF kept, ringing
<1>3. TransitionOK(rejectForDND(s, id, peer))
  BY <1>1, <1>2, EffectsType DEF rejectForDND, kept
<1>4. TransitionOK(rejectBusy(s, id, peer))
  BY <1>1, <1>2, EffectsType DEF rejectBusy, kept
<1>5. TransitionOK(Result(s)) /\ TransitionOK([Result(ringing) EXCEPT !.notification = "incoming_call"])
  BY <1>1, ResultType, EffectsType
<1> QED
  BY <1>3, <1>4, <1>5 DEF reduceIncoming, ringing

LEMMA ReduceEstablishedType ==
  ASSUME NEW s \in State, NEW id \in CallOrNone
  PROVE  TransitionOK(reduceEstablished(s, id))
<1> DEFINE talking == [s EXCEPT !.callID = IF @ = NoCall THEN id ELSE @,
                                !.callState = "active", !.muted = FALSE, !.started = TRUE]
<1>1. talking \in State
  BY DEF State, CallStates
<1> HIDE DEF talking
<1> QED
  BY <1>1, ResultType DEF reduceEstablished, talking

LEMMA ClosedOutcomeType ==
  ASSUME NEW s \in State
  PROVE  closedOutcome(s) \in Outcomes
  BY DEF closedOutcome, Outcomes

LEMMA ReduceClosedType ==
  ASSUME NEW s \in State, NEW id \in CallOrNone
  PROVE  TransitionOK(reduceClosed(s, id))
<1> DEFINE cleared == [s EXCEPT !.callState = "idle", !.callID = NoCall, !.direction = "none",
                                !.target = NoCall, !.muted = FALSE, !.endRequested = FALSE,
                                !.lastCallID = IF s.callID = NoCall THEN id ELSE s.callID]
           recorded == Entry(s.target, s.direction, closedOutcome(s), s.started)
<1>1. cleared \in State
  BY DEF State, CallStates, Directions, CallOrNone
<1>2. recorded \in Entries
  BY ClosedOutcomeType, EntryType DEF State
<1> HIDE DEF cleared, recorded
<1> QED
  BY <1>1, <1>2, ResultType, EffectsType DEF reduceClosed, cleared, recorded

\* Registration.
LEMMA SetRegistrationType ==
  ASSUME NEW s \in State, NEW registration \in Registrations
  PROVE  TransitionOK(setRegistration(s, registration))
<1> DEFINE changed == [s EXCEPT !.registration = registration,
                                !.registered = registration = "registered"]
<1>1. changed \in State
  BY DEF State
<1> HIDE DEF changed
<1> QED
  BY <1>1, ResultType DEF setRegistration, changed

LEMMA ReduceCallType ==
  ASSUME NEW s \in State, NEW type \in CallEventTypes, NEW id \in CallOrNone, NEW peer \in CallOrNone
  PROVE  TransitionOK(reduceCall(s, type, id, peer))
<1>1. reduceCall(s, type, id, peer) \in
        {Result(s), reduceIncoming(s, id, peer), reduceEstablished(s, id), reduceClosed(s, id)}
  BY DEF reduceCall, CallEventTypes
<1> QED
  BY <1>1, ResultType, ReduceIncomingType, ReduceEstablishedType, ReduceClosedType

\* The reducer maps a state and an event to a transition, for every event the
\* session can hand it (TypeOK of PhoneSession needs no more).
LEMMA ReduceType ==
  ASSUME NEW s \in State, NEW event,
         \/ \E type \in ActionTypes, target \in CallOrNone : event = ActionEvent(type, target)
         \/ \E type \in CallEventTypes, id \in CallOrNone, peer \in CallOrNone :
              event = CallEvent(type, id, peer)
         \/ \E type \in RegisterEventTypes : event = RegisterEvent(type)
         \/ \E info \in RegistrationInfos : event = RegistrationSnapshot(info)
  PROVE  TransitionOK(Reduce(s, event))
<1>1. ASSUME NEW type \in ActionTypes, NEW target \in CallOrNone, event = ActionEvent(type, target)
      PROVE  TransitionOK(Reduce(s, event))
  <2>1. Reduce(s, event) = reduceAction(s, type, target)
    BY <1>1 DEF Reduce, ActionEvent
  <2> QED
    BY <2>1, ReduceActionType
<1>2. ASSUME NEW type \in CallEventTypes, NEW id \in CallOrNone, NEW peer \in CallOrNone,
             event = CallEvent(type, id, peer)
      PROVE  TransitionOK(Reduce(s, event))
  <2>1. Reduce(s, event) = reduceCall(s, type, id, peer)
    BY <1>2 DEF Reduce, CallEvent
  <2> QED
    BY <2>1, ReduceCallType
<1>3. ASSUME NEW type \in RegisterEventTypes, event = RegisterEvent(type)
      PROVE  TransitionOK(Reduce(s, event))
  <2>1. Reduce(s, event) = reduceRegister(s, type)
    BY <1>3 DEF Reduce, RegisterEvent
  <2>2. \E registration \in Registrations : Reduce(s, event) = setRegistration(s, registration)
    BY <2>1 DEF reduceRegister, RegisterEventTypes, Registrations
  <2> QED
    BY <2>2, SetRegistrationType
<1>4. ASSUME NEW info \in RegistrationInfos, event = RegistrationSnapshot(info)
      PROVE  TransitionOK(Reduce(s, event))
  <2>1. Reduce(s, event) = reduceRegistrationSnapshot(s, info)
    BY <1>4 DEF Reduce, RegistrationSnapshot
  <2>2. \/ Reduce(s, event) = Result(s)
        \/ \E registration \in Registrations : Reduce(s, event) = setRegistration(s, registration)
    BY <2>1 DEF reduceRegistrationSnapshot, RegistrationInfos, Registrations
  <2> QED
    BY <2>2, SetRegistrationType, ResultType
<1> QED
  BY <1>1, <1>2, <1>3, <1>4

-----------------------------------------------------------------------------
(* What an event does to the tracked call *)

\* The fields that say which call is tracked, and how far it has come.
SameCall(s, u) ==
  /\ u.callState = s.callState /\ u.callID = s.callID
  /\ u.direction = s.direction /\ u.target = s.target

SameMemory(s, u) == u.lastCallID = s.lastCallID /\ u.ignored = s.ignored

Unmoved(s, u) == SameCall(s, u) /\ SameMemory(s, u)

Begins(s, u, callState, id, target) ==
  /\ s.callState = "idle" /\ SameMemory(s, u)
  /\ u.callState = callState /\ u.direction = callState
  /\ u.callID = id /\ u.target = target

TurnsAway(s, u, id) ==
  /\ SameCall(s, u) /\ u.lastCallID = s.lastCallID
  /\ \A c \in Calls : callIDWasIgnored(u, c) => callIDWasIgnored(s, c) \/ c = id

Answers(s, u, id) ==
  /\ s.callState \in {"incoming", "outgoing"} /\ s.callID \in {NoCall, id}
  /\ u.callState = "active" /\ u.callID = id
  /\ u.direction = s.direction /\ u.target = s.target
  /\ SameMemory(s, u)

Clears(s, u, id) ==
  /\ s.callState # "idle" /\ s.callID \in {NoCall, id}
  /\ u.callState = "idle" /\ u.callID = NoCall /\ u.target = NoCall
  /\ u.lastCallID = id /\ u.ignored = s.ignored

\* A user request begins a call or leaves the tracked call alone.
LEMMA ActionMoves ==
  ASSUME NEW s \in State, NEW type \in ActionTypes, NEW target \in CallOrNone
  PROVE  LET t == Reduce(s, ActionEvent(type, target)) IN
         /\ t.entry = NoEntry
         /\ \/ /\ Unmoved(s, t.state) /\ t.command.kind # "dial"
               /\ type = "dial" => t.command = NoCommand
            \/ /\ type = "dial" /\ target \in Calls
               /\ Begins(s, t.state, "outgoing", NoCall, target)
               /\ t.command = Command("dial", target)
<1> DEFINE t == reduceAction(s, type, target)
           dialed == beginCall(s, "outgoing", "outgoing", NoCall, target)
<1>1. Reduce(s, ActionEvent(type, target)) = t
  BY DEF Reduce, ActionEvent
<1>2. CASE type = "dial" /\ target # NoCall /\ s.callState = "idle" /\ s.registered
  <2>1. t = [Result(dialed) EXCEPT !.command = Command("dial", target)]
    BY <1>2, Zenon DEF reduceAction, dialed
  <2>2. t.state = dialed /\ t.entry = NoEntry /\ t.command = Command("dial", target)
    BY <2>1 DEF Result
  <2>3. Begins(s, dialed, "outgoing", NoCall, target)
    BY <1>2 DEF beginCall, State, Begins, SameMemory
  <2>4. target \in Calls
    BY <1>2 DEF CallOrNone
  <2> QED
    BY <1>1, <1>2, <2>2, <2>3, <2>4
<1>3. CASE type = "dial" /\ ~ (target # NoCall /\ s.callState = "idle" /\ s.registered)
  <2>1. t = Failed(s)
    BY <1>3, Zenon DEF reduceAction
  <2>2. t.state = s /\ t.entry = NoEntry /\ t.command = NoCommand
    BY <2>1 DEF Failed, Result
  <2>3. NoCommand.kind # "dial"
    BY DEF NoCommand
  <2>4. Unmoved(s, s)
    BY DEF Unmoved, SameCall, SameMemory
  <2> QED
    BY <1>1, <2>2, <2>3, <2>4
<1>4. CASE type # "dial"
  <2>1. \E u \in {s, [s EXCEPT !.endRequested = TRUE], [s EXCEPT !.muted = ~ s.muted],
                 [s EXCEPT !.dnd = ~ s.dnd]} :
          t.state = u /\ t.entry = NoEntry /\ t.command.kind # "dial"
    BY <1>4 DEF reduceAction, Result, Command, NoCommand
  <2> QED
    BY <1>1, <1>4, <2>1 DEF Unmoved, SameCall, SameMemory, State
<1> QED
  BY <1>2, <1>3, <1>4

LEMMA RememberMoves ==
  ASSUME NEW s \in State, NEW id \in Calls
  PROVE  TurnsAway(s, rememberIgnoredCall(s, id), id)
<1>1. id # NoCall
  BY NoCallAssumption
<1> QED
  BY <1>1 DEF rememberIgnoredCall, callIDWasIgnored, TurnsAway, SameCall, State

\* A caller is taken, turned away with an entry, or passed over.
LEMMA IncomingMoves ==
  ASSUME NEW s \in State, NEW c \in Calls
  PROVE  LET t == Reduce(s, CallEvent("CALL_INCOMING", c, c)) IN
         /\ t.command.kind # "dial"
         /\ \/ Unmoved(s, t.state) /\ t.entry = NoEntry
            \/ /\ Begins(s, t.state, "incoming", c, c) /\ ~ callIDWasIgnored(s, c)
               /\ t.entry = NoEntry
            \/ /\ TurnsAway(s, t.state, c)
               /\ \E outcome \in {"rejected_dnd", "rejected_busy"} :
                    t.entry = Entry(c, "incoming", outcome, FALSE)
<1> DEFINE t == Reduce(s, CallEvent("CALL_INCOMING", c, c))
           ringing == beginCall(s, "incoming", "incoming", c, c)
<1>1. t = reduceCall(s, "CALL_INCOMING", c, c)
  BY DEF Reduce, CallEvent
<1>2. \/ t = Result(s)
      \/ t = reduceIncoming(s, c, c) /\ ~ callIDWasIgnored(s, c)
  BY <1>1 DEF reduceCall
<1>3. CASE t = Result(s)
  <2>1. t.state = s /\ t.entry = NoEntry /\ t.command.kind # "dial"
    BY <1>3 DEF Result, NoCommand
  <2> QED
    BY <2>1 DEF Unmoved, SameCall, SameMemory
<1>4. CASE t = rejectForDND(s, c, c) \/ t = rejectBusy(s, c, c)
  <2>1. /\ t.state = rememberIgnoredCall(s, c)
        /\ \E outcome \in {"rejected_dnd", "rejected_busy"} :
             t.entry = Entry(c, "incoming", outcome, FALSE)
    BY <1>4 DEF rejectForDND, rejectBusy, Result, immediateIncomingHistory
  <2>2. t.command \in {Command("hangup", NoCall), Command("hangup", c), NoCommand}
    BY <1>4 DEF rejectForDND, rejectBusy, Result
  <2>3. t.command.kind # "dial"
    BY <2>2 DEF Command, NoCommand
  <2> QED
    BY <2>1, <2>3, RememberMoves
<1>5. CASE /\ t = [Result(ringing) EXCEPT !.notification = "incoming_call"]
           /\ s.callState = "idle" /\ ~ callIDWasIgnored(s, c)
  <2>1. t.state = ringing /\ t.entry = NoEntry /\ t.command.kind # "dial"
    BY <1>5 DEF Result, NoCommand
  <2>2. Begins(s, ringing, "incoming", c, c)
    BY <1>5 DEF beginCall, State, Begins, SameMemory
  <2> QED
    BY <1>5, <2>1, <2>2
<1>6. CASE t = reduceIncoming(s, c, c) /\ ~ callIDWasIgnored(s, c)
  BY <1>3, <1>4, <1>5, <1>6 DEF reduceIncoming
<1> QED
  BY <1>2, <1>3, <1>6

LEMMA EstablishedMoves ==
  ASSUME NEW s \in State, NEW c \in Calls
  PROVE  LET t == Reduce(s, CallEvent("CALL_ESTABLISHED", c, c)) IN
         /\ t.entry = NoEntry /\ t.command = NoCommand
         /\ \/ Unmoved(s, t.state)
            \/ Answers(s, t.state, c) /\ ~ callIDWasIgnored(s, c)
<1> DEFINE t == Reduce(s, CallEvent("CALL_ESTABLISHED", c, c))
           talking == [s EXCEPT !.callID = IF @ = NoCall THEN c ELSE @,
                                !.callState = "active", !.muted = FALSE, !.started = TRUE]
<1>1. t = reduceCall(s, "CALL_ESTABLISHED", c, c)
  BY DEF Reduce, CallEvent
<1>2. \/ t = Result(s)
      \/ t = reduceEstablished(s, c) /\ ~ callIDWasIgnored(s, c)
  BY <1>1 DEF reduceCall
<1>3. CASE t = Result(s)
  BY <1>3 DEF Result, Unmoved, SameCall, SameMemory
<1>4. CASE /\ t = Result(talking) /\ ~ callIDWasIgnored(s, c)
           /\ s.callState \in {"incoming", "outgoing"} /\ eventMatchesCurrentCall(s, c)
  <2>1. t.state = talking /\ t.entry = NoEntry /\ t.command = NoCommand
    BY <1>4 DEF Result
  <2>2. s.callID \in {NoCall, c}
    BY <1>4, NoCallAssumption DEF eventMatchesCurrentCall
  <2>3. Answers(s, talking, c)
    BY <1>4, <2>2 DEF State, Answers, SameMemory
  <2> QED
    BY <1>4, <2>1, <2>3
<1> QED
  BY <1>2, <1>3, <1>4 DEF reduceEstablished

\* What a CLOSED that ends the tracked call returns.
LEMMA ClosedClears ==
  ASSUME NEW s \in State, NEW c \in CallOrNone, NEW peer, ~ callIDWasIgnored(s, c),
         s.callState # "idle", eventMatchesCurrentCall(s, c)
  PROVE  LET t == Reduce(s, CallEvent("CALL_CLOSED", c, peer)) IN
         /\ t.entry = Entry(s.target, s.direction, closedOutcome(s), s.started)
         /\ t.state.callState = "idle" /\ t.state.callID = NoCall /\ t.state.target = NoCall
         /\ t.state.lastCallID = IF s.callID = NoCall THEN c ELSE s.callID
         /\ t.state.ignored = s.ignored
         /\ t.command = NoCommand /\ ~ t.err
<1> DEFINE t == Reduce(s, CallEvent("CALL_CLOSED", c, peer))
           cleared == [s EXCEPT !.callState = "idle", !.callID = NoCall, !.direction = "none",
                                !.target = NoCall, !.muted = FALSE, !.endRequested = FALSE,
                                !.lastCallID = IF s.callID = NoCall THEN c ELSE s.callID]
           recorded == Entry(s.target, s.direction, closedOutcome(s), s.started)
           notice == IF closedOutcome(s) = "missed" THEN "missed_call" ELSE "none"
<1>1. t = reduceCall(s, "CALL_CLOSED", c, peer)
  BY DEF Reduce, CallEvent
<1>2. t = reduceClosed(s, c)
  BY <1>1 DEF reduceCall
<1>3. t = [Result(cleared) EXCEPT !.entry = recorded, !.notification = notice]
  BY <1>2 DEF reduceClosed
<1>4. t.state = cleared /\ t.entry = recorded /\ t.command = NoCommand /\ ~ t.err
  BY <1>3 DEF Result
<1> QED
  BY <1>4 DEF State

LEMMA ClosedMoves ==
  ASSUME NEW s \in State, NEW c \in Calls
  PROVE  LET t == Reduce(s, CallEvent("CALL_CLOSED", c, c)) IN
         /\ t.command = NoCommand /\ ~ t.err
         /\ \/ /\ Unmoved(s, t.state) /\ t.entry = NoEntry
               /\ \/ callIDWasIgnored(s, c) \/ s.callState = "idle"
                  \/ s.callID \notin {NoCall, c} \/ s.lastCallID = c
            \/ /\ Clears(s, t.state, c)
               /\ t.entry = Entry(s.target, s.direction, closedOutcome(s), s.started)
<1> DEFINE t == Reduce(s, CallEvent("CALL_CLOSED", c, c))
<1>1. t = reduceCall(s, "CALL_CLOSED", c, c)
  BY DEF Reduce, CallEvent
<1>2. \/ t = Result(s) /\ callIDWasIgnored(s, c)
      \/ t = reduceClosed(s, c) /\ ~ callIDWasIgnored(s, c)
  BY <1>1 DEF reduceCall
<1>3. c # NoCall
  BY NoCallAssumption
<1>4. CASE /\ ~ callIDWasIgnored(s, c) /\ s.callState # "idle" /\ eventMatchesCurrentCall(s, c)
  <2>1. s.callID \in {NoCall, c}
    BY <1>3, <1>4 DEF eventMatchesCurrentCall
  <2> QED
    BY <1>4, <2>1, ClosedClears DEF Clears, CallOrNone
<1>5. CASE t = Result(s)
           /\ (\/ callIDWasIgnored(s, c) \/ s.callState = "idle"
               \/ ~ eventMatchesCurrentCall(s, c))
  <2>1. ~ eventMatchesCurrentCall(s, c) => s.callID \notin {NoCall, c} \/ s.lastCallID = c
    BY <1>3 DEF eventMatchesCurrentCall
  <2> QED
    BY <1>5, <2>1 DEF Result, Unmoved, SameCall, SameMemory
<1> QED
  BY <1>2, <1>4, <1>5 DEF reduceClosed

LEMMA RegisterMoves ==
  ASSUME NEW s \in State, NEW type \in RegisterEventTypes
  PROVE  LET t == Reduce(s, RegisterEvent(type)) IN
         Unmoved(s, t.state) /\ t.entry = NoEntry /\ t.command = NoCommand
<1>1. Reduce(s, RegisterEvent(type)) = reduceRegister(s, type)
  BY DEF Reduce, RegisterEvent
<1>2. \E registration \in Registrations :
        Reduce(s, RegisterEvent(type)) = setRegistration(s, registration)
  BY <1>1 DEF reduceRegister, RegisterEventTypes, Registrations
<1>3. PICK registration \in Registrations :
        Reduce(s, RegisterEvent(type)) = setRegistration(s, registration)
  BY <1>2
<1> DEFINE u == [s EXCEPT !.registration = registration, !.registered = registration = "registered"]
<1>4. LET t == Reduce(s, RegisterEvent(type)) IN
      t.state = u /\ t.entry = NoEntry /\ t.command = NoCommand
  BY <1>3 DEF setRegistration, Result
<1>5. Unmoved(s, u)
  BY DEF Unmoved, SameCall, SameMemory, State
<1> QED
  BY <1>4, <1>5

\* The commands a caller can cause: none, or a hangup of that caller or of
\* whatever baresip takes for its call.
LEMMA IncomingCommands ==
  ASSUME NEW s \in State, NEW c \in Calls
  PROVE  Reduce(s, CallEvent("CALL_INCOMING", c, c)).command
           \in {NoCommand, Command("hangup", c), Command("hangup", NoCall)}
<1> DEFINE t == Reduce(s, CallEvent("CALL_INCOMING", c, c))
           ringing == beginCall(s, "incoming", "incoming", c, c)
<1>1. t = reduceCall(s, "CALL_INCOMING", c, c)
  BY DEF Reduce, CallEvent
<1>2. t = Result(s) \/ t = reduceIncoming(s, c, c)
  BY <1>1 DEF reduceCall
<1>3. \/ t = Result(s) \/ t = rejectForDND(s, c, c) \/ t = rejectBusy(s, c, c)
      \/ t = [Result(ringing) EXCEPT !.notification = "incoming_call"]
  BY <1>2 DEF reduceIncoming
<1>4. CASE t = Result(s) \/ t = [Result(ringing) EXCEPT !.notification = "incoming_call"]
  BY <1>4 DEF Result
<1>5. CASE t = rejectForDND(s, c, c)
  BY <1>5 DEF rejectForDND, Result
<1>6. CASE t = rejectBusy(s, c, c)
  BY <1>6 DEF rejectBusy, Result
<1> QED
  BY <1>3, <1>4, <1>5, <1>6

\* Of the commands of the user only dial has a parameter.
LEMMA ActionCommands ==
  ASSUME NEW s \in State, NEW type \in ActionTypes, NEW target \in CallOrNone
  PROVE  LET command == Reduce(s, ActionEvent(type, target)).command IN
         command.kind = "dial" \/ command.call = NoCall
<1> DEFINE t == reduceAction(s, type, target)
           dialed == beginCall(s, "outgoing", "outgoing", NoCall, target)
<1>1. Reduce(s, ActionEvent(type, target)) = t
  BY DEF Reduce, ActionEvent
<1>2. CASE type = "dial"
  <2>1. \/ t = Failed(s)
        \/ t = [Result(dialed) EXCEPT !.command = Command("dial", target)]
    BY <1>2, Zenon DEF reduceAction, dialed
  <2>2. t.command \in {NoCommand, Command("dial", target)}
    BY <2>1 DEF Failed, Result
  <2> QED
    BY <1>1, <2>2 DEF NoCommand, Command
<1>3. CASE type # "dial"
  <2>1. t.command \in {NoCommand} \cup {Command(kind, NoCall) : kind \in CommandKinds}
    BY <1>3 DEF reduceAction, Result, CommandKinds
  <2> QED
    BY <1>1, <2>1 DEF NoCommand, Command
<1> QED
  BY <1>2, <1>3

-----------------------------------------------------------------------------
(* The history as a sequence *)

\* One entry is put in front of h, which is cut to the limit.
LEMMA MergeIs ==
  ASSUME NEW entry \in Entries, history \in Seq(Entries), Len(history) <= MaxHistory,
         entry # NoEntry, entry.call \notin Oversized
  PROVE  LET merged == mergeCallHistory(history, entry) IN
         /\ merged \in Seq(Entries)
         /\ Len(merged) = IF Len(history) < MaxHistory THEN Len(history) + 1 ELSE MaxHistory
         /\ merged[1] = entry
         /\ \A i \in 2 .. Len(merged) : merged[i] = history[i - 1]
<1> DEFINE all == <<entry>> \o history
           limit == IF Len(history) < MaxHistory THEN Len(history) + 1 ELSE MaxHistory
<1>1. /\ all \in Seq(Entries) /\ Len(all) = Len(history) + 1
      /\ all[1] = entry
      /\ \A i \in 2 .. Len(all) : all[i] = history[i - 1]
  BY ConcatProperties
<1>2. limit \in Nat \ {0} /\ limit <= Len(all) /\ Len(history) \in Nat
  BY <1>1, SessionAssumption
<1> HIDE DEF all
<1>3. /\ SubSeq(all, 1, limit) \in Seq(Entries)
      /\ Len(SubSeq(all, 1, limit)) = limit
      /\ \A i \in 1 .. limit : SubSeq(all, 1, limit)[i] = all[i]
  BY <1>1, <1>2
<1>4. mergeCallHistory(history, entry) = SubSeq(all, 1, limit)
  BY DEF mergeCallHistory, all
<1> QED
  BY <1>1, <1>2, <1>3, <1>4

\* A merge keeps the history a history, and puts at most one more entry in
\* front of whatever it extends.
LEMMA MergeExtends ==
  ASSUME NEW entry \in Entries \cup {NoEntry}, history \in Seq(Entries), Len(history) <= MaxHistory,
         NEW old \in Seq(Entries), NEW n \in Nat, ExtendsBy(history, old, n)
  PROVE  /\ mergeCallHistory(history, entry) \in Seq(Entries)
         /\ Len(mergeCallHistory(history, entry)) <= MaxHistory
         /\ \E m \in {n, n + 1} : ExtendsBy(mergeCallHistory(history, entry), old, m)
<1>1. CASE entry = NoEntry \/ entry.call \in Oversized
  BY <1>1 DEF mergeCallHistory
<1>2. CASE ~ (entry = NoEntry \/ entry.call \in Oversized)
  <2> DEFINE merged == mergeCallHistory(history, entry)
  <2>1. /\ merged \in Seq(Entries)
        /\ Len(merged) = IF Len(history) < MaxHistory THEN Len(history) + 1 ELSE MaxHistory
        /\ \A i \in 2 .. Len(merged) : merged[i] = history[i - 1]
    BY <1>2, MergeIs
  <2> HIDE DEF merged
  <2>2. Len(history) \in Nat /\ Len(old) \in Nat /\ Len(merged) \in Nat /\ MaxHistory \in Nat \ {0}
    BY <2>1, SessionAssumption
  <2>3. /\ n \in 0 .. Len(history)
        /\ Len(history) - n = Len(old) \/ (Len(history) - n < Len(old) /\ Len(history) = MaxHistory)
        /\ \A i \in 1 .. Len(history) - n : history[n + i] = old[i]
    BY DEF ExtendsBy
  <2>4. \E m \in {n, n + 1} : ExtendsBy(merged, old, m)
    <3> DEFINE m == IF n < Len(merged) THEN n + 1 ELSE n
    <3>1. m \in 0 .. Len(merged)
      BY <2>1, <2>2, <2>3
    <3>2. Len(merged) - m = Len(old) \/ (Len(merged) - m < Len(old) /\ Len(merged) = MaxHistory)
      <4>1. CASE Len(history) < MaxHistory
        <5>1. Len(merged) = Len(history) + 1 /\ n <= Len(history) /\ Len(history) - n = Len(old)
          BY <2>1, <2>2, <2>3, <4>1
        <5>2. m = n + 1
          BY <2>2, <5>1
        <5> HIDE DEF m
        <5> QED
          BY <2>2, <5>1, <5>2
      <4>2. CASE Len(history) = MaxHistory /\ n < MaxHistory
        BY <2>1, <2>2, <2>3, <4>2
      <4>3. CASE Len(history) = MaxHistory /\ n = MaxHistory
        BY <2>1, <2>2, <2>3, <4>3
      <4> QED
        BY <2>2, <2>3, <4>1, <4>2, <4>3
    <3>3. ASSUME NEW i \in 1 .. Len(merged) - m
          PROVE  merged[m + i] = old[i]
      <4>1. m = n + 1 /\ m + i \in 2 .. Len(merged) /\ i \in 1 .. Len(history) - n
        BY <2>1, <2>2, <2>3
      <4>2. merged[m + i] = history[n + i]
        <5> HIDE DEF m
        <5>1. ASSUME NEW j \in 2 .. Len(merged) PROVE merged[j] = history[j - 1]
          BY <2>1
        <5>2. merged[m + i] = history[(m + i) - 1]
          BY <4>1, <5>1
        <5>3. (m + i) - 1 = n + i
          BY <2>2, <4>1
        <5> QED
          BY <5>2, <5>3
      <4> QED
        BY <2>3, <4>1, <4>2
    <3> QED
      BY <3>1, <3>2, <3>3 DEF ExtendsBy
  <2> QED
    BY <2>1, <2>2, <2>4 DEF merged
<1> QED
  BY <1>1, <1>2

\* Every sequence extends itself by nothing.
LEMMA ExtendsItself ==
  ASSUME NEW h \in Seq(Entries)
  PROVE  /\ ExtendsBy(h, h, 0)
         /\ \E n \in 0 .. Len(h) : ExtendsBy(h, h, n)
<1>1. 0 \in 0 .. Len(h) /\ Len(h) - 0 = Len(h) /\ \A i \in 1 .. Len(h) - 0 : h[0 + i] = h[i]
  OBVIOUS
<1>2. ExtendsBy(h, h, 0)
  BY <1>1 DEF ExtendsBy
<1> QED
  BY <1>1, <1>2

-----------------------------------------------------------------------------
(* The inductive invariant *)

\* The snapshot's history and the file, both within the limit, and related.
HistoryOK ==
  /\ history \in Seq(Entries) /\ Len(history) <= MaxHistory
  /\ disk \in Seq(Entries) /\ Len(disk) <= MaxHistory
  /\ HistoryExtendsDisk

OthersOK ==
  /\ running \in BOOLEAN
  /\ state \in State
  /\ pending \in BaresipEvents \cup UserEvents \cup {NoEvent}
  /\ reply \in {"none", "ok", "refused"}
  /\ queue \in Seq(BaresipEvents)
  /\ wire \in Seq(Commands)
  /\ up \in BOOLEAN
  /\ calls \in [Calls -> CallStatuses]
  /\ talked \subseteq Calls
  /\ quiet \subseteq Calls

SessionInv == HistoryOK /\ OthersOK

\* What every step does to the history: the invariant again, and nothing lost.
HistoryKept ==
  /\ HistoryOK'
  /\ Start \/ Crash \/ ShownGrows
  /\ disk' # disk => FileCatchesUp

LEMMA UnchangedHistoryKept ==
  ASSUME HistoryOK, UNCHANGED <<history, disk>>, running' => running
  PROVE  HistoryKept
<1>1. ShownGrows
  BY ExtendsItself DEF HistoryOK, ShownGrows
<1> QED
  BY <1>1 DEF HistoryOK, HistoryKept, HistoryExtendsDisk, ExtendsBy

\* A merged history that is written, or not, is kept.
LEMMA MergedHistoryKept ==
  ASSUME HistoryOK, running, NEW entry \in Entries \cup {NoEntry},
         history' = mergeCallHistory(history, entry), disk' = history' \/ disk' = disk
  PROVE  HistoryKept
<1>1. PICK unsaved \in 0 .. Len(history) : ExtendsBy(history, disk, unsaved)
  BY DEF HistoryOK, HistoryExtendsDisk
<1>2. unsaved \in Nat
  BY <1>1
<1>3. /\ history' \in Seq(Entries)
      /\ Len(history') <= MaxHistory
      /\ \E n \in {unsaved, unsaved + 1} : ExtendsBy(history', disk, n)
  BY <1>1, <1>2, MergeExtends DEF HistoryOK
<1>4. \E n \in 0 .. Len(history') : ExtendsBy(history', disk, n)
  BY <1>3 DEF ExtendsBy
<1>5. ShownGrows
  <2>1. ExtendsBy(history, history, 0)
    BY ExtendsItself DEF HistoryOK
  <2>2. \E n \in {0, 0 + 1} : ExtendsBy(history', history, n)
    BY <2>1, MergeExtends DEF HistoryOK
  <2> QED
    BY <2>2 DEF ShownGrows
<1>6. ASSUME disk' = history' PROVE FileCatchesUp
  <2>1. ASSUME NEW n \in 0 .. Len(history), ExtendsBy(history, disk, n)
        PROVE  \E m \in {n, n + 1} : ExtendsBy(disk', disk, m)
    <3>1. n \in Nat
      OBVIOUS
    <3> QED
      BY <1>6, <2>1, <3>1, MergeExtends DEF HistoryOK
  <2> QED
    BY <2>1 DEF FileCatchesUp
<1>7. CASE disk' = history'
  <2>1. \E n \in 0 .. Len(history') : ExtendsBy(history', history', n)
    BY <1>3, ExtendsItself
  <2> QED
    BY <1>3, <1>5, <1>6, <1>7, <2>1 DEF HistoryKept, HistoryOK, HistoryExtendsDisk
<1>8. CASE disk' = disk
  BY <1>3, <1>4, <1>5, <1>8 DEF HistoryKept, HistoryOK, HistoryExtendsDisk
<1> QED
  BY <1>7, <1>8

LEMMA AppendKeepsHistory ==
  ASSUME HistoryOK, running, NEW entry \in Entries \cup {NoEntry}, appendCallHistory(entry)
  PROVE  HistoryKept
<1>1. CASE entry = NoEntry
  BY <1>1, MergedHistoryKept DEF appendCallHistory, mergeCallHistory
<1>2. CASE entry # NoEntry
  BY <1>2, MergedHistoryKept DEF appendCallHistory, WriteCallHistory
<1> QED
  BY <1>1, <1>2

-----------------------------------------------------------------------------
(* The run loop *)

\* Every event the session queues or holds is one Reduce is defined for.
LEMMA EventReduces ==
  ASSUME NEW s \in State, NEW event \in BaresipEvents \cup UserEvents
  PROVE  TransitionOK(Reduce(s, event))
<1>1. \/ \E type \in ActionTypes, target \in CallOrNone : event = ActionEvent(type, target)
      \/ \E type \in CallEventTypes, id \in CallOrNone, peer \in CallOrNone :
           event = CallEvent(type, id, peer)
      \/ \E type \in RegisterEventTypes : event = RegisterEvent(type)
  BY DEF BaresipEvents, UserEvents, CallOrNone
<1> QED
  BY <1>1, ReduceType

LEMMA FailedDialType ==
  ASSUME NEW event \in BaresipEvents \cup UserEvents
  PROVE  failedDialHistory(event) \in Entries \cup {NoEntry}
<1>1. event.kind = "action" => event.peer \in CallOrNone
  BY DEF BaresipEvents, UserEvents, CallEvent, RegisterEvent, ActionEvent, CallOrNone
<1>2. event.kind = "action" => Entry(event.peer, "outgoing", "not_connected", FALSE) \in Entries
  BY <1>1, EntryType DEF Directions, Outcomes
<1> QED
  BY <1>2 DEF failedDialHistory

LEMMA CommitKeeps ==
  ASSUME HistoryOK, running, state \in State, NEW event \in BaresipEvents \cup UserEvents,
         Commit(Reduce(state, event)) \/ Abandon(event)
  PROVE  HistoryKept /\ state' \in State
<1>1. CASE Commit(Reduce(state, event))
  <2>1. TransitionOK(Reduce(state, event))
    BY EventReduces
  <2> QED
    BY <1>1, <2>1, AppendKeepsHistory DEF Commit, TransitionOK
<1>2. CASE Abandon(event)
  <2>1. failedDialHistory(event) \in Entries \cup {NoEntry}
    BY FailedDialType
  <2> QED
    BY <1>2, <2>1, AppendKeepsHistory DEF Abandon
<1> QED
  BY <1>1, <1>2

\* applyDomainEvent, up to the command.
LEMMA ApplyKeeps ==
  ASSUME SessionInv, running, UNCHANGED running,
         NEW event \in BaresipEvents \cup UserEvents, applyDomainEvent(event)
  PROVE  /\ HistoryKept
         /\ state' \in State
         /\ pending' \in BaresipEvents \cup UserEvents \cup {NoEvent}
         /\ reply' \in {"none", "ok", "refused"}
         /\ wire' \in Seq(Commands)
         /\ calls' \in [Calls -> CallStatuses]
<1> DEFINE transition == Reduce(state, event)
<1>1. TransitionOK(transition)
  BY EventReduces DEF SessionInv, OthersOK
<1>2. HistoryOK /\ OthersOK
  BY DEF SessionInv
<1>3. CASE UNCHANGED <<state, history, disk, pending, reply, wire, calls>>
  BY <1>2, <1>3, UnchangedHistoryKept DEF OthersOK
<1>4. CASE Commit(transition) /\ UNCHANGED <<pending, reply, wire, calls>>
  BY <1>2, <1>4, CommitKeeps DEF OthersOK
<1>5. CASE /\ transition.command # NoCommand
           /\ wire' = Append(wire, transition.command)
           /\ pending' = event
           /\ calls' = Requested(transition.command)
           /\ UNCHANGED <<state, history, disk, reply>>
  <2>1. transition.command \in Commands
    BY <1>1, <1>5 DEF TransitionOK
  <2> HIDE DEF transition
  <2>2. wire' \in Seq(Commands)
    BY <1>2, <1>5, <2>1 DEF OthersOK
  <2>3. calls' \in [Calls -> CallStatuses]
    BY <1>2, <1>5 DEF OthersOK, Requested, CallStatuses
  <2> QED
    BY <1>2, <1>5, <2>2, <2>3, UnchangedHistoryKept DEF OthersOK
<1>6. CASE /\ Abandon(event)
           /\ calls' = IF transition.command.kind = "dial"
                       THEN [calls EXCEPT ![transition.command.call] = "over"] ELSE calls
           /\ UNCHANGED <<pending, reply, wire>>
  <2>1. HistoryKept /\ state' \in State
    BY <1>2, <1>6, CommitKeeps DEF OthersOK
  <2> HIDE DEF transition
  <2>2. calls' \in [Calls -> CallStatuses]
    BY <1>2, <1>6 DEF OthersOK, CallStatuses
  <2> QED
    BY <1>2, <1>6, <2>1, <2>2 DEF OthersOK
<1> QED
  BY <1>3, <1>4, <1>5, <1>6 DEF applyDomainEvent

LEMMA SessionStepKeeps ==
  ASSUME SessionInv, SessionStep
  PROVE  OthersOK' /\ HistoryKept
<1>1. ASSUME NEW type \in ActionTypes, NEW target \in CallOrNone, UserRequest(type, target)
      PROVE  OthersOK' /\ HistoryKept
  <2>1. ActionEvent(type, target) \in BaresipEvents \cup UserEvents
    BY DEF UserEvents
  <2> QED
    BY <1>1, <2>1, ApplyKeeps DEF UserRequest, LoopReady, SessionInv, OthersOK
<1>2. CASE HandleBaresipEvent
  <2>1. Head(queue) \in BaresipEvents /\ Tail(queue) \in Seq(BaresipEvents)
    BY <1>2, HeadTailProperties DEF HandleBaresipEvent, SessionInv, OthersOK
  <2> QED
    BY <1>2, <2>1, ApplyKeeps DEF HandleBaresipEvent, LoopReady, SessionInv, OthersOK
<1>3. CASE FinishCommand
  <2>1. pending \in BaresipEvents \cup UserEvents /\ running
    BY <1>3 DEF FinishCommand, SessionInv, OthersOK
  <2>2. HistoryKept /\ state' \in State
    BY <1>3, <2>1, CommitKeeps DEF FinishCommand, SessionInv, OthersOK
  <2> QED
    BY <1>3, <2>2 DEF FinishCommand, baresipVars, SessionInv, OthersOK
<1>4. CASE CommandTimesOut
  <2>1. pending \in BaresipEvents \cup UserEvents /\ running
    BY <1>4 DEF CommandTimesOut, Waiting, SessionInv, OthersOK
  <2>2. HistoryKept /\ state' \in State
    BY <1>4, <2>1, CommitKeeps DEF CommandTimesOut, SessionInv, OthersOK
  <2> QED
    BY <1>4, <2>2 DEF CommandTimesOut, baresipVars, SessionInv, OthersOK
<1> QED
  BY <1>1, <1>2, <1>3, <1>4 DEF SessionStep

-----------------------------------------------------------------------------
(* baresip and the peers *)

LEMMA EmitType ==
  ASSUME queue \in Seq(BaresipEvents), NEW type \in CallEventTypes, NEW c \in Calls, Emit(type, c)
  PROVE  queue' \in Seq(BaresipEvents)
<1>1. CallEvent(type, c, c) \in BaresipEvents
  BY DEF BaresipEvents
<1> QED
  BY <1>1 DEF Emit

LEMMA PerformType ==
  ASSUME OthersOK, NEW command \in Commands, NEW answer, Perform(command, answer)
  PROVE  /\ queue' \in Seq(BaresipEvents)
         /\ calls' \in [Calls -> CallStatuses]
         /\ talked' \subseteq Calls
         /\ quiet' \subseteq Calls
<1> USE DEF OthersOK
<1>1. CASE Dial(command.call, answer)
  BY <1>1 DEF Dial, CallStatuses, Live
<1>2. ASSUME NEW c \in Calls, Accept(c, answer)
      PROVE  /\ queue' \in Seq(BaresipEvents) /\ calls' \in [Calls -> CallStatuses]
             /\ talked' \subseteq Calls /\ quiet' \subseteq Calls
  BY <1>2, EmitType DEF Accept, CallStatuses, Live, CallEventTypes
<1>3. ASSUME NEW c \in Calls, Hangup(c, answer)
      PROVE  /\ queue' \in Seq(BaresipEvents) /\ calls' \in [Calls -> CallStatuses]
             /\ talked' \subseteq Calls /\ quiet' \subseteq Calls
  BY <1>3, EmitType DEF Hangup, CallStatuses, CallEventTypes
<1>4. ASSUME NEW c \in Calls, ToggleMute(c, answer)
      PROVE  /\ queue' \in Seq(BaresipEvents) /\ calls' \in [Calls -> CallStatuses]
             /\ talked' \subseteq Calls /\ quiet' \subseteq Calls
  BY <1>4 DEF ToggleMute
<1>5. CASE NothingToDo(answer)
  BY <1>5 DEF NothingToDo
<1> QED
  BY <1>1, <1>2, <1>3, <1>4, <1>5 DEF Perform, Addressed

LEMMA BaresipStepKeeps ==
  ASSUME SessionInv, BaresipStep
  PROVE  OthersOK' /\ HistoryKept
<1> USE DEF SessionInv
<1>1. UNCHANGED snapshotVars
  BY DEF BaresipStep, PeerCalls, PeerAnswers, PeerEnds, RegistrarReports, BaresipExecutes
<1>2. HistoryKept
  BY <1>1, UnchangedHistoryKept DEF snapshotVars
<1>3. ASSUME NEW c \in Calls, PeerCalls(c) \/ PeerAnswers(c) \/ PeerEnds(c)
      PROVE  OthersOK'
  <2>1. queue' \in Seq(BaresipEvents)
    BY <1>3, EmitType DEF PeerCalls, PeerAnswers, PeerEnds, CallEventTypes, OthersOK
  <2>2. calls' \in [Calls -> CallStatuses] /\ talked' \subseteq Calls /\ quiet' \subseteq Calls
    BY <1>3 DEF PeerCalls, PeerAnswers, PeerEnds, CallStatuses, Live, OthersOK
  <2> QED
    BY <1>1, <1>3, <2>1, <2>2
       DEF PeerCalls, PeerAnswers, PeerEnds, snapshotVars, flightVars, OthersOK
<1>4. ASSUME NEW type \in Reports, RegistrarReports(type)
      PROVE  OthersOK'
  <2>1. RegisterEvent(type) \in BaresipEvents
    BY SessionAssumption DEF BaresipEvents
  <2> QED
    BY <1>4, <2>1 DEF RegistrarReports, snapshotVars, flightVars, baresipVars, OthersOK
<1>5. CASE BaresipExecutes
  <2>1. Head(wire) \in Commands /\ Tail(wire) \in Seq(Commands)
    BY <1>5, HeadTailProperties DEF BaresipExecutes, OthersOK
  <2>2. PICK answer \in {"ok", "refused"} :
          /\ Perform(Head(wire), answer)
          /\ reply' = IF Waiting /\ Len(wire) = 1 THEN answer ELSE reply
    BY <1>5 DEF BaresipExecutes
  <2>3. /\ queue' \in Seq(BaresipEvents) /\ calls' \in [Calls -> CallStatuses]
        /\ talked' \subseteq Calls /\ quiet' \subseteq Calls
    BY <2>1, <2>2, PerformType
  <2>4. reply' \in {"none", "ok", "refused"}
    BY <2>2 DEF OthersOK
  <2> QED
    BY <1>2, <1>5, <2>1, <2>3, <2>4 DEF BaresipExecutes, snapshotVars, OthersOK
<1> QED
  BY <1>2, <1>3, <1>4, <1>5 DEF BaresipStep

-----------------------------------------------------------------------------
(* The ends of a runtime, and its start *)

LEMMA AllOverType ==
  ASSUME OthersOK
  PROVE  AllOver \in [Calls -> CallStatuses]
  BY DEF OthersOK, AllOver, CallStatuses

\* What DropBaresip leaves of the child.
LEMMA DroppedType ==
  ASSUME OthersOK, DropBaresip
  PROVE  /\ queue' \in Seq(BaresipEvents)
         /\ wire' \in Seq(Commands)
         /\ up' \in BOOLEAN
         /\ calls' \in [Calls -> CallStatuses]
         /\ talked' \subseteq Calls
         /\ quiet' \subseteq Calls
<1>1. <<>> \in Seq(BaresipEvents) /\ <<>> \in Seq(Commands)
  OBVIOUS
<1>2. calls' \in [Calls -> CallStatuses]
  BY AllOverType DEF DropBaresip
<1> QED
  BY <1>1, <1>2 DEF DropBaresip, OthersOK

LEMMA FreshStateType ==
  ASSUME OthersOK, NEW info \in Infos
  PROVE  FreshState(info) \in State
<1>1. info \in RegistrationInfos
  BY SessionAssumption
<1>2. [NewState EXCEPT !.dnd = state.dnd] \in State
  BY NewStateType DEF OthersOK, State
<1>3. TransitionOK(Reduce([NewState EXCEPT !.dnd = state.dnd], RegistrationSnapshot(info)))
  BY <1>1, <1>2, ReduceType
<1> QED
  BY <1>3 DEF FreshState, TransitionOK

\* What the end of a runtime comes to: its second finalization finds no call.
FinalizedOnce(endRequested) ==
  IF state.callState = "idle"
  THEN UNCHANGED <<history, disk>>
  ELSE /\ history' = mergeCallHistory(history,
            Reduce([state EXCEPT !.endRequested = @ \/ endRequested],
                   CallEvent("CALL_CLOSED", state.callID, NoCall)).entry)
       /\ disk' \in WriteCallHistory(disk, history')

EndedOnce(endRequested) ==
  /\ FinalizedOnce(endRequested)
  /\ running' = FALSE
  /\ state' = [NewState EXCEPT !.dnd = state.dnd]
  /\ DropBaresip
  /\ UNCHANGED <<pending, reply>>

\* A CLOSED of the tracked call leaves no call, or is ignored and changes nothing.
LEMMA ClosedOnce ==
  ASSUME NEW s \in State, s.callState # "idle"
  PROVE  LET t == Reduce(s, CallEvent("CALL_CLOSED", s.callID, NoCall)) IN
         /\ t.state.dnd = s.dnd
         /\ t.state.callState = "idle" \/ (t.state = s /\ t.entry = NoEntry)
<1> DEFINE t == Reduce(s, CallEvent("CALL_CLOSED", s.callID, NoCall))
<1>1. t = reduceCall(s, "CALL_CLOSED", s.callID, NoCall)
  BY DEF Reduce, CallEvent
<1>2. CASE callIDWasIgnored(s, s.callID)
  <2>1. t = Result(s)
    BY <1>1, <1>2 DEF reduceCall
  <2> QED
    BY <2>1 DEF Result
<1>3. CASE ~ callIDWasIgnored(s, s.callID)
  <2>1. t = reduceClosed(s, s.callID)
    BY <1>1, <1>3 DEF reduceCall
  <2>2. eventMatchesCurrentCall(s, s.callID)
    BY DEF eventMatchesCurrentCall
  <2> DEFINE cleared == [s EXCEPT !.callState = "idle", !.callID = NoCall, !.direction = "none",
                                  !.target = NoCall, !.muted = FALSE, !.endRequested = FALSE,
                                  !.lastCallID = IF s.callID = NoCall THEN s.callID ELSE s.callID]
             recorded == Entry(s.target, s.direction, closedOutcome(s), s.started)
             notice == IF closedOutcome(s) = "missed" THEN "missed_call" ELSE "none"
  <2>3. t = [Result(cleared) EXCEPT !.entry = recorded, !.notification = notice]
    BY <2>1, <2>2 DEF reduceClosed
  <2>4. t.state = cleared
    BY <2>3 DEF Result
  <2>5. cleared.callState = "idle" /\ cleared.dnd = s.dnd
    BY DEF State
  <2> QED
    BY <2>4, <2>5
<1> QED
  BY <1>2, <1>3

LEMMA EndRuntimeOnce ==
  ASSUME state \in State, NEW endRequested \in BOOLEAN, EndRuntime(endRequested)
  PROVE  EndedOnce(endRequested)
<1> DEFINE before == [state |-> state, history |-> history, disk |-> disk]
           current == [state EXCEPT !.endRequested = @ \/ endRequested]
           t == Reduce(current, CallEvent("CALL_CLOSED", current.callID, NoCall))
           merged == mergeCallHistory(history, t.entry)
<1>1. PICK cleaned \in finalizeActiveCall(before, endRequested) :
        \E finished \in finalizeActiveCall(cleaned, FALSE) :
          /\ state' = [NewState EXCEPT !.dnd = finished.state.dnd]
          /\ history' = finished.history
          /\ disk' = finished.disk
  BY DEF EndRuntime
<1>2. PICK finished \in finalizeActiveCall(cleaned, FALSE) :
        /\ state' = [NewState EXCEPT !.dnd = finished.state.dnd]
        /\ history' = finished.history
        /\ disk' = finished.disk
  BY <1>1
<1>3. CASE state.callState = "idle"
  <2>1. cleaned = before
    BY <1>3 DEF finalizeActiveCall
  <2>2. finished = before
    BY <1>3, <2>1 DEF finalizeActiveCall
  <2> QED
    BY <1>2, <1>3, <2>2 DEF EndRuntime, EndedOnce, FinalizedOnce
<1>4. CASE state.callState # "idle"
  <2>1. /\ current \in State /\ current.callState = state.callState
        /\ current.callID = state.callID /\ current.dnd = state.dnd
    BY DEF State
  <2> HIDE DEF current
  <2>2. t.state.dnd = state.dnd /\ (t.state.callState = "idle" \/ (t.state = current /\ t.entry = NoEntry))
    BY <1>4, <2>1, ClosedOnce
  <2>3. PICK file \in WriteCallHistory(disk, merged) :
          cleaned = [state |-> t.state, history |-> merged, disk |-> file]
    BY <1>4 DEF finalizeActiveCall, current
  <2> HIDE DEF t
  <2>4. CASE t.state.callState = "idle"
    <3>1. finished = cleaned
      BY <2>3, <2>4 DEF finalizeActiveCall
    <3>2. state' = [NewState EXCEPT !.dnd = state.dnd] /\ history' = merged /\ disk' = file
      BY <1>2, <2>2, <2>3, <3>1
    <3> QED
      BY <1>4, <2>1, <2>3, <3>2 DEF EndRuntime, EndedOnce, FinalizedOnce, current, t
  <2>5. CASE t.state = current /\ t.entry = NoEntry
    <3>1. merged = history
      BY <2>5 DEF mergeCallHistory
    <3>2. [current EXCEPT !.endRequested = @ \/ FALSE] = current
      BY <2>1 DEF State
    <3>3. PICK again \in WriteCallHistory(file, history) :
            finished = [state |-> current, history |-> history, disk |-> again]
      <4>1. cleaned.state = current /\ cleaned.history = history /\ cleaned.disk = file
        BY <2>3, <2>5, <3>1
      <4>2. mergeCallHistory(history, NoEntry) = history
        BY DEF mergeCallHistory
      <4>3. current.callState # "idle" /\ Reduce(current, CallEvent("CALL_CLOSED", current.callID, NoCall)) = t
        BY <1>4, <2>1 DEF t
      <4>4. finalizeActiveCall(cleaned, FALSE) =
              {[state |-> t.state, history |-> mergeCallHistory(history, t.entry), disk |-> again] :
                 again \in WriteCallHistory(file, mergeCallHistory(history, t.entry))}
        BY <3>2, <4>1, <4>3 DEF finalizeActiveCall
      <4> QED
        BY <2>5, <4>2, <4>4
    <3>4. disk' \in WriteCallHistory(disk, history)
      BY <1>2, <2>3, <3>1, <3>3 DEF WriteCallHistory
    <3>5. state' = [NewState EXCEPT !.dnd = state.dnd] /\ history' = merged
      BY <1>2, <2>1, <3>1, <3>3
    <3> QED
      BY <1>4, <2>1, <3>1, <3>4, <3>5 DEF EndRuntime, EndedOnce, FinalizedOnce, current, t
  <2> QED
    BY <2>2, <2>4, <2>5
<1> QED
  BY <1>3, <1>4

\* The made-up CLOSED of finalizeActiveCall is an event like any other.
LEMMA FinalizeKeeps ==
  ASSUME SessionInv, running, NEW endRequested \in BOOLEAN, FinalizedOnce(endRequested),
         running' = FALSE
  PROVE  HistoryKept
<1> USE DEF SessionInv
<1>1. CASE state.callState = "idle"
  BY <1>1, UnchangedHistoryKept DEF FinalizedOnce
<1>2. CASE state.callState # "idle"
  <2> DEFINE ended == [state EXCEPT !.endRequested = @ \/ endRequested]
             closed == CallEvent("CALL_CLOSED", state.callID, NoCall)
  <2>1. ended \in State /\ state.callID \in CallOrNone
    BY DEF OthersOK, State
  <2> HIDE DEF ended
  <2>2. TransitionOK(Reduce(ended, closed))
    BY <2>1, ReduceType DEF CallEventTypes, CallOrNone
  <2>3. Reduce(ended, closed).entry \in Entries \cup {NoEntry}
    BY <2>2 DEF TransitionOK
  <2>4. history' = mergeCallHistory(history, Reduce(ended, closed).entry) /\ (disk' = history' \/ disk' = disk)
    BY <1>2 DEF FinalizedOnce, WriteCallHistory, ended
  <2> QED
    BY <2>3, <2>4, MergedHistoryKept
<1> QED
  BY <1>1, <1>2

LEMMA EndRuntimeKeeps ==
  ASSUME SessionInv, running, NEW endRequested \in BOOLEAN, EndRuntime(endRequested)
  PROVE  OthersOK' /\ HistoryKept
<1>0. EndedOnce(endRequested)
  BY EndRuntimeOnce DEF SessionInv, OthersOK
<1>1. HistoryKept
  BY <1>0, FinalizeKeeps DEF EndedOnce
<1>2. [NewState EXCEPT !.dnd = state.dnd] \in State
  BY NewStateType DEF SessionInv, OthersOK, State
<1> QED
  BY <1>0, <1>1, <1>2, DroppedType DEF EndedOnce, SessionInv, OthersOK

LEMMA LifecycleStepKeeps ==
  ASSUME SessionInv, LifecycleStep
  PROVE  OthersOK' /\ HistoryKept
<1> USE DEF SessionInv
<1>1. CASE Start
  <2>1. HistoryKept
    BY <1>1, ExtendsItself DEF Start, HistoryOK, HistoryKept, HistoryExtendsDisk
  <2> QED
    BY <1>1, <2>1, FreshStateType DEF Start, OthersOK
<1>2. CASE Stop \/ LoseBaresip \/ RestartFails
  BY <1>2, EndRuntimeKeeps DEF Stop, LoseBaresip, RestartFails, LoopReady
<1>3. CASE BaresipExits
  <2>1. HistoryKept
    BY <1>3, UnchangedHistoryKept DEF BaresipExits, snapshotVars
  <2>2. <<>> \in Seq(Commands) /\ calls' \in [Calls -> CallStatuses]
    BY <1>3, AllOverType DEF BaresipExits
  <2> QED
    BY <1>3, <2>1, <2>2 DEF BaresipExits, snapshotVars, OthersOK
<1>4. CASE RestartForAccount
  BY <1>4, UnchangedHistoryKept, AllOverType, FreshStateType DEF RestartForAccount, OthersOK
<1>5. CASE Crash
  <2>1. HistoryKept
    BY <1>5, ExtendsItself, SessionAssumption DEF Crash, HistoryOK, HistoryKept, HistoryExtendsDisk
  <2> QED
    BY <1>5, <2>1, DroppedType, NewStateType DEF Crash, OthersOK
<1> QED
  BY <1>1, <1>2, <1>3, <1>4, <1>5 DEF LifecycleStep

-----------------------------------------------------------------------------
(* Theorems *)

LEMMA SessionInvInit == Init => SessionInv
<1> SUFFICES ASSUME Init PROVE SessionInv
  OBVIOUS
<1>1. OthersOK
  <2>1. <<>> \in Seq(BaresipEvents) /\ <<>> \in Seq(Commands)
    OBVIOUS
  <2>2. calls \in [Calls -> CallStatuses] /\ talked \subseteq Calls
    BY SessionAssumption DEF Init, CallStatuses
  <2> QED
    BY <2>1, <2>2, NewStateType DEF Init, OthersOK
<1>2. HistoryOK
  <2>1. disk \in Seq(Entries) /\ Len(disk) <= MaxHistory
    BY SessionAssumption DEF Init
  <2> QED
    BY <2>1, SessionAssumption DEF Init, HistoryOK, HistoryExtendsDisk
<1> QED
  BY <1>1, <1>2 DEF SessionInv

LEMMA SessionInvStep == SessionInv /\ [Next]_vars => SessionInv' /\ HistoryKept
<1> SUFFICES ASSUME SessionInv, [Next]_vars PROVE OthersOK' /\ HistoryKept
  BY DEF SessionInv, HistoryKept
<1>1. CASE Next
  BY <1>1, SessionStepKeeps, BaresipStepKeeps, LifecycleStepKeeps DEF Next
<1>2. CASE UNCHANGED vars
  BY <1>2, UnchangedHistoryKept DEF vars, SessionInv, OthersOK
<1> QED
  BY <1>1, <1>2

\* The invariant holds throughout.
THEOREM SessionInvariant == Spec => []SessionInv
  BY SessionInvInit, SessionInvStep, PTL DEF Spec

\* Type correctness of the session, whatever fails.
THEOREM SessionTypeCorrect == Spec => []TypeOK
<1>1. SessionInv => TypeOK
  BY DEF SessionInv, HistoryOK, OthersOK, TypeOK
<1> QED
  BY <1>1, SessionInvariant, PTL

\* What the session shows is always what the file holds with newer entries in
\* front, through failed writes, restarts and crashes (appendCallHistory).
THEOREM ShownHistoryExtendsFile == Spec => []HistoryExtendsDisk
<1>1. SessionInv => HistoryExtendsDisk
  BY DEF SessionInv, HistoryOK
<1> QED
  BY <1>1, SessionInvariant, PTL

\* No step loses or reorders an entry of the history but the oldest at the
\* limit, and the file gets what it lacked (mergeCallHistory, WriteCallHistory).
THEOREM FileOnlyGrows == Spec => PersistedHistoryOnlyGrows
<1>1. SessionInv /\ [Next]_vars
        => [(Start \/ Crash \/ ShownGrows) /\ (disk' # disk => FileCatchesUp)]_<<history, disk>>
  BY SessionInvStep DEF HistoryKept
<1> QED
  BY <1>1, SessionInvariant, PTL DEF Spec, PersistedHistoryOnlyGrows
==============================================================================
