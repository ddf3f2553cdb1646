------------------------------ MODULE CallReducer ------------------------------
(***************************************************************************)
(* The pure reducer of internal/app/state.go: Reduce(state, event) returns *)
(* the next domain state and the effects the session has to carry out.     *)
(*                                                                         *)
(* A call attempt is a member of Calls.  It stands for the id baresip gives *)
(* the call and for the address of its peer, so CallTarget and the Target  *)
(* of a history entry name the attempt they belong to.  NoCall is the      *)
(* empty string in any of these places: no id, no target, no parameter.    *)
(* Peer is a display text derived from the target and is left out, as are  *)
(* the timestamps, except that `started' says CallStartedAt is not zero.   *)
(*                                                                         *)
(* A Transition carries at most one command, notification and entry: no    *)
(* branch of the code appends a second one.  The absent ones are NoCommand, *)
(* "none" and NoEntry.                                                     *)
(***************************************************************************)
EXTENDS Naturals

CONSTANTS
  Calls,          \* call attempts: ids and peer addresses
  NoCall,         \* the empty id, target or parameter
  IgnoredSlots,   \* len(State.IgnoredCallIDs), 8 in the code
  IndexModulus    \* ignoredCallIndex is a uint8, so 256 in the code

ASSUME NoCallAssumption == NoCall \notin Calls
ASSUME RingAssumption ==
  /\ IgnoredSlots \in Nat \ {0}
  /\ IndexModulus \in Nat \ {0}

CallOrNone == Calls \cup {NoCall}

CallStates    == {"idle", "incoming", "outgoing", "active"}
Directions    == {"none", "incoming", "outgoing"}
Registrations == {"unknown", "registering", "registered", "failed", "unregistered"}
Outcomes      == {"connected", "missed", "rejected", "rejected_dnd",
                  "rejected_busy", "not_connected", "canceled"}
CommandKinds  == {"dial", "accept", "hangup", "reject", "mute"}
Notifications == {"none", "incoming_call", "missed_call",
                  "call_rejected_dnd", "call_rejected_busy"}

State ==
  [callState    : CallStates,
   callID       : CallOrNone,
   direction    : Directions,
   target       : CallOrNone,
   muted        : BOOLEAN,
   dnd          : BOOLEAN,
   endRequested : BOOLEAN,
   registered   : BOOLEAN,
   registration : Registrations,
   started      : BOOLEAN,
   lastCallID   : CallOrNone,
   ignored      : [0 .. IgnoredSlots - 1 -> CallOrNone],
   nextIgnored  : 0 .. IndexModulus - 1]

NewState ==
  [callState |-> "idle", callID |-> NoCall, direction |-> "none", target |-> NoCall,
   muted |-> FALSE, dnd |-> FALSE, endRequested |-> FALSE,
   registered |-> FALSE, registration |-> "unknown", started |-> FALSE,
   lastCallID |-> NoCall,
   ignored |-> [slot \in 0 .. IgnoredSlots - 1 |-> NoCall],
   nextIgnored |-> 0]

-----------------------------------------------------------------------------
(* Events *)

ActionTypes == {"dial", "answer", "hangup", "toggle_mute", "toggle_dnd"}
CallEventTypes == {"CALL_INCOMING", "CALL_ESTABLISHED", "CALL_CLOSED"}
RegisterEventTypes == {"REGISTER_OK", "REGISTER_FAIL", "UNREGISTERING"}

\* What a reginfo response can say: unreadable, no user agent, one of the
\* three answers of ParseRegistrationOutput.
RegistrationInfos == {"not_known", "no_agents", "registered", "failed", "pending"}

\* Every event has the fields [kind, type, id, peer]; actions carry the dial
\* target in peer, register events and snapshots use neither.
ActionEvent(type, target) == [kind |-> "action", type |-> type, id |-> NoCall, peer |-> target]
CallEvent(type, id, peer) == [kind |-> "call", type |-> type, id |-> id, peer |-> peer]
RegisterEvent(type) == [kind |-> "register", type |-> type, id |-> NoCall, peer |-> NoCall]
RegistrationSnapshot(info) == [kind |-> "reginfo", type |-> info, id |-> NoCall, peer |-> NoCall]

-----------------------------------------------------------------------------
(* Transitions *)

Command(kind, parameter) == [kind |-> kind, call |-> parameter]
Commands == [kind : CommandKinds, call : CallOrNone]
NoCommand == [kind |-> "none", call |-> NoCall]

Entry(call, direction, outcome, connected) ==
  [call |-> call, direction |-> direction, outcome |-> outcome, connected |-> connected]
NoEntry == Entry(NoCall, "none", "none", FALSE)

Entries == [call : CallOrNone, direction : Directions, outcome : Outcomes, connected : BOOLEAN]

\* `result := Transition{State: current}'
Result(s) ==
  [state |-> s, command |-> NoCommand, notification |-> "none", entry |-> NoEntry, err |-> FALSE]

Failed(s) == [Result(s) EXCEPT !.err = TRUE]

-----------------------------------------------------------------------------
(* Helpers on State.  Definitions named X_... are mutants of X: plausible bugs
   the runs are shown to catch, used by no other definition. *)

beginCall(s, callState, direction, id, target) ==
  [s EXCEPT !.callState = callState, !.callID = id, !.direction = direction,
            !.target = target, !.muted = FALSE, !.endRequested = FALSE, !.started = FALSE]

\* ignoredCallIndex is kept modulo 256 by its type and only then modulo 8.
rememberIgnoredCall(s, id) ==
  IF id = NoCall
  THEN s
  ELSE [s EXCEPT !.ignored[s.nextIgnored % IgnoredSlots] = id,
                 !.nextIgnored = (s.nextIgnored + 1) % IndexModulus]

callIDWasIgnored_Never(s, id) == FALSE

callIDWasIgnored(s, id) == id # NoCall /\ \E slot \in DOMAIN s.ignored : s.ignored[slot] = id

eventMatchesCurrentCall_Strict(s, id) == s.callID = id

eventMatchesCurrentCall(s, id) ==
  /\ ~ (id # NoCall /\ id = s.lastCallID /\ s.callID = NoCall)
  /\ s.callID = NoCall \/ id = NoCall \/ s.callID = id

-----------------------------------------------------------------------------
(* User requests *)

reduceAction_MuteUnsent(s, type, target) ==
  IF type = "toggle_mute" /\ s.callState = "active"
  THEN Result([s EXCEPT !.muted = ~ s.muted])
  ELSE IF type = "dial" /\ target # NoCall /\ s.callState = "idle" /\ s.registered
  THEN [Result(beginCall(s, "outgoing", "outgoing", NoCall, target))
          EXCEPT !.command = Command("dial", target)]
  ELSE Result(s)

reduceAction(s, type, target) ==
  CASE type = "dial" ->
         IF target = NoCall \/ s.callState # "idle" \/ ~ s.registered
         THEN Failed(s)
         ELSE [Result(beginCall(s, "outgoing", "outgoing", NoCall, target))
                 EXCEPT !.command = Command("dial", target)]
    [] type = "answer" /\ s.callState = "incoming" ->
         [Result(s) EXCEPT !.command = Command("accept", NoCall)]
    [] type = "hangup" /\ s.callState # "idle" ->
         [Result([s EXCEPT !.endRequested = TRUE]) EXCEPT
            !.command = Command(IF s.callState = "incoming" THEN "reject" ELSE "hangup", NoCall)]
    [] type = "toggle_mute" /\ s.callState = "active" ->
         [Result([s EXCEPT !.muted = ~ s.muted]) EXCEPT !.command = Command("mute", NoCall)]
    [] type = "toggle_dnd" -> Result([s EXCEPT !.dnd = ~ s.dnd])
    [] OTHER -> Result(s)

-----------------------------------------------------------------------------
(* Call events of baresip *)

immediateIncomingHistory(peer, outcome) == Entry(peer, "incoming", outcome, FALSE)

rejectForDND_Unrecorded(s, id, peer) ==
  [Result(rememberIgnoredCall(s, id)) EXCEPT
     !.command = Command("hangup", IF s.callState = "idle" THEN NoCall ELSE id)]

rejectForDND(s, id, peer) ==
  [Result(rememberIgnoredCall(s, id)) EXCEPT
     !.command = Command("hangup", IF s.callState = "idle" THEN NoCall ELSE id),
     !.notification = "call_rejected_dnd",
     !.entry = immediateIncomingHistory(peer, "rejected_dnd")]

rejectBusy_Unsent(s, id, peer) ==
  [Result(rememberIgnoredCall(s, id)) EXCEPT
     !.entry = immediateIncomingHistory(peer, "rejected_busy")]

rejectBusy(s, id, peer) ==
  [Result(rememberIgnoredCall(s, id)) EXCEPT
     !.command = IF id = NoCall THEN NoCommand ELSE Command("hangup", id),
     !.notification = "call_rejected_busy",
     !.entry = immediateIncomingHistory(peer, "rejected_busy")]

reduceIncoming(s, id, peer) ==
  IF id # NoCall /\ id = s.lastCallID /\ s.callState = "idle" THEN Result(s)
  ELSE IF s.dnd THEN rejectForDND(s, id, peer)
  ELSE IF s.callState = "idle"
       THEN [Result(beginCall(s, "incoming", "incoming", id, peer))
               EXCEPT !.notification = "incoming_call"]
  ELSE IF id # NoCall /\ id = s.callID THEN Result(s)
  ELSE rejectBusy(s, id, peer)

reduceEstablished(s, id) ==
  IF s.callState \in {"incoming", "outgoing"} /\ eventMatchesCurrentCall(s, id)
  THEN Result([s EXCEPT !.callID = IF @ = NoCall THEN id ELSE @,
                        !.callState = "active", !.muted = FALSE, !.started = TRUE])
  ELSE Result(s)

closedOutcome_NoIncoming(s) == IF s.callState = "outgoing" THEN "not_connected" ELSE "connected"

closedOutcome(s) ==
  CASE s.callState = "incoming" -> IF s.endRequested THEN "rejected" ELSE "missed"
    [] s.callState = "outgoing" -> IF s.endRequested THEN "canceled" ELSE "not_connected"
    [] OTHER -> "connected"

reduceClosed(s, id) ==
  IF s.callState # "idle" /\ eventMatchesCurrentCall(s, id)
  THEN [Result([s EXCEPT !.callState = "idle", !.callID = NoCall, !.direction = "none",
                         !.target = NoCall, !.muted = FALSE, !.endRequested = FALSE,
                         !.lastCallID = IF s.callID = NoCall THEN id ELSE s.callID])
          EXCEPT !.entry = Entry(s.target, s.direction, closedOutcome(s), s.started),
                 !.notification = IF closedOutcome(s) = "missed" THEN "missed_call" ELSE "none"]
  ELSE Result(s)

reduceCall(s, type, id, peer) ==
  CASE callIDWasIgnored(s, id)    -> Result(s)
    [] type = "CALL_INCOMING"     /\ ~ callIDWasIgnored(s, id) -> reduceIncoming(s, id, peer)
    [] type = "CALL_ESTABLISHED"  /\ ~ callIDWasIgnored(s, id) -> reduceEstablished(s, id)
    [] type = "CALL_CLOSED"       /\ ~ callIDWasIgnored(s, id) -> reduceClosed(s, id)

-----------------------------------------------------------------------------
(* Registration: Registered and Registration always change together *)

setRegistration(s, registration) ==
  Result([s EXCEPT !.registration = registration, !.registered = registration = "registered"])

reduceRegister(s, type) ==
  CASE type = "REGISTER_OK"   -> setRegistration(s, "registered")
    [] type = "REGISTER_FAIL" -> setRegistration(s, "failed")
    [] type = "UNREGISTERING" -> setRegistration(s, "unregistered")

reduceRegistrationSnapshot(s, info) ==
  CASE info = "not_known"  -> Result(s)
    [] info = "no_agents"  -> setRegistration(s, "unregistered")
    [] info = "registered" -> setRegistration(s, "registered")
    [] info = "failed"     -> setRegistration(s, "failed")
    [] info = "pending"    -> setRegistration(s, "registering")

Reduce(s, event) ==
  CASE event.kind = "action"   -> reduceAction(s, event.type, event.peer)
    [] event.kind = "call"     -> reduceCall(s, event.type, event.id, event.peer)
    [] event.kind = "register" -> reduceRegister(s, event.type)
    [] event.kind = "reginfo"  -> reduceRegistrationSnapshot(s, event.type)
================================================================================
