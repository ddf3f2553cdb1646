----------------------------- MODULE PhoneCallProofs -----------------------------
(***************************************************************************)
(* The calls of PhoneSession, for any set of calls, any limits and any      *)
(* combination of faults: what the session tracks, records and has told the *)
(* user about an attempt agrees with what baresip has done with it.         *)
(*                                                                         *)
(* An attempt goes through the places unused, announced or dialed, shown,   *)
(* recorded, and is in one of them at a time; the events queued about it     *)
(* are in the order in which baresip sent them.                             *)
(*                                                                         *)
(* Where callers and baresip wait for the session (Punctual), and the ring  *)
(* keeps those it turned away, history, screen and baresip agree as well.   *)
(***************************************************************************)
EXTENDS PhoneSessionProofs, FiniteSetTheorems

-----------------------------------------------------------------------------
(* The inductive invariant *)

Incoming(c) == CallEvent("CALL_INCOMING", c, c)
Established(c) == CallEvent("CALL_ESTABLISHED", c, c)
Closed(c) == CallEvent("CALL_CLOSED", c, c)

\* Which of the call's fields are set, and that an incoming call has its id.
Shaped(s) ==
  /\ s.callState = "idle" => s.callID = NoCall /\ s.target = NoCall
  /\ s.callState # "idle" => s.target \in Calls /\ s.direction # "none"
  /\ s.callState \in {"incoming", "outgoing"} => s.direction = s.callState
  /\ s.callState = "outgoing" => s.callID = NoCall
  /\ s.callState = "active" => s.callID # NoCall
  /\ s.callState # "idle" /\ s.direction = "incoming" => s.callID = s.target

Mentioned(c) == \E i \in 1 .. Len(queue) : queue[i].id = c

Coming(c) == IsQueued("CALL_INCOMING", c) \/ pending = Incoming(c)
Dialed(c) == pending = ActionEvent("dial", c)
Recorded(c) == EntriesOf(c, history) # {} \/ EntriesOf(c, disk) # {}
Ignored(c) == callIDWasIgnored(state, c)

\* baresip has the call, or its word that it is over is on its way.
Exists(c) == calls[c] \in Live \/ IsQueued("CALL_CLOSED", c)

\* CLOSED is the last event about a call and INCOMING the first.
QueueInOrder ==
  \A i, j \in 1 .. Len(queue) :
    i < j /\ queue[i].id = queue[j].id /\ queue[j].id # NoCall
      => queue[i].type # "CALL_CLOSED" /\ queue[j].type # "CALL_INCOMING"

QueueIsTrue ==
  \A c \in Calls :
    /\ Mentioned(c) => calls[c] \notin {"unused", "requested"} /\ (up => Exists(c))
    /\ IsQueued("CALL_CLOSED", c) => calls[c] = "over"
    /\ IsQueued("CALL_ESTABLISHED", c) => c \in talked

\* The places of an attempt exclude each other.
OnePlace(c) ==
  /\ calls[c] = "unused" => ~ Coming(c) /\ ~ Dialed(c) /\ state.target # c /\ ~ Recorded(c) /\ ~ Ignored(c)
  /\ Coming(c) => /\ ~ Dialed(c) /\ state.target # c /\ state.callID # c /\ ~ Recorded(c)
                  /\ calls[c] \notin {"unused", "requested"} /\ (up => Exists(c))
  /\ ~ (IsQueued("CALL_INCOMING", c) /\ pending = Incoming(c))
  /\ Dialed(c) => state.target # c /\ ~ Recorded(c) /\ ~ Ignored(c)
  /\ state.target = c => ~ Recorded(c)
  /\ Ignored(c) => state.callID # c /\ state.target # c
  /\ state.lastCallID = c => calls[c] = "over" /\ ~ Mentioned(c)

Places == \A c \in Calls : OnePlace(c)

\* A command awaits its answer only while it is the last one sent, and a dial
\* that was answered has led to a call.
FlightOK ==
  /\ running \/ (pending = NoEvent /\ queue = <<>> /\ wire = <<>> /\ ~ up)
  /\ reply # "none" => pending # NoEvent
  /\ \/ pending = NoEvent
     \/ \E c \in Calls : pending \in {Incoming(c), ActionEvent("dial", c)}
     \/ \E type \in ActionTypes \ {"dial"} : pending = ActionEvent(type, NoCall)
  /\ \A c \in Calls : Dialed(c) =>
       /\ reply = "none" => wire # <<>> /\ wire[Len(wire)] = Command("dial", c)
       /\ reply = "ok" /\ up => Exists(c)

\* A dial on the wire is about an attempt that waits for it, and the only one.
WireOK ==
  /\ \A i \in 1 .. Len(wire) :
       wire[i].kind = "dial" => wire[i].call \in Calls /\ calls[wire[i].call] = "requested"
  /\ \A i, j \in 1 .. Len(wire) :
       wire[i].kind = "dial" /\ wire[j].kind = "dial" /\ wire[i].call = wire[j].call => i = j

AnsweredEntries(entries) ==
  \A i \in DOMAIN entries :
    entries[i].direction = "incoming" /\ entries[i].outcome = "connected"
      => entries[i].call \in talked

HistoryIsTrue ==
  /\ AtMostOneEntry
  /\ AnsweredEntries(history) /\ AnsweredEntries(disk)

StateIsTrue ==
  /\ Shaped(state)
  /\ state.callState = "active" /\ state.direction = "incoming" => state.target \in talked
  /\ TrackedCallIsReal

CallsOK ==
  /\ QueueInOrder /\ QueueIsTrue /\ Places /\ FlightOK /\ WireOK
  /\ HistoryIsTrue /\ StateIsTrue

CallInv == SessionInv /\ CallsOK

-----------------------------------------------------------------------------
(* The queue *)

LEMMA EventFields ==
  ASSUME NEW type, NEW c
  PROVE  /\ CallEvent(type, c, c).id = c
         /\ CallEvent(type, c, c).type = type
         /\ RegisterEvent(type).id = NoCall
  BY DEF CallEvent, RegisterEvent

\* Events differ in their type or their call.
LEMMA EventsDiffer ==
  ASSUME NEW c \in Calls, NEW d \in Calls
  PROVE  /\ Incoming(c) # Established(d) /\ Incoming(c) # Closed(d) /\ Established(c) # Closed(d)
         /\ Incoming(c) = Incoming(d) => c = d
         /\ Established(c) = Established(d) => c = d
         /\ Closed(c) = Closed(d) => c = d
         /\ Incoming(c) # NoEvent
         /\ \A type, target : /\ ActionEvent(type, target) # Incoming(c)
                              /\ ActionEvent(type, target) # NoEvent
         /\ ActionEvent("dial", c) = ActionEvent("dial", d) => c = d
         /\ \A type : ActionEvent("dial", c) # ActionEvent(type, NoCall)
  BY NoCallAssumption DEF Incoming, Established, Closed, CallEvent, ActionEvent, NoEvent

\* Every event of baresip is one of four.
LEMMA EventKinds ==
  ASSUME NEW e \in BaresipEvents
  PROVE  \/ \E c \in Calls : e \in {Incoming(c), Established(c), Closed(c)}
         \/ \E type \in RegisterEventTypes : e = RegisterEvent(type)
  BY DEF BaresipEvents, CallEventTypes, Incoming, Established, Closed

LEMMA EventAbout ==
  ASSUME NEW e \in BaresipEvents, NEW c \in Calls, e.id = c
  PROVE  e \in {Incoming(c), Established(c), Closed(c)}
<1>1. ASSUME NEW d \in Calls, e \in {Incoming(d), Established(d), Closed(d)}
      PROVE  e \in {Incoming(c), Established(c), Closed(c)}
  BY <1>1, EventFields DEF Incoming, Established, Closed
<1>2. ASSUME NEW type \in RegisterEventTypes, e = RegisterEvent(type)
      PROVE  FALSE
  BY <1>2, EventFields, NoCallAssumption
<1> QED
  BY <1>1, <1>2, EventKinds

LEMMA Appended ==
  ASSUME queue \in Seq(BaresipEvents), NEW e \in BaresipEvents, queue' = Append(queue, e)
  PROVE  /\ \A c \in Calls : Mentioned(c)' <=> Mentioned(c) \/ e.id = c
         /\ \A type \in CallEventTypes, c \in Calls :
              IsQueued(type, c)' <=> IsQueued(type, c) \/ e = CallEvent(type, c, c)
<1>1. /\ Len(queue') = Len(queue) + 1 /\ Len(queue) \in Nat
      /\ queue'[Len(queue) + 1] = e
      /\ \A i \in 1 .. Len(queue) : queue'[i] = queue[i]
  OBVIOUS
<1>2. \A i : i \in 1 .. Len(queue') <=> i \in 1 .. Len(queue) \/ i = Len(queue) + 1
  BY <1>1
<1> QED
  BY <1>1, <1>2 DEF Mentioned, IsQueued

LEMMA AppendedInOrder ==
  ASSUME queue \in Seq(BaresipEvents), QueueInOrder, NEW e \in BaresipEvents,
         queue' = Append(queue, e),
         \A c \in Calls : e.id = c =>
           /\ ~ IsQueued("CALL_CLOSED", c)
           /\ e.type = "CALL_INCOMING" => ~ Mentioned(c)
  PROVE  QueueInOrder'
<1>1. /\ Len(queue') = Len(queue) + 1 /\ Len(queue) \in Nat
      /\ queue'[Len(queue) + 1] = e
      /\ \A i \in 1 .. Len(queue) : queue'[i] = queue[i]
  OBVIOUS
<1> SUFFICES ASSUME NEW i \in 1 .. Len(queue'), NEW j \in 1 .. Len(queue'), i < j,
                    queue'[i].id = queue'[j].id, queue'[j].id # NoCall
             PROVE  queue'[i].type # "CALL_CLOSED" /\ queue'[j].type # "CALL_INCOMING"
  BY DEF QueueInOrder
<1>2. i \in 1 .. Len(queue) /\ queue'[i] = queue[i]
  BY <1>1
<1>3. CASE j \in 1 .. Len(queue)
  BY <1>1, <1>2, <1>3 DEF QueueInOrder
<1>4. CASE j = Len(queue) + 1
  <2>1. queue[i].id = e.id /\ e.id # NoCall
    BY <1>1, <1>2, <1>4
  <2>2. PICK c \in Calls : e.id = c
    BY <2>1, EventKinds, EventFields DEF Incoming, Established, Closed
  <2>3. Mentioned(c) /\ e.type # "CALL_INCOMING" /\ ~ IsQueued("CALL_CLOSED", c)
    BY <1>2, <2>1, <2>2 DEF Mentioned
  <2>4. queue[i].type # "CALL_CLOSED"
    <3>1. queue[i] \in BaresipEvents
      BY <1>2
    <3>2. c # NoCall /\ queue[i].id = c
      BY <2>1, <2>2, NoCallAssumption
    <3>4. queue[i] \in {Incoming(c), Established(c), Closed(c)}
      BY <3>1, <3>2, EventAbout
    <3>5. queue[i].type = "CALL_CLOSED" => queue[i] = Closed(c)
      BY <3>4, EventFields DEF Incoming, Established, Closed
    <3> QED
      BY <1>2, <2>3, <3>5 DEF IsQueued, Closed
  <2> QED
    BY <1>1, <1>2, <1>4, <2>3, <2>4
<1> QED
  BY <1>1, <1>3, <1>4

\* What taking the next event leaves in the queue.
LEMMA Taken ==
  ASSUME queue \in Seq(BaresipEvents), QueueInOrder, queue # <<>>, queue' = Tail(queue)
  PROVE  /\ QueueInOrder'
         /\ \A c \in Calls : Mentioned(c) <=> Mentioned(c)' \/ Head(queue).id = c
         /\ \A type \in CallEventTypes, c \in Calls :
              IsQueued(type, c) <=> IsQueued(type, c)' \/ Head(queue) = CallEvent(type, c, c)
         /\ \A c \in Calls :
              /\ Head(queue) = Closed(c) => ~ Mentioned(c)'
              /\ Head(queue).id = c => ~ IsQueued("CALL_INCOMING", c)'
<1>1. /\ Len(queue') = Len(queue) - 1 /\ Len(queue) \in Nat \ {0}
      /\ Head(queue) = queue[1]
      /\ \A i \in 1 .. Len(queue') : queue'[i] = queue[i + 1]
  OBVIOUS
<1>2. \A i : i \in 1 .. Len(queue) <=> i = 1 \/ (i - 1 \in 1 .. Len(queue') /\ i \in Nat)
  BY <1>1

<1>3. QueueInOrder'
  <2> SUFFICES ASSUME NEW i \in 1 .. Len(queue'), NEW j \in 1 .. Len(queue'), i < j,
                      queue'[i].id = queue'[j].id, queue'[j].id # NoCall
               PROVE  queue'[i].type # "CALL_CLOSED" /\ queue'[j].type # "CALL_INCOMING"
    BY DEF QueueInOrder
  <2>1. i + 1 \in 1 .. Len(queue) /\ j + 1 \in 1 .. Len(queue) /\ i + 1 < j + 1
    BY <1>1
  <2> QED
    BY <1>1, <2>1 DEF QueueInOrder
<1>5. ASSUME NEW c \in Calls
      PROVE  Mentioned(c) <=> Mentioned(c)' \/ Head(queue).id = c
  BY <1>1, <1>2 DEF Mentioned
<1>6. ASSUME NEW type \in CallEventTypes, NEW c \in Calls
      PROVE  IsQueued(type, c) <=> IsQueued(type, c)' \/ Head(queue) = CallEvent(type, c, c)
  BY <1>1, <1>2 DEF IsQueued
<1>7. ASSUME NEW c \in Calls, Head(queue).id = c
      PROVE  /\ Head(queue).type = "CALL_CLOSED" => ~ Mentioned(c)'
             /\ ~ IsQueued("CALL_INCOMING", c)'
  <2>1. c # NoCall
    BY NoCallAssumption
  <2>2. ASSUME NEW j \in 1 .. Len(queue'), queue'[j].id = c
        PROVE  queue[1].type # "CALL_CLOSED" /\ queue'[j].type # "CALL_INCOMING"
    <3>1. 1 \in 1 .. Len(queue) /\ j + 1 \in 1 .. Len(queue) /\ 1 < j + 1 /\ queue'[j] = queue[j + 1]
      BY <1>1
    <3> QED
      BY <1>1, <1>7, <2>1, <2>2, <3>1 DEF QueueInOrder
  <2> QED
    BY <1>1, <2>2, EventFields DEF Mentioned, IsQueued
<1> QED
  BY <1>3, <1>5, <1>6, <1>7, EventFields DEF Closed


-----------------------------------------------------------------------------
(* The history *)

\* What a merged history, and the file it may have been written to, hold.
Recording(entry) ==
  /\ HistoryIsTrue'
  /\ \A c \in Calls : Recorded(c)' => Recorded(c) \/ (entry # NoEntry /\ entry.call = c)

LEMMA NothingRecorded ==
  ASSUME HistoryIsTrue, UNCHANGED <<history, disk, talked>>
  PROVE  Recording(NoEntry)
  BY DEF Recording, HistoryIsTrue, AtMostOneEntry, AnsweredEntries, EntriesOf, Recorded

LEMMA MergedRecords ==
  ASSUME HistoryOK, HistoryIsTrue, NEW entry \in Entries, entry.call \in Calls,
         ~ Recorded(entry.call),
         entry.direction = "incoming" /\ entry.outcome = "connected" => entry.call \in talked,
         history' = mergeCallHistory(history, entry), disk' = history' \/ disk' = disk,
         UNCHANGED talked
  PROVE  Recording(entry)
<1> DEFINE Once(entries) == \A c \in Calls : \A i, j \in EntriesOf(c, entries) : i = j
<1>1. entry # NoEntry
  BY DEF Entries, Outcomes, NoEntry, Entry
<1>2. /\ Once(history') /\ AnsweredEntries(history')
      /\ \A c \in Calls : EntriesOf(c, history') # {} => EntriesOf(c, history) # {} \/ entry.call = c
  <2>1. CASE entry.call \in Oversized
    BY <2>1 DEF mergeCallHistory, HistoryIsTrue, AtMostOneEntry, AnsweredEntries
  <2>2. CASE entry.call \notin Oversized
    <3>1. LET merged == history' IN
          /\ merged \in Seq(Entries)
          /\ Len(merged) = IF Len(history) < MaxHistory THEN Len(history) + 1 ELSE MaxHistory
          /\ merged[1] = entry
          /\ \A i \in 2 .. Len(merged) : merged[i] = history[i - 1]
      BY <1>1, <2>2, MergeIs DEF HistoryOK
    <3>2. /\ Len(history') \in Nat /\ Len(history) \in Nat /\ MaxHistory \in Nat \ {0}
          /\ Len(history) <= MaxHistory
          /\ DOMAIN history' = 1 .. Len(history') /\ DOMAIN history = 1 .. Len(history)
      BY <3>1, SessionAssumption DEF HistoryOK
    <3>3. ASSUME NEW i \in DOMAIN history', i # 1
          PROVE  i - 1 \in DOMAIN history /\ history'[i] = history[i - 1]
      BY <3>1, <3>2, <3>3
    <3>4. EntriesOf(entry.call, history) = {}
      BY DEF Recorded
    <3>5. Once(history')
      <4> SUFFICES ASSUME NEW c \in Calls, NEW i \in DOMAIN history', NEW j \in DOMAIN history',
                          history'[i].call = c, history'[j].call = c
                   PROVE  i = j
        BY DEF EntriesOf
      <4>1. CASE i = 1 /\ j # 1
        BY <3>1, <3>3, <3>4, <4>1 DEF EntriesOf
      <4>2. CASE i # 1 /\ j = 1
        BY <3>1, <3>3, <3>4, <4>2 DEF EntriesOf
      <4>3. CASE i # 1 /\ j # 1
        <5>1. i - 1 = j - 1
          BY <3>3, <4>3 DEF EntriesOf, HistoryIsTrue, AtMostOneEntry
        <5> QED
          BY <3>2, <5>1
      <4> QED
        BY <4>1, <4>2, <4>3
    <3>6. AnsweredEntries(history')
      BY <3>1, <3>3 DEF AnsweredEntries, HistoryIsTrue
    <3>7. \A c \in Calls : EntriesOf(c, history') # {} => EntriesOf(c, history) # {} \/ entry.call = c
      BY <3>1, <3>3 DEF EntriesOf
    <3> QED
      BY <3>5, <3>6, <3>7
  <2> QED
    BY <2>1, <2>2
<1>3. /\ Once(disk') /\ AnsweredEntries(disk')
      /\ \A c \in Calls : EntriesOf(c, disk') # {} => Recorded(c) \/ entry.call = c
  <2>1. CASE disk' = history'
    BY <1>2, <2>1 DEF AnsweredEntries, Recorded
  <2>2. CASE disk' = disk
    BY <2>2 DEF HistoryIsTrue, AtMostOneEntry, AnsweredEntries, Recorded
  <2> QED
    BY <2>1, <2>2
<1>4. AtMostOneEntry'
  BY <1>2, <1>3 DEF AtMostOneEntry, EntriesOf
<1>5. AnsweredEntries(history)' /\ AnsweredEntries(disk)'
  BY <1>2, <1>3 DEF AnsweredEntries
<1>6. \A c \in Calls : Recorded(c)' => Recorded(c) \/ entry.call = c
  BY <1>2, <1>3 DEF Recorded, EntriesOf
<1> QED
  BY <1>1, <1>4, <1>5, <1>6 DEF Recording, HistoryIsTrue

LEMMA AppendRecords ==
  ASSUME HistoryOK, HistoryIsTrue, UNCHANGED talked,
         NEW entry \in Entries \cup {NoEntry}, appendCallHistory(entry),
         entry # NoEntry =>
           /\ entry.call \in Calls /\ ~ Recorded(entry.call)
           /\ entry.direction = "incoming" /\ entry.outcome = "connected" => entry.call \in talked
  PROVE  Recording(entry)
<1>1. CASE entry = NoEntry
  BY <1>1, NothingRecorded DEF appendCallHistory, mergeCallHistory
<1>2. CASE entry # NoEntry
  BY <1>2, MergedRecords DEF appendCallHistory, WriteCallHistory
<1> QED
  BY <1>1, <1>2

-----------------------------------------------------------------------------
(* baresip and the peers *)

\* What a step of baresip keeps, the wire and the answer left aside.
CallsKept ==
  /\ QueueInOrder' /\ QueueIsTrue' /\ Places' /\ HistoryIsTrue' /\ StateIsTrue'
  /\ \A c \in Calls : Exists(c) => Exists(c)'

BaresipKept ==
  /\ CallsKept
  /\ \A c \in Calls : calls[c] = "requested" => calls'[c] = "requested"

\* The session is not part of these steps.
LEMMA SessionSame ==
  ASSUME UNCHANGED <<snapshotVars, pending>>
  PROVE  \A c \in Calls : /\ Dialed(c)' <=> Dialed(c)
                          /\ Recorded(c)' <=> Recorded(c)
                          /\ Ignored(c)' <=> Ignored(c)
  BY DEF snapshotVars, Dialed, Recorded, EntriesOf, Ignored, callIDWasIgnored

LEMMA HistorySame ==
  ASSUME HistoryIsTrue, UNCHANGED <<history, disk>>, talked \subseteq talked'
  PROVE  HistoryIsTrue'
  BY DEF HistoryIsTrue, AtMostOneEntry, AnsweredEntries, EntriesOf

\* A call of baresip rings, is answered or ends, and says so.
LEMMA LiveMoves ==
  ASSUME CallInv, up, UNCHANGED <<snapshotVars, pending, up>>,
         NEW c \in Calls, NEW type \in CallEventTypes, NEW status,
         calls' = [calls EXCEPT ![c] = status], Emit(type, c),
         \/ type = "CALL_INCOMING" /\ calls[c] = "unused" /\ status = "ringing" /\ talked' = talked
         \/ /\ type = "CALL_ESTABLISHED" /\ calls[c] \in Live /\ status = "established"
            /\ talked' = talked \cup {c}
         \/ type = "CALL_CLOSED" /\ calls[c] \in Live /\ status = "over" /\ talked' = talked
  PROVE  BaresipKept
<1> DEFINE e == CallEvent(type, c, c)
<1> USE DEF CallInv, CallsOK
<1>1. e \in BaresipEvents /\ e.id = c /\ e.type = type
  BY EventFields DEF BaresipEvents
<1>2. queue \in Seq(BaresipEvents) /\ queue' = Append(queue, e)
  BY DEF SessionInv, OthersOK, Emit
<1>3. /\ calls \in [Calls -> CallStatuses] /\ calls'[c] = status
      /\ \A d \in Calls : d # c => calls'[d] = calls[d]
  BY DEF SessionInv, OthersOK
<1>4. \A d \in Calls : \A other \in CallEventTypes :
        e = CallEvent(other, d, d) <=> other = type /\ d = c
  BY DEF CallEvent
<1> HIDE DEF e
<1>5. /\ \A d \in Calls : Mentioned(d)' <=> Mentioned(d) \/ d = c
      /\ \A d \in Calls, other \in CallEventTypes :
           IsQueued(other, d)' <=> IsQueued(other, d) \/ (other = type /\ d = c)
  BY <1>1, <1>2, <1>4, Appended
<1>6. ~ IsQueued("CALL_CLOSED", c) /\ (calls[c] = "unused" => ~ Mentioned(c))
  BY DEF QueueIsTrue, Live
<1>7. QueueInOrder'
  BY <1>1, <1>2, <1>6, AppendedInOrder
<1>8. \A d \in Calls : Exists(d) => Exists(d)'
  BY <1>3, <1>5 DEF Exists, Live, CallEventTypes
<1>9. \A d \in Calls : calls[d] = "requested" => calls'[d] = "requested"
  BY <1>3 DEF Live
<1>10. QueueIsTrue'
  <2> SUFFICES ASSUME NEW d \in Calls
               PROVE  /\ Mentioned(d)' => calls'[d] \notin {"unused", "requested"} /\ (up' => Exists(d)')
                      /\ IsQueued("CALL_CLOSED", d)' => calls'[d] = "over"
                      /\ IsQueued("CALL_ESTABLISHED", d)' => d \in talked'
    BY DEF QueueIsTrue
  <2>1. CASE d = c
    BY <1>3, <1>5, <1>6, <2>1 DEF QueueIsTrue, Exists, Live, CallEventTypes
  <2>2. CASE d # c
    BY <1>3, <1>5, <1>8, <2>2 DEF QueueIsTrue, CallEventTypes
  <2> QED
    BY <2>1, <2>2
<1>11. Places'
  <2> SUFFICES ASSUME NEW d \in Calls PROVE OnePlace(d)'
    BY DEF Places
  <2>1. OnePlace(d)
    BY DEF Places
  <2>2. /\ Dialed(d)' <=> Dialed(d)
        /\ Recorded(d)' <=> Recorded(d)
        /\ Ignored(d)' <=> Ignored(d)
        /\ UNCHANGED <<state, pending, up>>
    BY SessionSame DEF snapshotVars
  <2>3. Coming(d)' <=> Coming(d) \/ (type = "CALL_INCOMING" /\ d = c)
    BY <1>5, <2>2 DEF Coming, CallEventTypes
  <2>4. CASE d = c
    <3>1. /\ calls'[c] # "unused" /\ calls'[c] # "requested"
          /\ calls[c] # "over"
      BY <1>3 DEF Live
    <3>2. Exists(c)'
      BY <1>3, <1>5 DEF Exists, Live, CallEventTypes
    <3>3. ~ (IsQueued("CALL_INCOMING", c)' /\ pending' = Incoming(c))
      BY <1>5, <2>1, <2>2, <2>4 DEF OnePlace, Coming, CallEventTypes, Live
    <3>4. type = "CALL_INCOMING" => calls[c] = "unused" /\ state.callID # c
      <4>1. running /\ c # NoCall
        BY NoCallAssumption DEF FlightOK
      <4>2. state.callID = c => state.callState # "idle" /\ Tracked = c
        BY <4>1 DEF StateIsTrue, Shaped, Tracked
      <4>3. state.callID = c => calls[c] # "unused"
        BY <1>6, <4>1, <4>2 DEF StateIsTrue, TrackedCallIsReal, Live
      <4> QED
        BY <4>3 DEF Live
    <3> QED
      BY <2>1, <2>2, <2>3, <2>4, <3>1, <3>2, <3>3, <3>4 DEF OnePlace
  <2>5. CASE d # c
    BY <1>3, <1>5, <1>8, <2>1, <2>2, <2>3, <2>5 DEF OnePlace, CallEventTypes
  <2> QED
    BY <2>4, <2>5
<1>12. HistoryIsTrue'
  BY HistorySame DEF snapshotVars
<1>13. StateIsTrue'
  <2>1. UNCHANGED <<running, state, up>> /\ talked \subseteq talked'
    BY DEF snapshotVars
  <2>2. state.callState # "idle" => Tracked \in Calls
    BY DEF StateIsTrue, Shaped, Tracked, SessionInv, OthersOK, State, CallOrNone
  <2>3. TrackedCallIsReal'
    BY <1>8, <2>1, <2>2 DEF StateIsTrue, TrackedCallIsReal, Tracked, Exists
  <2> QED
    BY <2>1, <2>3 DEF StateIsTrue, Shaped
<1> QED
  BY <1>7, <1>8, <1>9, <1>10, <1>11, <1>12, <1>13 DEF BaresipKept, CallsKept

\* A requested attempt is tried, or refused.
LEMMA DialMoves ==
  ASSUME CallInv, UNCHANGED <<snapshotVars, pending, up, queue, talked>>,
         NEW c \in Calls, calls[c] = "requested", NEW status \in {"dialing", "over"},
         calls' = [calls EXCEPT ![c] = status]
  PROVE  CallsKept
<1> USE DEF CallInv, CallsOK
<1>1. /\ calls'[c] = status
      /\ \A d \in Calls : d # c => calls'[d] = calls[d]
  BY DEF SessionInv, OthersOK
<1>2. /\ \A d \in Calls : Mentioned(d)' <=> Mentioned(d)
      /\ \A d \in Calls, type \in CallEventTypes : IsQueued(type, d)' <=> IsQueued(type, d)
  BY DEF Mentioned, IsQueued
<1>3. ~ Mentioned(c) /\ ~ Coming(c) /\ ~ IsQueued("CALL_CLOSED", c)
  BY DEF QueueIsTrue, Places, OnePlace
<1>4. \A d \in Calls : Exists(d) => Exists(d)'
  BY <1>1, <1>2, <1>3 DEF Exists, Live, CallEventTypes
<1>5. QueueInOrder'
  BY DEF QueueInOrder
<1>6. QueueIsTrue'
  BY <1>1, <1>2, <1>3, <1>4 DEF QueueIsTrue, CallEventTypes
<1>7. Places'
  <2> SUFFICES ASSUME NEW d \in Calls PROVE OnePlace(d)'
    BY DEF Places
  <2>1. OnePlace(d)
    BY DEF Places
  <2>2. /\ Dialed(d)' <=> Dialed(d)
        /\ Recorded(d)' <=> Recorded(d)
        /\ Ignored(d)' <=> Ignored(d)
        /\ Coming(d)' <=> Coming(d)
        /\ UNCHANGED <<state, pending, up>>
    BY <1>2, SessionSame DEF snapshotVars, Coming, CallEventTypes
  <2> QED
    BY <1>1, <1>2, <1>3, <1>4, <2>1, <2>2 DEF OnePlace, CallEventTypes
<1>8. HistoryIsTrue'
  BY HistorySame DEF snapshotVars
<1>9. StateIsTrue'
  <2>1. UNCHANGED <<running, state, up>> /\ talked \subseteq talked'
    BY DEF snapshotVars
  <2>2. state.callState # "idle" => Tracked \in Calls
    BY DEF StateIsTrue, Shaped, Tracked, SessionInv, OthersOK, State, CallOrNone
  <2>3. TrackedCallIsReal'
    BY <1>4, <2>1, <2>2 DEF StateIsTrue, TrackedCallIsReal, Tracked, Exists
  <2> QED
    BY <2>1, <2>3 DEF StateIsTrue, Shaped
<1> QED
  BY <1>4, <1>5, <1>6, <1>7, <1>8, <1>9 DEF CallsKept

\* baresip's calls stay as they are, and so do the events about them.
LEMMA SilentMoves ==
  ASSUME CallInv, UNCHANGED <<snapshotVars, pending, up, calls, talked>>,
         \/ queue' = queue
         \/ \E type \in RegisterEventTypes : queue' = Append(queue, RegisterEvent(type))
  PROVE  BaresipKept
<1> USE DEF CallInv, CallsOK
<1>1. /\ QueueInOrder'
      /\ \A d \in Calls : Mentioned(d)' <=> Mentioned(d)
      /\ \A d \in Calls, type \in CallEventTypes : IsQueued(type, d)' <=> IsQueued(type, d)
  <2>1. CASE queue' = queue
    BY <2>1 DEF Mentioned, IsQueued, QueueInOrder
  <2>2. ASSUME NEW type \in RegisterEventTypes, queue' = Append(queue, RegisterEvent(type))
        PROVE  <1>1!:
    <3>1. /\ queue \in Seq(BaresipEvents) /\ RegisterEvent(type) \in BaresipEvents
          /\ \A d \in Calls : RegisterEvent(type).id # d
          /\ \A d \in Calls, other \in CallEventTypes : RegisterEvent(type) # CallEvent(other, d, d)
      BY NoCallAssumption DEF SessionInv, OthersOK, BaresipEvents, RegisterEvent, CallEvent
    <3> QED
      BY <2>2, <3>1, Appended, AppendedInOrder
  <2> QED
    BY <2>1, <2>2
<1>4. \A d \in Calls : Exists(d)' <=> Exists(d)
  BY <1>1 DEF Exists, CallEventTypes
<1>6. QueueIsTrue'
  BY <1>1, <1>4 DEF QueueIsTrue, CallEventTypes
<1>7. Places'
  <2> SUFFICES ASSUME NEW d \in Calls PROVE OnePlace(d)'
    BY DEF Places
  <2>1. OnePlace(d)
    BY DEF Places
  <2>2. /\ Dialed(d)' <=> Dialed(d)
        /\ Recorded(d)' <=> Recorded(d)
        /\ Ignored(d)' <=> Ignored(d)
        /\ Coming(d)' <=> Coming(d)
        /\ UNCHANGED <<state, pending, up>>
    BY <1>1, SessionSame DEF snapshotVars, Coming, CallEventTypes
  <2> QED
    BY <1>1, <1>4, <2>1, <2>2 DEF OnePlace, CallEventTypes
<1>8. HistoryIsTrue'
  BY HistorySame DEF snapshotVars
<1>9. StateIsTrue'
  <2>1. UNCHANGED <<running, state, up>>
    BY DEF snapshotVars
  <2>2. state.callState # "idle" => Tracked \in Calls
    BY DEF StateIsTrue, Shaped, Tracked, SessionInv, OthersOK, State, CallOrNone
  <2>3. TrackedCallIsReal'
    BY <1>4, <2>1, <2>2 DEF StateIsTrue, TrackedCallIsReal, Tracked, Exists
  <2> QED
    BY <2>1, <2>3 DEF StateIsTrue, Shaped
<1> QED
  BY <1>1, <1>4, <1>6, <1>7, <1>8, <1>9 DEF BaresipKept, CallsKept

LEMMA PerformMoves ==
  ASSUME CallInv, up, UNCHANGED <<snapshotVars, pending, up>>,
         NEW command \in Commands, NEW answer, Perform(command, answer),
         command.kind = "dial" => command.call \in Calls /\ calls[command.call] = "requested"
  PROVE  /\ CallsKept
         /\ \A c \in Calls : calls[c] = "requested" =>
              calls'[c] = "requested" \/ command = Command("dial", c)
         /\ \A c \in Calls : command = Command("dial", c) /\ answer = "ok" => Exists(c)'
<1>1. CASE command.kind = "dial" /\ Dial(command.call, answer)
  <2>1. PICK status \in {"dialing", "over"} :
          calls' = [calls EXCEPT ![command.call] = status] /\ (answer = "ok" => status = "dialing")
    BY <1>1 DEF Dial
  <2>2. CallsKept
    BY <1>1, <2>1, DialMoves DEF Dial
  <2>3. command = Command("dial", command.call)
    BY <1>1 DEF Commands, Command
  <2>4. /\ calls'[command.call] = status
        /\ \A c \in Calls : c # command.call => calls'[c] = calls[c]
    BY <1>1, <2>1 DEF CallInv, CallsOK, SessionInv, OthersOK
  <2>5. \A c \in Calls : command = Command("dial", c) => c = command.call
    BY DEF Command
  <2>6. answer = "ok" => Exists(command.call)'
    BY <2>1, <2>4 DEF Exists, Live
  <2> QED
    BY <1>1, <2>2, <2>3, <2>4, <2>5, <2>6
<1>2. CASE command.kind # "dial" /\ BaresipKept
  BY <1>2 DEF BaresipKept, Command
<1>3. ASSUME NEW c \in Addressed(command, {"ringing"}), Accept(c, answer)
      PROVE  BaresipKept
  BY <1>3, LiveMoves DEF Addressed, Accept, CallEventTypes, Live
<1>4. ASSUME NEW c \in Addressed(command, Live), Hangup(c, answer)
      PROVE  BaresipKept
  BY <1>4, LiveMoves DEF Addressed, Hangup, CallEventTypes
<1>5. ASSUME NEW c, ToggleMute(c, answer) \/ NothingToDo(answer)
      PROVE  BaresipKept
  BY <1>5, SilentMoves DEF ToggleMute, NothingToDo
<1> QED
  BY <1>1, <1>2, <1>3, <1>4, <1>5 DEF Perform

\* The wire when its first command is gone.
LEMMA WireTail ==
  ASSUME wire \in Seq(Commands), wire # <<>>, wire' = Tail(wire)
  PROVE  /\ wire[1] = Head(wire) /\ Len(wire) \in Nat \ {0} /\ Len(wire') = Len(wire) - 1
         /\ \A i \in 1 .. Len(wire') : wire'[i] = wire[i + 1] /\ i + 1 \in 2 .. Len(wire)
         /\ Len(wire) # 1 => wire' # <<>> /\ wire'[Len(wire')] = wire[Len(wire)]
<1>1. /\ Head(wire) = wire[1] /\ Len(wire) \in Nat \ {0} /\ Len(wire') = Len(wire) - 1
      /\ \A i \in 1 .. Len(wire') : wire'[i] = wire[i + 1]
  OBVIOUS
<1>2. \A i \in 1 .. Len(wire') : i + 1 \in 2 .. Len(wire)
  BY <1>1
<1>3. ASSUME Len(wire) # 1
      PROVE  wire' # <<>> /\ wire'[Len(wire')] = wire[Len(wire)]
  <2>1. Len(wire') \in 1 .. Len(wire') /\ Len(wire') + 1 = Len(wire) /\ Len(wire') # 0
    BY <1>1, <1>3
  <2>2. wire' # <<>>
    BY <2>1
  <2> QED
    BY <1>1, <2>1, <2>2
<1> QED
  BY <1>1, <1>2, <1>3

LEMMA ExecutionKeeps ==
  ASSUME CallInv, BaresipExecutes
  PROVE  CallsKept /\ FlightOK' /\ WireOK'
<1> USE DEF CallInv, CallsOK
<1>1. PICK answer \in {"ok", "refused"} :
        /\ Perform(Head(wire), answer)
        /\ reply' = IF Waiting /\ Len(wire) = 1 THEN answer ELSE reply
  BY DEF BaresipExecutes
<1>2. /\ up /\ wire # <<>> /\ wire' = Tail(wire) /\ UNCHANGED <<snapshotVars, pending, up>>
      /\ wire \in Seq(Commands)
  BY DEF BaresipExecutes, SessionInv, OthersOK
<1>3. running /\ running'
  BY <1>2 DEF FlightOK, snapshotVars
<1>4. /\ wire[1] = Head(wire) /\ Len(wire) \in Nat \ {0} /\ Len(wire') = Len(wire) - 1
      /\ \A i \in 1 .. Len(wire') : wire'[i] = wire[i + 1] /\ i + 1 \in 2 .. Len(wire)
      /\ Len(wire) # 1 => wire' # <<>> /\ wire'[Len(wire')] = wire[Len(wire)]
  BY <1>2, WireTail
<1>5. /\ Head(wire) \in Commands
      /\ Head(wire).kind = "dial" => Head(wire).call \in Calls /\ calls[Head(wire).call] = "requested"
  BY <1>2, <1>4 DEF WireOK
<1>6. /\ CallsKept
      /\ \A c \in Calls : calls[c] = "requested" =>
           calls'[c] = "requested" \/ Head(wire) = Command("dial", c)
      /\ \A c \in Calls : Head(wire) = Command("dial", c) /\ answer = "ok" => Exists(c)'
  BY <1>1, <1>2, <1>5, PerformMoves
<1>7. WireOK'
  <2>1. ASSUME NEW i \in 1 .. Len(wire'), wire'[i].kind = "dial"
        PROVE  wire'[i].call \in Calls /\ calls'[wire'[i].call] = "requested"
    <3>1. i + 1 \in 1 .. Len(wire) /\ wire'[i] = wire[i + 1] /\ 1 \in 1 .. Len(wire) /\ i + 1 # 1
      BY <1>4
    <3>2. wire'[i].call \in Calls /\ calls[wire'[i].call] = "requested"
      BY <2>1, <3>1 DEF WireOK
    <3>3. Head(wire) # Command("dial", wire'[i].call)
      BY <1>4, <2>1, <3>1 DEF WireOK, Command
    <3> QED
      BY <1>6, <3>2, <3>3
  <2>2. ASSUME NEW i \in 1 .. Len(wire'), NEW j \in 1 .. Len(wire'),
               wire'[i].kind = "dial", wire'[j].kind = "dial", wire'[i].call = wire'[j].call
        PROVE  i = j
    <3>1. /\ i + 1 \in 1 .. Len(wire) /\ wire'[i] = wire[i + 1]
          /\ j + 1 \in 1 .. Len(wire) /\ wire'[j] = wire[j + 1]
      BY <1>4
    <3>2. i + 1 = j + 1
      BY <2>2, <3>1 DEF WireOK
    <3> QED
      BY <3>2
  <2> QED
    BY <2>1, <2>2 DEF WireOK
<1>8. FlightOK'
  <2>1. reply' # "none" => pending' # NoEvent
    BY <1>1, <1>2 DEF FlightOK, Waiting
  <2>2. ASSUME NEW c \in Calls, Dialed(c)
        PROVE  /\ reply' = "none" => wire' # <<>> /\ wire'[Len(wire')] = Command("dial", c)
               /\ reply' = "ok" /\ up' => Exists(c)'
    <3>1. pending # NoEvent
      BY <2>2, EventsDiffer DEF Dialed
    <3>2. CASE reply # "none"
      <4>1. reply' = reply
        BY <1>1, <3>2 DEF Waiting
      <4> QED
        BY <1>2, <1>6, <2>2, <3>2, <4>1 DEF FlightOK, CallsKept
    <3>3. CASE reply = "none"
      <4>1. wire[Len(wire)] = Command("dial", c)
        BY <2>2, <3>3 DEF FlightOK
      <4>2. CASE Len(wire) = 1
        <5>1. reply' = answer /\ reply' # "none"
          BY <1>1, <1>3, <3>1, <3>3, <4>2 DEF Waiting
        <5>2. Head(wire) = Command("dial", c)
          BY <1>4, <4>1, <4>2
        <5> QED
          BY <1>6, <5>1, <5>2
      <4>3. CASE Len(wire) # 1
        <5>1. reply' = "none"
          BY <1>1, <3>3, <4>3
        <5> QED
          BY <1>4, <4>1, <4>3, <5>1
      <4> QED
        BY <4>2, <4>3
    <3> QED
      BY <3>2, <3>3
  <2>3. \A c \in Calls : Dialed(c)' <=> Dialed(c)
    BY <1>2 DEF Dialed
  <2> QED
    BY <1>2, <1>3, <2>1, <2>2, <2>3 DEF FlightOK
<1> QED
  BY <1>6, <1>7, <1>8

LEMMA BaresipStepKeepsCalls ==
  ASSUME CallInv, BaresipStep
  PROVE  CallInv'
<1> USE DEF CallInv, CallsOK
<1>1. SessionInv'
  BY BaresipStepKeeps DEF SessionInv, HistoryKept
<1>2. ASSUME BaresipKept, up, UNCHANGED <<snapshotVars, flightVars, up>>
      PROVE  CallInv'
  <2>1. WireOK'
    BY <1>2 DEF WireOK, BaresipKept, flightVars
  <2>2. running /\ running'
    BY <1>2 DEF FlightOK, snapshotVars
  <2>3. FlightOK'
    BY <1>2, <2>2 DEF FlightOK, BaresipKept, CallsKept, flightVars, Dialed
  <2> QED
    BY <1>1, <1>2, <2>1, <2>3 DEF BaresipKept, CallsKept
<1>3. ASSUME NEW c \in Calls, PeerCalls(c) \/ PeerAnswers(c) \/ PeerEnds(c)
      PROVE  CallInv'
  <2>1. BaresipKept
    BY <1>3, LiveMoves DEF PeerCalls, PeerAnswers, PeerEnds, CallEventTypes, Live, flightVars
  <2> QED
    BY <1>2, <1>3, <2>1 DEF PeerCalls, PeerAnswers, PeerEnds
<1>4. ASSUME NEW type \in Reports, RegistrarReports(type)
      PROVE  CallInv'
  <2>1. BaresipKept
    BY <1>4, SilentMoves, SessionAssumption DEF RegistrarReports, baresipVars, flightVars
  <2> QED
    BY <1>2, <1>4, <2>1 DEF RegistrarReports, baresipVars
<1>5. CASE BaresipExecutes
  BY <1>1, <1>5, ExecutionKeeps DEF CallsKept
<1> QED
  BY <1>3, <1>4, <1>5 DEF BaresipStep

-----------------------------------------------------------------------------
(* The run loop: what becomes of an event it has taken *)

\* The event e is out of the queue, or no longer pending.
Takes(e) ==
  /\ QueueInOrder'
  /\ \A c \in Calls :
       /\ Mentioned(c)' => Mentioned(c)
       /\ \A type \in CallEventTypes : IsQueued(type, c)' => IsQueued(type, c)
       /\ IsQueued("CALL_CLOSED", c) => IsQueued("CALL_CLOSED", c)' \/ e = Closed(c)
       /\ e = Incoming(c) => Coming(c) /\ ~ IsQueued("CALL_INCOMING", c)'
       /\ e = Established(c) => IsQueued("CALL_ESTABLISHED", c) /\ Mentioned(c)
                                /\ ~ IsQueued("CALL_INCOMING", c)'
       /\ e = Closed(c) => IsQueued("CALL_CLOSED", c) /\ Mentioned(c) /\ ~ Mentioned(c)'

LEMMA QueuedIsMentioned ==
  ASSUME NEW type, NEW c \in Calls, IsQueued(type, c)
  PROVE  Mentioned(c)
  BY EventFields DEF IsQueued, Mentioned

LEMMA TakesHead ==
  ASSUME CallInv, queue # <<>>, queue' = Tail(queue)
  PROVE  Takes(Head(queue)) /\ Head(queue) \in BaresipEvents
<1>1. queue \in Seq(BaresipEvents) /\ Head(queue) \in BaresipEvents
  BY HeadTailProperties DEF CallInv, CallsOK, SessionInv, OthersOK
<1>2. /\ QueueInOrder'
      /\ \A c \in Calls : Mentioned(c) <=> Mentioned(c)' \/ Head(queue).id = c
      /\ \A type \in CallEventTypes, c \in Calls :
           IsQueued(type, c) <=> IsQueued(type, c)' \/ Head(queue) = CallEvent(type, c, c)
      /\ \A c \in Calls :
           /\ Head(queue) = Closed(c) => ~ Mentioned(c)'
           /\ Head(queue).id = c => ~ IsQueued("CALL_INCOMING", c)'
  BY <1>1, Taken DEF CallInv, CallsOK
<1>3. \A c \in Calls : Head(queue) \in {Incoming(c), Established(c), Closed(c)} => Head(queue).id = c
  BY EventFields DEF Incoming, Established, Closed
<1> QED
  BY <1>1, <1>2, <1>3 DEF Takes, Coming, CallEventTypes, Incoming, Established, Closed

LEMMA TakesPending ==
  ASSUME CallInv, UNCHANGED queue, pending # NoEvent
  PROVE  Takes(pending)
<1>1. \A c \in Calls : pending # Established(c) /\ pending # Closed(c)
  <2>1. \A c \in Calls, d \in Calls : Incoming(d) # Established(c) /\ Incoming(d) # Closed(c)
    BY EventsDiffer
  <2>2. \A c \in Calls : \A type, target : /\ ActionEvent(type, target) # Established(c)
                                           /\ ActionEvent(type, target) # Closed(c)
    BY DEF ActionEvent, Established, Closed, CallEvent
  <2> QED
    BY <2>1, <2>2 DEF CallInv, CallsOK, FlightOK
<1>2. /\ \A c \in Calls : Mentioned(c)' <=> Mentioned(c)
      /\ \A type \in CallEventTypes, c \in Calls : IsQueued(type, c)' <=> IsQueued(type, c)
      /\ QueueInOrder'
  BY DEF Mentioned, IsQueued, CallInv, CallsOK, QueueInOrder
<1>3. ASSUME NEW c \in Calls, pending = Incoming(c)
      PROVE  Coming(c) /\ ~ IsQueued("CALL_INCOMING", c)
  BY <1>3 DEF CallInv, CallsOK, Places, OnePlace, Coming
<1> QED
  BY <1>1, <1>2, <1>3 DEF Takes, CallEventTypes

\* The step deals with e for good, and leaves baresip alone.
Settles(e) ==
  /\ Takes(e)
  /\ running /\ pending' = NoEvent /\ reply' = "none"
  /\ UNCHANGED <<running, up, wire, calls, talked>>

\* What holds after such a step whatever it does to the state.
LEMMA SettledQueue ==
  ASSUME CallInv, NEW e, Settles(e)
  PROVE  /\ QueueInOrder' /\ QueueIsTrue' /\ FlightOK' /\ WireOK'
         /\ \A c \in Calls : /\ ~ Dialed(c)' /\ pending' # Incoming(c)
                             /\ Coming(c)' => Coming(c) /\ e # Incoming(c) /\ (up' => Exists(c)')
                             /\ Exists(c) => Exists(c)' \/ e = Closed(c)
<1> USE DEF CallInv, CallsOK, Settles
<1>1. \A c \in Calls : Exists(c) => Exists(c)' \/ e = Closed(c)
  BY DEF Takes, Exists
<1>2. QueueIsTrue'
  BY <1>1 DEF QueueIsTrue, Takes, CallEventTypes
<1>3. \A c \in Calls : ~ Dialed(c)' /\ pending' # Incoming(c)
  BY EventsDiffer DEF Dialed
<1>4. FlightOK'
  BY <1>3 DEF FlightOK
<1>5. \A c \in Calls : Coming(c)' => Coming(c) /\ e # Incoming(c)
  BY <1>3 DEF Coming, Takes, CallEventTypes
<1>6. ASSUME NEW c \in Calls, Coming(c)', up'
      PROVE  Exists(c)'
  <2>1. Exists(c)
    BY <1>5, <1>6 DEF Places, OnePlace
  <2>2. Mentioned(c)'
    BY <1>3, <1>6, EventFields DEF Coming, IsQueued, Mentioned
  <2> QED
    BY <1>1, <2>1, <2>2 DEF Takes
<1> QED
  BY <1>1, <1>2, <1>3, <1>4, <1>5, <1>6 DEF Takes, WireOK

LEMMA SettledUnmoved ==
  ASSUME CallInv, NEW e, Settles(e), NEW entry, Recording(entry),
         Unmoved(state, state'),
         entry # NoEntry => \E c \in Calls : entry.call = c /\ Dialed(c),
         state.callState # "idle" => e # Closed(Tracked)
  PROVE  CallsOK'
<1> USE DEF CallInv, CallsOK
<1>1. /\ QueueInOrder' /\ QueueIsTrue' /\ FlightOK' /\ WireOK'
      /\ \A c \in Calls : /\ ~ Dialed(c)' /\ pending' # Incoming(c)
                          /\ Coming(c)' => Coming(c) /\ e # Incoming(c) /\ (up' => Exists(c)')
                          /\ Exists(c) => Exists(c)' \/ e = Closed(c)
  BY SettledQueue
<1>2. /\ UNCHANGED <<running, up, calls, talked>>
      /\ \A c \in Calls : Mentioned(c)' => Mentioned(c)
  BY DEF Settles, Takes
<1>3. /\ state'.callState = state.callState /\ state'.callID = state.callID
      /\ state'.direction = state.direction /\ state'.target = state.target
      /\ state'.lastCallID = state.lastCallID
      /\ \A c \in Calls : Ignored(c)' <=> Ignored(c)
  BY DEF Unmoved, SameCall, SameMemory, Ignored, callIDWasIgnored
<1>5. Places'
  <2> SUFFICES ASSUME NEW c \in Calls PROVE OnePlace(c)'
    BY DEF Places
  <2>1. OnePlace(c)
    BY DEF Places
  <2>2. Recorded(c)' => Recorded(c) \/ Dialed(c)
    BY DEF Recording
  <2> QED
    BY <1>1, <1>2, <1>3, <2>1, <2>2 DEF OnePlace
<1>6. StateIsTrue'
  <2>1. state.callState # "idle" => Tracked \in Calls /\ Tracked' = Tracked
    BY <1>3 DEF StateIsTrue, Shaped, Tracked, SessionInv, OthersOK, State, CallOrNone
  <2>2. TrackedCallIsReal'
    <3>1. SUFFICES ASSUME running', up', state'.callState # "idle"
                   PROVE  Exists(Tracked)'
      BY DEF TrackedCallIsReal, Exists
    <3>2. PICK c \in Calls : c = Tracked /\ c = Tracked'
      BY <1>3, <2>1, <3>1
    <3>3. Exists(c)
      BY <1>2, <1>3, <3>1, <3>2 DEF StateIsTrue, TrackedCallIsReal, Exists
    <3>4. Exists(c)'
      BY <1>1, <1>3, <3>1, <3>2, <3>3
    <3> QED
      BY <3>2, <3>4 DEF Exists
  <2> QED
    BY <1>2, <1>3, <2>2 DEF StateIsTrue, Shaped
<1> QED
  BY <1>1, <1>5, <1>6 DEF Recording

\* The state takes up c: a caller, or the attempt just dialed.
LEMMA SettledBegun ==
  ASSUME CallInv, NEW c \in Calls, NEW e, Settles(e), Recording(NoEntry),
         \/ e = Incoming(c) /\ ~ Ignored(c) /\ Begins(state, state', "incoming", c, c)
         \/ /\ e = ActionEvent("dial", c) /\ Dialed(c) /\ (up => Exists(c))
            /\ Begins(state, state', "outgoing", NoCall, c)
  PROVE  CallsOK'
<1> USE DEF CallInv, CallsOK
<1>1. /\ QueueInOrder' /\ QueueIsTrue' /\ FlightOK' /\ WireOK'
      /\ \A d \in Calls : /\ ~ Dialed(d)' /\ pending' # Incoming(d)
                          /\ Coming(d)' => Coming(d) /\ e # Incoming(d) /\ (up' => Exists(d)')
                          /\ Exists(d) => Exists(d)' \/ e = Closed(d)
  BY SettledQueue
<1>2. /\ UNCHANGED <<running, up, calls, talked>>
      /\ \A d \in Calls : Mentioned(d)' => Mentioned(d)
  BY DEF Settles, Takes
<1>3. /\ Coming(c) \/ Dialed(c)
      /\ \A d \in Calls : Coming(d)' => d # c
  BY <1>1 DEF Settles, Takes, Places, OnePlace
<1>4. /\ state'.callState \in {"incoming", "outgoing"} /\ state'.target = c
      /\ state'.direction = state'.callState
      /\ state'.callID = IF state'.callState = "incoming" THEN c ELSE NoCall
      /\ state'.lastCallID = state.lastCallID
      /\ \A d \in Calls : Ignored(d)' <=> Ignored(d)
      /\ c # NoCall
  BY NoCallAssumption DEF Begins, SameMemory, Ignored, callIDWasIgnored
<1>5. \A d \in Calls : Recorded(d)' => Recorded(d)
  BY DEF Recording
<1>6. calls[c] # "unused" /\ ~ Recorded(c) /\ ~ Ignored(c)
  BY <1>3 DEF Places, OnePlace
<1>7. Places'
  <2> SUFFICES ASSUME NEW d \in Calls PROVE OnePlace(d)'
    BY DEF Places
  <2>1. OnePlace(d)
    BY DEF Places
  <2>2. d # c => state'.target # d /\ state'.callID # d
    BY <1>4, NoCallAssumption
  <2> QED
    BY <1>1, <1>2, <1>3, <1>4, <1>5, <1>6, <2>1, <2>2 DEF OnePlace
<1>8. StateIsTrue'
  <2>1. up' => Exists(c)'
    <3>1. up => Exists(c)
      BY DEF Settles, Takes, Places, OnePlace
    <3>2. Incoming(c) # Closed(c) /\ ActionEvent("dial", c) # Closed(c)
      BY DEF ActionEvent, Incoming, Closed, CallEvent
    <3> QED
      BY <1>1, <1>2, <3>1, <3>2
  <2>2. Tracked' = c
    BY <1>4 DEF Tracked
  <2>3. TrackedCallIsReal'
    BY <2>1, <2>2 DEF TrackedCallIsReal, Exists
  <2> QED
    BY <1>4, <2>3 DEF StateIsTrue, Shaped
<1> QED
  BY <1>1, <1>7, <1>8 DEF Recording

\* A second caller, or one during do not disturb, is remembered and recorded.
LEMMA SettledTurnedAway ==
  ASSUME CallInv, NEW c \in Calls, Settles(Incoming(c)),
         NEW entry, Recording(entry), entry # NoEntry => entry.call = c,
         TurnsAway(state, state', c)
  PROVE  CallsOK'
<1> DEFINE e == Incoming(c)
<1> USE DEF CallInv, CallsOK
<1>1. /\ QueueInOrder' /\ QueueIsTrue' /\ FlightOK' /\ WireOK'
      /\ \A d \in Calls : /\ ~ Dialed(d)' /\ pending' # Incoming(d)
                          /\ Coming(d)' => Coming(d) /\ e # Incoming(d) /\ (up' => Exists(d)')
                          /\ Exists(d) => Exists(d)' \/ e = Closed(d)
  BY SettledQueue
<1>2. /\ UNCHANGED <<running, up, calls, talked>>
      /\ \A d \in Calls : Mentioned(d)' => Mentioned(d)
  BY DEF Settles, Takes
<1>3. Coming(c) /\ ~ Coming(c)'
  BY <1>1 DEF Settles, Takes
<1>4. /\ state'.callState = state.callState /\ state'.callID = state.callID
      /\ state'.direction = state.direction /\ state'.target = state.target
      /\ state'.lastCallID = state.lastCallID
      /\ \A d \in Calls : Ignored(d)' => Ignored(d) \/ d = c
  BY DEF TurnsAway, SameCall, Ignored
<1>5. \A d \in Calls : Recorded(d)' => Recorded(d) \/ d = c
  BY DEF Recording
<1>6. calls[c] # "unused" /\ state.target # c /\ state.callID # c
  BY <1>3 DEF Places, OnePlace
<1>7. Places'
  <2> SUFFICES ASSUME NEW d \in Calls PROVE OnePlace(d)'
    BY DEF Places
  <2>1. OnePlace(d)
    BY DEF Places
  <2> QED
    BY <1>1, <1>2, <1>3, <1>4, <1>5, <1>6, <2>1 DEF OnePlace
<1>8. StateIsTrue'
  <2>1. state.callState # "idle" => Tracked \in Calls
    BY DEF StateIsTrue, Shaped, Tracked, SessionInv, OthersOK, State, CallOrNone
  <2>2. \A d \in Calls : Exists(d) => Exists(d)'
    BY <1>1, EventsDiffer
  <2>3. TrackedCallIsReal'
    BY <1>2, <1>4, <2>1, <2>2 DEF StateIsTrue, TrackedCallIsReal, Tracked, Exists
  <2> QED
    BY <1>2, <1>4, <2>3 DEF StateIsTrue, Shaped
<1> QED
  BY <1>1, <1>7, <1>8 DEF Recording

\* The tracked call is established, with the id of c.
LEMMA SettledAnswered ==
  ASSUME CallInv, NEW c \in Calls, Settles(Established(c)), Recording(NoEntry),
         Answers(state, state', c), ~ Ignored(c)
  PROVE  CallsOK'
<1> DEFINE e == Established(c)
<1> USE DEF CallInv, CallsOK
<1>1. /\ QueueInOrder' /\ QueueIsTrue' /\ FlightOK' /\ WireOK'
      /\ \A d \in Calls : /\ ~ Dialed(d)' /\ pending' # Incoming(d)
                          /\ Coming(d)' => Coming(d) /\ e # Incoming(d) /\ (up' => Exists(d)')
                          /\ Exists(d) => Exists(d)' \/ e = Closed(d)
  BY SettledQueue
<1>2. /\ UNCHANGED <<running, up, calls, talked>>
      /\ \A d \in Calls : Mentioned(d)' => Mentioned(d)
  BY DEF Settles, Takes
<1>3. IsQueued("CALL_ESTABLISHED", c) /\ Mentioned(c) /\ ~ IsQueued("CALL_INCOMING", c)'
  BY DEF Settles, Takes
<1>4. /\ state.callState \in {"incoming", "outgoing"} /\ state.callID \in {NoCall, c}
      /\ state'.callState = "active" /\ state'.callID = c
      /\ state'.direction = state.direction /\ state'.target = state.target
      /\ state'.lastCallID = state.lastCallID
      /\ \A d \in Calls : Ignored(d)' <=> Ignored(d)
      /\ c # NoCall
  BY NoCallAssumption DEF Answers, SameMemory, Ignored, callIDWasIgnored
<1>5. \A d \in Calls : Recorded(d)' => Recorded(d)
  BY DEF Recording
<1>6. c \in talked /\ (up => Exists(c)) /\ ~ Coming(c)'
  BY <1>1, <1>3 DEF QueueIsTrue, Coming
<1>7. Places'
  <2> SUFFICES ASSUME NEW d \in Calls PROVE OnePlace(d)'
    BY DEF Places
  <2>1. OnePlace(d)
    BY DEF Places
  <2> QED
    BY <1>1, <1>2, <1>4, <1>5, <1>6, <2>1 DEF OnePlace
<1>8. StateIsTrue'
  <2>1. up' => Exists(c)'
    BY <1>1, <1>2, <1>6, EventsDiffer
  <2>2. Tracked' = c
    BY <1>4 DEF Tracked
  <2>3. TrackedCallIsReal'
    BY <2>1, <2>2 DEF TrackedCallIsReal, Exists
  <2>4. state.direction = "incoming" => state.target = c
    <3>1. state.target # NoCall
      BY <1>4, NoCallAssumption DEF StateIsTrue, Shaped
    <3> QED
      BY <1>4, <3>1 DEF StateIsTrue, Shaped
  <2>5. Shaped(state')
    <3>1. state.target \in Calls /\ state.direction # "none"
      BY <1>4 DEF StateIsTrue, Shaped
    <3> QED
      BY <1>4, <2>4, <3>1 DEF Shaped
  <2> QED
    BY <1>2, <1>4, <1>6, <2>3, <2>4, <2>5 DEF StateIsTrue
<1> QED
  BY <1>1, <1>7, <1>8 DEF Recording

\* The tracked call is over: its attempt goes into the history.
LEMMA SettledCleared ==
  ASSUME CallInv, NEW c \in Calls, Settles(Closed(c)), Clears(state, state', c),
         NEW entry, Recording(entry), entry # NoEntry => entry.call = state.target
  PROVE  CallsOK'
<1> DEFINE e == Closed(c)
<1> USE DEF CallInv, CallsOK
<1>1. /\ QueueInOrder' /\ QueueIsTrue' /\ FlightOK' /\ WireOK'
      /\ \A d \in Calls : /\ ~ Dialed(d)' /\ pending' # Incoming(d)
                          /\ Coming(d)' => Coming(d) /\ e # Incoming(d) /\ (up' => Exists(d)')
                          /\ Exists(d) => Exists(d)' \/ e = Closed(d)
  BY SettledQueue
<1>2. /\ UNCHANGED <<running, up, calls, talked>>
      /\ \A d \in Calls : Mentioned(d)' => Mentioned(d)
  BY DEF Settles, Takes
<1>3. IsQueued("CALL_CLOSED", c) /\ ~ Mentioned(c)'
  BY DEF Settles, Takes
<1>4. /\ state.callState # "idle"
      /\ state'.callState = "idle" /\ state'.callID = NoCall /\ state'.target = NoCall
      /\ state'.lastCallID = c
      /\ \A d \in Calls : Ignored(d)' <=> Ignored(d)
      /\ \A d \in Calls : d # NoCall
  BY NoCallAssumption DEF Clears, Ignored, callIDWasIgnored
<1>5. \A d \in Calls : Recorded(d)' => Recorded(d) \/ state.target = d
  BY DEF Recording
<1>6. calls[c] = "over"
  BY <1>3 DEF QueueIsTrue
<1>7. Places'
  <2> SUFFICES ASSUME NEW d \in Calls PROVE OnePlace(d)'
    BY DEF Places
  <2>1. OnePlace(d)
    BY DEF Places
  <2> QED
    BY <1>1, <1>2, <1>3, <1>4, <1>5, <1>6, <2>1 DEF OnePlace
<1>8. StateIsTrue'
  BY <1>4 DEF StateIsTrue, Shaped, TrackedCallIsReal
<1> QED
  BY <1>1, <1>7, <1>8 DEF Recording

LEMMA CommitSettles ==
  ASSUME CallInv, NEW e \in BaresipEvents \cup UserEvents, Settles(e), Commit(Reduce(state, e)),
         \A c \in Calls : e = ActionEvent("dial", c) /\ Reduce(state, e).command = Command("dial", c)
                            => Dialed(c) /\ (up => Exists(c))
  PROVE  CallsOK'
<1> DEFINE t == Reduce(state, e)
<1> USE DEF CallInv, CallsOK
<1>1. /\ state' = t.state /\ appendCallHistory(t.entry) /\ state \in State
      /\ HistoryOK /\ HistoryIsTrue /\ UNCHANGED talked
  BY DEF Commit, SessionInv, OthersOK, Settles
<1>2. t.entry \in Entries \cup {NoEntry}
  BY <1>1, EventReduces DEF TransitionOK
<1> HIDE DEF t
<1>3. ASSUME \/ t.entry = NoEntry
             \/ /\ t.entry.call \in Calls /\ ~ Recorded(t.entry.call)
                /\ t.entry.direction = "incoming" /\ t.entry.outcome = "connected"
                     => t.entry.call \in talked
      PROVE  Recording(t.entry)
  BY <1>1, <1>2, <1>3, AppendRecords
<1>4. ASSUME NEW c \in Calls, e = Incoming(c)
      PROVE  CallsOK'
  <2>1. \/ Unmoved(state, t.state) /\ t.entry = NoEntry
        \/ /\ Begins(state, t.state, "incoming", c, c) /\ ~ callIDWasIgnored(state, c)
           /\ t.entry = NoEntry
        \/ /\ TurnsAway(state, t.state, c)
           /\ \E outcome \in {"rejected_dnd", "rejected_busy"} :
                t.entry = Entry(c, "incoming", outcome, FALSE)
    BY <1>1, <1>4, IncomingMoves DEF t, Incoming
  <2>2. \A d \in Calls : Incoming(c) # Closed(d)
    BY EventsDiffer
  <2>3. state.callState # "idle" => Tracked \in Calls
    BY DEF StateIsTrue, Shaped, Tracked, SessionInv, OthersOK, State, CallOrNone
  <2>4. CASE Unmoved(state, t.state) /\ t.entry = NoEntry
    BY <1>1, <1>3, <1>4, <2>2, <2>3, <2>4, SettledUnmoved
  <2>5. CASE /\ Begins(state, t.state, "incoming", c, c) /\ ~ callIDWasIgnored(state, c)
             /\ t.entry = NoEntry
    BY <1>1, <1>3, <1>4, <2>5, SettledBegun DEF Ignored
  <2>6. CASE /\ TurnsAway(state, t.state, c)
             /\ \E outcome \in {"rejected_dnd", "rejected_busy"} :
                  t.entry = Entry(c, "incoming", outcome, FALSE)
    <3>1. t.entry.call = c /\ t.entry.outcome # "connected"
      BY <2>6 DEF Entry
    <3>2. ~ Recorded(c)
      BY <1>4 DEF Settles, Takes, Places, OnePlace
    <3> QED
      BY <1>1, <1>3, <1>4, <2>6, <3>1, <3>2, SettledTurnedAway
  <2> QED
    BY <2>1, <2>4, <2>5, <2>6
<1>5. ASSUME NEW c \in Calls, e = Established(c)
      PROVE  CallsOK'
  <2>1. /\ t.entry = NoEntry
        /\ \/ Unmoved(state, t.state)
           \/ Answers(state, t.state, c) /\ ~ callIDWasIgnored(state, c)
    BY <1>1, <1>5, EstablishedMoves DEF t, Established
  <2>2. \A d \in Calls : Established(c) # Closed(d)
    BY EventsDiffer
  <2>3. state.callState # "idle" => Tracked \in Calls
    BY DEF StateIsTrue, Shaped, Tracked, SessionInv, OthersOK, State, CallOrNone
  <2>4. CASE Unmoved(state, t.state)
    BY <1>1, <1>3, <1>5, <2>1, <2>2, <2>3, <2>4, SettledUnmoved
  <2>5. CASE Answers(state, t.state, c) /\ ~ callIDWasIgnored(state, c)
    BY <1>1, <1>3, <1>5, <2>1, <2>5, SettledAnswered DEF Ignored
  <2> QED
    BY <2>1, <2>4, <2>5
<1>6. ASSUME NEW c \in Calls, e = Closed(c)
      PROVE  CallsOK'
  <2>1. \/ /\ Unmoved(state, t.state) /\ t.entry = NoEntry
           /\ \/ callIDWasIgnored(state, c) \/ state.callState = "idle"
              \/ state.callID \notin {NoCall, c} \/ state.lastCallID = c
        \/ /\ Clears(state, t.state, c)
           /\ t.entry = Entry(state.target, state.direction, closedOutcome(state), state.started)
    BY <1>1, <1>6, ClosedMoves DEF t, Closed
  <2>2. CASE /\ Unmoved(state, t.state) /\ t.entry = NoEntry
             /\ \/ callIDWasIgnored(state, c) \/ state.callState = "idle"
                \/ state.callID \notin {NoCall, c} \/ state.lastCallID = c
    <3>1. Mentioned(c)
      BY <1>6 DEF Settles, Takes
    <3>2. state.callState # "idle" => Tracked # c /\ Tracked \in Calls
      <4>1. Ignored(c) \/ state.callState = "idle" \/ state.callID \notin {NoCall, c}
        BY <2>2, <3>1 DEF Ignored, Places, OnePlace
      <4>2. Ignored(c) => state.callID # c /\ state.target # c
        BY DEF Places, OnePlace
      <4>3. state.callState # "idle" => Tracked \in Calls
        BY DEF StateIsTrue, Shaped, Tracked, SessionInv, OthersOK, State, CallOrNone
      <4> QED
        BY <4>1, <4>2, <4>3 DEF Tracked
    <3>3. state.callState # "idle" => e # Closed(Tracked)
      BY <1>6, <3>2, EventsDiffer
    <3> QED
      BY <1>1, <1>3, <2>2, <3>3, SettledUnmoved
  <2>3. CASE /\ Clears(state, t.state, c)
             /\ t.entry = Entry(state.target, state.direction, closedOutcome(state), state.started)
    <3>1. state.callState # "idle"
      BY <2>3 DEF Clears
    <3>2. /\ t.entry.call = state.target /\ t.entry.direction = state.direction
          /\ t.entry.outcome = closedOutcome(state)
      BY <2>3 DEF Entry
    <3>3. state.target \in Calls /\ ~ Recorded(state.target)
      BY <3>1 DEF StateIsTrue, Shaped, Places, OnePlace
    <3>4. state.direction = "incoming" /\ closedOutcome(state) = "connected" => state.target \in talked
      BY <1>1, <3>1 DEF closedOutcome, StateIsTrue, State, CallStates
    <3> QED
      BY <1>1, <1>3, <1>6, <2>3, <3>2, <3>3, <3>4, SettledCleared
  <2> QED
    BY <2>1, <2>2, <2>3
<1>7. ASSUME NEW type \in RegisterEventTypes, e = RegisterEvent(type)
      PROVE  CallsOK'
  <2>1. Unmoved(state, t.state) /\ t.entry = NoEntry
    BY <1>1, <1>7, RegisterMoves DEF t
  <2>2. \A d : e # Closed(d)
    BY <1>7 DEF RegisterEvent, Closed, CallEvent
  <2> QED
    BY <1>1, <1>3, <2>1, <2>2, SettledUnmoved
<1>8. ASSUME NEW type \in ActionTypes, NEW target \in CallOrNone, e = ActionEvent(type, target)
      PROVE  CallsOK'
  <2>1. /\ t.entry = NoEntry
        /\ \/ Unmoved(state, t.state)
           \/ /\ type = "dial" /\ target \in Calls
              /\ Begins(state, t.state, "outgoing", NoCall, target)
              /\ t.command = Command("dial", target)
    BY <1>1, <1>8, ActionMoves DEF t
  <2>2. \A d : e # Closed(d)
    BY <1>8 DEF ActionEvent, Closed, CallEvent
  <2>3. CASE Unmoved(state, t.state)
    BY <1>1, <1>3, <2>1, <2>2, <2>3, SettledUnmoved
  <2>4. CASE /\ type = "dial" /\ target \in Calls
             /\ Begins(state, t.state, "outgoing", NoCall, target)
             /\ t.command = Command("dial", target)
    <3>1. Dialed(target) /\ (up => Exists(target))
      BY <1>8, <2>4 DEF t
    <3> QED
      BY <1>1, <1>3, <1>8, <2>1, <2>4, <3>1, SettledBegun
  <2> QED
    BY <2>1, <2>3, <2>4
<1> QED
  BY <1>4, <1>5, <1>6, <1>7, <1>8, EventKinds DEF UserEvents

\* A step that leaves the state and records nothing.
LEMMA PassedOver ==
  ASSUME CallInv, NEW e, Settles(e), UNCHANGED <<state, history, disk>>,
         state.callState # "idle" => e # Closed(Tracked)
  PROVE  CallsOK'
<1>1. Recording(NoEntry)
  BY NothingRecorded DEF CallInv, CallsOK, Settles
<1>2. Unmoved(state, state')
  BY DEF Unmoved, SameCall, SameMemory
<1> QED
  BY <1>1, <1>2, SettledUnmoved

LEMMA AbandonSettles ==
  ASSUME CallInv, NEW e \in BaresipEvents \cup UserEvents, Settles(e), Abandon(e),
         \A c \in Calls : e # Closed(c),
         \A c : e = ActionEvent("dial", c) => c \in Calls /\ Dialed(c)
  PROVE  CallsOK'
<1> DEFINE entry == failedDialHistory(e)
<1>1. /\ UNCHANGED <<state, talked>> /\ appendCallHistory(entry)
      /\ entry \in Entries \cup {NoEntry} /\ HistoryOK /\ HistoryIsTrue
  BY FailedDialType DEF Abandon, Settles, CallInv, CallsOK, SessionInv
<1>2. entry # NoEntry => \E c \in Calls :
        entry = Entry(c, "outgoing", "not_connected", FALSE) /\ Dialed(c)
  <2>1. entry # NoEntry => e.kind = "action" /\ e.type = "dial"
    BY DEF failedDialHistory
  <2>2. e.kind = "action" /\ e.type = "dial" => e = ActionEvent("dial", e.peer)
    BY DEF UserEvents, BaresipEvents, ActionEvent, CallEvent, RegisterEvent
  <2> QED
    BY <2>1, <2>2 DEF failedDialHistory
<1> HIDE DEF entry
<1>3. entry # NoEntry =>
        \E c \in Calls : entry.call = c /\ entry.direction = "outgoing" /\ Dialed(c) /\ ~ Recorded(c)
  BY <1>2 DEF Entry, CallInv, CallsOK, Places, OnePlace
<1>4. Recording(entry)
  BY <1>1, <1>3, AppendRecords
<1>5. Unmoved(state, state')
  BY <1>1 DEF Unmoved, SameCall, SameMemory
<1>6. state.callState # "idle" => Tracked \in Calls
  BY DEF CallInv, CallsOK, StateIsTrue, Shaped, Tracked, SessionInv, OthersOK, State, CallOrNone
<1> QED
  BY <1>3, <1>4, <1>5, <1>6, SettledUnmoved

\* A dial that cannot be sent is over, and recorded.
LEMMA DialFailsAtOnce ==
  ASSUME CallInv, NEW c \in Calls, calls[c] = "unused", running, pending = NoEvent, ~ up,
         Abandon(ActionEvent("dial", c)), calls' = [calls EXCEPT ![c] = "over"],
         UNCHANGED <<running, pending, reply, queue, wire, up, talked>>
  PROVE  CallsOK'
<1> DEFINE entry == Entry(c, "outgoing", "not_connected", FALSE)
<1> USE DEF CallInv, CallsOK
<1>1. /\ UNCHANGED state /\ appendCallHistory(entry) /\ HistoryOK
      /\ entry \in Entries /\ entry.call = c /\ entry.direction = "outgoing"
  BY EntryType DEF Abandon, failedDialHistory, ActionEvent, SessionInv, Entry, CallOrNone,
                   Directions, Outcomes
<1> HIDE DEF entry
<1>2. ~ Recorded(c) /\ ~ Coming(c) /\ ~ Mentioned(c) /\ ~ Ignored(c) /\ state.target # c
  BY DEF Places, OnePlace, QueueIsTrue
<1>3. Recording(entry)
  BY <1>1, <1>2, AppendRecords
<1>4. /\ calls'[c] = "over"
      /\ \A d \in Calls : d # c => calls'[d] = calls[d]
  BY DEF SessionInv, OthersOK
<1>5. /\ \A d \in Calls : Mentioned(d)' <=> Mentioned(d)
      /\ \A d \in Calls, type \in CallEventTypes : IsQueued(type, d)' <=> IsQueued(type, d)
      /\ QueueInOrder'
  BY DEF Mentioned, IsQueued, QueueInOrder
<1>6. \A d \in Calls : ~ Dialed(d) /\ ~ Dialed(d)' /\ pending # Incoming(d)
  BY EventsDiffer DEF Dialed
<1>7. \A d \in Calls : Coming(d)' <=> Coming(d)
  BY <1>5 DEF Coming, CallEventTypes
<1>8. QueueIsTrue'
  BY <1>2, <1>4, <1>5 DEF QueueIsTrue, CallEventTypes
<1>9. Places'
  <2> SUFFICES ASSUME NEW d \in Calls PROVE OnePlace(d)'
    BY DEF Places
  <2>1. OnePlace(d)
    BY DEF Places
  <2>2. Recorded(d)' => Recorded(d) \/ d = c
    BY <1>1, <1>3 DEF Recording
  <2>3. Ignored(d)' <=> Ignored(d)
    BY <1>1 DEF Ignored
  <2> QED
    BY <1>1, <1>2, <1>4, <1>5, <1>6, <1>7, <2>1, <2>2, <2>3 DEF OnePlace
<1>10. WireOK'
  BY <1>4 DEF WireOK
<1>11. FlightOK'
  BY <1>6 DEF FlightOK
<1>12. StateIsTrue'
  BY <1>1 DEF StateIsTrue, Shaped, TrackedCallIsReal
<1> QED
  BY <1>3, <1>5, <1>8, <1>9, <1>10, <1>11, <1>12 DEF Recording

\* The command of e is sent: e is pending, and baresip hears of a dialed attempt.
LEMMA IssueKeeps ==
  ASSUME CallInv, running, up, pending = NoEvent,
         NEW e, Takes(e), NEW command \in Commands,
         wire' = Append(wire, command), pending' = e, calls' = Requested(command),
         UNCHANGED <<running, state, history, disk, reply, up, talked>>,
         \/ command.kind # "dial" /\ \E c \in Calls : e = Incoming(c)
         \/ command.kind # "dial" /\ \E type \in ActionTypes \ {"dial"} : e = ActionEvent(type, NoCall)
         \/ \E c \in Calls :
              e = ActionEvent("dial", c) /\ command = Command("dial", c) /\ calls[c] = "unused"
  PROVE  CallsOK'
<1> USE DEF CallInv, CallsOK
<1>1. /\ \A c \in Calls : Mentioned(c)' => Mentioned(c)
      /\ \A c \in Calls, type \in CallEventTypes : IsQueued(type, c)' => IsQueued(type, c)
      /\ \A c \in Calls : IsQueued("CALL_CLOSED", c) => IsQueued("CALL_CLOSED", c)'
  <2>1. \A c \in Calls : e # Closed(c)
    <3>1. \A c \in Calls, d \in Calls : Incoming(d) # Closed(c)
      BY EventsDiffer
    <3>2. \A c \in Calls : \A type, target : ActionEvent(type, target) # Closed(c)
      BY DEF ActionEvent, Closed, CallEvent
    <3> QED
      BY <3>1, <3>2
  <2> QED
    BY <2>1 DEF Takes
<1>2. \A c \in Calls : Dialed(c)' => command = Command("dial", c) /\ calls[c] = "unused"
  <2>1. \A c \in Calls : \A type : ActionEvent("dial", c) # ActionEvent(type, NoCall)
    BY EventsDiffer
  <2>2. \A c \in Calls, d \in Calls :
          /\ ActionEvent("dial", c) # Incoming(d)
          /\ ActionEvent("dial", c) = ActionEvent("dial", d) => c = d
    BY EventsDiffer
  <2> QED
    BY <2>1, <2>2 DEF Dialed
<1>3. ASSUME NEW c \in Calls, command = Command("dial", c)
      PROVE  /\ calls[c] = "unused" /\ calls'[c] = "requested"
             /\ \A d \in Calls : d # c => calls'[d] = calls[d]
             /\ Dialed(c)'
  <2>1. command.kind = "dial" /\ command.call = c
    BY <1>3 DEF Command
  <2>2. calls[c] = "unused" /\ Dialed(c)'
    BY <2>1 DEF Command, Dialed
  <2> QED
    BY <2>1, <2>2 DEF Requested, SessionInv, OthersOK
<1>4. command.kind # "dial" => UNCHANGED calls
  BY DEF Requested
<1>5. command.kind = "dial" => \E c \in Calls : command = Command("dial", c)
  OBVIOUS
<1>6. /\ \A d \in Calls : Recorded(d)' <=> Recorded(d)
      /\ \A d \in Calls : Ignored(d)' <=> Ignored(d)
  BY DEF Recorded, EntriesOf, Ignored
<1>7. /\ \A d \in Calls : Coming(d)' => Coming(d)
      /\ \A d \in Calls : ~ (IsQueued("CALL_INCOMING", d)' /\ pending' = Incoming(d))
  BY <1>1 DEF Takes, Coming, CallEventTypes
<1>8. ASSUME NEW d \in Calls
      PROVE  \/ calls'[d] = calls[d] /\ ~ Dialed(d)'
             \/ calls[d] = "unused" /\ calls'[d] = "requested" /\ command = Command("dial", d)
  BY <1>2, <1>3, <1>4, <1>5
<1>9. \A d \in Calls : Exists(d) => Exists(d)'
  <2> SUFFICES ASSUME NEW d \in Calls, Exists(d) PROVE Exists(d)'
    OBVIOUS
  <2>1. calls[d] # "unused"
    <3>1. IsQueued("CALL_CLOSED", d) => Mentioned(d)
      BY QueuedIsMentioned
    <3> QED
      BY <3>1 DEF Exists, Live, QueueIsTrue
  <2> QED
    BY <1>1, <1>8, <2>1 DEF Exists
<1>10. QueueInOrder'
  BY DEF Takes
<1>11. QueueIsTrue'
  <2> SUFFICES ASSUME NEW d \in Calls
               PROVE  /\ Mentioned(d)' => calls'[d] \notin {"unused", "requested"} /\ (up' => Exists(d)')
                      /\ IsQueued("CALL_CLOSED", d)' => calls'[d] = "over"
                      /\ IsQueued("CALL_ESTABLISHED", d)' => d \in talked'
    BY DEF QueueIsTrue
  <2> QED
    BY <1>1, <1>8, <1>9 DEF QueueIsTrue, CallEventTypes
<1>12. Places'
  <2> SUFFICES ASSUME NEW d \in Calls PROVE OnePlace(d)'
    BY DEF Places
  <2>1. OnePlace(d)
    BY DEF Places
  <2> QED
    BY <1>1, <1>6, <1>7, <1>8, <1>9, <2>1 DEF OnePlace
<1>13. StateIsTrue'
  <2>1. state.callState # "idle" => Tracked \in Calls
    BY DEF StateIsTrue, Shaped, Tracked, SessionInv, OthersOK, State, CallOrNone
  <2>2. TrackedCallIsReal'
    BY <1>9, <2>1 DEF StateIsTrue, TrackedCallIsReal, Tracked, Exists
  <2> QED
    BY <2>2 DEF StateIsTrue, Shaped
<1>14. /\ wire'[Len(wire')] = command /\ wire' # <<>>
       /\ \A i \in 1 .. Len(wire') : \/ i \in 1 .. Len(wire) /\ wire'[i] = wire[i]
                                     \/ i = Len(wire') /\ wire'[i] = command
  <2>1. wire \in Seq(Commands)
    BY DEF SessionInv, OthersOK
  <2>2. /\ Len(wire) \in Nat /\ Len(wire') = Len(wire) + 1
        /\ wire'[Len(wire) + 1] = command
        /\ \A i \in 1 .. Len(wire) : wire'[i] = wire[i]
    BY <2>1
  <2>3. wire' # <<>>
    BY <2>1
  <2> QED
    BY <2>2, <2>3
<1>15. WireOK'
  <2>1. ASSUME NEW i \in 1 .. Len(wire), wire[i].kind = "dial"
        PROVE  wire[i].call \in Calls /\ calls[wire[i].call] = "requested"
    BY <2>1 DEF WireOK
  <2>2. ASSUME NEW i \in 1 .. Len(wire'), wire'[i].kind = "dial"
        PROVE  wire'[i].call \in Calls /\ calls'[wire'[i].call] = "requested"
    <3>1. CASE i \in 1 .. Len(wire) /\ wire'[i] = wire[i]
      BY <1>8, <2>1, <2>2, <3>1
    <3>2. CASE wire'[i] = command
      BY <1>3, <1>5, <2>2, <3>2 DEF Command
    <3> QED
      BY <1>14, <3>1, <3>2
  <2>3. command.kind = "dial" => calls[command.call] = "unused"
    BY <1>3, <1>5 DEF Command
  <2>4. ASSUME NEW i \in 1 .. Len(wire'), NEW j \in 1 .. Len(wire'),
               wire'[i].kind = "dial", wire'[j].kind = "dial", wire'[i].call = wire'[j].call
        PROVE  i = j
    <3>1. CASE i \in 1 .. Len(wire) /\ j \in 1 .. Len(wire) /\ wire'[i] = wire[i] /\ wire'[j] = wire[j]
      BY <2>4, <3>1 DEF WireOK
    <3>2. CASE i = Len(wire') /\ wire'[i] = command
      BY <1>14, <2>1, <2>3, <2>4, <3>2
    <3>3. CASE j = Len(wire') /\ wire'[j] = command
      BY <1>14, <2>1, <2>3, <2>4, <3>3
    <3> QED
      BY <1>14, <3>1, <3>2, <3>3
  <2> QED
    BY <2>2, <2>4 DEF WireOK
<1>16. FlightOK'
  <2>1. reply' = "none"
    BY DEF FlightOK, SessionInv, OthersOK
  <2>2. \A c \in Calls : Dialed(c)' => wire'[Len(wire')] = Command("dial", c)
    BY <1>2, <1>14
  <2> QED
    BY <1>14, <2>1, <2>2 DEF FlightOK
<1>17. HistoryIsTrue'
  BY HistorySame
<1> QED
  BY <1>10, <1>11, <1>12, <1>13, <1>15, <1>16, <1>17

-----------------------------------------------------------------------------
(* The run loop: its steps *)

\* applyDomainEvent, for a request of the user or an event of baresip.
LEMMA ApplyKeepsCalls ==
  ASSUME CallInv, running, pending = NoEvent, NEW e, Takes(e), applyDomainEvent(e),
         UNCHANGED <<running, up, talked>>,
         \/ e \in BaresipEvents
         \/ \E type \in ActionTypes, target \in CallOrNone :
              /\ e = ActionEvent(type, target) /\ UNCHANGED queue
              /\ IF type = "dial" THEN target \in Calls /\ calls[target] = "unused"
                                  ELSE target = NoCall
  PROVE  CallsOK'
<1> DEFINE t == Reduce(state, e)
<1>1. /\ state \in State /\ e \in BaresipEvents \cup UserEvents
      /\ t.command \in Commands \cup {NoCommand} /\ reply = "none"
  <2>1. state \in State /\ e \in BaresipEvents \cup UserEvents
    BY DEF CallInv, SessionInv, OthersOK, UserEvents
  <2> QED
    BY <2>1, EventReduces DEF TransitionOK, CallInv, CallsOK, FlightOK
<1>2. ASSUME NEW c \in Calls, e = Closed(c)
      PROVE  ~ t.err /\ t.command = NoCommand
  BY <1>1, <1>2, ClosedMoves DEF Closed
<1>3. ASSUME NEW c \in Calls, e = Incoming(c)
      PROVE  t.command.kind # "dial"
  BY <1>1, <1>3, IncomingMoves DEF Incoming
<1>4. ASSUME NEW c \in Calls, e = Established(c)
      PROVE  t.command = NoCommand
  BY <1>1, <1>4, EstablishedMoves DEF Established
<1>5. ASSUME NEW type \in RegisterEventTypes, e = RegisterEvent(type)
      PROVE  t.command = NoCommand
  BY <1>1, <1>5, RegisterMoves
<1>6. ASSUME NEW type \in ActionTypes, NEW target \in CallOrNone, e = ActionEvent(type, target)
      PROVE  \/ t.command.kind # "dial" /\ (type = "dial" => t.command = NoCommand)
             \/ type = "dial" /\ target \in Calls /\ t.command = Command("dial", target)
  BY <1>1, <1>6, ActionMoves
<1>7. Command("dial", NoCall).kind = "dial" /\ NoCommand.kind # "dial"
  BY DEF Command, NoCommand
<1>8. \A c \in Calls : NoCommand # Command("dial", c)
  BY DEF Command, NoCommand
<1> HIDE DEF t
<1>9. CASE t.err /\ UNCHANGED <<state, history, disk, pending, reply, wire, calls>>
  <2>1. \A c \in Calls : e # Closed(c)
    BY <1>2, <1>9
  <2>2. state.callState # "idle" => Tracked \in Calls
    BY DEF CallInv, CallsOK, StateIsTrue, Shaped, Tracked, SessionInv, OthersOK, State, CallOrNone
  <2> QED
    BY <1>1, <1>9, <2>1, <2>2, PassedOver DEF Settles
<1>10. CASE t.command = NoCommand /\ Commit(t) /\ UNCHANGED <<pending, reply, wire, calls>>
  BY <1>1, <1>8, <1>10, CommitSettles DEF Settles, t
<1>11. CASE /\ t.command # NoCommand /\ up
            /\ wire' = Append(wire, t.command) /\ pending' = e
            /\ calls' = Requested(t.command) /\ UNCHANGED <<state, history, disk, reply>>
  <2>1. \/ t.command.kind # "dial" /\ \E c \in Calls : e = Incoming(c)
        \/ t.command.kind # "dial" /\ \E type \in ActionTypes \ {"dial"} : e = ActionEvent(type, NoCall)
        \/ \E c \in Calls :
             e = ActionEvent("dial", c) /\ t.command = Command("dial", c) /\ calls[c] = "unused"
    <3>1. CASE e \in BaresipEvents
      BY <1>2, <1>3, <1>4, <1>5, <1>11, <3>1, EventKinds
    <3>2. ASSUME NEW type \in ActionTypes, NEW target \in CallOrNone,
                 e = ActionEvent(type, target), UNCHANGED queue,
                 IF type = "dial" THEN target \in Calls /\ calls[target] = "unused"
                                  ELSE target = NoCall
          PROVE  <2>1
      BY <1>6, <1>11, <3>2
    <3> QED
      BY <3>1, <3>2
  <2> QED
    BY <1>1, <1>11, <2>1, IssueKeeps
<1>12. CASE /\ t.command # NoCommand /\ ~ up /\ Abandon(e)
            /\ calls' = IF t.command.kind = "dial"
                        THEN [calls EXCEPT ![t.command.call] = "over"] ELSE calls
            /\ UNCHANGED <<pending, reply, wire>>
  <2>1. CASE e \in BaresipEvents
    <3>1. \A c \in Calls : e # Closed(c)
      BY <1>2, <1>12
    <3>2. t.command.kind # "dial"
      BY <1>2, <1>3, <1>4, <1>5, <1>12, <2>1, EventKinds
    <3>3. \A c : e # ActionEvent("dial", c)
      BY <2>1 DEF BaresipEvents, ActionEvent, CallEvent, RegisterEvent
    <3> QED
      BY <1>1, <1>12, <3>1, <3>2, <3>3, AbandonSettles DEF Settles
  <2>2. ASSUME NEW type \in ActionTypes, NEW target \in CallOrNone,
               e = ActionEvent(type, target), UNCHANGED queue,
               IF type = "dial" THEN target \in Calls /\ calls[target] = "unused"
                                ELSE target = NoCall
        PROVE  CallsOK'
    <3>1. CASE type = "dial"
      <4>1. t.command = Command("dial", target)
        BY <1>6, <1>12, <2>2, <3>1
      <4>2. calls' = [calls EXCEPT ![target] = "over"]
        BY <1>12, <4>1 DEF Command
      <4> QED
        BY <1>12, <2>2, <3>1, <4>2, DialFailsAtOnce
    <3>2. CASE type # "dial"
      <4>1. t.command.kind # "dial"
        BY <1>6, <2>2, <3>2
      <4>2. \A c : e # Closed(c) /\ e # ActionEvent("dial", c)
        BY <2>2, <3>2 DEF Closed, CallEvent, ActionEvent
      <4> QED
        BY <1>1, <1>12, <4>1, <4>2, AbandonSettles DEF Settles
    <3> QED
      BY <3>1, <3>2
  <2> QED
    BY <2>1, <2>2
<1> QED
  BY <1>9, <1>10, <1>11, <1>12 DEF applyDomainEvent, t

LEMMA TakesAction ==
  ASSUME CallInv, UNCHANGED queue, NEW type, NEW target
  PROVE  Takes(ActionEvent(type, target))
<1>1. \A c \in Calls : /\ ActionEvent(type, target) # Incoming(c)
                       /\ ActionEvent(type, target) # Established(c)
                       /\ ActionEvent(type, target) # Closed(c)
  BY DEF ActionEvent, Incoming, Established, Closed, CallEvent
<1>2. /\ \A c \in Calls : Mentioned(c)' <=> Mentioned(c)
      /\ \A other \in CallEventTypes, c \in Calls : IsQueued(other, c)' <=> IsQueued(other, c)
      /\ QueueInOrder'
  BY DEF Mentioned, IsQueued, CallInv, CallsOK, QueueInOrder
<1> QED
  BY <1>1, <1>2 DEF Takes, CallEventTypes

LEMMA PendingIs ==
  ASSUME CallInv, pending # NoEvent
  PROVE  /\ pending \in BaresipEvents \cup UserEvents
         /\ \A c \in Calls : pending # Closed(c)
         /\ \A c : pending = ActionEvent("dial", c) => c \in Calls /\ Dialed(c)
<1>1. pending \in BaresipEvents \cup UserEvents
  BY DEF CallInv, SessionInv, OthersOK
<1>2. ASSUME NEW d \in Calls, pending = Incoming(d)
      PROVE  (\A c \in Calls : pending # Closed(c)) /\ \A c : pending # ActionEvent("dial", c)
  BY <1>2, EventsDiffer
<1>3. ASSUME NEW d \in Calls, pending = ActionEvent("dial", d)
      PROVE  /\ \A c \in Calls : pending # Closed(c)
             /\ \A c : pending = ActionEvent("dial", c) => c = d
  BY <1>3 DEF ActionEvent, Closed, CallEvent
<1>4. ASSUME NEW type \in ActionTypes \ {"dial"}, pending = ActionEvent(type, NoCall)
      PROVE  (\A c \in Calls : pending # Closed(c)) /\ \A c : pending # ActionEvent("dial", c)
  BY <1>4 DEF ActionEvent, Closed, CallEvent
<1> QED
  BY <1>1, <1>2, <1>3, <1>4 DEF CallInv, CallsOK, FlightOK, Dialed

\* The event in flight is committed once it is answered, or abandoned.
LEMMA AnswerKeepsCalls ==
  ASSUME CallInv, running, pending # NoEvent, pending' = NoEvent, reply' = "none",
         UNCHANGED <<running, up, queue, wire, calls, talked>>,
         (reply = "ok" /\ Commit(Reduce(state, pending))) \/ Abandon(pending)
  PROVE  CallsOK'
<1>1. Settles(pending)
  BY TakesPending DEF Settles
<1>2. CASE reply = "ok" /\ Commit(Reduce(state, pending))
  <2>1. \A c \in Calls : Dialed(c) => (up => Exists(c))
    BY <1>2 DEF CallInv, CallsOK, FlightOK
  <2> QED
    BY <1>1, <1>2, <2>1, PendingIs, CommitSettles
<1>3. CASE Abandon(pending)
  BY <1>1, <1>3, PendingIs, AbandonSettles
<1> QED
  BY <1>2, <1>3

LEMMA SessionStepKeepsCalls ==
  ASSUME CallInv, SessionStep
  PROVE  CallInv'
<1>1. SessionInv'
  BY SessionStepKeeps DEF CallInv, SessionInv, HistoryKept
<1> SUFFICES CallsOK'
  BY <1>1 DEF CallInv
<1>2. ASSUME NEW type \in ActionTypes, NEW target \in CallOrNone, UserRequest(type, target)
      PROVE  CallsOK'
  <2>1. Takes(ActionEvent(type, target))
    BY <1>2, TakesAction DEF UserRequest
  <2> QED
    BY <1>2, <2>1, ApplyKeepsCalls DEF UserRequest, LoopReady
<1>3. CASE HandleBaresipEvent
  <2>1. Takes(Head(queue)) /\ Head(queue) \in BaresipEvents
    BY <1>3, TakesHead DEF HandleBaresipEvent
  <2> QED
    BY <1>3, <2>1, ApplyKeepsCalls DEF HandleBaresipEvent, LoopReady
<1>4. CASE FinishCommand
  BY <1>4, AnswerKeepsCalls DEF FinishCommand, baresipVars
<1>5. CASE CommandTimesOut
  BY <1>5, AnswerKeepsCalls DEF CommandTimesOut, Waiting, baresipVars
<1> QED
  BY <1>2, <1>3, <1>4, <1>5 DEF SessionStep

-----------------------------------------------------------------------------
(* The ends of a runtime, and its start *)

\* A state in which no call is tracked or remembered.
Blank(s) ==
  /\ s.callState = "idle" /\ s.callID = NoCall /\ s.target = NoCall /\ s.lastCallID = NoCall
  /\ \A c \in Calls : ~ callIDWasIgnored(s, c)

LEMMA FreshStateIsBlank ==
  ASSUME state \in State
  PROVE  /\ Blank(NewState) /\ Blank([NewState EXCEPT !.dnd = state.dnd])
         /\ \A info \in Infos : Blank(FreshState(info))
<1> DEFINE kept == [NewState EXCEPT !.dnd = state.dnd]
<1>1. Blank(NewState) /\ Blank(kept)
  BY NoCallAssumption DEF Blank, NewState, callIDWasIgnored
<1>2. kept \in State
  BY NewStateType DEF State
<1> HIDE DEF kept
<1>3. ASSUME NEW info \in Infos
      PROVE  Blank(Reduce(kept, RegistrationSnapshot(info)).state)
  <2>1. Reduce(kept, RegistrationSnapshot(info)) = reduceRegistrationSnapshot(kept, info)
    BY DEF Reduce, RegistrationSnapshot
  <2>2. \E registration \in Registrations :
          reduceRegistrationSnapshot(kept, info) \in {Result(kept), setRegistration(kept, registration)}
    BY SessionAssumption DEF reduceRegistrationSnapshot, RegistrationInfos, Registrations
  <2>3. PICK registration \in Registrations :
          Reduce(kept, RegistrationSnapshot(info)) \in {Result(kept), setRegistration(kept, registration)}
    BY <2>1, <2>2
  <2>4. Reduce(kept, RegistrationSnapshot(info)).state \in
          {kept, [kept EXCEPT !.registration = registration, !.registered = registration = "registered"]}
    BY <2>3 DEF Result, setRegistration
  <2>5. Blank([kept EXCEPT !.registration = registration, !.registered = registration = "registered"])
    BY <1>1, <1>2 DEF Blank, State, callIDWasIgnored
  <2> QED
    BY <1>1, <2>4, <2>5
<1> QED
  BY <1>1, <1>3 DEF FreshState, kept

\* Nothing is on its way and nothing is tracked: the history alone is left.
LEMMA BlankIsOK ==
  ASSUME CallInv,
         queue' = <<>>, wire' = <<>>, pending' = NoEvent, reply' = "none", up' => running',
         Blank(state'), HistoryIsTrue',
         \A c \in Calls : Recorded(c)' => calls'[c] # "unused"
  PROVE  CallsOK'
<1>1. \A c \in Calls : ~ Dialed(c)' /\ pending' # Incoming(c) /\ c # NoCall
  BY EventsDiffer, NoCallAssumption DEF Dialed
<1>2. /\ \A c \in Calls : ~ Mentioned(c)'
      /\ \A c \in Calls : \A type : ~ IsQueued(type, c)'
      /\ QueueInOrder'
  BY DEF Mentioned, IsQueued, QueueInOrder
<1>3. QueueIsTrue'
  BY <1>2 DEF QueueIsTrue
<1>4. Places'
  BY <1>1, <1>2 DEF Places, OnePlace, Coming, Ignored, Blank
<1>5. FlightOK'
  BY <1>1 DEF FlightOK
<1>6. WireOK'
  BY DEF WireOK
<1>7. StateIsTrue'
  BY DEF StateIsTrue, Shaped, TrackedCallIsReal, Blank
<1> QED
  BY <1>2, <1>3, <1>4, <1>5, <1>6, <1>7 DEF CallsOK

LEMMA RecordedWasUsed ==
  ASSUME CallInv
  PROVE  /\ \A c \in Calls : Recorded(c) => calls[c] # "unused" /\ AllOver[c] # "unused"
         /\ \A c \in Calls : calls[c] # "unused" => AllOver[c] = "over"
         /\ \A c \in Calls : calls[c] = "unused" => AllOver[c] = "unused"
  BY DEF CallInv, CallsOK, Places, OnePlace, AllOver

\* The entry the end of a runtime puts into the history.
LEMMA FinalEntry ==
  ASSUME CallInv, state.callState # "idle",
         NEW endRequested \in BOOLEAN, FinalizedOnce(endRequested)
  PROVE  \E entry \in Entries :
           /\ entry.call = state.target /\ entry.direction = state.direction
           /\ entry.outcome \in
                IF state.callState = "active" THEN {"connected"}
                ELSE IF endRequested THEN {"rejected", "canceled"}
                ELSE {"rejected", "canceled", "missed", "not_connected"}
           /\ history' = mergeCallHistory(history, entry)
           /\ disk' = history' \/ disk' = disk
<1> USE DEF CallInv, CallsOK
<1> DEFINE ended == [state EXCEPT !.endRequested = @ \/ endRequested]
           t == Reduce(ended, CallEvent("CALL_CLOSED", state.callID, NoCall))
<1>1. /\ ended \in State /\ state.callID \in CallOrNone
      /\ ended.callState = state.callState /\ ended.callID = state.callID
      /\ ended.direction = state.direction /\ ended.target = state.target
      /\ ended.ignored = state.ignored
      /\ endRequested => ended.endRequested
  BY DEF SessionInv, OthersOK, State
<1> HIDE DEF ended
<1>2. ~ callIDWasIgnored(ended, state.callID)
  <2>1. CASE state.callID = NoCall
    BY <2>1 DEF callIDWasIgnored
  <2>2. CASE state.callID \in Calls
    <3>1. ~ Ignored(state.callID)
      BY <2>2 DEF Places, OnePlace
    <3> QED
      BY <1>1, <3>1 DEF Ignored, callIDWasIgnored
  <2> QED
    BY <1>1, <2>1, <2>2 DEF CallOrNone
<1>3. eventMatchesCurrentCall(ended, state.callID)
  BY <1>1 DEF eventMatchesCurrentCall
<1>4. t.entry = Entry(ended.target, ended.direction, closedOutcome(ended), ended.started)
  BY <1>1, <1>2, <1>3, ClosedClears
<1>5. t.entry \in Entries
  BY <1>1, <1>4, EntryType, ClosedOutcomeType DEF State
<1>6. /\ t.entry.call = state.target /\ t.entry.direction = state.direction
      /\ t.entry.outcome = closedOutcome(ended)
  BY <1>1, <1>4 DEF Entry
<1>7. closedOutcome(ended) \in
        IF state.callState = "active" THEN {"connected"}
        ELSE IF endRequested THEN {"rejected", "canceled"}
        ELSE {"rejected", "canceled", "missed", "not_connected"}
  BY <1>1 DEF closedOutcome, State, CallStates
<1>8. history' = mergeCallHistory(history, t.entry) /\ (disk' = history' \/ disk' = disk)
  BY DEF FinalizedOnce, WriteCallHistory, ended
<1> HIDE DEF t
<1> QED
  BY <1>5, <1>6, <1>7, <1>8

\* The tracked call is recorded, if there is one.
LEMMA FinalizeRecords ==
  ASSUME CallInv, running, UNCHANGED talked,
         NEW endRequested \in BOOLEAN, FinalizedOnce(endRequested)
  PROVE  /\ HistoryIsTrue'
         /\ \A c \in Calls : Recorded(c)' => Recorded(c) \/ state.target = c
<1> USE DEF CallInv, CallsOK
<1>1. CASE state.callState = "idle"
  <2>1. Recording(NoEntry)
    BY <1>1, NothingRecorded DEF FinalizedOnce
  <2> QED
    BY <2>1 DEF Recording
<1>2. CASE state.callState # "idle"
  <2>1. PICK entry \in Entries :
          /\ entry.call = state.target /\ entry.direction = state.direction
          /\ entry.outcome = "connected" => state.callState = "active"
          /\ history' = mergeCallHistory(history, entry) /\ (disk' = history' \/ disk' = disk)
    BY <1>2, FinalEntry
  <2>2. state.target \in Calls /\ ~ Recorded(state.target)
    BY <1>2 DEF StateIsTrue, Shaped, Places, OnePlace
  <2>3. state.direction = "incoming" /\ entry.outcome = "connected" => state.target \in talked
    BY <2>1 DEF StateIsTrue
  <2>4. Recording(entry)
    BY <2>1, <2>2, <2>3, MergedRecords DEF SessionInv
  <2> QED
    BY <2>1, <2>4 DEF Recording
<1> QED
  BY <1>1, <1>2

LEMMA EndRuntimeKeepsCalls ==
  ASSUME CallInv, LoopReady, NEW endRequested \in BOOLEAN, EndRuntime(endRequested)
  PROVE  CallsOK'
<1>0. EndedOnce(endRequested)
  BY EndRuntimeOnce DEF CallInv, SessionInv, OthersOK
<1>1. /\ HistoryIsTrue'
      /\ \A c \in Calls : Recorded(c)' => Recorded(c) \/ state.target = c
  BY <1>0, FinalizeRecords DEF EndedOnce, DropBaresip, LoopReady
<1>2. \A c \in Calls : Recorded(c)' => calls'[c] # "unused"
  <2>1. \A c \in Calls : Recorded(c)' => calls[c] # "unused"
    BY <1>1 DEF CallInv, CallsOK, Places, OnePlace
  <2> QED
    BY <1>0, <2>1, RecordedWasUsed DEF EndedOnce, DropBaresip
<1>3. Blank(state')
  BY <1>0, FreshStateIsBlank DEF EndedOnce, CallInv, SessionInv, OthersOK
<1>4. pending' = NoEvent /\ reply' = "none"
  BY <1>0 DEF EndedOnce, LoopReady, CallInv, CallsOK, FlightOK
<1> QED
  BY <1>0, <1>1, <1>2, <1>3, <1>4, BlankIsOK DEF EndedOnce, DropBaresip

\* The child goes, and the runtime lives on for the moment.
LEMMA ExitKeepsCalls ==
  ASSUME CallInv, BaresipExits
  PROVE  CallsOK'
<1> USE DEF CallInv, CallsOK
<1>1. /\ up /\ up' = FALSE /\ calls' = AllOver /\ wire' = <<>>
      /\ UNCHANGED <<running, state, history, disk, pending, queue, talked>>
      /\ reply' = IF Waiting THEN "refused" ELSE reply
  BY DEF BaresipExits, snapshotVars
<1>2. /\ \A c \in Calls : Mentioned(c)' <=> Mentioned(c)
      /\ \A c \in Calls : \A type : IsQueued(type, c)' <=> IsQueued(type, c)
      /\ QueueInOrder'
  BY <1>1 DEF Mentioned, IsQueued, QueueInOrder
<1>3. \A c \in Calls : /\ Dialed(c)' <=> Dialed(c)
                       /\ Recorded(c)' <=> Recorded(c)
                       /\ Ignored(c)' <=> Ignored(c)
                       /\ Coming(c)' <=> Coming(c)
  BY <1>1, <1>2 DEF Dialed, Recorded, EntriesOf, Ignored, Coming
<1>4. \A c \in Calls : /\ calls[c] # "unused" => calls'[c] = "over"
                       /\ calls[c] = "unused" => calls'[c] = "unused"
  BY <1>1, RecordedWasUsed
<1>5. QueueIsTrue'
  BY <1>1, <1>2, <1>4 DEF QueueIsTrue
<1>6. Places'
  <2> SUFFICES ASSUME NEW c \in Calls PROVE OnePlace(c)'
    BY DEF Places
  <2>1. OnePlace(c)
    BY DEF Places
  <2> QED
    BY <1>1, <1>2, <1>3, <1>4, <2>1 DEF OnePlace
<1>7. FlightOK'
  <2>1. running
    BY <1>1 DEF FlightOK
  <2>2. pending # NoEvent => reply' # "none"
    BY <1>1, <2>1 DEF Waiting
  <2>3. \A c \in Calls : Dialed(c) => pending # NoEvent
    BY EventsDiffer DEF Dialed
  <2>4. reply' # "none" => pending # NoEvent
    BY <1>1 DEF Waiting, FlightOK
  <2> QED
    BY <1>1, <1>3, <2>1, <2>2, <2>3, <2>4 DEF FlightOK
<1>8. WireOK'
  BY <1>1 DEF WireOK
<1>9. HistoryIsTrue'
  BY <1>1, HistorySame
<1>10. StateIsTrue'
  BY <1>1 DEF StateIsTrue, Shaped, TrackedCallIsReal
<1> QED
  BY <1>2, <1>5, <1>6, <1>7, <1>8, <1>9, <1>10

LEMMA LifecycleStepKeepsCalls ==
  ASSUME CallInv, LifecycleStep
  PROVE  CallInv'
<1>1. SessionInv'
  BY LifecycleStepKeeps DEF CallInv, SessionInv, HistoryKept
<1> SUFFICES CallsOK'
  BY <1>1 DEF CallInv
<1>2. state \in State
  BY DEF CallInv, SessionInv, OthersOK
<1>3. CASE Start
  <2>1. Blank(state')
    BY <1>2, <1>3, FreshStateIsBlank DEF Start
  <2>2. HistoryIsTrue' /\ \A c \in Calls : Recorded(c)' => Recorded(c)
    BY <1>3 DEF Start, CallInv, CallsOK, HistoryIsTrue, AtMostOneEntry, AnsweredEntries,
                Recorded, EntriesOf
  <2>3. /\ queue' = <<>> /\ wire' = <<>> /\ pending' = NoEvent /\ reply' = "none"
        /\ running' /\ calls' = calls
    BY <1>3 DEF Start, CallInv, CallsOK, FlightOK
  <2> QED
    BY <2>1, <2>2, <2>3, BlankIsOK, RecordedWasUsed
<1>4. CASE Stop \/ LoseBaresip \/ RestartFails
  BY <1>4, EndRuntimeKeepsCalls DEF Stop, LoseBaresip, RestartFails
<1>5. CASE BaresipExits
  BY <1>5, ExitKeepsCalls
<1>6. CASE RestartForAccount
  <2>1. Blank(state')
    BY <1>2, <1>6, FreshStateIsBlank DEF RestartForAccount
  <2>2. Recording(NoEntry)
    BY <1>6, NothingRecorded DEF RestartForAccount, CallInv, CallsOK
  <2>3. /\ queue' = <<>> /\ wire' = <<>> /\ pending' = NoEvent /\ reply' = "none"
        /\ running' /\ calls' = AllOver
    BY <1>6 DEF RestartForAccount, LoopReady, CallInv, CallsOK, FlightOK
  <2> QED
    BY <2>1, <2>2, <2>3, BlankIsOK, RecordedWasUsed DEF Recording
<1>7. CASE Crash
  <2>1. Blank(state')
    BY <1>2, <1>7, FreshStateIsBlank DEF Crash
  <2>2. HistoryIsTrue' /\ \A c \in Calls : Recorded(c)' => Recorded(c)
    BY <1>7 DEF Crash, DropBaresip, CallInv, CallsOK, HistoryIsTrue, AtMostOneEntry,
                AnsweredEntries, Recorded, EntriesOf
  <2>3. /\ queue' = <<>> /\ wire' = <<>> /\ pending' = NoEvent /\ reply' = "none"
        /\ ~ up' /\ calls' = AllOver
    BY <1>7 DEF Crash, DropBaresip
  <2> QED
    BY <2>1, <2>2, <2>3, BlankIsOK, RecordedWasUsed
<1> QED
  BY <1>3, <1>4, <1>5, <1>6, <1>7 DEF LifecycleStep

\* The attempts of the file a session starts from are over.
LEMMA SavedAreOver ==
  ASSUME Init
  PROVE  /\ history = <<>> /\ disk = Saved /\ queue = <<>>
         /\ \A c \in Calls : Recorded(c) => calls[c] = "over"
         /\ \A c \in Calls : calls[c] = "unused" \/ (calls[c] = "over" /\ Recorded(c))
         /\ HistoryIsTrue
<1>1. history = <<>> /\ disk = Saved /\ queue = <<>>
  BY DEF Init
<1>2. \A c : EntriesOf(c, history) = {}
  BY <1>1 DEF EntriesOf
<1>3. \A c \in Calls : Recorded(c) <=> EntriesOf(c, Saved) # {}
  BY <1>1, <1>2 DEF Recorded
<1>4. \A c \in Calls : calls[c] = IF EntriesOf(c, Saved) = {} THEN "unused" ELSE "over"
  BY DEF Init
<1>5. DOMAIN Saved = 1 .. Len(Saved)
  BY SessionAssumption
<1>6. AtMostOneEntry
  BY <1>1, <1>2, <1>5, SessionAssumption DEF AtMostOneEntry, EntriesOf
<1>7. AnsweredEntries(history) /\ AnsweredEntries(disk)
  BY <1>1, <1>5 DEF Init, AnsweredEntries
<1> QED
  BY <1>1, <1>3, <1>4, <1>6, <1>7 DEF HistoryIsTrue

LEMMA CallInvInit == Init => CallInv
<1> SUFFICES ASSUME Init PROVE CallInv
  OBVIOUS
<1>1. SessionInv
  BY SessionInvInit
<1>2. Blank(NewState)
  BY FreshStateIsBlank, NewStateType DEF Init
<1>3. \A c \in Calls : /\ ~ Dialed(c) /\ pending # Incoming(c)
                       /\ (Recorded(c) => calls[c] = "over")
  BY EventsDiffer, SavedAreOver DEF Init, Dialed
<1>4. QueueInOrder /\ QueueIsTrue /\ WireOK /\ FlightOK
  BY <1>3 DEF Init, QueueInOrder, QueueIsTrue, Mentioned, IsQueued, WireOK, FlightOK
<1>5. Places
  <2>1. state = NewState /\ queue = <<>>
    BY DEF Init
  <2>2. \A c \in Calls : ~ Coming(c) /\ ~ IsQueued("CALL_INCOMING", c)
    <3>1. \A c \in Calls : ~ IsQueued("CALL_INCOMING", c)
      BY <2>1 DEF IsQueued
    <3> QED
      BY <1>3, <3>1 DEF Coming
  <2>3. \A c \in Calls : /\ ~ Ignored(c) /\ state.target # c /\ state.callID # c
                         /\ state.lastCallID # c
    BY <1>2, <2>1, NoCallAssumption DEF Ignored, Blank
  <2> QED
    BY <1>3, <2>2, <2>3 DEF Places, OnePlace
<1>6. HistoryIsTrue
  BY SavedAreOver
<1>7. StateIsTrue
  BY <1>2 DEF Init, StateIsTrue, Shaped, TrackedCallIsReal, Blank
<1> QED
  BY <1>1, <1>4, <1>5, <1>6, <1>7 DEF CallInv, CallsOK

LEMMA CallInvSame ==
  ASSUME CallInv, UNCHANGED vars
  PROVE  CallInv'
<1>1. SessionInv'
  BY SessionInvStep DEF CallInv
<1>2. CallsKept
  <2>1. UNCHANGED <<snapshotVars, pending, up, calls, talked, queue>>
    BY DEF vars, snapshotVars
  <2> QED
    BY <2>1, SilentMoves DEF BaresipKept
<1>3. WireOK' /\ FlightOK'
  BY <1>2 DEF vars, CallInv, CallsOK, WireOK, FlightOK, CallsKept, Dialed
<1> QED
  BY <1>1, <1>2, <1>3 DEF CallInv, CallsOK, CallsKept

LEMMA CallInvStep == CallInv /\ [Next]_vars => CallInv'
  BY SessionStepKeepsCalls, BaresipStepKeepsCalls, LifecycleStepKeepsCalls, CallInvSame DEF Next

-----------------------------------------------------------------------------
(* Theorems *)

\* The places of every attempt, the order of its events and what is recorded
\* of it agree throughout, whatever fails.
THEOREM CallInvariant == Spec => []CallInv
  BY CallInvInit, CallInvStep, PTL DEF Spec

\* The session never shows a call for ever that no event can end: baresip has
\* it, or its CLOSED is on its way (applyDomainEvent, reduceClosed).
THEOREM TrackedCallStaysReal == Spec => []TrackedCallIsReal
<1>1. CallInv => TrackedCallIsReal
  BY DEF CallInv, CallsOK, StateIsTrue
<1> QED
  BY <1>1, CallInvariant, PTL

\* No attempt gets a second entry, in the snapshot or in the file, whichever of
\* reducer, failed dial and shutdown records it (appendCallHistory).
THEOREM OneEntryPerAttempt == Spec => []AtMostOneEntry
<1>1. CallInv => AtMostOneEntry
  BY DEF CallInv, CallsOK, HistoryIsTrue
<1> QED
  BY <1>1, CallInvariant, PTL

\* An incoming call the history calls connected was answered in baresip
\* (closedOutcome on a state only CALL_ESTABLISHED makes active).
THEOREM ConnectedMeansAnswered == Spec => []ConnectedIncomingWasAnswered
<1>1. CallInv => ConnectedIncomingWasAnswered
  BY DEF CallInv, CallsOK, HistoryIsTrue, AnsweredEntries, ConnectedIncomingWasAnswered
<1> QED
  BY <1>1, CallInvariant, PTL

\* A runtime that ends with a call leaves that call as the newest entry, with
\* an outcome that fits (finalizeActiveCall, cleanupRuntime, finishRuntime).
THEOREM ShutdownRecords == Spec => ShutdownRecordsTrackedCall
<1>1. ASSUME CallInv, Stop \/ LoseBaresip, state.callState # "idle", state.target \notin Oversized
      PROVE  /\ history' # <<>>
             /\ history'[1].call = state.target
             /\ history'[1].direction = state.direction
             /\ history'[1].outcome \in
                  IF state.callState = "active" THEN {"connected"}
                  ELSE IF up THEN {"rejected", "canceled"}
                  ELSE {"rejected", "canceled", "missed", "not_connected"}
  <2>1. PICK endRequested \in BOOLEAN : FinalizedOnce(endRequested) /\ (up => endRequested)
    BY <1>1, EndRuntimeOnce DEF Stop, LoseBaresip, EndedOnce, CallInv, SessionInv, OthersOK
  <2>2. PICK entry \in Entries :
          /\ entry.call = state.target /\ entry.direction = state.direction
          /\ entry.outcome \in
               IF state.callState = "active" THEN {"connected"}
               ELSE IF up THEN {"rejected", "canceled"}
               ELSE {"rejected", "canceled", "missed", "not_connected"}
          /\ history' = mergeCallHistory(history, entry)
    BY <1>1, <2>1, FinalEntry
  <2>3. entry # NoEntry
    BY DEF Entries, Outcomes, NoEntry, Entry
  <2>4. history' # <<>> /\ history'[1] = entry
    <3>1. history' \in Seq(Entries) /\ Len(history') # 0 /\ history'[1] = entry
      BY <1>1, <2>2, <2>3, MergeIs, SessionAssumption DEF CallInv, SessionInv, HistoryOK
    <3> QED
      BY <3>1
  <2> QED
    BY <2>2, <2>4
<1>2. CallInv /\ [Next]_vars
        => [(Stop \/ LoseBaresip) /\ state.callState # "idle" /\ state.target \notin Oversized
              => /\ history' # <<>>
                 /\ history'[1].call = state.target
                 /\ history'[1].direction = state.direction
                 /\ history'[1].outcome \in
                      IF state.callState = "active" THEN {"connected"}
                      ELSE IF up THEN {"rejected", "canceled"}
                      ELSE {"rejected", "canceled", "missed", "not_connected"}]_vars
  BY <1>1
<1> QED
  BY <1>2, CallInvariant, PTL DEF Spec, ShutdownRecordsTrackedCall

-----------------------------------------------------------------------------
(* Turning a caller away *)

\* Where no command is given up, the one on the wire is that of the pending event.
SentIsAwaited ==
  /\ wire # <<>> => pending # NoEvent /\ reply = "none" /\ Len(wire) = 1
  /\ wire # <<>> /\ Head(wire).kind = "hangup" /\ Head(wire).call # NoCall
       => Head(wire).call \in Calls /\ pending = Incoming(Head(wire).call)

LEMMA SentIsAwaitedStep ==
  ASSUME "timeout" \notin Faults, CallInv, SentIsAwaited, [Next]_vars
  PROVE  SentIsAwaited'
<1> USE DEF CallInv, CallsOK
<1>1. CASE wire' = <<>>
  BY <1>1 DEF SentIsAwaited
<1>2. CASE UNCHANGED flightVars
  BY <1>2 DEF SentIsAwaited, flightVars
<1>3. ASSUME NEW e \in BaresipEvents \cup UserEvents, LoopReady, applyDomainEvent(e)
      PROVE  SentIsAwaited'
  <2> DEFINE t == Reduce(state, e)
  <2>1. wire = <<>> /\ reply = "none" /\ state \in State
    BY <1>3 DEF LoopReady, SentIsAwaited, FlightOK, SessionInv, OthersOK
  <2>2. t.command \in Commands \cup {NoCommand}
    BY <2>1, EventReduces DEF TransitionOK
  <2>3. t.command.kind = "hangup" /\ t.command.call # NoCall
          => t.command.call \in Calls /\ e = Incoming(t.command.call)
    <3>1. ASSUME NEW c \in Calls, e = Incoming(c)
          PROVE  t.command \in {NoCommand, Command("hangup", c), Command("hangup", NoCall)}
      BY <2>1, <3>1, IncomingCommands DEF Incoming
    <3>2. ASSUME NEW c \in Calls, e \in {Established(c), Closed(c)}
          PROVE  t.command = NoCommand
      BY <2>1, <3>2, EstablishedMoves, ClosedMoves DEF Established, Closed
    <3>3. ASSUME NEW type \in RegisterEventTypes, e = RegisterEvent(type)
          PROVE  t.command = NoCommand
      BY <2>1, <3>3, RegisterMoves
    <3>4. ASSUME NEW type \in ActionTypes, NEW target \in CallOrNone, e = ActionEvent(type, target)
          PROVE  t.command.kind = "dial" \/ t.command.call = NoCall
      BY <2>1, <3>4, ActionCommands
    <3>5. ASSUME t.command = NoCommand
          PROVE  t.command.kind # "hangup"
      BY <3>5 DEF NoCommand
    <3>6. \A c : Command("hangup", c).call = c
      BY DEF Command
    <3> HIDE DEF t
    <3> QED
      BY <3>1, <3>2, <3>3, <3>4, <3>5, <3>6, EventKinds DEF UserEvents
  <2> HIDE DEF t
  <2>4. CASE /\ wire' = Append(wire, t.command) /\ pending' = e /\ reply' = reply
             /\ t.command # NoCommand
    <3>1. wire' = <<t.command>> /\ Head(wire') = t.command /\ Len(wire') = 1
      BY <2>1, <2>2, <2>4
    <3>2. pending' # NoEvent
      BY <2>4 DEF NoEvent, BaresipEvents, UserEvents, CallEvent, RegisterEvent, ActionEvent
    <3> QED
      BY <2>1, <2>3, <2>4, <3>1, <3>2 DEF SentIsAwaited
  <2>5. CASE wire' = wire
    BY <2>1, <2>5 DEF SentIsAwaited
  <2> QED
    BY <1>3, <2>4, <2>5 DEF applyDomainEvent, t
<1>4. CASE SessionStep
  <2>1. ASSUME NEW type \in ActionTypes, NEW target \in CallOrNone, UserRequest(type, target)
        PROVE  SentIsAwaited'
    BY <1>3, <2>1 DEF UserRequest, UserEvents
  <2>2. CASE HandleBaresipEvent
    BY <1>3, <2>2, TakesHead DEF HandleBaresipEvent
  <2>3. CASE FinishCommand
    <3>1. wire' = <<>>
      BY <2>3 DEF FinishCommand, SentIsAwaited
    <3> QED
      BY <1>1, <3>1
  <2>4. CASE CommandTimesOut
    BY <2>4 DEF CommandTimesOut
  <2> QED
    BY <1>4, <2>1, <2>2, <2>3, <2>4 DEF SessionStep
<1>5. CASE BaresipStep
  <2>1. CASE BaresipExecutes
    <3>1. wire \in Seq(Commands) /\ wire # <<>> /\ Len(wire) = 1 /\ wire' = Tail(wire)
      BY <2>1 DEF BaresipExecutes, SentIsAwaited, SessionInv, OthersOK
    <3> QED
      BY <1>1, <3>1
  <2> QED
    BY <1>2, <1>5, <2>1 DEF BaresipStep, PeerCalls, PeerAnswers, PeerEnds, RegistrarReports
<1>6. CASE LifecycleStep
  BY <1>1, <1>2, <1>6 DEF LifecycleStep, Start, Stop, BaresipExits, LoseBaresip, RestartForAccount,
                          RestartFails, Crash, EndRuntime, DropBaresip, flightVars
<1> QED
  BY <1>2, <1>4, <1>5, <1>6 DEF Next, vars, flightVars

\* Turning a second caller away never ends the call the session shows, as long
\* as baresip answers in time: a rejection baresip runs after the session has
\* given it up may meet a call tracked since (rejectBusy, CommandTimeout).
THEOREM RejectionSparesOthers ==
  ASSUME "timeout" \notin Faults
  PROVE  Spec => RejectionSparesTrackedCall
<1>1. Init => SentIsAwaited
  BY DEF Init, SentIsAwaited
<1>2. CallInv /\ SentIsAwaited /\ [Next]_vars => SentIsAwaited'
  BY SentIsAwaitedStep
<1>3. ASSUME CallInv, SentIsAwaited, BaresipExecutes,
             Head(wire).kind = "hangup", Head(wire).call # NoCall,
             state.callState # "idle", calls[Tracked] \in Live
      PROVE  calls'[Tracked] \in Live
  <2>1. PICK c \in Calls : c = Head(wire).call /\ pending = Incoming(c)
    BY <1>3 DEF BaresipExecutes, SentIsAwaited
  <2>2. Tracked # c
    BY <1>3, <2>1 DEF CallInv, CallsOK, Places, OnePlace, Coming, Tracked
  <2>3. \/ UNCHANGED calls
        \/ calls' = [calls EXCEPT ![c] = "over"]
    BY <1>3, <2>1 DEF BaresipExecutes, Perform, Addressed, Hangup, NothingToDo
  <2>4. calls \in [Calls -> CallStatuses] /\ Tracked \in Calls
    BY <1>3 DEF CallInv, CallsOK, StateIsTrue, Shaped, Tracked, SessionInv, OthersOK, State, CallOrNone
  <2> QED
    BY <1>3, <2>2, <2>3, <2>4
<1>4. CallInv /\ SentIsAwaited /\ [Next]_vars
        => [BaresipExecutes /\ Head(wire).kind = "hangup" /\ Head(wire).call # NoCall
              /\ state.callState # "idle" /\ calls[Tracked] \in Live
              => calls'[Tracked] \in Live]_vars
  BY <1>3
<1> QED
  BY <1>1, <1>2, <1>4, CallInvariant, PTL DEF Spec, RejectionSparesTrackedCall

-----------------------------------------------------------------------------
(* What the session shows agrees with what baresip does *)

\* The caller of a first CALL_INCOMING is shown, or remembered and hung up on:
\* by name, or without one while no call is tracked.
LEMMA IncomingHandled ==
  ASSUME NEW s \in State, NEW c \in Calls,
         ~ callIDWasIgnored(s, c), s.callID # c,
         s.lastCallID # c \/ Reduce(s, Incoming(c)).command # NoCommand
  PROVE  LET t == Reduce(s, Incoming(c)) IN
         /\ ~ t.err
         /\ \/ Begins(s, t.state, "incoming", c, c) /\ t.command = NoCommand /\ t.entry = NoEntry
            \/ /\ TurnsAway(s, t.state, c) /\ callIDWasIgnored(t.state, c)
               /\ t.entry.call = c /\ t.command # NoCommand
               /\ \/ t.command = Command("hangup", c)
                  \/ s.callState = "idle" /\ t.command = Command("hangup", NoCall)
<1> DEFINE t == Reduce(s, Incoming(c))
           ringing == beginCall(s, "incoming", "incoming", c, c)
<1>1. c # NoCall
  BY NoCallAssumption
<1>2. t = reduceIncoming(s, c, c)
  BY DEF Reduce, Incoming, CallEvent, reduceCall
<1>3. CASE t = rejectForDND(s, c, c) \/ t = rejectBusy(s, c, c)
  <2>1. /\ t.state = rememberIgnoredCall(s, c) /\ t.entry.call = c /\ ~ t.err
        /\ \/ t.command = Command("hangup", c)
           \/ s.callState = "idle" /\ t.command = Command("hangup", NoCall)
    <3>1. CASE t = rejectForDND(s, c, c)
      BY <3>1 DEF rejectForDND, Result, immediateIncomingHistory, Entry
    <3>2. CASE t = rejectBusy(s, c, c)
      BY <1>1, <3>2 DEF rejectBusy, Result, immediateIncomingHistory, Entry
    <3> QED
      BY <1>3, <3>1, <3>2
  <2>2. t.command # NoCommand
    BY <2>1 DEF Command, NoCommand
  <2>3. callIDWasIgnored(rememberIgnoredCall(s, c), c)
    <3>1. s.nextIgnored \in Nat /\ s.nextIgnored % IgnoredSlots \in 0 .. IgnoredSlots - 1
      BY RingAssumption DEF State
    <3>2. rememberIgnoredCall(s, c).ignored = [s.ignored EXCEPT ![s.nextIgnored % IgnoredSlots] = c]
      BY <1>1 DEF rememberIgnoredCall, State
    <3>3. s.nextIgnored % IgnoredSlots \in DOMAIN s.ignored
      BY <3>1 DEF State
    <3> QED
      BY <1>1, <3>2, <3>3 DEF callIDWasIgnored
  <2> QED
    BY <2>1, <2>2, <2>3, RememberMoves
<1>4. CASE t = [Result(ringing) EXCEPT !.notification = "incoming_call"] /\ s.callState = "idle"
  <2>1. t.state = ringing /\ t.entry = NoEntry /\ t.command = NoCommand /\ ~ t.err
    BY <1>4 DEF Result
  <2>2. Begins(s, ringing, "incoming", c, c)
    BY <1>4 DEF beginCall, State, Begins, SameMemory
  <2> QED
    BY <2>1, <2>2
<1>5. CASE t = Result(s) /\ s.lastCallID = c
  BY <1>5 DEF Result
<1>6. \/ t = Result(s) /\ s.lastCallID = c
      \/ t = rejectForDND(s, c, c) \/ t = rejectBusy(s, c, c)
      \/ t = [Result(ringing) EXCEPT !.notification = "incoming_call"] /\ s.callState = "idle"
  BY <1>2 DEF reduceIncoming
<1> QED
  BY <1>3, <1>4, <1>5, <1>6
\* A command that is not a dial acts on a call the session shows, and mute is
\* the command of toggle_mute.
LEMMA ActionSends ==
  ASSUME NEW s \in State, NEW type \in ActionTypes \ {"dial"},
         Reduce(s, ActionEvent(type, NoCall)).command # NoCommand
  PROVE  LET t == Reduce(s, ActionEvent(type, NoCall)) IN
         /\ t.command.call = NoCall /\ t.command.kind \in {"accept", "hangup", "reject", "mute"}
         /\ s.callState # "idle"
         /\ t.command.kind = "mute" <=> type = "toggle_mute"
         /\ type = "toggle_mute" => s.callState = "active"
<1> DEFINE t == reduceAction(s, type, NoCall)
<1>1. Reduce(s, ActionEvent(type, NoCall)) = t
  BY DEF Reduce, ActionEvent
<1>2. CASE type = "answer"
  BY <1>1, <1>2 DEF reduceAction, Result, Command
<1>3. CASE type = "hangup"
  BY <1>1, <1>3 DEF reduceAction, Result, Command
<1>4. CASE type = "toggle_mute"
  BY <1>1, <1>4 DEF reduceAction, Result, Command
<1>5. CASE type = "toggle_dnd"
  BY <1>1, <1>5 DEF reduceAction, Result, Command
<1> QED
  BY <1>2, <1>3, <1>4, <1>5 DEF ActionTypes

\* The mute state of an active call changes with toggle_mute and with nothing
\* else, and a call becomes active unmuted.
LEMMA MuteMoves ==
  ASSUME NEW s \in State, NEW e \in BaresipEvents \cup UserEvents,
         Reduce(s, e).state.callState = "active"
  PROVE  LET u == Reduce(s, e).state IN
         IF s.callState # "active" THEN u.muted = FALSE
         ELSE IF e.kind = "action" /\ e.type = "toggle_mute"
              THEN u.muted = ~ s.muted ELSE u.muted = s.muted
<1> DEFINE t == Reduce(s, e)
<1>1. ASSUME NEW type \in ActionTypes, NEW target, e = ActionEvent(type, target)
      PROVE  IF s.callState # "active" THEN t.state.muted = FALSE
             ELSE IF type = "toggle_mute" THEN t.state.muted = ~ s.muted
                  ELSE t.state.muted = s.muted
  <2>1. t = reduceAction(s, type, target)
    BY <1>1 DEF Reduce, ActionEvent
  <2>2. CASE type = "dial"
    <3>1. \/ t = Failed(s)
          \/ t = [Result(beginCall(s, "outgoing", "outgoing", NoCall, target))
                    EXCEPT !.command = Command("dial", target)]
      BY <2>1, <2>2, Zenon DEF reduceAction
    <3>2. \/ t.state = s
          \/ t.state = beginCall(s, "outgoing", "outgoing", NoCall, target)
      BY <3>1 DEF Failed, Result
    <3> QED
      BY <2>2, <3>2 DEF beginCall, State
  <2>3. CASE type # "dial"
    BY <2>1, <2>3 DEF reduceAction, Result, State
  <2> QED
    BY <2>2, <2>3
<1>2. ASSUME NEW type \in CallEventTypes, NEW c, e = CallEvent(type, c, c)
      PROVE  IF s.callState # "active" THEN t.state.muted = FALSE ELSE t.state.muted = s.muted
  <2>1. t = reduceCall(s, type, c, c)
    BY <1>2 DEF Reduce, CallEvent
  <2>2. \/ t = Result(s) \/ t = reduceIncoming(s, c, c)
        \/ t = reduceEstablished(s, c) \/ t = reduceClosed(s, c)
    BY <2>1 DEF reduceCall, CallEventTypes
  <2>3. CASE t = Result(s)
    BY <2>3 DEF Result
  <2>4. CASE t = reduceIncoming(s, c, c)
    <3>1. t.state \in {s, rememberIgnoredCall(s, c), beginCall(s, "incoming", "incoming", c, c)}
      <4>1. CASE t = Result(s)
        BY <4>1 DEF Result
      <4>2. CASE t = rejectForDND(s, c, c)
        BY <4>2 DEF rejectForDND, Result
      <4>3. CASE t = rejectBusy(s, c, c)
        BY <4>3 DEF rejectBusy, Result
      <4>4. CASE t = [Result(beginCall(s, "incoming", "incoming", c, c))
                        EXCEPT !.notification = "incoming_call"]
        BY <4>4 DEF Result
      <4> QED
        BY <2>4, <4>1, <4>2, <4>3, <4>4 DEF reduceIncoming
    <3> QED
      BY <3>1 DEF rememberIgnoredCall, beginCall, State
  <2>5. CASE t = reduceEstablished(s, c)
    <3> DEFINE talking == [s EXCEPT !.callID = IF @ = NoCall THEN c ELSE @,
                                    !.callState = "active", !.muted = FALSE, !.started = TRUE]
    <3>1. \/ t.state = s
          \/ t.state = talking /\ s.callState \in {"incoming", "outgoing"}
      BY <2>5 DEF reduceEstablished, Result
    <3>2. talking.muted = FALSE
      BY DEF State
    <3> QED
      BY <3>1, <3>2
  <2>6. CASE t = reduceClosed(s, c)
    <3>1. t.state = s \/ t.state.callState = "idle"
      BY <2>6 DEF reduceClosed, Result, State
    <3> QED
      BY <3>1
  <2> QED
    BY <2>2, <2>3, <2>4, <2>5, <2>6
<1>3. ASSUME NEW type \in RegisterEventTypes, e = RegisterEvent(type)
      PROVE  t.state.callState = s.callState /\ t.state.muted = s.muted
  <2>1. t = reduceRegister(s, type)
    BY <1>3 DEF Reduce, RegisterEvent
  <2>2. PICK registration : t = setRegistration(s, registration)
    BY <2>1 DEF reduceRegister, RegisterEventTypes
  <2>3. t.state = [s EXCEPT !.registration = registration, !.registered = registration = "registered"]
    BY <2>2 DEF setRegistration, Result
  <2> QED
    BY <2>3 DEF State
<1> HIDE DEF t
<1>5. ASSUME NEW type, NEW target, e = ActionEvent(type, target)
      PROVE  e.kind = "action" /\ e.type = type
  BY <1>5 DEF ActionEvent
<1>6. ASSUME NEW type, NEW c, e = CallEvent(type, c, c) \/ e = RegisterEvent(type)
      PROVE  e.kind # "action"
  BY <1>6 DEF CallEvent, RegisterEvent
<1>7. \/ \E type \in ActionTypes : \E target : e = ActionEvent(type, target)
      \/ \E type \in CallEventTypes : \E c : e = CallEvent(type, c, c)
      \/ \E type \in RegisterEventTypes : e = RegisterEvent(type)
  BY DEF UserEvents, BaresipEvents
<1>8. t.state.callState = "active"
  BY DEF t
<1> SUFFICES IF s.callState # "active" THEN t.state.muted = FALSE
             ELSE IF e.kind = "action" /\ e.type = "toggle_mute"
                  THEN t.state.muted = ~ s.muted ELSE t.state.muted = s.muted
  BY DEF t
<1> QED
  BY <1>1, <1>2, <1>3, <1>5, <1>6, <1>7, <1>8

\* No peer gives up before the session has dealt with its call, baresip does
\* not take a call the session has not heard of for its current one, and no
\* command is given up.
Punctual == Impatient = {} /\ Overtaking = {} /\ "timeout" \notin Faults

\* The ring of ignored calls keeps those whose events are still to come.
KeepsIgnored == \A c \in Calls : Ignored(c) /\ ~ Ignored(c)' => ~ Mentioned(c)'
RingKeepsIgnored == [][KeepsIgnored]_vars

\* The session has done with the call.
Gone(c) ==
  calls[c] = "over" /\ ~ Coming(c) /\ ~ Mentioned(c) /\ ~ Dialed(c) /\ state.target # c

\* baresip has toggled the mute state, the session has not yet.
Muting == pending = ActionEvent("toggle_mute", NoCall) /\ reply = "ok"

\* The session knows of every call baresip has or still reports on, and what
\* it turned away or could not dial is over.
Known(c) ==
  /\ calls[c] \in Live \/ Mentioned(c) => Coming(c) \/ Dialed(c) \/ state.target = c \/ Ignored(c)
  /\ Ignored(c) => calls[c] = "over" /\ ~ Coming(c)
  /\ IsQueued("CALL_INCOMING", c) =>
       /\ ~ IsQueued("CALL_ESTABLISHED", c) /\ ~ IsQueued("CALL_CLOSED", c)
       /\ up => calls[c] = "ringing"
  /\ pending = Incoming(c) =>
       /\ reply = "none" => calls[c] = "ringing" /\ ~ Mentioned(c)
       /\ reply # "none" => calls[c] = "over"
       /\ reply = "refused" => ~ up /\ ~ Mentioned(c)
  /\ Dialed(c) /\ reply = "refused" => calls[c] = "over" /\ ~ Mentioned(c)

KnownCalls == \A c \in Calls : Known(c)

\* The command on the wire is the one the pending event asks for.
SentIsAsked ==
  /\ pending = NoEvent => wire = <<>>
  /\ pending # NoEvent =>
       LET command == Reduce(state, pending).command IN
       /\ command # NoCommand
       /\ reply = "none" => up /\ wire = <<command>>
       /\ reply # "none" => wire = <<>>

OverEntries(entries) ==
  \A i \in DOMAIN entries : entries[i].call \in Calls /\ calls[entries[i].call] = "over"

QuietKnown ==
  \A c \in quiet : Gone(c) \/ (state.callState = "active" /\ state.target = c)

MuteFollows ==
  state.callState = "active" => ((state.target \in quiet) <=> (state.muted # Muting))

AgreeInv ==
  /\ KnownCalls /\ SentIsAsked
  /\ state.callID \in {NoCall, state.target}
  /\ up \/ \A c \in Calls : calls[c] \in {"unused", "over"}
  /\ OverEntries(history) /\ OverEntries(disk)
  /\ QuietKnown /\ MuteFollows

\* The events of a call that was turned away are passed over.
LEMMA IgnoredPassed ==
  ASSUME NEW s, NEW type \in CallEventTypes, NEW c, callIDWasIgnored(s, c)
  PROVE  Reduce(s, CallEvent(type, c, c)) = Result(s)
<1>1. Reduce(s, CallEvent(type, c, c)) = reduceCall(s, type, c, c)
  BY DEF Reduce, CallEvent
<1> QED
  BY <1>1 DEF reduceCall, CallEventTypes

LEMMA MentionedIsQueued ==
  ASSUME NEW q \in Seq(BaresipEvents), NEW c \in Calls, NEW i \in 1 .. Len(q), q[i].id = c
  PROVE  \E type \in CallEventTypes : q[i] = CallEvent(type, c, c)
<1>1. q[i] \in BaresipEvents
  OBVIOUS
<1>2. q[i] \in {Incoming(c), Established(c), Closed(c)}
  BY <1>1, EventAbout
<1> QED
  BY <1>2 DEF Incoming, Established, Closed, CallEventTypes

\* A merged history holds the old entries and the new one.
LEMMA MergedOver ==
  ASSUME HistoryOK, OverEntries(history), OverEntries(disk),
         NEW entry \in Entries \cup {NoEntry}, history' = mergeCallHistory(history, entry),
         disk' = history' \/ disk' = disk,
         \A c \in Calls : calls[c] = "over" => calls'[c] = "over",
         entry # NoEntry => entry.call \in Calls /\ calls'[entry.call] = "over"
  PROVE  OverEntries(history)' /\ OverEntries(disk)'
<1>1. OverEntries(history)'
  <2>1. CASE entry = NoEntry \/ entry.call \in Oversized
    BY <2>1 DEF mergeCallHistory, OverEntries
  <2>2. CASE entry # NoEntry /\ entry.call \notin Oversized
    <3>1. /\ history' \in Seq(Entries) /\ history'[1] = entry
          /\ Len(history') = IF Len(history) < MaxHistory THEN Len(history) + 1 ELSE MaxHistory
          /\ \A i \in 2 .. Len(history') : history'[i] = history[i - 1]
      BY <2>2, MergeIs DEF HistoryOK
    <3>2. ASSUME NEW i \in DOMAIN history', i # 1
          PROVE  i - 1 \in DOMAIN history /\ history'[i] = history[i - 1]
      <4>1. MaxHistory \in Nat \ {0} /\ Len(history) \in Nat /\ DOMAIN history = 1 .. Len(history)
        BY SessionAssumption DEF HistoryOK
      <4>2. i \in 2 .. Len(history')
        BY <3>1, <3>2
      <4> QED
        BY <3>1, <4>1, <4>2
    <3> QED
      BY <2>2, <3>1, <3>2 DEF OverEntries
  <2> QED
    BY <2>1, <2>2
<1> QED
  BY <1>1 DEF OverEntries

LEMMA AppendedOver ==
  ASSUME HistoryOK, OverEntries(history), OverEntries(disk),
         NEW entry \in Entries \cup {NoEntry}, appendCallHistory(entry),
         \A c \in Calls : calls[c] = "over" => calls'[c] = "over",
         entry # NoEntry => entry.call \in Calls /\ calls'[entry.call] = "over"
  PROVE  OverEntries(history)' /\ OverEntries(disk)'
<1>1. history' = mergeCallHistory(history, entry) /\ (disk' = history' \/ disk' = disk)
  BY DEF appendCallHistory, WriteCallHistory
<1> QED
  BY <1>1, MergedOver

\* Only the event e leaves the queue or ceases to be pending.
Leaves(e) ==
  \A c \in Calls :
    /\ Coming(c) => Coming(c)' \/ e = Incoming(c)
    /\ Dialed(c) => e = ActionEvent("dial", c)

\* What settling the event e has to bring about.
Tracks(e) ==
  \A c \in Calls :
    /\ state.target = c => state'.target = c \/ (calls[c] = "over" /\ ~ Mentioned(c)')
    /\ state'.target = c => state.target = c \/ Coming(c) \/ Dialed(c)
    /\ Ignored(c)' => Ignored(c) \/ (e = Incoming(c) /\ calls[c] = "over")
    /\ e \in {Incoming(c), ActionEvent("dial", c)} =>
         state'.target = c \/ Ignored(c)' \/ (calls[c] \notin Live /\ ~ Mentioned(c)')

Mutes ==
  /\ state.callState = "active" /\ state'.target = state.target => state'.callState = "active"
  /\ state'.callState = "active" =>
       /\ state'.target = state.target
       /\ IF state.callState = "active" THEN state'.muted = (state.muted # Muting)
                                        ELSE state'.muted = FALSE

\* A step that settles an event keeps AgreeInv when it tracks the call and its
\* mute state.
LEMMA SettledAgrees ==
  ASSUME CallInv, AgreeInv, NEW e, Settles(e), Leaves(e), KeepsIgnored, UNCHANGED quiet, wire = <<>>,
         OverEntries(history)', OverEntries(disk)', state'.callID \in {NoCall, state'.target},
         Tracks(e), Mutes, state' \in State
  PROVE  AgreeInv'
<1> USE DEF CallInv, CallsOK
<1>1. /\ pending' = NoEvent /\ wire' = <<>> /\ UNCHANGED <<up, calls, quiet>>
      /\ \A c \in Calls : /\ ~ Dialed(c)' /\ pending' # Incoming(c)
                          /\ Coming(c)' => Coming(c) /\ e # Incoming(c)
                          /\ Mentioned(c)' => Mentioned(c)
                          /\ \A type \in CallEventTypes : IsQueued(type, c)' => IsQueued(type, c)
  BY SettledQueue DEF Settles, Takes
<1>2. ASSUME NEW c \in Calls
      PROVE  Known(c)'
  <2>1. Known(c)
    BY DEF AgreeInv, KnownCalls
  <2>2. ASSUME calls[c] \in Live \/ Mentioned(c)'
        PROVE  Coming(c)' \/ state'.target = c \/ Ignored(c)'
    <3>1. Coming(c) \/ Dialed(c) \/ state.target = c \/ Ignored(c)
      BY <1>1, <2>1, <2>2 DEF Known
    <3>2. CASE e \in {Incoming(c), ActionEvent("dial", c)}
      BY <2>2, <3>2 DEF Tracks
    <3>3. CASE Coming(c) /\ e # Incoming(c)
      BY <3>3 DEF Leaves
    <3>4. CASE state.target = c
      BY <2>2, <3>4 DEF Tracks, Live
    <3>5. CASE Ignored(c)
      <4>1. calls[c] = "over"
        BY <2>1, <3>5 DEF Known
      <4> QED
        BY <2>2, <3>5, <4>1 DEF KeepsIgnored, Live
    <3> QED
      BY <3>1, <3>2, <3>3, <3>4, <3>5 DEF Leaves
  <2>3. Ignored(c)' => calls[c] = "over" /\ ~ Coming(c)'
    BY <1>1, <2>1 DEF Tracks, Known
  <2>4. IsQueued("CALL_INCOMING", c)' =>
          /\ ~ IsQueued("CALL_ESTABLISHED", c)' /\ ~ IsQueued("CALL_CLOSED", c)'
          /\ up => calls[c] = "ringing"
    BY <1>1, <2>1 DEF Known, CallEventTypes
  <2> QED
    BY <1>1, <2>2, <2>3, <2>4 DEF Known
<1>3. SentIsAsked'
  BY <1>1 DEF SentIsAsked
<1>4. ASSUME NEW c \in quiet
      PROVE  Gone(c)' \/ (state'.callState = "active" /\ state'.target = c)
  <2>1. c \in Calls
    BY DEF SessionInv, OthersOK
  <2>2. CASE Gone(c)
    BY <1>1, <2>1, <2>2 DEF Gone, Tracks
  <2>3. CASE state.callState = "active" /\ state.target = c
    <3>1. CASE state'.target = c
      BY <2>3, <3>1 DEF Mutes
    <3>2. CASE state'.target # c
      <4>1. ~ Coming(c)
        BY <2>1, <2>3 DEF Places, OnePlace
      <4>2. calls[c] = "over" /\ ~ Mentioned(c)'
        BY <2>1, <2>3, <3>2 DEF Tracks
      <4> QED
        BY <1>1, <2>1, <3>2, <4>1, <4>2 DEF Gone
    <3> QED
      BY <3>1, <3>2
  <2> QED
    BY <2>2, <2>3 DEF AgreeInv, QuietKnown
<1>5. MuteFollows'
  <2> SUFFICES ASSUME state'.callState = "active"
               PROVE  (state'.target \in quiet) <=> state'.muted
    <3>1. Muting' = FALSE
      BY <1>1 DEF Muting, ActionEvent, NoEvent
    <3>2. state'.muted \in BOOLEAN
      BY DEF State
    <3> QED
      BY <1>1, <3>1, <3>2 DEF MuteFollows
  <2>1. CASE state.callState = "active"
    BY <2>1 DEF Mutes, AgreeInv, MuteFollows
  <2>2. CASE state.callState # "active"
    <3>1. state'.target \notin quiet
      BY <2>2 DEF Mutes, AgreeInv, QuietKnown, Gone
    <3> QED
      BY <2>2, <3>1 DEF Mutes
  <2> QED
    BY <2>1, <2>2
<1>6. QuietKnown'
  BY <1>1, <1>4 DEF QuietKnown
<1> QED
  BY <1>1, <1>2, <1>3, <1>5, <1>6 DEF AgreeInv, KnownCalls

\* The entry is about a call that is over, and accounts for every call the
\* session ceases to show and every caller or dial it does not begin to show.
Accounts(e, entry) ==
  /\ entry # NoEntry => entry.call \in Calls /\ calls[entry.call] = "over"
  /\ \A c \in Calls :
       state'.target # c /\ (state.target = c \/ e \in {Incoming(c), ActionEvent("dial", c)})
         => (entry # NoEntry /\ entry.call = c) \/ calls[c] = "unused"

\* The event is one the session may commit: a command it asks for was executed.
Committable(e) ==
  /\ pending \in {NoEvent, e}
  /\ state.callState = "active" => (Muting <=> (e.kind = "action" /\ e.type = "toggle_mute"))
  /\ \A c \in Calls :
       /\ e = Incoming(c) /\ Reduce(state, e).command # NoCommand => calls[c] = "over"
       /\ e = ActionEvent("dial", c) =>
            \/ Dialed(c) /\ Reduce(state, e).command # NoCommand
            \/ calls[c] = "unused" /\ Reduce(state, e).command = NoCommand

\* The transition of an event does so, and accounts for the call it drops.
LEMMA CommitTracks ==
  ASSUME CallInv, AgreeInv, NEW e \in BaresipEvents \cup UserEvents, Settles(e), Committable(e),
         state' = Reduce(state, e).state
  PROVE  /\ Tracks(e) /\ Mutes /\ state'.callID \in {NoCall, state'.target}
         /\ Accounts(e, Reduce(state, e).entry)
<1> DEFINE t == Reduce(state, e)
<1> USE DEF CallInv, CallsOK
<1>1. /\ state \in State /\ state' = t.state /\ Shaped(state) /\ Takes(e)
      /\ state.callID \in {NoCall, state.target}
      /\ state.target \in CallOrNone
  BY DEF SessionInv, OthersOK, StateIsTrue, AgreeInv, Settles, State
<1>2. t.state.callState = "active" =>
        IF state.callState # "active" THEN t.state.muted = FALSE
        ELSE t.state.muted = (state.muted # Muting)
  <2>1. state.muted \in BOOLEAN /\ Muting \in BOOLEAN
    BY <1>1 DEF State, Muting
  <2> QED
    BY <1>1, <2>1, MuteMoves DEF Committable
<1> HIDE DEF t
<1>3. ASSUME SameCall(state, t.state), t.entry = NoEntry, \A c \in Calls : Ignored(c)' => Ignored(c),
             \A c \in Calls : e # Incoming(c) /\ (e = ActionEvent("dial", c) => calls[c] = "unused")
      PROVE  /\ Tracks(e) /\ Mutes /\ state'.callID \in {NoCall, state'.target}
             /\ Accounts(e, t.entry)
  <2>1. ASSUME NEW c \in Calls, calls[c] = "unused"
        PROVE  calls[c] \notin Live /\ ~ Mentioned(c)'
    BY <1>1, <2>1 DEF Live, Takes, QueueIsTrue
  <2> QED
    BY <1>1, <1>2, <1>3, <2>1 DEF SameCall, Tracks, Mutes, Accounts
<1>4. /\ \A c \in Calls : Ignored(c)' <=> callIDWasIgnored(t.state, c)
      /\ Unmoved(state, t.state)
           => SameCall(state, t.state) /\ \A c \in Calls : Ignored(c)' => Ignored(c)
  BY <1>1 DEF Ignored, Unmoved, SameMemory, callIDWasIgnored
<1>5. ASSUME NEW c \in Calls, Mentioned(c), pending = NoEvent, ~ IsQueued("CALL_INCOMING", c)
      PROVE  Ignored(c) \/ state.target = c
  <2>1. ~ Coming(c) /\ ~ Dialed(c)
    BY <1>5, EventsDiffer DEF Coming, Dialed
  <2> QED
    BY <1>5, <2>1 DEF AgreeInv, KnownCalls, Known
<1>6. ASSUME NEW c \in Calls, e = Incoming(c)
      PROVE  /\ Tracks(e) /\ Mutes /\ state'.callID \in {NoCall, state'.target}
             /\ Accounts(e, t.entry)
  <2>1. Coming(c)
    BY <1>1, <1>6 DEF Takes
  <2>2. ~ Ignored(c) /\ state.callID # c /\ state.target # c
    BY <2>1 DEF Places, OnePlace, AgreeInv, KnownCalls, Known
  <2>3. state.lastCallID # c \/ t.command # NoCommand
    <3>1. CASE pending = NoEvent
      BY <2>1, <3>1, QueuedIsMentioned, EventsDiffer DEF Coming, Places, OnePlace
    <3>2. CASE pending = e /\ pending # NoEvent
      BY <3>2 DEF t, AgreeInv, SentIsAsked
    <3> QED
      BY <3>1, <3>2 DEF Committable
  <2>4. \/ Begins(state, t.state, "incoming", c, c) /\ t.entry = NoEntry
        \/ /\ TurnsAway(state, t.state, c) /\ callIDWasIgnored(t.state, c)
           /\ t.entry.call = c /\ t.command # NoCommand
    BY <1>1, <1>6, <2>2, <2>3, IncomingHandled DEF t, Ignored
  <2>5. \A d \in Calls : (e = Incoming(d) => d = c) /\ e # ActionEvent("dial", d)
    BY <1>6, EventsDiffer
  <2>6. CASE Begins(state, t.state, "incoming", c, c) /\ t.entry = NoEntry
    <3>1. /\ state.target = NoCall /\ state.callState = "idle"
          /\ t.state.target = c /\ t.state.callID = c /\ t.state.callState = "incoming"
      BY <1>1, <2>6 DEF Begins, Shaped
    <3>2. \A d \in Calls : Ignored(d)' => Ignored(d)
      BY <1>4, <2>6 DEF Begins, SameMemory, Ignored, callIDWasIgnored
    <3> QED
      <4>1. Tracks(e)
        BY <1>1, <2>1, <2>5, <3>1, <3>2, NoCallAssumption DEF Tracks
      <4>2. Mutes /\ Accounts(e, t.entry)
        BY <1>1, <2>5, <2>6, <3>1, NoCallAssumption DEF Mutes, Accounts
      <4> QED
        BY <1>1, <3>1, <4>1, <4>2
  <2>7. CASE /\ TurnsAway(state, t.state, c) /\ callIDWasIgnored(t.state, c)
             /\ t.entry.call = c /\ t.command # NoCommand
    <3>1. calls[c] = "over"
      BY <1>6, <2>7 DEF Committable, t
    <3>2. SameCall(state, t.state) /\ t.entry # NoEntry /\ Ignored(c)'
      BY <1>4, <2>7, NoCallAssumption DEF TurnsAway, NoEntry, Entry
    <3>3. \A d \in Calls : Ignored(d)' => Ignored(d) \/ d = c
      BY <1>4, <2>7 DEF TurnsAway, Ignored
    <3> QED
      BY <1>1, <1>2, <1>6, <2>5, <2>7, <3>1, <3>2, <3>3 DEF SameCall, Tracks, Mutes, Accounts
  <2> QED
    BY <2>4, <2>6, <2>7
<1>7. ASSUME NEW c \in Calls, e = Established(c) \/ e = Closed(c)
      PROVE  /\ pending = NoEvent /\ Mentioned(c) /\ ~ IsQueued("CALL_INCOMING", c)
             /\ \A d \in Calls : e # Incoming(d) /\ e # ActionEvent("dial", d)
  <2>1. \A d \in Calls : e # Incoming(d) /\ e # ActionEvent("dial", d)
    <3>1. ASSUME NEW d \in Calls
          PROVE  e # Incoming(d)
      BY <1>7, EventsDiffer
    <3>2. ASSUME NEW d \in Calls
          PROVE  e # ActionEvent("dial", d)
      BY <1>7 DEF Established, Closed, CallEvent, ActionEvent
    <3> QED
      BY <3>1, <3>2
  <2>2. pending = NoEvent
    <3>1. e # NoEvent /\ \A type : e # ActionEvent(type, NoCall)
      BY <1>7 DEF Established, Closed, CallEvent, ActionEvent, NoEvent
    <3> QED
      BY <2>1, <3>1 DEF Committable, FlightOK
  <2>3. IsQueued("CALL_ESTABLISHED", c) \/ IsQueued("CALL_CLOSED", c)
    BY <1>1, <1>7 DEF Takes
  <2> QED
    BY <2>1, <2>2, <2>3, QueuedIsMentioned DEF AgreeInv, KnownCalls, Known
<1>8. ASSUME NEW c \in Calls, e = Established(c)
      PROVE  /\ Tracks(e) /\ Mutes /\ state'.callID \in {NoCall, state'.target}
             /\ Accounts(e, t.entry)
  <2>1. /\ t.entry = NoEntry
        /\ \/ Unmoved(state, t.state)
           \/ Answers(state, t.state, c) /\ ~ Ignored(c)
    BY <1>1, <1>8, EstablishedMoves DEF t, Established, Ignored
  <2>2. CASE Answers(state, t.state, c) /\ ~ Ignored(c)
    <3>1. state.target = c
      BY <1>5, <1>7, <1>8, <2>2
    <3>2. /\ t.state.target = state.target /\ t.state.callID = c /\ t.state.callState = "active"
          /\ state.callState # "active"
      BY <2>2 DEF Answers
    <3>3. \A d \in Calls : Ignored(d)' => Ignored(d)
      BY <1>4, <2>2 DEF Answers, SameMemory, Ignored, callIDWasIgnored
    <3> QED
      BY <1>1, <1>2, <1>7, <1>8, <2>1, <3>1, <3>2, <3>3 DEF Tracks, Mutes, Accounts
  <2> QED
    BY <1>3, <1>4, <1>7, <1>8, <2>1, <2>2
<1>9. ASSUME NEW c \in Calls, e = Closed(c)
      PROVE  /\ Tracks(e) /\ Mutes /\ state'.callID \in {NoCall, state'.target}
             /\ Accounts(e, t.entry)
  <2>1. \/ Unmoved(state, t.state) /\ t.entry = NoEntry
        \/ /\ Clears(state, t.state, c) /\ ~ Ignored(c)
           /\ t.entry = Entry(state.target, state.direction, closedOutcome(state), state.started)
    <3>1. CASE Ignored(c)
      BY <1>1, <1>9, <3>1, IgnoredPassed
         DEF t, Closed, Ignored, CallEventTypes, Result, Unmoved, SameCall, SameMemory
    <3> QED
      BY <1>1, <1>9, <3>1, ClosedMoves DEF t, Closed
  <2>2. CASE /\ Clears(state, t.state, c) /\ ~ Ignored(c)
             /\ t.entry = Entry(state.target, state.direction, closedOutcome(state), state.started)
    <3>1. state.target = c
      BY <1>5, <1>7, <1>9, <2>2
    <3>2. t.state.target = NoCall /\ t.state.callID = NoCall /\ t.state.callState = "idle"
      BY <2>2 DEF Clears
    <3>3. \A d \in Calls : Ignored(d)' => Ignored(d)
      BY <1>4, <2>2 DEF Clears, Ignored, callIDWasIgnored
    <3>4. t.entry # NoEntry /\ t.entry.call = c
      BY <2>2, <3>1, NoCallAssumption DEF NoEntry, Entry
    <3>5. calls[c] = "over" /\ ~ Mentioned(c)'
      BY <1>1, <1>9 DEF Takes, QueueIsTrue
    <3> QED
      BY <1>1, <1>7, <1>9, <3>1, <3>2, <3>3, <3>4, <3>5, NoCallAssumption
         DEF Tracks, Mutes, Accounts
  <2> QED
    BY <1>3, <1>4, <1>7, <1>9, <2>1, <2>2
<1>10. ASSUME NEW type \in RegisterEventTypes, e = RegisterEvent(type)
       PROVE  /\ Tracks(e) /\ Mutes /\ state'.callID \in {NoCall, state'.target}
              /\ Accounts(e, t.entry)
  <2>1. Unmoved(state, t.state) /\ t.entry = NoEntry
    BY <1>1, <1>10, RegisterMoves DEF t
  <2>2. \A d \in Calls : e # Incoming(d) /\ (e = ActionEvent("dial", d) => calls[d] = "unused")
    BY <1>10 DEF RegisterEvent, Incoming, CallEvent, ActionEvent
  <2> QED
    <3>1. SameCall(state, t.state) /\ \A d \in Calls : Ignored(d)' => Ignored(d)
      BY <1>4, <2>1
    <3> QED
      BY <1>3, <2>1, <2>2, <3>1
<1>11. ASSUME NEW type \in ActionTypes, NEW target \in CallOrNone, e = ActionEvent(type, target)
       PROVE  /\ Tracks(e) /\ Mutes /\ state'.callID \in {NoCall, state'.target}
              /\ Accounts(e, t.entry)
  <2>1. /\ t.entry = NoEntry
        /\ \/ /\ Unmoved(state, t.state)
              /\ type = "dial" => t.command = NoCommand
           \/ /\ type = "dial" /\ target \in Calls
              /\ Begins(state, t.state, "outgoing", NoCall, target)
              /\ t.command = Command("dial", target)
    BY <1>1, <1>11, ActionMoves DEF t
  <2>2. \A d \in Calls : e # Incoming(d) /\ (e = ActionEvent("dial", d) => type = "dial" /\ d = target)
    BY <1>11 DEF Incoming, CallEvent, ActionEvent
  <2>3. CASE Unmoved(state, t.state) /\ (type = "dial" => t.command = NoCommand)
    <3>1. \A d \in Calls : e = ActionEvent("dial", d) => calls[d] = "unused"
      BY <2>2, <2>3 DEF Committable, t
    <3>2. SameCall(state, t.state) /\ \A d \in Calls : Ignored(d)' => Ignored(d)
      BY <1>4, <2>3
    <3>3. \A d \in Calls : e # Incoming(d) /\ (e = ActionEvent("dial", d) => calls[d] = "unused")
      BY <2>2, <3>1
    <3> QED
      BY <1>3, <2>1, <3>2, <3>3
  <2>4. CASE /\ type = "dial" /\ target \in Calls
             /\ Begins(state, t.state, "outgoing", NoCall, target)
             /\ t.command = Command("dial", target)
    <3>1. Dialed(target)
      BY <1>11, <2>4 DEF Committable, t, Command, NoCommand
    <3>2. /\ state.target = NoCall /\ state.callState = "idle"
          /\ t.state.target = target /\ t.state.callID = NoCall /\ t.state.callState = "outgoing"
      BY <1>1, <2>4 DEF Begins, Shaped
    <3>3. \A d \in Calls : Ignored(d)' => Ignored(d)
      BY <1>4, <2>4 DEF Begins, SameMemory, Ignored, callIDWasIgnored
    <3> QED
      BY <1>1, <2>1, <2>2, <3>1, <3>2, <3>3, NoCallAssumption DEF Tracks, Mutes, Accounts
  <2> QED
    BY <2>1, <2>3, <2>4
<1> QED
  BY <1>6, <1>8, <1>9, <1>10, <1>11, EventKinds DEF t, UserEvents

LEMMA CommitAgrees ==
  ASSUME CallInv, AgreeInv, NEW e \in BaresipEvents \cup UserEvents, Settles(e), Leaves(e),
         Committable(e), Commit(Reduce(state, e)), KeepsIgnored, UNCHANGED quiet, wire = <<>>
  PROVE  AgreeInv'
<1> DEFINE t == Reduce(state, e)
<1>1. /\ state \in State /\ HistoryOK /\ OverEntries(history) /\ OverEntries(disk)
      /\ state' = t.state /\ appendCallHistory(t.entry) /\ UNCHANGED calls
  BY DEF CallInv, SessionInv, OthersOK, AgreeInv, Commit, Settles
<1>2. t.state \in State /\ t.entry \in Entries \cup {NoEntry}
  BY <1>1, EventReduces DEF TransitionOK
<1>3. /\ Tracks(e) /\ Mutes /\ state'.callID \in {NoCall, state'.target}
      /\ Accounts(e, t.entry)
  BY <1>1, CommitTracks
<1>4. OverEntries(history)' /\ OverEntries(disk)'
  <2> HIDE DEF t
  <2> QED
    BY <1>1, <1>2, <1>3, AppendedOver DEF Accounts
<1> QED
  BY <1>1, <1>2, <1>3, <1>4, SettledAgrees

\* A step that leaves the state.
LEMMA SameStateAgrees ==
  ASSUME CallInv, AgreeInv, NEW e, Settles(e), Leaves(e), KeepsIgnored, UNCHANGED <<state, quiet>>,
         wire = <<>>, ~ Muting, OverEntries(history)', OverEntries(disk)',
         \A c \in Calls : e \in {Incoming(c), ActionEvent("dial", c)}
                            => calls[c] \notin Live /\ ~ Mentioned(c)'
  PROVE  AgreeInv'
<1>1. Tracks(e)
  BY DEF Tracks, Ignored
<1>2. state.callState = "active" => state.muted = (state.muted # Muting)
  <2>1. state.muted \in BOOLEAN
    BY DEF CallInv, SessionInv, OthersOK, State
  <2>2. Muting = FALSE
    BY DEF Muting
  <2> QED
    BY <2>1, <2>2
<1>3. Mutes
  BY <1>2 DEF Mutes
<1> QED
  BY <1>1, <1>3, SettledAgrees DEF AgreeInv, CallInv, SessionInv, OthersOK

\* A command that was refused leaves the state.
LEMMA AbandonAgrees ==
  ASSUME CallInv, AgreeInv, NEW e \in BaresipEvents \cup UserEvents, Settles(e), Leaves(e),
         Abandon(e), KeepsIgnored, UNCHANGED quiet, wire = <<>>, ~ Muting,
         \A c : e = ActionEvent("dial", c) => c \in Calls,
         \A c \in Calls : e \in {Incoming(c), ActionEvent("dial", c)}
                            => calls[c] = "over" /\ ~ Mentioned(c)'
  PROVE  AgreeInv'
<1> DEFINE entry == failedDialHistory(e)
<1>1. entry \in Entries \cup {NoEntry}
  BY FailedDialType
<1>2. entry # NoEntry => entry.call \in Calls /\ calls[entry.call] = "over"
  <2>1. ASSUME e.kind = "action", e.type = "dial"
        PROVE  e = ActionEvent("dial", e.peer)
    BY <2>1 DEF BaresipEvents, UserEvents, ActionEvent, CallEvent, RegisterEvent
  <2> QED
    BY <2>1 DEF failedDialHistory, Entry
<1> HIDE DEF entry
<1>3. OverEntries(history)' /\ OverEntries(disk)'
  <2>1. appendCallHistory(entry) /\ UNCHANGED calls
    BY DEF entry, Abandon, Settles
  <2> QED
    BY <1>1, <1>2, <2>1, AppendedOver DEF CallInv, SessionInv, AgreeInv
<1>4. \A c \in Calls : e \in {Incoming(c), ActionEvent("dial", c)}
                         => calls[c] \notin Live /\ ~ Mentioned(c)'
  BY DEF Live
<1> QED
  BY <1>3, <1>4, SameStateAgrees DEF Abandon

\* A dial while baresip is gone is over at once.
LEMMA DeadDialAgrees ==
  ASSUME CallInv, AgreeInv, NEW c \in Calls, calls[c] = "unused", ~ up, pending = NoEvent,
         Abandon(ActionEvent("dial", c)), calls' = [calls EXCEPT ![c] = "over"],
         UNCHANGED <<pending, reply, queue, wire, up, quiet>>
  PROVE  AgreeInv'
<1> USE DEF CallInv, CallsOK
<1>1. /\ calls' \in [Calls -> CallStatuses] /\ calls'[c] = "over"
      /\ \A d \in Calls : d # c => calls'[d] = calls[d]
      /\ state' = state
  BY DEF SessionInv, OthersOK, CallStatuses, Abandon
<1>2. /\ \A d \in Calls : /\ Mentioned(d)' <=> Mentioned(d)
                          /\ Coming(d)' <=> Coming(d)
                          /\ Dialed(d)' <=> Dialed(d)
                          /\ Ignored(d)' <=> Ignored(d)
      /\ \A type, d : IsQueued(type, d)' <=> IsQueued(type, d)
  BY <1>1 DEF Mentioned, Coming, Dialed, Ignored, IsQueued
<1>3. ~ Mentioned(c) /\ ~ Coming(c) /\ ~ Dialed(c) /\ state.target # c /\ ~ Ignored(c)
  BY DEF QueueIsTrue, Places, OnePlace
<1>4. KnownCalls'
  <2>1. ASSUME NEW d \in Calls, d # c
        PROVE  Known(d)'
    BY <1>1, <1>2, <2>1 DEF AgreeInv, KnownCalls, Known
  <2>2. Known(c)'
    BY <1>1, <1>2, <1>3, QueuedIsMentioned, EventsDiffer DEF Known, Live
  <2> QED
    BY <2>1, <2>2 DEF KnownCalls
<1>5. OverEntries(history)' /\ OverEntries(disk)'
  <2> DEFINE entry == Entry(c, "outgoing", "not_connected", FALSE)
  <2>1. appendCallHistory(entry)
    BY DEF Abandon, failedDialHistory, ActionEvent
  <2>2. entry \in Entries /\ entry.call = c
    BY DEF Entry, Entries, Directions, Outcomes, CallOrNone
  <2> HIDE DEF entry
  <2> QED
    BY <1>1, <2>1, <2>2, AppendedOver DEF SessionInv, AgreeInv
<1>6. QuietKnown'
  BY <1>1, <1>2, <1>3 DEF AgreeInv, QuietKnown, Gone, SessionInv, OthersOK
<1>7. SentIsAsked' /\ MuteFollows'
  BY <1>1 DEF AgreeInv, SentIsAsked, MuteFollows, Muting
<1> QED
  BY <1>1, <1>4, <1>5, <1>6, <1>7 DEF AgreeInv

\* A caller whose CALL_INCOMING the session takes is ringing, or over with
\* baresip gone, and there is no other event about it.
LEMMA TakenCaller ==
  ASSUME CallInv, AgreeInv, pending = NoEvent, queue' \in Seq(BaresipEvents),
         NEW c \in Calls, Takes(Incoming(c))
  PROVE  /\ ~ Mentioned(c)' /\ calls[c] = IF up THEN "ringing" ELSE "over"
         /\ ~ Ignored(c) /\ state.callID # c /\ state.target # c /\ state.lastCallID # c
<1> USE DEF CallInv, CallsOK
<1>1. IsQueued("CALL_INCOMING", c) /\ ~ IsQueued("CALL_INCOMING", c)'
  BY EventsDiffer DEF Takes, Coming
<1>2. Known(c) /\ OnePlace(c) /\ Coming(c)
  BY <1>1 DEF AgreeInv, KnownCalls, Places, Coming
<1>3. \A type \in CallEventTypes : ~ IsQueued(type, c)'
  BY <1>1, <1>2 DEF Takes, Known, CallEventTypes
<1>4. ~ Mentioned(c)'
  BY <1>3, MentionedIsQueued DEF Mentioned, IsQueued
<1>5. calls[c] = IF up THEN "ringing" ELSE "over"
  BY <1>1, <1>2 DEF Known, OnePlace, AgreeInv
<1> QED
  BY <1>1, <1>2, <1>4, <1>5, QueuedIsMentioned DEF OnePlace, Known

\* A command is sent.
LEMMA IssueAgrees ==
  ASSUME CallInv, AgreeInv, running, up, pending = NoEvent, queue' \in Seq(BaresipEvents),
         NEW e \in BaresipEvents \cup UserEvents, Takes(e), Leaves(e),
         NEW command \in Commands, command = Reduce(state, e).command, command # NoCommand,
         wire' = Append(wire, command), pending' = e, calls' = Requested(command),
         UNCHANGED <<running, state, history, disk, reply, up, quiet>>,
         \/ command.kind # "dial" /\ \E c \in Calls : e = Incoming(c)
         \/ command.kind # "dial" /\ \E type \in ActionTypes \ {"dial"} : e = ActionEvent(type, NoCall)
         \/ \E c \in Calls :
              e = ActionEvent("dial", c) /\ command = Command("dial", c) /\ calls[c] = "unused"
  PROVE  AgreeInv'
<1> USE DEF CallInv, CallsOK
<1>1. wire = <<>> /\ reply = "none" /\ pending' # NoEvent
  BY DEF AgreeInv, SentIsAsked, FlightOK, NoEvent, BaresipEvents, UserEvents, CallEvent,
         RegisterEvent, ActionEvent
<1>2. \A c \in Calls :
        /\ Mentioned(c)' => Mentioned(c)
        /\ Coming(c)' => Coming(c)
        /\ Coming(c) => Coming(c)'
        /\ ~ Dialed(c)
        /\ Ignored(c)' <=> Ignored(c)
        /\ \A type \in CallEventTypes : IsQueued(type, c)' => IsQueued(type, c)
  BY EventsDiffer DEF Takes, Leaves, Coming, Dialed, Ignored, CallEventTypes
<1>3. ASSUME NEW c \in Calls
      PROVE  calls'[c] = calls[c] \/ (calls[c] = "unused" /\ calls'[c] = "requested" /\ Dialed(c)')
  <2>1. CASE command.kind # "dial"
    BY <2>1 DEF Requested
  <2>2. ASSUME NEW d \in Calls, e = ActionEvent("dial", d), command = Command("dial", d), calls[d] = "unused"
        PROVE  calls'[c] = calls[c]
                 \/ (calls[c] = "unused" /\ calls'[c] = "requested" /\ Dialed(c)')
    BY <2>2 DEF Requested, Command, Dialed, SessionInv, OthersOK
  <2> QED
    BY <2>1, <2>2
<1>4. \A c \in Calls : Dialed(c)' => calls[c] = "unused"
  BY EventsDiffer DEF Dialed
<1>5. ASSUME NEW c \in Calls
      PROVE  Known(c)'
  <2>1. Known(c)
    BY DEF AgreeInv, KnownCalls
  <2>2. (~ Coming(c) /\ ~ Mentioned(c)) \/ calls[c] # "unused"
    BY DEF Places, OnePlace, QueueIsTrue
  <2>3. pending' = Incoming(c) => calls'[c] = "ringing" /\ ~ Mentioned(c)'
    <3> SUFFICES ASSUME e = Incoming(c)
                 PROVE  calls'[c] = "ringing" /\ ~ Mentioned(c)'
      OBVIOUS
    <3> QED
      BY <1>3, TakenCaller
  <2>4. IsQueued("CALL_INCOMING", c)' =>
          /\ ~ IsQueued("CALL_ESTABLISHED", c)' /\ ~ IsQueued("CALL_CLOSED", c)'
          /\ up => calls'[c] = "ringing"
    BY <1>2, <1>3, <2>1 DEF Known, CallEventTypes
  <2>5. calls'[c] \in Live \/ Mentioned(c)' => Coming(c)' \/ Dialed(c)' \/ state.target = c \/ Ignored(c)
    BY <1>2, <1>3, <2>1 DEF Known, Live
  <2>6. Ignored(c) => calls'[c] = "over" /\ ~ Coming(c)'
    BY <1>2, <1>3, <2>1 DEF Known
  <2> QED
    BY <1>1, <1>2, <2>3, <2>4, <2>5, <2>6 DEF Known
<1>6. SentIsAsked'
  BY <1>1 DEF SentIsAsked
<1>7. QuietKnown'
  <2>1. ASSUME NEW c \in quiet, Gone(c)
        PROVE  Gone(c)'
    BY <1>2, <1>3, <1>4, <2>1 DEF Gone, SessionInv, OthersOK
  <2> QED
    BY <2>1 DEF AgreeInv, QuietKnown
<1>8. MuteFollows'
  BY <1>1 DEF AgreeInv, MuteFollows, Muting
<1>9. OverEntries(history)' /\ OverEntries(disk)'
  BY <1>3 DEF AgreeInv, OverEntries
<1> QED
  BY <1>5, <1>6, <1>7, <1>8, <1>9 DEF AgreeInv, KnownCalls

\* toggle_mute is never committed without its command.
LEMMA MuteSends ==
  ASSUME NEW s \in State, NEW e \in UserEvents, s.callState = "active",
         e.type = "toggle_mute"
  PROVE  Reduce(s, e).command # NoCommand
<1>1. Reduce(s, e) = reduceAction(s, "toggle_mute", e.peer)
  BY DEF UserEvents, ActionEvent, Reduce
<1> QED
  BY <1>1 DEF reduceAction, Result, Command, NoCommand

\* The events the session takes, and what it commits without a command.
LEMMA ApplyCommits ==
  ASSUME CallInv, AgreeInv, pending = NoEvent, NEW e, Reduce(state, e).command = NoCommand,
         \/ e \in BaresipEvents
         \/ \E type \in ActionTypes, target \in CallOrNone :
              /\ e = ActionEvent(type, target)
              /\ type = "dial" => target \in Calls /\ calls[target] = "unused"
  PROVE  Committable(e)
<1>1. state \in State /\ ~ Muting
  BY DEF CallInv, SessionInv, OthersOK, CallsOK, FlightOK, Muting
<1>2. e \in BaresipEvents => e.kind # "action"
  BY DEF BaresipEvents, CallEvent, RegisterEvent
<1>3. ASSUME NEW type \in ActionTypes, NEW target \in CallOrNone, e = ActionEvent(type, target)
      PROVE  state.callState = "active" => type # "toggle_mute"
  <2>1. e \in UserEvents /\ e.type = type
    BY <1>3 DEF UserEvents, ActionEvent
  <2> QED
    BY <1>1, <2>1, MuteSends
<1>4. ASSUME NEW c \in Calls, e = ActionEvent("dial", c)
      PROVE  calls[c] = "unused"
  <2>1. e \notin BaresipEvents
    BY <1>4, <1>2 DEF ActionEvent
  <2>2. \A type, target : e = ActionEvent(type, target) => type = "dial" /\ target = c
    BY <1>4 DEF ActionEvent
  <2> QED
    BY <2>1, <2>2
<1>5. ~ (e.kind = "action" /\ e.type = "toggle_mute") \/ state.callState # "active"
  BY <1>3, <1>2 DEF ActionEvent, CallOrNone
<1> QED
  BY <1>1, <1>4, <1>5 DEF Committable

\* The loop takes an event, whatever it does with it.
LEMMA ApplyAgrees ==
  ASSUME CallInv, AgreeInv, running, pending = NoEvent, queue' \in Seq(BaresipEvents), KeepsIgnored,
         NEW e, Takes(e), Leaves(e), applyDomainEvent(e), UNCHANGED <<running, up, talked, quiet>>,
         \/ e \in BaresipEvents
         \/ \E type \in ActionTypes, target \in CallOrNone :
              /\ e = ActionEvent(type, target) /\ UNCHANGED queue
              /\ IF type = "dial" THEN target \in Calls /\ calls[target] = "unused"
                                  ELSE target = NoCall
  PROVE  AgreeInv'
<1> DEFINE t == Reduce(state, e)
<1>1. /\ state \in State /\ e \in BaresipEvents \cup UserEvents
      /\ t.command \in Commands \cup {NoCommand} /\ reply = "none" /\ wire = <<>> /\ ~ Muting
  <2>1. state \in State /\ e \in BaresipEvents \cup UserEvents
    BY DEF CallInv, SessionInv, OthersOK, UserEvents
  <2> QED
    BY <2>1, EventReduces DEF TransitionOK, CallInv, CallsOK, FlightOK, AgreeInv, SentIsAsked, Muting
<1>2. ASSUME NEW c \in Calls, e = ActionEvent("dial", c)
      PROVE  calls[c] = "unused" /\ ~ Mentioned(c)' /\ UNCHANGED queue
  <2>1. calls[c] = "unused" /\ UNCHANGED queue
    <3>1. e \notin BaresipEvents
      <4>1. \A b \in BaresipEvents : b.kind # "action"
        BY DEF BaresipEvents, CallEvent, RegisterEvent
      <4> QED
        BY <1>2, <4>1 DEF ActionEvent
    <3>2. PICK type \in ActionTypes, target \in CallOrNone :
            /\ e = ActionEvent(type, target) /\ UNCHANGED queue
            /\ IF type = "dial" THEN target \in Calls /\ calls[target] = "unused"
                                ELSE target = NoCall
      BY <3>1
    <3>3. type = "dial" /\ target = c
      BY <1>2, <3>2 DEF ActionEvent
    <3> QED
      BY <3>2, <3>3
  <2> QED
    BY <2>1 DEF Takes, CallInv, CallsOK, QueueIsTrue
<1>3. ASSUME NEW c \in Calls, e = Incoming(c)
      PROVE  /\ ~ t.err /\ t.command.kind # "dial"
             /\ ~ Mentioned(c)' /\ calls[c] = IF up THEN "ringing" ELSE "over"
  <2>1. /\ ~ Mentioned(c)' /\ calls[c] = IF up THEN "ringing" ELSE "over"
        /\ ~ Ignored(c) /\ state.callID # c /\ state.lastCallID # c
    BY <1>3, TakenCaller
  <2> QED
    BY <1>1, <1>3, <2>1, IncomingHandled, IncomingMoves DEF Ignored, Incoming
<1>4. ASSUME NEW c \in Calls, e \in {Established(c), Closed(c)}
      PROVE  t.command = NoCommand
  BY <1>1, <1>4, EstablishedMoves, ClosedMoves DEF Established, Closed
<1>5. ASSUME NEW type \in RegisterEventTypes, e = RegisterEvent(type)
      PROVE  t.command = NoCommand
  BY <1>1, <1>5, RegisterMoves
<1>6. ASSUME NEW type \in ActionTypes, NEW target \in CallOrNone, e = ActionEvent(type, target)
      PROVE  \/ t.command.kind # "dial" /\ (type = "dial" => t.command = NoCommand)
             \/ type = "dial" /\ target \in Calls /\ t.command = Command("dial", target)
  BY <1>1, <1>6, ActionMoves
<1> HIDE DEF t
<1>8. ASSUME UNCHANGED <<pending, reply, wire, calls>>
      PROVE  Settles(e)
  BY <1>1, <1>8 DEF Settles
<1>9. CASE t.err /\ UNCHANGED <<state, history, disk, pending, reply, wire, calls>>
  <2>1. \A c \in Calls : e \in {Incoming(c), ActionEvent("dial", c)}
                           => calls[c] \notin Live /\ ~ Mentioned(c)'
    BY <1>2, <1>3, <1>9 DEF Live
  <2>2. OverEntries(history)' /\ OverEntries(disk)'
    BY <1>9 DEF AgreeInv, OverEntries
  <2> QED
    BY <1>1, <1>8, <1>9, <2>1, <2>2, SameStateAgrees
<1>10. CASE t.command = NoCommand /\ Commit(t) /\ UNCHANGED <<pending, reply, wire, calls>>
  <2>1. Committable(e)
    BY <1>10, ApplyCommits DEF t
  <2> QED
    BY <1>1, <1>8, <1>10, <2>1, CommitAgrees DEF t
<1>11. CASE /\ t.command # NoCommand /\ up
            /\ wire' = Append(wire, t.command) /\ pending' = e
            /\ calls' = Requested(t.command) /\ UNCHANGED <<state, history, disk, reply>>
  <2>1. \/ t.command.kind # "dial" /\ \E c \in Calls : e = Incoming(c)
        \/ t.command.kind # "dial" /\ \E type \in ActionTypes \ {"dial"} : e = ActionEvent(type, NoCall)
        \/ \E c \in Calls :
             e = ActionEvent("dial", c) /\ t.command = Command("dial", c) /\ calls[c] = "unused"
    <3>1. CASE e \in BaresipEvents
      BY <1>3, <1>4, <1>5, <1>11, <3>1, EventKinds
    <3>2. ASSUME NEW type \in ActionTypes, NEW target \in CallOrNone,
                 e = ActionEvent(type, target), UNCHANGED queue,
                 IF type = "dial" THEN target \in Calls /\ calls[target] = "unused"
                                  ELSE target = NoCall
          PROVE  <2>1
      BY <1>6, <1>11, <3>2
    <3> QED
      BY <3>1, <3>2
  <2> QED
    BY <1>1, <1>11, <2>1, IssueAgrees DEF t
<1>12. CASE /\ t.command # NoCommand /\ ~ up /\ Abandon(e)
            /\ calls' = IF t.command.kind = "dial"
                        THEN [calls EXCEPT ![t.command.call] = "over"] ELSE calls
            /\ UNCHANGED <<pending, reply, wire>>
  <2>1. ASSUME NEW c \in Calls, e = ActionEvent("dial", c)
        PROVE  AgreeInv'
    <3>1. t.command = Command("dial", c)
      BY <1>6, <1>12, <2>1 DEF ActionTypes, CallOrNone, ActionEvent
    <3>2. calls' = [calls EXCEPT ![c] = "over"]
      BY <1>12, <3>1 DEF Command
    <3> QED
      BY <1>2, <1>12, <2>1, <3>2, DeadDialAgrees
  <2>2. ASSUME \A c \in Calls : e # ActionEvent("dial", c)
        PROVE  AgreeInv'
    <3>1. t.command.kind # "dial" /\ \A c : e # ActionEvent("dial", c)
      <4>1. CASE e \in BaresipEvents
        BY <1>3, <1>4, <1>5, <1>12, <4>1, EventKinds
           DEF BaresipEvents, ActionEvent, CallEvent, RegisterEvent
      <4>2. ASSUME NEW type \in ActionTypes, NEW target \in CallOrNone, e = ActionEvent(type, target),
                   type = "dial" => target \in Calls
            PROVE  <3>1
        BY <1>6, <2>2, <4>2 DEF ActionEvent
      <4> QED
        BY <4>1, <4>2
    <3>2. \A c \in Calls : e = Incoming(c) => calls[c] = "over" /\ ~ Mentioned(c)'
      BY <1>3, <1>12
    <3> QED
      BY <1>1, <1>8, <1>12, <3>1, <3>2, AbandonAgrees
  <2> QED
    BY <2>1, <2>2
<1> QED
  BY <1>9, <1>10, <1>11, <1>12 DEF applyDomainEvent, t

LEMMA LeavesTaken ==
  ASSUME CallInv,
         NEW e, \/ queue # <<>> /\ queue' = Tail(queue) /\ e = Head(queue) /\ pending = NoEvent
                \/ UNCHANGED queue /\ pending = NoEvent
  PROVE  Leaves(e)
<1>1. CASE queue # <<>> /\ queue' = Tail(queue) /\ e = Head(queue) /\ pending = NoEvent
  <2>1. \A c \in Calls : IsQueued("CALL_INCOMING", c) <=> IsQueued("CALL_INCOMING", c)' \/ e = Incoming(c)
    BY <1>1, Taken DEF CallInv, CallsOK, SessionInv, OthersOK, Incoming, CallEventTypes
  <2> QED
    BY <1>1, <2>1, EventsDiffer DEF Leaves, Coming, Dialed
<1>2. CASE UNCHANGED queue /\ pending = NoEvent
  BY <1>2, EventsDiffer DEF Leaves, Coming, Dialed, IsQueued
<1> QED
  BY <1>1, <1>2

\* A command that succeeded is one the session may commit.
LEMMA FinishCommits ==
  ASSUME CallInv, AgreeInv, pending # NoEvent, reply = "ok"
  PROVE  Committable(pending)
<1>1. Reduce(state, pending).command # NoCommand
  BY DEF AgreeInv, SentIsAsked
<1>2. Muting <=> (pending.kind = "action" /\ pending.type = "toggle_mute")
  BY DEF Muting, CallInv, CallsOK, FlightOK, ActionEvent, Incoming, CallEvent
<1>3. ASSUME NEW c \in Calls, pending = Incoming(c)
      PROVE  calls[c] = "over"
  BY <1>3 DEF AgreeInv, KnownCalls, Known
<1> QED
  BY <1>1, <1>2, <1>3 DEF Committable, Dialed

LEMMA SessionStepAgrees ==
  ASSUME Punctual, CallInv, CallInv', AgreeInv, KeepsIgnored, SessionStep
  PROVE  AgreeInv'
<1>1. queue' \in Seq(BaresipEvents)
  BY DEF CallInv, SessionInv, OthersOK
<1>2. ASSUME NEW type \in ActionTypes, NEW target \in CallOrNone, UserRequest(type, target)
      PROVE  AgreeInv'
  <2>1. Takes(ActionEvent(type, target)) /\ Leaves(ActionEvent(type, target))
    BY <1>2, TakesAction, LeavesTaken DEF UserRequest, LoopReady
  <2>2. UNCHANGED <<running, queue, up, talked, quiet>>
    BY <1>2 DEF UserRequest
  <2> QED
    BY <1>1, <1>2, <2>1, <2>2, ApplyAgrees DEF UserRequest, LoopReady
<1>3. CASE HandleBaresipEvent
  <2>1. Takes(Head(queue)) /\ Head(queue) \in BaresipEvents
    BY <1>3, TakesHead DEF HandleBaresipEvent
  <2>2. Leaves(Head(queue))
    BY <1>3, LeavesTaken DEF HandleBaresipEvent, LoopReady
  <2> QED
    BY <1>1, <1>3, <2>1, <2>2, ApplyAgrees DEF HandleBaresipEvent, LoopReady
<1>4. CASE FinishCommand
  <2>1. /\ pending # NoEvent /\ reply # "none" /\ wire = <<>>
        /\ Reduce(state, pending).command # NoCommand
        /\ pending \in BaresipEvents \cup UserEvents
    BY <1>4, PendingIs DEF FinishCommand, AgreeInv, SentIsAsked
  <2>2. Settles(pending) /\ UNCHANGED quiet
    BY <1>4, <2>1, TakesPending DEF FinishCommand, Settles, baresipVars
  <2>3. Leaves(pending)
    BY <1>4, EventsDiffer DEF FinishCommand, Leaves, Coming, Dialed, IsQueued
  <2>4. CASE reply = "ok" /\ Commit(Reduce(state, pending))
    <3>1. Committable(pending)
      BY <2>1, <2>4, FinishCommits
    <3> QED
      BY <2>1, <2>2, <2>3, <2>4, <3>1, CommitAgrees
  <2>5. CASE reply # "ok" /\ Abandon(pending)
    <3>1. reply = "refused"
      BY <2>1, <2>5 DEF CallInv, SessionInv, OthersOK
    <3>2. \A c \in Calls : pending \in {Incoming(c), ActionEvent("dial", c)}
                             => calls[c] = "over" /\ ~ Mentioned(c)'
      BY <1>4, <3>1 DEF FinishCommand, AgreeInv, KnownCalls, Known, Dialed, Mentioned
    <3> QED
      BY <2>1, <2>2, <2>3, <2>5, <3>1, <3>2, PendingIs, AbandonAgrees DEF Muting
  <2> QED
    BY <1>4, <2>4, <2>5 DEF FinishCommand
<1>5. CASE CommandTimesOut
  BY <1>5 DEF CommandTimesOut, Punctual
<1> QED
  BY <1>2, <1>3, <1>4, <1>5 DEF SessionStep

\* A call moves on and baresip says so.
LEMMA LiveAgrees ==
  ASSUME CallInv, AgreeInv, up, UNCHANGED <<snapshotVars, pending, up, quiet>>,
         NEW c \in Calls, NEW type \in CallEventTypes, NEW status,
         calls' = [calls EXCEPT ![c] = status], Emit(type, c),
         \/ type = "CALL_INCOMING" /\ calls[c] = "unused" /\ status = "ringing"
         \/ type = "CALL_ESTABLISHED" /\ calls[c] \in Live /\ status = "established"
         \/ type = "CALL_CLOSED" /\ calls[c] \in Live /\ status = "over",
         type # "CALL_INCOMING" => ~ IsQueued("CALL_INCOMING", c),
         pending = Incoming(c) => type = "CALL_CLOSED" /\ reply' = "ok",
         \A d \in Calls : Dialed(d) \/ (pending = Incoming(d) /\ d # c) => reply' = reply,
         Muting' <=> Muting, SentIsAsked'
  PROVE  AgreeInv'
<1> USE DEF CallInv, CallsOK
<1> DEFINE e == CallEvent(type, c, c)
<1>1. /\ calls'[c] = status /\ \A d \in Calls : d # c => calls'[d] = calls[d]
      /\ UNCHANGED <<state, history, disk>>
  BY DEF SessionInv, OthersOK, snapshotVars
<1>2. /\ \A d \in Calls : Mentioned(d)' <=> Mentioned(d) \/ d = c
      /\ \A other \in CallEventTypes, d \in Calls :
           IsQueued(other, d)' <=> IsQueued(other, d) \/ (d = c /\ other = type)
  <2>1. e \in BaresipEvents /\ queue \in Seq(BaresipEvents) /\ queue' = Append(queue, e)
    BY DEF BaresipEvents, Emit, SessionInv, OthersOK
  <2>2. e.id = c /\ \A other, d : e = CallEvent(other, d, d) <=> d = c /\ other = type
    BY DEF CallEvent
  <2> HIDE DEF e
  <2> QED
    BY <2>1, <2>2, Appended
<1>3. \A d \in Calls : /\ Ignored(d)' <=> Ignored(d)
                       /\ Dialed(d)' <=> Dialed(d)
                       /\ d # c => (Coming(d)' <=> Coming(d))
                       /\ Coming(d) => Coming(d)'
  BY <1>1, <1>2 DEF Ignored, Dialed, Coming, CallEventTypes
<1>4. calls[c] # "over" /\ ~ Ignored(c)
  BY DEF Live, AgreeInv, KnownCalls, Known
<1>5. ASSUME NEW d \in Calls, d # c
      PROVE  Known(d)'
  <2>1. Known(d)
    BY DEF AgreeInv, KnownCalls
  <2>2. \A other \in CallEventTypes : IsQueued(other, d)' <=> IsQueued(other, d)
    BY <1>2, <1>5
  <2> QED
    BY <1>1, <1>2, <1>3, <1>5, <2>1, <2>2 DEF Known, CallEventTypes
<1>6. Known(c)'
  <2>1. Known(c)
    BY DEF AgreeInv, KnownCalls
  <2>2. Coming(c)' \/ Dialed(c) \/ state.target = c
    BY <1>2, <1>3, <1>4, <2>1 DEF Known, Coming
  <2>3. IsQueued("CALL_INCOMING", c)' =>
          /\ ~ IsQueued("CALL_ESTABLISHED", c)' /\ ~ IsQueued("CALL_CLOSED", c)'
          /\ calls'[c] = "ringing"
    <3>1. calls[c] = "unused" => ~ Mentioned(c)
      BY DEF QueueIsTrue
    <3> QED
      BY <1>1, <1>2, <3>1, QueuedIsMentioned DEF CallEventTypes
  <2>4. pending = Incoming(c) => calls'[c] = "over" /\ reply' = "ok"
    BY <1>1 DEF Live
  <2>5. ~ (Dialed(c) /\ reply' = "refused")
    BY <1>4, <2>1 DEF Known
  <2> QED
    BY <1>1, <1>3, <1>4, <2>2, <2>3, <2>4, <2>5 DEF Known
<1>7. QuietKnown'
  <2>1. ASSUME NEW d \in quiet, Gone(d)
        PROVE  Gone(d)'
    BY <1>1, <1>2, <1>3, <1>4, <2>1 DEF Gone, SessionInv, OthersOK
  <2> QED
    BY <1>1, <2>1 DEF AgreeInv, QuietKnown
<1>8. MuteFollows'
  BY <1>1 DEF AgreeInv, MuteFollows
<1>9. OverEntries(history)' /\ OverEntries(disk)'
  BY <1>1, <1>4 DEF AgreeInv, OverEntries
<1> QED
  BY <1>1, <1>5, <1>6, <1>7, <1>8, <1>9 DEF AgreeInv, KnownCalls

\* The calls stay as they are.
LEMMA SameCallsAgree ==
  ASSUME CallInv, AgreeInv, UNCHANGED <<snapshotVars, pending, up, calls>>,
         queue' = queue \/ \E type \in RegisterEventTypes : queue' = Append(queue, RegisterEvent(type)),
         reply' = reply \/ \A c \in Calls : ~ Dialed(c) /\ pending # Incoming(c),
         \A c \in quiet' : c \in quiet \/ (state.callState = "active" /\ state.target = c),
         MuteFollows', SentIsAsked'
  PROVE  AgreeInv'
<1> USE DEF CallInv, CallsOK
<1>1. /\ \A d \in Calls : Mentioned(d)' <=> Mentioned(d)
      /\ \A type \in CallEventTypes, d \in Calls : IsQueued(type, d)' <=> IsQueued(type, d)
  <2>1. CASE queue' = queue
    BY <2>1 DEF Mentioned, IsQueued
  <2>2. ASSUME NEW type \in RegisterEventTypes, queue' = Append(queue, RegisterEvent(type))
        PROVE  <1>1!:
    <3>1. queue \in Seq(BaresipEvents) /\ RegisterEvent(type) \in BaresipEvents
      BY DEF BaresipEvents, SessionInv, OthersOK
    <3>2. /\ \A d \in Calls : RegisterEvent(type).id # d
          /\ \A other, d : RegisterEvent(type) # CallEvent(other, d, d)
      BY NoCallAssumption DEF RegisterEvent, CallEvent
    <3> QED
      BY <2>2, <3>1, <3>2, Appended
  <2> QED
    BY <2>1, <2>2
<1>2. UNCHANGED <<state, history, disk>>
  BY DEF snapshotVars
<1>3. \A d \in Calls : /\ Ignored(d)' <=> Ignored(d)
                       /\ Dialed(d)' <=> Dialed(d)
                       /\ Coming(d)' <=> Coming(d)
  BY <1>1, <1>2 DEF Ignored, Dialed, Coming, CallEventTypes
<1>4. ASSUME NEW d \in Calls
      PROVE  Known(d)'
  BY <1>1, <1>2, <1>3 DEF AgreeInv, KnownCalls, Known, CallEventTypes
<1>5. QuietKnown'
  <2>1. ASSUME NEW d \in Calls, Gone(d)
        PROVE  Gone(d)'
    BY <1>1, <1>2, <1>3, <2>1 DEF Gone
  <2> QED
    BY <1>2, <2>1 DEF AgreeInv, QuietKnown, SessionInv, OthersOK
<1>6. OverEntries(history)' /\ OverEntries(disk)'
  BY <1>2 DEF AgreeInv, OverEntries
<1> QED
  BY <1>2, <1>4, <1>5, <1>6 DEF AgreeInv, KnownCalls

\* A call baresip has and has told the session of is the one the session shows,
\* or one it has not yet answered for.
LEMMA LiveIsKnown ==
  ASSUME CallInv, AgreeInv, NEW c \in Calls, calls[c] \in Live, ~ IsQueued("CALL_INCOMING", c)
  PROVE  pending = Incoming(c) \/ Dialed(c) \/ state.target = c
  BY DEF AgreeInv, KnownCalls, Known, Coming, Live

\* baresip executes the command: it can only be about the call of the pending
\* event or the one the session shows.
LEMMA ExecutionAgrees ==
  ASSUME Punctual, CallInv, CallInv', AgreeInv, BaresipExecutes
  PROVE  AgreeInv'
<1> DEFINE command == Reduce(state, pending).command
<1>1. /\ pending # NoEvent /\ reply = "none" /\ wire = <<command>> /\ command # NoCommand
      /\ up /\ running /\ state \in State
  BY DEF BaresipExecutes, AgreeInv, SentIsAsked, CallInv, CallsOK, FlightOK, SessionInv, OthersOK
<1>2. PICK answer \in {"ok", "refused"} : Perform(command, answer) /\ reply' = answer
  <2>1. Head(wire) = command /\ Len(wire) = 1
    BY <1>1
  <2> QED
    BY <1>1, <2>1 DEF BaresipExecutes, Waiting
<1>3. UNCHANGED <<snapshotVars, pending, up>> /\ UNCHANGED state /\ wire' = <<>>
  BY <1>1 DEF BaresipExecutes, snapshotVars
<1>4. SentIsAsked' /\ ~ Muting
  BY <1>1, <1>2, <1>3 DEF SentIsAsked, Muting
<1>6. ASSUME NEW c \in Calls, Dialed(c)
      PROVE  AgreeInv'
  <2>1. command = Command("dial", c) /\ calls[c] = "requested"
    <3>1. command = Command("dial", c)
      BY <1>1, <1>6, ActionMoves DEF Dialed, ActionTypes, CallOrNone
    <3>2. 1 \in 1 .. Len(wire) /\ wire[1] = command
      BY <1>1
    <3> QED
      BY <3>1, <3>2 DEF CallInv, CallsOK, WireOK, Command
  <2>2. Dial(c, answer)
    BY <1>2, <2>1 DEF Perform, Command
  <2> HIDE DEF command
  <2>3. /\ \A d \in Calls : d # c => calls'[d] = calls[d]
        /\ calls'[c] \in {"dialing", "over"}
        /\ answer = "refused" => calls'[c] = "over"
        /\ UNCHANGED <<queue, quiet>>
    BY <2>2 DEF Dial, CallInv, SessionInv, OthersOK
  <2>4. /\ ~ Mentioned(c) /\ ~ Ignored(c) /\ ~ Coming(c)
        /\ \A d \in Calls : d # c => ~ Dialed(d)
        /\ \A d \in Calls : pending # Incoming(d) /\ pending # ActionEvent("toggle_mute", NoCall)
    BY <1>6, <2>1, EventsDiffer DEF CallInv, CallsOK, Places, OnePlace, QueueIsTrue, Dialed
  <2>5. \A d \in Calls : /\ Ignored(d)' <=> Ignored(d)
                         /\ Dialed(d)' <=> Dialed(d)
                         /\ Coming(d)' <=> Coming(d)
                         /\ Mentioned(d)' <=> Mentioned(d)
                         /\ \A type : IsQueued(type, d)' <=> IsQueued(type, d)
    BY <1>3, <2>3 DEF Ignored, Dialed, Coming, Mentioned, IsQueued
  <2>6. ASSUME NEW d \in Calls
        PROVE  Known(d)'
    <3>1. CASE d = c
      BY <1>2, <1>3, <1>6, <2>3, <2>4, <2>5, <3>1, QueuedIsMentioned DEF Known
    <3>2. CASE d # c
      BY <1>3, <2>3, <2>4, <2>5, <3>2 DEF AgreeInv, KnownCalls, Known
    <3> QED
      BY <3>1, <3>2
  <2>7. QuietKnown'
    <3>1. ASSUME NEW d \in quiet, Gone(d)
          PROVE  Gone(d)'
      BY <1>3, <1>6, <2>3, <2>5, <3>1 DEF Gone, CallInv, SessionInv, OthersOK
    <3> QED
      BY <1>3, <2>3, <3>1 DEF AgreeInv, QuietKnown
  <2>8. MuteFollows'
    BY <1>3, <2>3, <2>4 DEF AgreeInv, MuteFollows, Muting
  <2>9. OverEntries(history)' /\ OverEntries(disk)'
    BY <1>3, <2>1, <2>3 DEF AgreeInv, OverEntries, snapshotVars
  <2> QED
    BY <1>1, <1>3, <1>4, <2>6, <2>7, <2>8, <2>9 DEF AgreeInv, KnownCalls
<1>7. ASSUME NEW c \in Calls, pending = Incoming(c)
      PROVE  AgreeInv'
  <2>1. /\ calls[c] = "ringing" /\ ~ Mentioned(c)
        /\ ~ Ignored(c) /\ state.callID # c
    BY <1>1, <1>7 DEF AgreeInv, KnownCalls, Known, Coming, CallInv, CallsOK, Places, OnePlace
  <2>2. \/ command = Command("hangup", c)
        \/ state.callState = "idle" /\ command = Command("hangup", NoCall)
    BY <1>1, <1>7, <2>1, IncomingHandled DEF Ignored
  <2> HIDE DEF command
  <2>3. ~ IsQueued("CALL_INCOMING", c)
    BY <2>1, QueuedIsMentioned
  <2>4. Addressed(command, Live) = {c}
    <3>1. c \in Addressed(command, Live)
      BY <2>1, <2>2, <2>3 DEF Addressed, Command, Live
    <3>2. ASSUME NEW d \in Addressed(command, Live), d # c
          PROVE  FALSE
      <4>1. /\ d \in Calls /\ calls[d] \in Live
            /\ command.call = d \/ (command.call = NoCall /\ ~ IsQueued("CALL_INCOMING", d))
        BY <3>2 DEF Addressed, Punctual
      <4>3. state.callState = "idle" /\ ~ IsQueued("CALL_INCOMING", d)
        BY <2>2, <3>2, <4>1, NoCallAssumption DEF Command
      <4>2. pending # Incoming(d) /\ ~ Dialed(d) /\ state.target # d
        BY <1>7, <3>2, <4>1, <4>3, EventsDiffer, NoCallAssumption
           DEF Dialed, CallInv, CallsOK, StateIsTrue, Shaped
      <4> QED
        BY <4>1, <4>2, <4>3, LiveIsKnown
    <3> QED
      BY <3>1, <3>2
  <2>5. Hangup(c, answer)
    BY <1>2, <2>2, <2>4 DEF Perform, Command
  <2>6. ~ Muting' /\ \A d \in Calls : ~ Dialed(d) /\ (d # c => pending # Incoming(d))
    BY <1>3, <1>7, EventsDiffer DEF Muting, Dialed
  <2>7. calls' = [calls EXCEPT ![c] = "over"] /\ Emit("CALL_CLOSED", c) /\ answer = "ok" /\ quiet' = quiet
    BY <2>5 DEF Hangup
  <2> QED
    BY <1>1, <1>2, <1>3, <1>4, <2>1, <2>3, <2>6, <2>7, LiveAgrees DEF Live, CallEventTypes
<1>8. ASSUME NEW type \in ActionTypes \ {"dial"}, pending = ActionEvent(type, NoCall)
      PROVE  AgreeInv'
  <2>1. /\ command.call = NoCall /\ command.kind \in {"accept", "hangup", "reject", "mute"}
        /\ state.callState # "idle"
        /\ command.kind = "mute" <=> type = "toggle_mute"
        /\ type = "toggle_mute" => state.callState = "active"
    BY <1>1, <1>8, ActionSends
  <2> HIDE DEF command
  <2>2. \A d \in Calls : pending # Incoming(d) /\ ~ Dialed(d)
    BY <1>8, EventsDiffer DEF Dialed
  <2>3. ASSUME NEW statuses \in SUBSET Live, NEW c \in Addressed(command, statuses)
        PROVE  /\ c \in Calls /\ calls[c] \in statuses /\ state.target = c
               /\ ~ IsQueued("CALL_INCOMING", c)
    <3>1. c \in Calls /\ calls[c] \in statuses
      BY DEF Addressed
    <3>2. ~ IsQueued("CALL_INCOMING", c)
      BY <2>1, NoCallAssumption DEF Addressed, Punctual
    <3> QED
      BY <2>2, <3>1, <3>2, LiveIsKnown
  <2>4. Muting' <=> (type = "toggle_mute" /\ answer = "ok")
    BY <1>2, <1>3, <1>8 DEF Muting, ActionEvent
  <2>5. ASSUME NEW c \in Addressed(command, {"ringing"}), Accept(c, answer), command.kind # "mute"
        PROVE  AgreeInv'
    <3>1. c \in Calls /\ calls[c] = "ringing" /\ ~ IsQueued("CALL_INCOMING", c)
      BY <2>3, <2>5 DEF Live
    <3>2. calls' = [calls EXCEPT ![c] = "established"] /\ Emit("CALL_ESTABLISHED", c) /\ quiet' = quiet
      BY <2>5 DEF Accept
    <3> QED
      BY <1>1, <1>3, <1>4, <2>1, <2>2, <2>4, <2>5, <3>1, <3>2, LiveAgrees DEF Live, CallEventTypes
  <2>6. ASSUME NEW c \in Addressed(command, Live), Hangup(c, answer), command.kind # "mute"
        PROVE  AgreeInv'
    <3>1. c \in Calls /\ calls[c] \in Live /\ ~ IsQueued("CALL_INCOMING", c)
      BY <2>3, <2>6
    <3>2. calls' = [calls EXCEPT ![c] = "over"] /\ Emit("CALL_CLOSED", c) /\ quiet' = quiet
      BY <2>6 DEF Hangup
    <3> QED
      BY <1>1, <1>3, <1>4, <2>1, <2>2, <2>4, <2>6, <3>1, <3>2, LiveAgrees DEF CallEventTypes
  <2>7. ASSUME NEW c \in Addressed(command, {"established"}), ToggleMute(c, answer), command.kind = "mute"
        PROVE  AgreeInv'
    <3>1. c \in Calls /\ state.target = c
      BY <2>3, <2>7 DEF Live
    <3>2. /\ quiet' = (IF c \in quiet THEN quiet \ {c} ELSE quiet \cup {c})
          /\ UNCHANGED <<queue, calls>> /\ answer = "ok"
      BY <2>7 DEF ToggleMute
    <3>3. state.callState = "active" /\ Muting'
      BY <2>1, <2>4, <2>7, <3>2
    <3>4. state.muted \in BOOLEAN
      BY <1>1 DEF State
    <3>5. MuteFollows'
      <4>1. c \in quiet' <=> c \notin quiet
        BY <3>1, <3>2
      <4>2. c \in quiet <=> state.muted
        BY <1>4, <3>1, <3>3, <3>4 DEF AgreeInv, MuteFollows, Muting
      <4>3. state'.target = c /\ state'.muted = state.muted
        BY <1>3, <3>1
      <4> QED
        BY <3>3, <3>4, <4>1, <4>2, <4>3 DEF MuteFollows, Muting
    <3> QED
      BY <1>3, <1>4, <2>2, <3>1, <3>2, <3>3, <3>5, SameCallsAgree
  <2>8. CASE NothingToDo(answer)
    <3>1. MuteFollows'
      <4>1. quiet' = quiet /\ ~ Muting'
        BY <2>4, <2>8 DEF NothingToDo
      <4> QED
        BY <1>3, <1>4, <4>1 DEF AgreeInv, MuteFollows, Muting
    <3> QED
      BY <1>3, <1>4, <2>2, <2>8, <3>1, SameCallsAgree DEF NothingToDo
  <2> QED
    BY <1>2, <2>1, <2>5, <2>6, <2>7, <2>8 DEF Perform
<1> QED
  BY <1>1, <1>6, <1>7, <1>8 DEF CallInv, CallsOK, FlightOK, Dialed

LEMMA BaresipStepAgrees ==
  ASSUME Punctual, CallInv, CallInv', AgreeInv, BaresipStep
  PROVE  AgreeInv'
<1>1. ASSUME UNCHANGED <<snapshotVars, pending, reply, wire>>
      PROVE  (Muting' <=> Muting) /\ (up' = up => SentIsAsked')
  BY <1>1 DEF Muting, AgreeInv, SentIsAsked, snapshotVars
<1>2. ASSUME NEW c \in Calls, PeerCalls(c)
      PROVE  AgreeInv'
  <2>1. pending # Incoming(c)
    BY <1>2 DEF PeerCalls, CallInv, CallsOK, Places, OnePlace, Coming
  <2> QED
    BY <1>1, <1>2, <2>1, LiveAgrees DEF PeerCalls, flightVars, CallEventTypes
<1>3. ASSUME NEW c \in Calls, PeerAnswers(c)
      PROVE  AgreeInv'
  <2>1. pending # Incoming(c) /\ ~ IsQueued("CALL_INCOMING", c)
    BY <1>3, QueuedIsMentioned DEF PeerAnswers, AgreeInv, KnownCalls, Known, CallInv, SessionInv, OthersOK
  <2> QED
    BY <1>1, <1>3, <2>1, LiveAgrees DEF PeerAnswers, flightVars, CallEventTypes, Live
<1>4. ASSUME NEW c \in Calls, PeerEnds(c)
      PROVE  AgreeInv'
  <2>1. pending # Incoming(c) /\ ~ IsQueued("CALL_INCOMING", c)
    BY <1>4 DEF PeerEnds, Punctual, Incoming, CallEvent
  <2> QED
    BY <1>1, <1>4, <2>1, LiveAgrees DEF PeerEnds, flightVars, CallEventTypes
<1>5. ASSUME NEW type \in Reports, RegistrarReports(type)
      PROVE  AgreeInv'
  <2>1. type \in RegisterEventTypes
    BY SessionAssumption
  <2>2. (Muting' <=> Muting) /\ SentIsAsked' /\ UNCHANGED <<state, quiet>>
    BY <1>1, <1>5 DEF RegistrarReports, flightVars, baresipVars, snapshotVars
  <2>3. MuteFollows'
    BY <2>2 DEF AgreeInv, MuteFollows, Muting
  <2> QED
    BY <1>5, <2>1, <2>2, <2>3, SameCallsAgree DEF RegistrarReports, flightVars, baresipVars
<1> QED
  BY <1>2, <1>3, <1>4, <1>5, ExecutionAgrees DEF BaresipStep

\* A runtime that ends and one that starts have nothing under way.
LEMMA BlankAgrees ==
  ASSUME queue' = <<>>, wire' = <<>>, pending' = NoEvent, reply' = "none", Blank(state'),
         \A c \in Calls : calls'[c] \in {"unused", "over"}, quiet' \subseteq Calls,
         \A c \in quiet' : calls'[c] = "over",
         OverEntries(history)', OverEntries(disk)'
  PROVE  AgreeInv'
<1>1. \A c \in Calls : /\ ~ Mentioned(c)' /\ \A type : ~ IsQueued(type, c)'
                       /\ ~ Dialed(c)' /\ ~ Ignored(c)' /\ state'.target # c /\ pending' # Incoming(c)
                       /\ ~ Coming(c)'
  <2>1. \A c \in Calls : ~ Mentioned(c)' /\ \A type : ~ IsQueued(type, c)'
    BY DEF Mentioned, IsQueued
  <2> QED
    BY <2>1, EventsDiffer, NoCallAssumption DEF Blank, Dialed, Ignored, Coming
<1>2. KnownCalls'
  BY <1>1 DEF KnownCalls, Known, Live
<1>3. QuietKnown'
  BY <1>1 DEF QuietKnown, Gone
<1> QED
  BY <1>2, <1>3 DEF AgreeInv, SentIsAsked, MuteFollows, Blank

LEMMA EndRuntimeAgrees ==
  ASSUME CallInv, AgreeInv, LoopReady, NEW endRequested \in BOOLEAN, EndRuntime(endRequested)
  PROVE  AgreeInv'
<1> USE DEF CallInv, CallsOK
<1>0. EndedOnce(endRequested)
  BY EndRuntimeOnce DEF SessionInv, OthersOK
<1>1. /\ queue' = <<>> /\ wire' = <<>> /\ pending' = NoEvent /\ reply' = "none" /\ Blank(state')
      /\ calls' = AllOver /\ quiet' = {}
  BY <1>0, FreshStateIsBlank DEF EndedOnce, DropBaresip, LoopReady, FlightOK, SessionInv, OthersOK
<1>2. /\ \A c \in Calls : calls'[c] \in {"unused", "over"} /\ (calls[c] # "unused" => calls'[c] = "over")
  BY <1>1, RecordedWasUsed
<1>3. OverEntries(history)' /\ OverEntries(disk)'
  <2>1. CASE state.callState = "idle"
    BY <1>0, <1>2, <2>1 DEF EndedOnce, FinalizedOnce, AgreeInv, OverEntries
  <2>2. CASE state.callState # "idle"
    <3>1. FinalizedOnce(endRequested)
      BY <1>0 DEF EndedOnce
    <3>2. PICK entry \in Entries :
            /\ entry.call = state.target /\ history' = mergeCallHistory(history, entry)
            /\ disk' = history' \/ disk' = disk
      BY <2>2, <3>1, FinalEntry
    <3>3. state.target \in Calls /\ calls'[state.target] = "over"
      BY <1>2, <2>2 DEF StateIsTrue, Shaped, Places, OnePlace
    <3>4. \A c \in Calls : calls[c] = "over" => calls'[c] = "over"
      BY <1>2
    <3> QED
      BY <3>2, <3>3, <3>4, MergedOver DEF SessionInv, AgreeInv
  <2> QED
    BY <2>1, <2>2
<1> QED
  BY <1>1, <1>2, <1>3, BlankAgrees

\* The child exits: what was on the wire fails, what was queued is still read.
LEMMA ExitAgrees ==
  ASSUME CallInv, AgreeInv, BaresipExits
  PROVE  AgreeInv'
<1> USE DEF CallInv, CallsOK
<1>1. /\ up /\ ~ up' /\ calls' = AllOver /\ wire' = <<>>
      /\ UNCHANGED <<running, state, history, disk, pending, queue, quiet>>
      /\ reply' = IF Waiting THEN "refused" ELSE reply
  BY DEF BaresipExits, snapshotVars
<1>2. /\ \A c \in Calls : calls'[c] \in {"unused", "over"} /\ (calls[c] # "unused" => calls'[c] = "over")
  BY <1>1, RecordedWasUsed
<1>3. pending # NoEvent => running /\ reply' # "none" /\ (reply # "none" => reply' = reply)
  BY <1>1 DEF FlightOK, Waiting
<1>4. \A c \in Calls : /\ Mentioned(c)' <=> Mentioned(c)
                       /\ \A type : IsQueued(type, c)' <=> IsQueued(type, c)
                       /\ Dialed(c)' <=> Dialed(c)
                       /\ Ignored(c)' <=> Ignored(c)
                       /\ Coming(c)' <=> Coming(c)
  BY <1>1 DEF Mentioned, IsQueued, Dialed, Ignored, Coming
<1>5. ASSUME NEW c \in Calls
      PROVE  Known(c)'
  <2>1. Known(c)
    BY DEF AgreeInv, KnownCalls
  <2>2. Mentioned(c) => Coming(c) \/ Dialed(c) \/ state.target = c \/ Ignored(c)
    BY <2>1 DEF Known
  <2>3. pending = Incoming(c) => calls'[c] = "over" /\ (reply' = "refused" => ~ Mentioned(c))
    <3> SUFFICES ASSUME pending = Incoming(c)
                 PROVE  calls'[c] = "over" /\ (reply' = "refused" => ~ Mentioned(c))
      OBVIOUS
    <3>1. pending # NoEvent
      BY EventsDiffer
    <3> QED
      BY <1>1, <1>2, <1>3, <2>1, <3>1 DEF Known
  <2>4. Dialed(c) /\ reply' = "refused" => calls'[c] = "over" /\ ~ Mentioned(c)
    <3> SUFFICES ASSUME Dialed(c), reply' = "refused"
                 PROVE  calls'[c] = "over" /\ ~ Mentioned(c)
      OBVIOUS
    <3>1. pending # NoEvent
      BY EventsDiffer DEF Dialed
    <3>2. CASE reply = "none"
      <4>1. wire # <<>> /\ wire[Len(wire)] = Command("dial", c) /\ Len(wire) \in 1 .. Len(wire)
        BY <3>2 DEF FlightOK, SessionInv, OthersOK
      <4>2. calls[c] = "requested"
        BY <4>1 DEF WireOK, Command
      <4> QED
        BY <1>2, <4>2 DEF QueueIsTrue
    <3>3. CASE reply # "none"
      BY <1>2, <1>3, <2>1, <3>1, <3>3 DEF Known
    <3> QED
      BY <3>2, <3>3
  <2>5. Ignored(c) => calls'[c] = "over" /\ ~ Coming(c)
    BY <1>2, <2>1 DEF Known
  <2>6. IsQueued("CALL_INCOMING", c) =>
          ~ IsQueued("CALL_ESTABLISHED", c) /\ ~ IsQueued("CALL_CLOSED", c)
    BY <2>1 DEF Known
  <2>7. pending = Incoming(c) => reply' # "none"
    BY <1>3, EventsDiffer
  <2> QED
    BY <1>1, <1>2, <1>4, <2>2, <2>3, <2>4, <2>5, <2>6, <2>7 DEF Known, Live
<1>6. SentIsAsked'
  BY <1>1, <1>3 DEF AgreeInv, SentIsAsked
<1>7. QuietKnown'
  <2>1. ASSUME NEW c \in Calls, Gone(c)
        PROVE  Gone(c)'
    BY <1>1, <1>2, <1>4, <2>1 DEF Gone
  <2> QED
    BY <1>1, <2>1 DEF AgreeInv, QuietKnown, SessionInv, OthersOK
<1>8. MuteFollows'
  <2>1. Muting' <=> Muting
    BY <1>1, <1>3 DEF Muting, ActionEvent, NoEvent, Waiting
  <2> QED
    BY <1>1, <2>1 DEF AgreeInv, MuteFollows, Muting
<1>9. OverEntries(history)' /\ OverEntries(disk)'
  BY <1>1, <1>2 DEF AgreeInv, OverEntries
<1> QED
  BY <1>1, <1>2, <1>5, <1>6, <1>7, <1>8, <1>9 DEF AgreeInv, KnownCalls

LEMMA LifecycleStepAgrees ==
  ASSUME CallInv, AgreeInv, LifecycleStep
  PROVE  AgreeInv'
<1> USE DEF CallInv, CallsOK
<1>1. CASE Start
  <2>1. /\ queue' = <<>> /\ wire' = <<>> /\ pending' = NoEvent /\ reply' = "none" /\ Blank(state')
        /\ ~ up /\ UNCHANGED <<calls, quiet, disk>> /\ history' = disk
    BY <1>1, FreshStateIsBlank DEF Start, FlightOK, SessionInv, OthersOK
  <2>2. \A c \in Calls : calls[c] \in {"unused", "over"}
    BY <2>1 DEF AgreeInv
  <2>3. \A c \in quiet : calls[c] = "over" /\ c \in Calls
    BY <2>2 DEF AgreeInv, QuietKnown, Gone, Places, OnePlace, SessionInv, OthersOK
  <2>4. OverEntries(history)' /\ OverEntries(disk)'
    BY <2>1 DEF AgreeInv, OverEntries
  <2> QED
    BY <2>1, <2>2, <2>3, <2>4, BlankAgrees
<1>2. CASE Stop \/ LoseBaresip \/ RestartFails
  BY <1>2, EndRuntimeAgrees DEF Stop, LoseBaresip, RestartFails
<1>3. CASE RestartForAccount
  <2>1. /\ queue' = <<>> /\ wire' = <<>> /\ pending' = NoEvent /\ reply' = "none" /\ Blank(state')
        /\ calls' = AllOver /\ quiet' = {} /\ UNCHANGED <<history, disk>>
    BY <1>3, FreshStateIsBlank DEF RestartForAccount, LoopReady, FlightOK, SessionInv, OthersOK
  <2>2. \A c \in Calls : calls'[c] \in {"unused", "over"} /\ (calls[c] # "unused" => calls'[c] = "over")
    BY <2>1, RecordedWasUsed
  <2>3. OverEntries(history)' /\ OverEntries(disk)'
    BY <2>1, <2>2 DEF AgreeInv, OverEntries
  <2> QED
    BY <2>1, <2>2, <2>3, BlankAgrees
<1>4. CASE Crash
  <2>1. /\ queue' = <<>> /\ wire' = <<>> /\ pending' = NoEvent /\ reply' = "none" /\ Blank(state')
        /\ calls' = AllOver /\ quiet' = {} /\ UNCHANGED disk /\ history' = <<>>
    BY <1>4, FreshStateIsBlank DEF Crash, DropBaresip, SessionInv, OthersOK
  <2>2. \A c \in Calls : calls'[c] \in {"unused", "over"} /\ (calls[c] # "unused" => calls'[c] = "over")
    BY <2>1, RecordedWasUsed
  <2>3. OverEntries(history)' /\ OverEntries(disk)'
    BY <2>1, <2>2 DEF AgreeInv, OverEntries
  <2> QED
    BY <2>1, <2>2, <2>3, BlankAgrees
<1> QED
  BY <1>1, <1>2, <1>3, <1>4, ExitAgrees DEF LifecycleStep

LEMMA SameAgrees ==
  ASSUME CallInv, AgreeInv, UNCHANGED vars
  PROVE  AgreeInv'
<1>1. UNCHANGED <<state, history, disk, pending, reply, queue, wire, up, calls, quiet>>
  BY DEF vars
<1>2. \A c \in Calls : /\ Mentioned(c)' <=> Mentioned(c)
                       /\ \A type : IsQueued(type, c)' <=> IsQueued(type, c)
                       /\ Dialed(c)' <=> Dialed(c)
                       /\ Ignored(c)' <=> Ignored(c)
                       /\ Coming(c)' <=> Coming(c)
  BY <1>1 DEF Mentioned, IsQueued, Dialed, Ignored, Coming
<1>3. KnownCalls'
  BY <1>1, <1>2 DEF AgreeInv, KnownCalls, Known
<1>4. SentIsAsked' /\ OverEntries(history)' /\ OverEntries(disk)'
  BY <1>1 DEF AgreeInv, SentIsAsked, OverEntries
<1>5. QuietKnown' /\ MuteFollows'
  BY <1>1, <1>2 DEF AgreeInv, QuietKnown, Gone, MuteFollows, Muting, CallInv, SessionInv, OthersOK
<1> QED
  BY <1>1, <1>3, <1>4, <1>5 DEF AgreeInv

LEMMA AgreeInvInit == Init => AgreeInv
<1> SUFFICES ASSUME Init
             PROVE  AgreeInv
  OBVIOUS
<1>1. \A c \in Calls : /\ ~ Mentioned(c) /\ (\A type : ~ IsQueued(type, c)) /\ calls[c] \in {"unused", "over"}
                       /\ ~ Dialed(c) /\ ~ Ignored(c) /\ state.target # c /\ pending # Incoming(c)
                       /\ ~ Coming(c)
  <2>1. \A c \in Calls : ~ Mentioned(c) /\ (\A type : ~ IsQueued(type, c)) /\ calls[c] \in {"unused", "over"}
    <3>1. queue = <<>> /\ \A c \in Calls : calls[c] \in {"unused", "over"}
      BY DEF Init
    <3>2. Len(queue) = 0
      BY <3>1
    <3>3. \A c : ~ Mentioned(c)
      BY <3>2 DEF Mentioned
    <3>4. \A type, c : ~ IsQueued(type, c)
      BY <3>2 DEF IsQueued
    <3> QED
      BY <3>1, <3>3, <3>4
  <2>2. \A c \in Calls : state.target # c /\ ~ Ignored(c)
    BY NoCallAssumption DEF Init, NewState, Ignored, callIDWasIgnored
  <2> QED
    BY <2>1, <2>2, EventsDiffer DEF Init, Dialed, Coming
<1>2. KnownCalls
  BY <1>1 DEF KnownCalls, Known, Live
<1>3. /\ SentIsAsked /\ QuietKnown /\ MuteFollows /\ state.callID = NoCall
  BY DEF Init, SentIsAsked, QuietKnown, MuteFollows, NewState
<1>4. OverEntries(history) /\ OverEntries(disk)
  <2>1. \A i \in DOMAIN Saved : Saved[i].call \in Calls /\ i \in EntriesOf(Saved[i].call, Saved)
    BY SessionAssumption DEF EntriesOf
  <2> QED
    BY <2>1, SavedAreOver DEF OverEntries, Recorded
<1> QED
  BY <1>1, <1>2, <1>3, <1>4 DEF AgreeInv

LEMMA AgreeInvStep ==
  ASSUME Punctual
  PROVE  CallInv /\ CallInv' /\ AgreeInv /\ [Next]_vars /\ [KeepsIgnored]_vars => AgreeInv'
<1> SUFFICES ASSUME CallInv, CallInv', AgreeInv, [Next]_vars, [KeepsIgnored]_vars
             PROVE  AgreeInv'
  OBVIOUS
<1>1. CASE UNCHANGED vars
  BY <1>1, SameAgrees
<1>2. CASE KeepsIgnored /\ Next
  BY <1>2, SessionStepAgrees, BaresipStepAgrees, LifecycleStepAgrees DEF Next
<1> QED
  BY <1>1, <1>2

LEMMA AgreeInvariant ==
  ASSUME Punctual
  PROVE  Spec /\ RingKeepsIgnored => []AgreeInv
<1>1. Init => AgreeInv
  BY AgreeInvInit
<1>2. CallInv /\ CallInv' /\ AgreeInv /\ [Next]_vars /\ [KeepsIgnored]_vars => AgreeInv'
  BY AgreeInvStep
<1> QED
  BY <1>1, <1>2, CallInvariant, PTL DEF Spec, RingKeepsIgnored

\* A history entry is about a call that is over, whatever is refused, written or
\* disrupted: immediateIncomingHistory is committed only after the hangup it
\* goes with was executed (applyDomainEvent).
THEOREM RecordedCallsAreOver ==
  ASSUME Punctual
  PROVE  Spec /\ RingKeepsIgnored => []RecordedMeansOver
<1>1. AgreeInv => RecordedMeansOver
  BY DEF AgreeInv, OverEntries, RecordedMeansOver
<1> QED
  BY <1>1, AgreeInvariant, PTL

\* When nothing is on its way, a call baresip has is the one the session shows:
\* no caller is taken and forgotten, and none turned away is still there
\* (reduceIncoming, rejectBusy, rejectForDND).
THEOREM LiveCallsAreShown ==
  ASSUME Punctual
  PROVE  Spec /\ RingKeepsIgnored => []NoOrphanCall
<1>1. CallInv /\ AgreeInv => NoOrphanCall
  <2> SUFFICES ASSUME CallInv, AgreeInv, Quiescent, NEW c \in Calls, calls[c] \in Live
               PROVE  state.callState # "idle" /\ Tracked = c
    BY DEF NoOrphanCall
  <2>1. /\ ~ IsQueued("CALL_INCOMING", c) /\ ~ Dialed(c) /\ pending # Incoming(c)
    BY EventsDiffer DEF Quiescent, LoopReady, IsQueued, Dialed
  <2>2. state.target = c
    BY <2>1, LiveIsKnown
  <2>3. state.callState # "idle"
    BY <2>2, NoCallAssumption DEF CallInv, CallsOK, StateIsTrue, Shaped
  <2> QED
    BY <2>2, <2>3 DEF Tracked, AgreeInv
<1> QED
  BY <1>1, CallInvariant, AgreeInvariant, PTL

\* When nothing is on its way, the mute state shown is that of baresip's call:
\* it follows the answers to toggle_mute, and both start unmuted (reduceAction,
\* reduceEstablished).
THEOREM MuteStateAgrees ==
  ASSUME Punctual
  PROVE  Spec /\ RingKeepsIgnored => []MuteAgrees
<1>1. CallInv /\ AgreeInv => MuteAgrees
  <2> SUFFICES ASSUME CallInv, AgreeInv, Quiescent, state.callState = "active"
               PROVE  state.muted <=> Tracked \in quiet
    BY DEF MuteAgrees
  <2>1. Tracked = state.target
    BY DEF Tracked, AgreeInv
  <2>2. state.muted \in BOOLEAN
    BY DEF CallInv, SessionInv, OthersOK, State
  <2>3. ~ Muting
    BY DEF Muting, Quiescent, LoopReady, ActionEvent, NoEvent
  <2> QED
    BY <2>1, <2>2, <2>3 DEF AgreeInv, MuteFollows, Muting
<1> QED
  BY <1>1, CallInvariant, AgreeInvariant, PTL

-----------------------------------------------------------------------------
(* Nothing is left out of the history *)

\* The program runs on and nobody is refused by ValidateCallHistoryEntry.
Undisrupted == Disruptions = {} /\ Oversized = {}

\* A call that is over is recorded, or is about to be.
Accounted(c) ==
  \/ EntriesOf(c, history) # {}
  \/ IsQueued("CALL_CLOSED", c) /\ state.target = c
  \/ pending = Incoming(c) \/ Dialed(c)

RecordedInv ==
  /\ up = running
  /\ running \/ \A c \in Calls : calls[c] = "unused" \/ (calls[c] = "over" /\ EntriesOf(c, disk) # {})
  /\ running /\ Len(history) < MaxHistory => \A c \in Calls : calls[c] = "over" => Accounted(c)

\* Below the limit no entry gets lost.
LEMMA MergeKeepsEntries ==
  ASSUME HistoryOK, Oversized = {}, NEW entry \in Entries \cup {NoEntry}, NEW c \in Calls,
         history' = mergeCallHistory(history, entry), Len(history') < MaxHistory,
         EntriesOf(c, history) # {} \/ (entry # NoEntry /\ entry.call = c)
  PROVE  EntriesOf(c, history') # {}
<1>1. CASE entry = NoEntry
  BY <1>1 DEF mergeCallHistory
<1>2. CASE entry # NoEntry
  <2>1. /\ history' \in Seq(Entries) /\ history'[1] = entry
        /\ Len(history') = IF Len(history) < MaxHistory THEN Len(history) + 1 ELSE MaxHistory
        /\ \A i \in 2 .. Len(history') : history'[i] = history[i - 1]
    BY <1>2, MergeIs DEF HistoryOK
  <2>2. Len(history') = Len(history) + 1 /\ Len(history) \in Nat
    BY <2>1, SessionAssumption DEF HistoryOK
  <2>3. CASE entry.call = c
    <3>1. 1 \in DOMAIN history' /\ history'[1].call = c
      BY <2>1, <2>2, <2>3
    <3> QED
      BY <3>1 DEF EntriesOf
  <2>4. ASSUME NEW i \in EntriesOf(c, history)
        PROVE  EntriesOf(c, history') # {}
    <3>1. i \in 1 .. Len(history) /\ history[i].call = c
      BY DEF EntriesOf, HistoryOK
    <3>2. i + 1 \in 2 .. Len(history') /\ i + 1 \in DOMAIN history' /\ (i + 1) - 1 = i
      BY <2>1, <2>2, <3>1
    <3>3. history'[i + 1].call = c
      BY <2>1, <3>1, <3>2
    <3> QED
      BY <3>2, <3>3 DEF EntriesOf
  <2> QED
    BY <1>2, <2>3, <2>4
<1> QED
  BY <1>1, <1>2

LEMMA MergeGrows ==
  ASSUME HistoryOK, NEW entry \in Entries \cup {NoEntry}, Oversized = {},
         history' = mergeCallHistory(history, entry), Len(history') < MaxHistory
  PROVE  Len(history) < MaxHistory
<1>1. CASE entry = NoEntry
  BY <1>1 DEF mergeCallHistory
<1>2. CASE entry # NoEntry
  <2>1. Len(history') = IF Len(history) < MaxHistory THEN Len(history) + 1 ELSE MaxHistory
    BY <1>2, MergeIs DEF HistoryOK
  <2> QED
    BY <2>1, SessionAssumption DEF HistoryOK
<1> QED
  BY <1>1, <1>2

\* The call the session shows is accounted for by its CLOSED.
LEMMA ShownIsAccounted ==
  ASSUME CallInv', AgreeInv', running', up', NEW c \in Calls, calls'[c] = "over", state'.target = c
  PROVE  Accounted(c)'
<1>1. state'.callState # "idle" /\ Tracked' = c
  BY NoCallAssumption DEF CallInv, CallsOK, StateIsTrue, Shaped, AgreeInv, Tracked
<1> QED
  BY <1>1 DEF CallInv, CallsOK, StateIsTrue, TrackedCallIsReal, Live, Accounted

\* A call that is over and that the event drops is in the entry.
Drops(e, entry) ==
  \A c \in Calls : calls[c] = "over" /\ state'.target # c
      /\ (state.target = c \/ e \in {Incoming(c), ActionEvent("dial", c)})
    => entry # NoEntry /\ entry.call = c

\* A settled event leaves every call that is over accounted for.
LEMMA SettledAccounts ==
  ASSUME CallInv, CallInv', AgreeInv', RecordedInv, Undisrupted, running,
         UNCHANGED <<running, up, calls>>,
         NEW e, pending \in {NoEvent, e},
         NEW entry \in Entries \cup {NoEntry}, appendCallHistory(entry), Drops(e, entry)
  PROVE  RecordedInv'
<1>1. up /\ up' /\ running'
  BY DEF RecordedInv
<1>2. ASSUME Len(history') < MaxHistory, NEW c \in Calls, calls'[c] = "over"
      PROVE  Accounted(c)'
  <2>1. /\ HistoryOK /\ history' = mergeCallHistory(history, entry)
        /\ Len(history) < MaxHistory
    BY <1>2, MergeGrows DEF CallInv, SessionInv, appendCallHistory, Undisrupted
  <2>2. CASE state'.target = c
    BY <1>1, <1>2, <2>2, ShownIsAccounted
  <2>3. CASE state'.target # c
    <3>1. EntriesOf(c, history) # {} \/ (entry # NoEntry /\ entry.call = c)
      BY <1>2, <2>1, <2>3, EventsDiffer DEF RecordedInv, Accounted, Dialed, Drops
    <3>2. EntriesOf(c, history') # {}
      BY <1>2, <2>1, <3>1, MergeKeepsEntries DEF Undisrupted
    <3> QED
      BY <3>2 DEF Accounted, EntriesOf
  <2> QED
    BY <2>2, <2>3
<1> QED
  BY <1>1, <1>2 DEF RecordedInv

LEMMA CommitAccounts ==
  ASSUME CallInv, CallInv', AgreeInv, AgreeInv', RecordedInv, Undisrupted, running,
         NEW e \in BaresipEvents \cup UserEvents, Settles(e), Committable(e), Commit(Reduce(state, e))
  PROVE  RecordedInv'
<1>1. Reduce(state, e).entry \in Entries \cup {NoEntry}
  BY EventReduces DEF TransitionOK, CallInv, SessionInv, OthersOK
<1>2. Accounts(e, Reduce(state, e).entry)
  BY CommitTracks DEF Commit
<1>3. appendCallHistory(Reduce(state, e).entry) /\ UNCHANGED <<running, up, calls>>
  BY DEF Commit, Settles
<1> DEFINE entry == Reduce(state, e).entry
<1>4. Drops(e, entry)
  BY <1>2 DEF Accounts, Drops
<1>5. pending \in {NoEvent, e} /\ entry \in Entries \cup {NoEntry} /\ appendCallHistory(entry)
  BY <1>1, <1>3 DEF Committable
<1> HIDE DEF entry
<1> QED
  BY <1>3, <1>4, <1>5, SettledAccounts

\* The history stays, and so does what a call that is over waits for.
LEMMA SameHistoryAccounts ==
  ASSUME CallInv', AgreeInv', RecordedInv, UNCHANGED <<running, up, history>>, running,
         state'.target = state.target,
         \A c \in Calls : /\ pending = Incoming(c) \/ Dialed(c) => pending' = pending
                          /\ calls'[c] = "over" /\ calls[c] # "over" =>
                               state.target = c \/ pending' = Incoming(c) \/ Dialed(c)'
  PROVE  RecordedInv'
<1>1. up' /\ running'
  BY DEF RecordedInv
<1>2. ASSUME Len(history') < MaxHistory, NEW c \in Calls, calls'[c] = "over"
      PROVE  Accounted(c)'
  <2>1. CASE state.target = c
    BY <1>1, <1>2, <2>1, ShownIsAccounted
  <2>2. CASE state.target # c
    <3>1. EntriesOf(c, history) # {} \/ pending' = Incoming(c) \/ Dialed(c)'
      BY <1>2, <2>2 DEF RecordedInv, Accounted, Dialed
    <3> QED
      BY <3>1 DEF Accounted, EntriesOf
  <2> QED
    BY <2>1, <2>2
<1> QED
  BY <1>1, <1>2 DEF RecordedInv

LEMMA ApplyAccounts ==
  ASSUME CallInv, CallInv', AgreeInv, AgreeInv', RecordedInv, Undisrupted, running, pending = NoEvent,
         NEW e, Takes(e), applyDomainEvent(e), UNCHANGED <<running, up, talked>>,
         \/ e \in BaresipEvents
         \/ \E type \in ActionTypes, target \in CallOrNone :
              /\ e = ActionEvent(type, target)
              /\ type = "dial" => target \in Calls /\ calls[target] = "unused"
  PROVE  RecordedInv'
<1> DEFINE t == Reduce(state, e)
<1>1. /\ up /\ reply = "none" /\ e \in BaresipEvents \cup UserEvents
      /\ \A c \in Calls : pending # Incoming(c) /\ ~ Dialed(c)
  BY EventsDiffer DEF RecordedInv, CallInv, CallsOK, FlightOK, Dialed, UserEvents
<1> HIDE DEF t
<1>2. CASE t.err /\ UNCHANGED <<state, history, disk, pending, reply, wire, calls>>
  BY <1>1, <1>2, SameHistoryAccounts
<1>3. CASE t.command = NoCommand /\ Commit(t) /\ UNCHANGED <<pending, reply, wire, calls>>
  <2>1. Settles(e) /\ Committable(e)
    BY <1>1, <1>3, ApplyCommits DEF Settles, t
  <2> QED
    BY <1>1, <1>3, <2>1, CommitAccounts DEF t
<1>4. CASE calls' = Requested(t.command) /\ UNCHANGED <<state, history, disk, reply>>
  <2>1. \A c \in Calls : calls'[c] = "over" => calls[c] = "over"
    BY <1>4 DEF Requested, CallInv, SessionInv, OthersOK
  <2> QED
    BY <1>1, <1>4, <2>1, SameHistoryAccounts
<1> QED
  BY <1>1, <1>2, <1>3, <1>4 DEF applyDomainEvent, t

LEMMA SessionStepAccounts ==
  ASSUME Punctual, CallInv, CallInv', AgreeInv, AgreeInv', RecordedInv, Undisrupted, SessionStep
  PROVE  RecordedInv'
<1>1. ASSUME NEW type \in ActionTypes, NEW target \in CallOrNone, UserRequest(type, target)
      PROVE  RecordedInv'
  BY <1>1, TakesAction, ApplyAccounts DEF UserRequest, LoopReady
<1>2. CASE HandleBaresipEvent
  BY <1>2, TakesHead, ApplyAccounts DEF HandleBaresipEvent, LoopReady
<1>3. CASE FinishCommand
  <2>1. /\ running /\ pending # NoEvent /\ reply # "none" /\ wire = <<>>
        /\ pending \in BaresipEvents \cup UserEvents
        /\ UNCHANGED <<running, up, calls>>
    BY <1>3, PendingIs DEF FinishCommand, AgreeInv, SentIsAsked, baresipVars
  <2>2. CASE reply = "ok" /\ Commit(Reduce(state, pending))
    <3>1. Settles(pending) /\ Committable(pending)
      BY <1>3, <2>1, <2>2, TakesPending, FinishCommits DEF FinishCommand, Settles, baresipVars
    <3> QED
      BY <2>1, <2>2, <3>1, CommitAccounts
  <2>3. CASE reply = "refused" /\ Abandon(pending)
    <3> DEFINE entry == failedDialHistory(pending)
    <3>1. entry \in Entries \cup {NoEntry} /\ appendCallHistory(entry) /\ UNCHANGED state
      BY <2>1, <2>3, FailedDialType DEF Abandon
    <3>2. ASSUME NEW c \in Calls, pending = ActionEvent("dial", c)
          PROVE  entry # NoEntry /\ entry.call = c
      BY <3>2 DEF failedDialHistory, ActionEvent, Entry, NoEntry
    <3>3. \A c \in Calls : pending # Incoming(c)
      BY <2>3 DEF AgreeInv, KnownCalls, Known, RecordedInv, CallInv, CallsOK, FlightOK
    <3>4. Drops(pending, entry)
      BY <3>1, <3>2, <3>3 DEF Drops
    <3> HIDE DEF entry
    <3> QED
      BY <2>1, <3>1, <3>4, SettledAccounts
  <2> QED
    BY <1>3, <2>1, <2>2, <2>3 DEF FinishCommand, CallInv, SessionInv, OthersOK
<1>4. CASE CommandTimesOut
  BY <1>4 DEF CommandTimesOut, Punctual
<1> QED
  BY <1>1, <1>2, <1>3, <1>4 DEF SessionStep

\* A call that ends in baresip is the one shown, or in the hand of the loop.
LEMMA BaresipStepAccounts ==
  ASSUME Punctual, CallInv, CallInv', AgreeInv, AgreeInv', RecordedInv, BaresipStep
  PROVE  RecordedInv'
<1>1. /\ UNCHANGED <<running, state, history, disk, pending, up>> /\ up /\ running
  BY DEF BaresipStep, PeerCalls, PeerAnswers, PeerEnds, RegistrarReports, BaresipExecutes,
         snapshotVars, flightVars, baresipVars, RecordedInv
<1>2. \A c \in Calls : calls[c] \in Live /\ ~ IsQueued("CALL_INCOMING", c)
                         => state.target = c \/ pending = Incoming(c) \/ Dialed(c)
  BY LiveIsKnown
<1>3. ASSUME NEW c \in Calls, calls'[c] = "over", calls[c] # "over"
      PROVE  (calls[c] \in Live /\ ~ IsQueued("CALL_INCOMING", c)) \/ Dialed(c)
  <2>1. calls \in [Calls -> CallStatuses]
    BY DEF CallInv, SessionInv, OthersOK
  <2>2. ASSUME NEW d \in Calls, PeerCalls(d) \/ PeerAnswers(d)
        PROVE  FALSE
    BY <1>3, <2>2, <2>1 DEF PeerCalls, PeerAnswers
  <2>3. ASSUME NEW d \in Calls, PeerEnds(d)
        PROVE  d = c /\ calls[c] \in Live /\ ~ IsQueued("CALL_INCOMING", c)
    BY <1>3, <2>3, <2>1 DEF PeerEnds, Punctual
  <2>4. CASE BaresipExecutes
    <3> DEFINE command == Reduce(state, pending).command
    <3>1. pending # NoEvent /\ wire = <<command>> /\ command # NoCommand /\ state \in State
      BY <2>4 DEF BaresipExecutes, AgreeInv, SentIsAsked, CallInv, SessionInv, OthersOK
    <3>2. PICK answer : Perform(command, answer)
      <4>1. Head(wire) = command
        BY <3>1
      <4> QED
        BY <2>4, <4>1 DEF BaresipExecutes
    <3>3. command.kind = "dial" => Dialed(command.call)
      <4>1. ASSUME NEW d \in Calls, pending = ActionEvent("dial", d)
            PROVE  command.call = d
        <5>1. command \in {NoCommand, Command("dial", d)}
          BY <3>1, <4>1, ActionMoves DEF ActionTypes, CallOrNone
        <5> QED
          BY <3>1, <5>1 DEF Command
      <4>2. ASSUME NEW d \in Calls, pending = Incoming(d)
            PROVE  command.kind # "dial"
        BY <3>1, <4>2, IncomingMoves DEF Incoming
      <4>3. ASSUME NEW type \in ActionTypes \ {"dial"}, pending = ActionEvent(type, NoCall)
            PROVE  command.kind # "dial"
        BY <3>1, <4>3, ActionSends
      <4> HIDE DEF command
      <4> QED
        BY <3>1, <4>1, <4>2, <4>3 DEF CallInv, CallsOK, FlightOK, Dialed
    <3> HIDE DEF command
    <3>4. CASE command.kind = "dial" /\ Dial(command.call, answer)
      BY <1>3, <2>1, <3>3, <3>4 DEF Dial
    <3>5. ASSUME NEW d \in Addressed(command, Live), Hangup(d, answer)
          PROVE  d = c /\ calls[c] \in Live /\ (command.call = c \/ ~ IsQueued("CALL_INCOMING", c))
      BY <1>3, <2>1, <3>5 DEF Hangup, Addressed, Punctual
    <3>6. command.call \in Calls /\ command.kind \in {"hangup", "reject"}
            => pending = Incoming(command.call) /\ ~ IsQueued("CALL_INCOMING", command.call)
      <4>1. ASSUME NEW d \in Calls, pending = Incoming(d)
            PROVE  /\ command.call \in Calls => command.call = d
                   /\ ~ IsQueued("CALL_INCOMING", d)
        <5>1. command \in {NoCommand, Command("hangup", d), Command("hangup", NoCall)}
          BY <3>1, <4>1, IncomingCommands DEF Incoming, command
        <5> QED
          BY <4>1, <5>1, NoCallAssumption DEF Command, NoCommand, CallInv, CallsOK, Places, OnePlace
      <4>2. ASSUME NEW d \in Calls, pending = ActionEvent("dial", d)
            PROVE  command.kind = "dial"
        <5>1. command \in {NoCommand, Command("dial", d)}
          BY <3>1, <4>2, ActionMoves DEF ActionTypes, CallOrNone, command
        <5> QED
          BY <3>1, <5>1 DEF Command
      <4>3. ASSUME NEW type \in ActionTypes \ {"dial"}, pending = ActionEvent(type, NoCall)
            PROVE  command.call = NoCall
        BY <3>1, <4>3, ActionSends DEF command
      <4> QED
        BY <3>1, <4>1, <4>2, <4>3, NoCallAssumption DEF CallInv, CallsOK, FlightOK
    <3>7. ASSUME NEW d \in Calls, Accept(d, answer) \/ ToggleMute(d, answer) \/ NothingToDo(answer)
          PROVE  FALSE
      BY <1>3, <2>1, <3>7 DEF Accept, ToggleMute, NothingToDo
    <3> QED
      BY <3>2, <3>4, <3>5, <3>6, <3>7 DEF Perform, Addressed
  <2>5. ASSUME NEW type, RegistrarReports(type)
        PROVE  FALSE
    BY <1>3, <2>5 DEF RegistrarReports, baresipVars
  <2> QED
    BY <2>2, <2>3, <2>4, <2>5 DEF BaresipStep
<1>4. \A c \in Calls : Dialed(c)' <=> Dialed(c)
  BY <1>1 DEF Dialed
<1> QED
  BY <1>1, <1>2, <1>3, <1>4, SameHistoryAccounts

LEMMA RecordedInvStep ==
  ASSUME Punctual, Undisrupted
  PROVE  CallInv /\ CallInv' /\ AgreeInv /\ AgreeInv' /\ RecordedInv /\ [Next]_vars => RecordedInv'
<1> SUFFICES ASSUME CallInv, CallInv', AgreeInv, AgreeInv', RecordedInv, [Next]_vars
             PROVE  RecordedInv'
  OBVIOUS
<1>1. CASE LifecycleStep
  <2>1. CASE Start
    <3>1. /\ running' /\ up' /\ calls' = calls /\ history' = disk
          /\ \A c \in Calls : calls[c] = "unused" \/ EntriesOf(c, disk) # {}
      BY <2>1 DEF Start, RecordedInv
    <3>2. \A c \in Calls : calls'[c] = "over" => EntriesOf(c, history') # {}
      BY <3>1
    <3> QED
      BY <3>1, <3>2 DEF RecordedInv, Accounted, EntriesOf
  <2>2. CASE LoseBaresip
    BY <2>2 DEF LoseBaresip, LoopReady, RecordedInv
  <2> QED
    BY <1>1, <2>1, <2>2
       DEF LifecycleStep, Undisrupted, Stop, BaresipExits, RestartForAccount, RestartFails, Crash
<1>2. CASE UNCHANGED vars
  <2>1. ASSUME NEW c \in Calls, Accounted(c)
        PROVE  Accounted(c)'
    BY <1>2, <2>1 DEF vars, Accounted, EntriesOf, IsQueued, Dialed
  <2> QED
    BY <1>2, <2>1 DEF RecordedInv, vars
<1> QED
  BY <1>1, <1>2, SessionStepAccounts, BaresipStepAccounts DEF Next

\* Until the history is full and older entries make room for newer ones, every
\* call that is over is in it once nothing is on its way: as a closed call, as
\* one turned away or as a failed dial, even where the file cannot be written
\* and dials are refused (appendCallHistory).
THEOREM EveryAttemptIsRecorded ==
  ASSUME Punctual, Undisrupted
  PROVE  Spec /\ RingKeepsIgnored => [](Len(history) < MaxHistory => EveryAttemptRecorded)
<1>1. Init => RecordedInv
  <2> SUFFICES ASSUME Init PROVE RecordedInv
    OBVIOUS
  <2>1. (\A c : EntriesOf(c, history) = {}) /\ ~ running /\ up = running
    <3>1. history = <<>> /\ ~ running /\ ~ up /\ running \in BOOLEAN /\ up \in BOOLEAN
      BY DEF Init
    <3> QED
      BY <3>1 DEF EntriesOf
  <2>2. \A c \in Calls : calls[c] = "unused" \/ (calls[c] = "over" /\ EntriesOf(c, disk) # {})
    BY <2>1, SavedAreOver DEF Recorded
  <2> QED
    BY <2>1, <2>2 DEF RecordedInv
<1>2. CallInv /\ CallInv' /\ AgreeInv /\ AgreeInv' /\ RecordedInv /\ [Next]_vars => RecordedInv'
  BY RecordedInvStep
<1>3. RecordedInv => (Len(history) < MaxHistory => EveryAttemptRecorded)
  <2> SUFFICES ASSUME RecordedInv, Len(history) < MaxHistory, Quiescent,
                      NEW c \in Calls, calls[c] = "over"
               PROVE  EntriesOf(c, history) # {}
    BY DEF EveryAttemptRecorded
  <2>1. running /\ ~ IsQueued("CALL_CLOSED", c) /\ pending # Incoming(c) /\ ~ Dialed(c)
    BY EventsDiffer DEF Quiescent, LoopReady, IsQueued, Dialed
  <2> QED
    BY <2>1 DEF RecordedInv, Accounted
<1> QED
  BY <1>1, <1>2, <1>3, CallInvariant, AgreeInvariant, PTL DEF Spec

-----------------------------------------------------------------------------
(* A ring with a slot for every attempt *)

\* The ring has a slot for every attempt and its index does not wrap.
RingSuffices ==
  /\ IsFiniteSet(Calls) /\ Cardinality(Calls) <= IgnoredSlots
  /\ IgnoredSlots < IndexModulus

Fills(s, u, c) ==
  /\ ~ callIDWasIgnored(s, c)
  /\ u.ignored = [s.ignored EXCEPT ![s.nextIgnored % IgnoredSlots] = c]
  /\ u.nextIgnored = (s.nextIgnored + 1) % IndexModulus

SameRing(s, u) == u.ignored = s.ignored /\ u.nextIgnored = s.nextIgnored

FreshRing(s) == s.ignored = NewState.ignored /\ s.nextIgnored = 0

\* The ids are in the slots below nextIgnored, each once.
RingInOrder ==
  /\ state.nextIgnored \in 0 .. IgnoredSlots
  /\ \A i \in 0 .. IgnoredSlots - 1 : state.ignored[i] \in Calls <=> i < state.nextIgnored
  /\ \A i, j \in 0 .. IgnoredSlots - 1 :
       state.ignored[i] = state.ignored[j] /\ state.ignored[i] # NoCall => i = j

\* An event leaves the ring alone or puts one id that is not in it.
LEMMA RingMoves ==
  ASSUME NEW s \in State, NEW e \in BaresipEvents \cup UserEvents
  PROVE  LET u == Reduce(s, e).state IN SameRing(s, u) \/ \E c \in Calls : Fills(s, u, c)
<1> DEFINE t == Reduce(s, e)
<1>1. ASSUME NEW type \in ActionTypes, NEW target, e = ActionEvent(type, target)
      PROVE  SameRing(s, t.state)
  <2>1. t = reduceAction(s, type, target)
    BY <1>1 DEF Reduce, ActionEvent
  <2>2. CASE type = "dial"
    <3>1. \/ t = Failed(s)
          \/ t = [Result(beginCall(s, "outgoing", "outgoing", NoCall, target))
                    EXCEPT !.command = Command("dial", target)]
      BY <2>1, <2>2, Zenon DEF reduceAction
    <3>2. \/ t.state = s
          \/ t.state = beginCall(s, "outgoing", "outgoing", NoCall, target)
      BY <3>1 DEF Failed, Result
    <3> QED
      BY <3>2 DEF beginCall, State, SameRing
  <2>3. CASE type # "dial"
    BY <2>1, <2>3 DEF reduceAction, Result, State, SameRing
  <2> QED
    BY <2>2, <2>3
<1>2. ASSUME NEW type \in CallEventTypes, NEW c \in Calls, e = CallEvent(type, c, c)
      PROVE  SameRing(s, t.state) \/ Fills(s, t.state, c)
  <2>1. t = reduceCall(s, type, c, c)
    BY <1>2 DEF Reduce, CallEvent
  <2>2. \/ t = Result(s)
        \/ t = reduceIncoming(s, c, c) /\ ~ callIDWasIgnored(s, c)
        \/ t = reduceEstablished(s, c) \/ t = reduceClosed(s, c)
    BY <2>1 DEF reduceCall, CallEventTypes
  <2>3. CASE t = Result(s)
    BY <2>3 DEF Result, SameRing
  <2>4. CASE t = reduceIncoming(s, c, c) /\ ~ callIDWasIgnored(s, c)
    <3>1. t.state \in {s, rememberIgnoredCall(s, c), beginCall(s, "incoming", "incoming", c, c)}
      <4>1. CASE t = Result(s)
        BY <4>1 DEF Result
      <4>2. CASE t = rejectForDND(s, c, c)
        BY <4>2 DEF rejectForDND, Result
      <4>3. CASE t = rejectBusy(s, c, c)
        BY <4>3 DEF rejectBusy, Result
      <4>4. CASE t = [Result(beginCall(s, "incoming", "incoming", c, c))
                        EXCEPT !.notification = "incoming_call"]
        BY <4>4 DEF Result
      <4> QED
        BY <2>4, <4>1, <4>2, <4>3, <4>4 DEF reduceIncoming
    <3> QED
      BY <2>4, <3>1, NoCallAssumption DEF rememberIgnoredCall, beginCall, State, SameRing, Fills
  <2>5. CASE t = reduceEstablished(s, c)
    BY <2>5 DEF reduceEstablished, Result, State, SameRing
  <2>6. CASE t = reduceClosed(s, c)
    BY <2>6 DEF reduceClosed, Result, State, SameRing
  <2> QED
    BY <2>2, <2>3, <2>4, <2>5, <2>6
<1>3. ASSUME NEW type \in RegisterEventTypes, e = RegisterEvent(type)
      PROVE  SameRing(s, t.state)
  <2>1. t = reduceRegister(s, type)
    BY <1>3 DEF Reduce, RegisterEvent
  <2>2. PICK registration : t = setRegistration(s, registration)
    BY <2>1 DEF reduceRegister, RegisterEventTypes
  <2>3. t.state = [s EXCEPT !.registration = registration, !.registered = registration = "registered"]
    BY <2>2 DEF setRegistration, Result
  <2> QED
    BY <2>3 DEF State, SameRing
<1> HIDE DEF t
<1>4. \/ \E type \in ActionTypes : \E target : e = ActionEvent(type, target)
      \/ \E type \in CallEventTypes : \E c \in Calls : e = CallEvent(type, c, c)
      \/ \E type \in RegisterEventTypes : e = RegisterEvent(type)
  BY DEF UserEvents, BaresipEvents
<1> QED
  BY <1>1, <1>2, <1>3, <1>4 DEF t

LEMMA FreshStateRing ==
  ASSUME state \in State
  PROVE  /\ FreshRing(NewState) /\ FreshRing([NewState EXCEPT !.dnd = state.dnd])
         /\ \A info \in Infos : FreshRing(FreshState(info))
<1> DEFINE kept == [NewState EXCEPT !.dnd = state.dnd]
<1>1. FreshRing(NewState) /\ FreshRing(kept)
  BY DEF FreshRing, NewState
<1>2. ASSUME NEW info \in Infos
      PROVE  FreshRing(Reduce(kept, RegistrationSnapshot(info)).state)
  <2>1. Reduce(kept, RegistrationSnapshot(info)) = reduceRegistrationSnapshot(kept, info)
    BY DEF Reduce, RegistrationSnapshot
  <2>2. \E registration :
          reduceRegistrationSnapshot(kept, info) \in {Result(kept), setRegistration(kept, registration)}
    BY SessionAssumption DEF reduceRegistrationSnapshot, RegistrationInfos
  <2>3. PICK registration :
          Reduce(kept, RegistrationSnapshot(info)) \in {Result(kept), setRegistration(kept, registration)}
    BY <2>1, <2>2
  <2>4. Reduce(kept, RegistrationSnapshot(info)).state \in
          {kept, [kept EXCEPT !.registration = registration, !.registered = registration = "registered"]}
    BY <2>3 DEF Result, setRegistration
  <2> QED
    BY <1>1, <2>4 DEF FreshRing, NewState
<1> QED
  BY <1>1, <1>2 DEF FreshState

\* A step keeps the state, reduces an event, or begins or ends a runtime.
LEMMA StateMoves ==
  ASSUME CallInv, [Next]_vars
  PROVE  \/ UNCHANGED state
         \/ \E e \in BaresipEvents \cup UserEvents : state' = Reduce(state, e).state
         \/ queue' = <<>> /\ FreshRing(state')
<1>1. ASSUME NEW e \in BaresipEvents \cup UserEvents, applyDomainEvent(e)
      PROVE  UNCHANGED state \/ state' = Reduce(state, e).state
  BY <1>1 DEF applyDomainEvent, Commit, Abandon
<1>2. CASE SessionStep
  <2>1. ASSUME NEW type \in ActionTypes, NEW target \in CallOrNone, UserRequest(type, target)
        PROVE  \E e \in BaresipEvents \cup UserEvents : UNCHANGED state \/ state' = Reduce(state, e).state
    BY <1>1, <2>1 DEF UserRequest, UserEvents
  <2>2. CASE HandleBaresipEvent
    BY <1>1, <2>2, TakesHead DEF HandleBaresipEvent
  <2>3. CASE FinishCommand
    BY <2>3, PendingIs DEF FinishCommand, Commit, Abandon
  <2>4. CASE CommandTimesOut
    BY <2>4 DEF CommandTimesOut, Abandon
  <2> QED
    BY <1>2, <2>1, <2>2, <2>3, <2>4 DEF SessionStep
<1>3. CASE BaresipStep
  BY <1>3 DEF BaresipStep, PeerCalls, PeerAnswers, PeerEnds, RegistrarReports, BaresipExecutes, snapshotVars
<1>4. CASE LifecycleStep
  <2>1. state \in State
    BY DEF CallInv, SessionInv, OthersOK
  <2>2. CASE Start
    BY <2>1, <2>2, FreshStateRing DEF Start, CallInv, CallsOK, FlightOK
  <2>3. CASE BaresipExits
    BY <2>3 DEF BaresipExits, snapshotVars
  <2>4. CASE Stop \/ LoseBaresip \/ RestartFails
    <3>1. \E e \in BOOLEAN : EndRuntime(e)
      BY <2>4 DEF Stop, LoseBaresip, RestartFails
    <3>2. PICK e \in BOOLEAN : EndedOnce(e)
      BY <2>1, <3>1, EndRuntimeOnce
    <3>3. queue' = <<>> /\ state' = [NewState EXCEPT !.dnd = state.dnd]
      BY <3>2 DEF EndedOnce, DropBaresip
    <3> QED
      BY <2>1, <3>3, FreshStateRing
  <2>5. CASE RestartForAccount \/ Crash
    BY <2>1, <2>5, FreshStateRing DEF RestartForAccount, Crash, DropBaresip
  <2> QED
    BY <1>4, <2>2, <2>3, <2>4, <2>5 DEF LifecycleStep
<1> QED
  BY <1>2, <1>3, <1>4 DEF Next, vars

LEMMA FilledInOrder ==
  ASSUME RingSuffices, state \in State, RingInOrder, NEW c \in Calls, Fills(state, state', c)
  PROVE  RingInOrder' /\ \A d \in Calls : Ignored(d) => Ignored(d)'
<1> DEFINE n == state.nextIgnored
<1>1. n \in 0 .. IgnoredSlots /\ state.ignored \in [0 .. IgnoredSlots - 1 -> CallOrNone]
  BY DEF RingInOrder, State
<1>2. \A i \in 0 .. IgnoredSlots - 1 : state.ignored[i] # c
  BY <1>1, NoCallAssumption DEF Fills, callIDWasIgnored
<1>3. n # IgnoredSlots
  <2> SUFFICES ASSUME n = IgnoredSlots PROVE FALSE
    OBVIOUS
  <2> DEFINE S == 0 .. IgnoredSlots - 1
             T == Calls \ {c}
  <2>1. IsFiniteSet(S) /\ Cardinality(S) = IgnoredSlots
    BY FS_Interval, RingAssumption
  <2>2. IsFiniteSet(T) /\ Cardinality(T) = Cardinality(Calls) - 1 /\ Cardinality(Calls) \in Nat
    BY FS_RemoveElement, FS_CardinalityType DEF RingSuffices
  <2>3. Cardinality(T) < Cardinality(S)
    BY <2>1, <2>2, RingAssumption DEF RingSuffices
  <2>4. state.ignored \in [S -> T]
    BY <1>1, <1>2 DEF RingInOrder
  <2> HIDE DEF S, T
  <2>5. PICK i, j \in S : i # j /\ state.ignored[i] = state.ignored[j]
    BY <2>1, <2>2, <2>3, <2>4, FS_PigeonHole
  <2>6. i \in 0 .. IgnoredSlots - 1 /\ j \in 0 .. IgnoredSlots - 1 /\ state.ignored[i] # NoCall
    BY <2>4, NoCallAssumption DEF S, T
  <2> QED
    BY <2>5, <2>6 DEF RingInOrder
<1>4. n \in 0 .. IgnoredSlots - 1 /\ n % IgnoredSlots = n /\ (n + 1) % IndexModulus = n + 1
  <2>1. n \in 0 .. IgnoredSlots - 1 /\ n + 1 \in 0 .. IndexModulus - 1
    BY <1>1, <1>3, RingAssumption DEF RingSuffices
  <2>2. \A m \in Nat \ {0} : \A k \in 0 .. m - 1 : k % m = k
    OBVIOUS
  <2> QED
    BY <2>1, <2>2, RingAssumption
<1>5. state'.nextIgnored = n + 1 /\ state'.ignored = [state.ignored EXCEPT ![n] = c]
  BY <1>4 DEF Fills
<1> HIDE DEF n
<1>6. \A i \in 0 .. IgnoredSlots - 1 : state'.ignored[i] = IF i = n THEN c ELSE state.ignored[i]
  BY <1>1, <1>4, <1>5
<1>7. RingInOrder'
  <2>1. \A i \in 0 .. IgnoredSlots - 1 : state'.ignored[i] \in Calls <=> i < n + 1
    BY <1>4, <1>6 DEF RingInOrder, n
  <2>2. \A i, j \in 0 .. IgnoredSlots - 1 :
          state'.ignored[i] = state'.ignored[j] /\ state'.ignored[i] # NoCall => i = j
    BY <1>2, <1>6 DEF RingInOrder
  <2> QED
    BY <1>4, <1>5, <2>1, <2>2, RingAssumption DEF RingInOrder
<1>8. state.ignored[n] \notin Calls
  BY <1>4 DEF RingInOrder, n
<1> QED
  BY <1>1, <1>5, <1>6, <1>7, <1>8 DEF Ignored, callIDWasIgnored

\* With a slot for every attempt the ring keeps what it holds while the events
\* of the call may still come (rememberIgnoredCall, callIDWasIgnored).
THEOREM LargeRingKeepsIgnored ==
  ASSUME RingSuffices
  PROVE  Spec => RingKeepsIgnored
<1>1. Init => RingInOrder
  BY RingAssumption, NoCallAssumption DEF Init, NewState, RingInOrder
<1>2. ASSUME CallInv, RingInOrder, [Next]_vars
      PROVE  RingInOrder' /\ KeepsIgnored
  <2>1. state \in State
    BY <1>2 DEF CallInv, SessionInv, OthersOK
  <2>2. ASSUME SameRing(state, state')
        PROVE  RingInOrder' /\ KeepsIgnored
    BY <1>2, <2>2 DEF SameRing, RingInOrder, KeepsIgnored, Ignored, callIDWasIgnored
  <2>3. ASSUME NEW c \in Calls, Fills(state, state', c)
        PROVE  RingInOrder' /\ KeepsIgnored
    BY <1>2, <2>1, <2>3, FilledInOrder DEF KeepsIgnored
  <2>4. ASSUME queue' = <<>>, FreshRing(state')
        PROVE  RingInOrder' /\ KeepsIgnored
    <3>1. Len(queue') = 0
      BY <2>4
    <3>2. \A c : ~ Mentioned(c)'
      BY <3>1 DEF Mentioned
    <3> QED
      BY <2>4, <3>2, RingAssumption, NoCallAssumption DEF FreshRing, NewState, RingInOrder, KeepsIgnored
  <2> QED
    BY <1>2, <2>1, <2>2, <2>3, <2>4, StateMoves, RingMoves DEF SameRing
<1>3. CallInv /\ RingInOrder /\ [Next]_vars => RingInOrder' /\ [KeepsIgnored]_vars
  BY <1>2
<1> QED
  BY <1>1, <1>3, CallInvariant, PTL DEF Spec, RingKeepsIgnored
=================================================================================
