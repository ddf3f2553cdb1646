------------------------------ MODULE SnapshotFeed ------------------------------
(***************************************************************************)
(* How snapshots reach subscribers (updateSnapshot, publish, Subscribe in   *)
(* internal/session/session.go).                                            *)
(*                                                                         *)
(* An updater changes the snapshot and takes a copy under s.mu, gives that  *)
(* lock up and then publishes the copy under s.subMu.  The run goroutine is *)
(* one updater, the goroutines of pauseMedia and focusWindow are others.    *)
(* A subscriber receives from a buffered channel and takes neither lock, so *)
(* its receives fall between any two steps of a publisher.                  *)
(*                                                                         *)
(* A snapshot is its Revision; the rest of it is data carried along.        *)
(***************************************************************************)
EXTENDS Naturals, Sequences

CONSTANTS
  Updaters,      \* goroutines that call updateSnapshot
  Subscribers,   \* channels made by Subscribe
  Buffer,        \* capacity of a channel, at least 1
  MaxRevision    \* bound on the number of updates

ASSUME BufferAssumption == Buffer \in Nat \ {0}
ASSUME RevisionAssumption == MaxRevision \in Nat

VARIABLES
  revision,      \* Session.snapshot.Revision
  held,          \* the copy each updater is about to publish
  stage,         \* where each updater is in updateSnapshot and publish
  subMu,         \* the updater that holds s.subMu, or Free
  todo,          \* subscribers the holder's loop has not reached
  serving,       \* the subscriber whose channel the holder found full
  open,          \* s.subscribers
  channel,       \* the contents of each channel
  seen           \* the revision each subscriber received last

vars == <<revision, held, stage, subMu, todo, serving, open, channel, seen>>

Free == "free"
Nobody == "nobody"
Stages == {"idle", "locking", "publishing", "draining", "resending"}

ASSUME NameAssumption == Free \notin Updaters /\ Nobody \notin Subscribers

\* Definitions named X_... are mutants of X: plausible bugs the runs are shown to
\* catch, used by no other definition.

updateSnapshot(u) ==
  /\ stage[u] = "idle" /\ revision < MaxRevision
  /\ revision' = revision + 1
  /\ held' = [held EXCEPT ![u] = revision + 1]
  /\ stage' = [stage EXCEPT ![u] = "locking"]
  /\ UNCHANGED <<subMu, todo, serving, open, channel, seen>>

LockSubscribers(u) ==
  /\ stage[u] = "locking" /\ subMu = Free
  /\ subMu' = u
  /\ todo' = open
  /\ stage' = [stage EXCEPT ![u] = "publishing"]
  /\ UNCHANGED <<revision, held, serving, open, channel, seen>>

TrySend_DropsNewest(u, s) ==
  /\ stage[u] = "publishing" /\ s \in todo
  /\ todo' = todo \ {s}
  /\ channel' = [channel EXCEPT ![s] = IF Len(@) < Buffer THEN Append(@, held[u]) ELSE @]
  /\ UNCHANGED <<revision, held, stage, subMu, serving, open, seen>>

\* select { case updates <- copy: default: ... }
TrySend(u, s) ==
  /\ stage[u] = "publishing" /\ s \in todo
  /\ todo' = todo \ {s}
  /\ IF Len(channel[s]) < Buffer
     THEN /\ channel' = [channel EXCEPT ![s] = Append(@, held[u])]
          /\ UNCHANGED <<stage, serving>>
     ELSE /\ stage' = [stage EXCEPT ![u] = "draining"]
          /\ serving' = s
          /\ UNCHANGED channel
  /\ UNCHANGED <<revision, held, subMu, open, seen>>

Drain_Nothing(u) ==
  /\ stage[u] = "draining"
  /\ stage' = [stage EXCEPT ![u] = "resending"]
  /\ UNCHANGED <<revision, held, subMu, todo, serving, open, channel, seen>>

\* select { case <-updates: default: }, for the subscriber may have drained it
Drain(u) ==
  /\ stage[u] = "draining"
  /\ channel' = [channel EXCEPT ![serving] = IF @ = <<>> THEN @ ELSE Tail(@)]
  /\ stage' = [stage EXCEPT ![u] = "resending"]
  /\ UNCHANGED <<revision, held, subMu, todo, serving, open, seen>>

\* updates <- copy, which would block on a full channel
Resend(u) ==
  /\ stage[u] = "resending" /\ Len(channel[serving]) < Buffer
  /\ channel' = [channel EXCEPT ![serving] = Append(@, held[u])]
  /\ stage' = [stage EXCEPT ![u] = "publishing"]
  /\ serving' = Nobody
  /\ UNCHANGED <<revision, held, subMu, todo, open, seen>>

UnlockSubscribers(u) ==
  /\ stage[u] = "publishing" /\ todo = {}
  /\ subMu' = Free
  /\ stage' = [stage EXCEPT ![u] = "idle"]
  /\ UNCHANGED <<revision, held, todo, serving, open, channel, seen>>

\* A new channel gets the current snapshot before subMu is given up.
Subscribe(s) ==
  /\ subMu = Free /\ s \notin open /\ channel[s] = <<>> /\ seen[s] = 0
  /\ open' = open \cup {s}
  /\ channel' = [channel EXCEPT ![s] = <<revision>>]
  /\ UNCHANGED <<revision, held, stage, subMu, todo, serving, seen>>

Cancel_Unlocked(s) ==
  /\ s \in open
  /\ open' = open \ {s}
  /\ UNCHANGED <<revision, held, stage, subMu, todo, serving, channel, seen>>

\* The function Subscribe returns; what is buffered can still be received.
Cancel(s) ==
  /\ subMu = Free /\ s \in open
  /\ open' = open \ {s}
  /\ UNCHANGED <<revision, held, stage, subMu, todo, serving, channel, seen>>

Receive(s) ==
  /\ channel[s] # <<>>
  /\ seen' = [seen EXCEPT ![s] = Head(channel[s])]
  /\ channel' = [channel EXCEPT ![s] = Tail(@)]
  /\ UNCHANGED <<revision, held, stage, subMu, todo, serving, open>>

\* Revision 1 is the first a subscriber can get: Revision 0 marks "none yet".
Init ==
  /\ revision = 1
  /\ held = [u \in Updaters |-> 0]
  /\ stage = [u \in Updaters |-> "idle"]
  /\ subMu = Free
  /\ todo = {}
  /\ serving = Nobody
  /\ open = {}
  /\ channel = [s \in Subscribers |-> <<>>]
  /\ seen = [s \in Subscribers |-> 0]

Publish(u) ==
  \/ LockSubscribers(u)
  \/ \E s \in Subscribers : TrySend(u, s)
  \/ Drain(u)
  \/ Resend(u)
  \/ UnlockSubscribers(u)

Next ==
  \/ \E u \in Updaters : updateSnapshot(u) \/ Publish(u)
  \/ \E s \in Subscribers : Subscribe(s) \/ Cancel(s) \/ Receive(s)

Spec == Init /\ [][Next]_vars

-----------------------------------------------------------------------------
(* Properties *)

\* Every variable holds a value of its kind, and no channel more than it can.
TypeOK ==
  /\ revision \in Nat
  /\ held \in [Updaters -> Nat]
  /\ stage \in [Updaters -> Stages]
  /\ subMu \in Updaters \cup {Free}
  /\ todo \subseteq Subscribers /\ open \subseteq Subscribers
  /\ serving \in Subscribers \cup {Nobody}
  /\ channel \in [Subscribers -> Seq(Nat)]
  /\ \A s \in Subscribers : Len(channel[s]) <= Buffer
  /\ seen \in [Subscribers -> Nat]

\* The final send of publish runs with subMu held and must find room: were it
\* to block, a subscriber that stopped reading would stop the whole session.
ResendHasRoom == \A u \in Updaters : stage[u] = "resending" => Len(channel[serving]) < Buffer

\* publish writes only to channels that are still subscribed: Cancel closes the
\* channel under the same lock, and a send on a closed channel panics.
NoSendAfterCancel ==
  /\ todo \subseteq open
  /\ \A u \in Updaters : stage[u] \in {"draining", "resending"} => serving \in open

LatestFor(s) == IF channel[s] = <<>> THEN seen[s] ELSE channel[s][Len(channel[s])]

\* "A slow subscriber keeps its bounded backlog and then receives the newest
\* update": with no update on its way, the last snapshot a subscriber gets is
\* the current one.
NewestDelivered ==
  (\A u \in Updaters : stage[u] = "idle") => \A s \in open : LatestFor(s) = revision
================================================================================
