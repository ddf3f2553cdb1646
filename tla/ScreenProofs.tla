---------------------------- MODULE ScreenProofs ----------------------------
(***************************************************************************)
(* Theorems about SnapshotFeed and Screen, for any number of updaters,     *)
(* subscribers, dispatches and errors, any buffer and any bound on the     *)
(* revisions.                                                              *)
(*                                                                         *)
(* Of the feed: the send of publish that could block never finds a full    *)
(* channel, and no send meets a channel its subscriber has closed.  The feed*)
(* inside the program is that feed: each step of the program is a step of the*)
(* feed or leaves it alone.  So what is proved of the feed holds in the    *)
(* program.                                                                *)
(*                                                                         *)
(* In the program the newest snapshot reaches every subscriber last, unless *)
(* it was published before an older one.  The form keeps what is typed, and *)
(* a program that its session has closed returns the reason.               *)
(***************************************************************************)
EXTENDS Screen, SequenceTheorems, TLAPS

(* The feed: updateSnapshot, publish, Subscribe and its cancel *)

\* publish runs under subMu, so at most one updater is in it.
HoldsLock(u) == stage[u] \in {"publishing", "draining", "resending"}

MutualExclusion ==
  /\ \A u \in Updaters : HoldsLock(u) => subMu = u
  /\ subMu = Free => todo = {}
  /\ \A u \in Updaters : stage[u] \in {"draining", "resending"} => serving \in Subscribers

\* The inductive invariant: each part needs the others.
FeedInv == TypeOK /\ MutualExclusion /\ ResendHasRoom /\ NoSendAfterCancel

\* What a receive or a drain leaves is shorter by one.
LEMMA TailShorter ==
  ASSUME NEW q \in Seq(Nat), q # <<>>
  PROVE  Tail(q) \in Seq(Nat) /\ Len(Tail(q)) = Len(q) - 1 /\ Len(q) \in Nat \ {0}
  OBVIOUS

\* What a send leaves is longer by one.
LEMMA AppendLonger ==
  ASSUME NEW q \in Seq(Nat), NEW r \in Nat
  PROVE  Append(q, r) \in Seq(Nat) /\ Len(Append(q, r)) = Len(q) + 1 /\ Len(q) \in Nat
  OBVIOUS

\* The feed starts in the invariant.
LEMMA FeedInvInit == Init => FeedInv
<1> SUFFICES ASSUME Init PROVE FeedInv
  OBVIOUS
<1>1. TypeOK
  BY BufferAssumption DEF Init, TypeOK, Stages
<1>2. MutualExclusion /\ ResendHasRoom /\ NoSendAfterCancel
  BY DEF Init, MutualExclusion, HoldsLock, ResendHasRoom, NoSendAfterCancel
<1> QED
  BY <1>1, <1>2 DEF FeedInv

\* The steps of publish keep the invariant.
LEMMA PublishKeepsFeedInv ==
  ASSUME FeedInv, NEW u \in Updaters, Publish(u)
  PROVE  FeedInv'
<1> USE BufferAssumption, NameAssumption DEF FeedInv, TypeOK, Stages
<1>1. CASE LockSubscribers(u)
  BY <1>1 DEF LockSubscribers, MutualExclusion, HoldsLock, ResendHasRoom, NoSendAfterCancel
<1>2. ASSUME NEW s \in Subscribers, TrySend(u, s) PROVE FeedInv'
  <2>1. CASE Len(channel[s]) < Buffer
    <3>1. channel' = [channel EXCEPT ![s] = Append(@, held[u])] /\ stage' = stage /\ serving' = serving
      BY <1>2, <2>1 DEF TrySend
    <3>2. /\ channel' \in [Subscribers -> Seq(Nat)]
          /\ \A t \in Subscribers : Len(channel'[t]) <= Buffer
      BY <2>1, <3>1, AppendLonger
    <3>3. \A v \in Updaters : stage[v] # "resending"
      BY <1>2 DEF TrySend, MutualExclusion, HoldsLock
    <3> QED
      BY <1>2, <3>1, <3>2, <3>3
         DEF TrySend, MutualExclusion, HoldsLock, ResendHasRoom, NoSendAfterCancel
  <2>2. CASE ~ (Len(channel[s]) < Buffer)
    BY <1>2, <2>2 DEF TrySend, MutualExclusion, HoldsLock, ResendHasRoom, NoSendAfterCancel
  <2> QED
    BY <2>1, <2>2
<1>3. CASE Drain(u)
  <2>1. serving \in Subscribers /\ channel' = [channel EXCEPT ![serving] = IF @ = <<>> THEN @ ELSE Tail(@)]
    BY <1>3 DEF Drain, MutualExclusion
  <2>2. channel' \in [Subscribers -> Seq(Nat)]
    BY <2>1, TailShorter
  <2>3. Len(channel'[serving]) < Buffer
    BY <2>1, TailShorter
  <2>4. \A t \in Subscribers : Len(channel'[t]) <= Buffer
    BY <2>1, <2>3
  <2> QED
    BY <1>3, <2>1, <2>2, <2>3, <2>4
       DEF Drain, MutualExclusion, HoldsLock, ResendHasRoom, NoSendAfterCancel
<1>4. CASE Resend(u)
  <2>1. serving \in Subscribers /\ channel' = [channel EXCEPT ![serving] = Append(@, held[u])]
    BY <1>4 DEF Resend, MutualExclusion
  <2>2. /\ channel' \in [Subscribers -> Seq(Nat)]
        /\ \A t \in Subscribers : Len(channel'[t]) <= Buffer
    BY <1>4, <2>1, AppendLonger DEF Resend
  <2>3. \A v \in Updaters : stage'[v] \notin {"draining", "resending"}
    BY <1>4 DEF Resend, MutualExclusion, HoldsLock
  <2> QED
    BY <1>4, <2>2, <2>3 DEF Resend, MutualExclusion, HoldsLock, ResendHasRoom, NoSendAfterCancel
<1>5. CASE UnlockSubscribers(u)
  BY <1>5 DEF UnlockSubscribers, MutualExclusion, HoldsLock, ResendHasRoom, NoSendAfterCancel
<1> QED
  BY <1>1, <1>2, <1>3, <1>4, <1>5 DEF Publish

\* Every step keeps the invariant.
LEMMA FeedInvStep == FeedInv /\ [Next]_vars => FeedInv'
<1> SUFFICES ASSUME FeedInv, [Next]_vars PROVE FeedInv'
  OBVIOUS
<1>1. ASSUME NEW u \in Updaters, updateSnapshot(u) PROVE FeedInv'
  BY <1>1 DEF updateSnapshot, FeedInv, TypeOK, Stages, MutualExclusion, HoldsLock,
              ResendHasRoom, NoSendAfterCancel
<1>2. ASSUME NEW u \in Updaters, Publish(u) PROVE FeedInv'
  BY <1>2, PublishKeepsFeedInv
<1>3. ASSUME NEW s \in Subscribers, Subscribe(s) PROVE FeedInv'
  <2>1. <<revision>> \in Seq(Nat) /\ Len(<<revision>>) = 1
    BY DEF FeedInv, TypeOK
  <2>2. \A u \in Updaters : ~ HoldsLock(u)
    BY <1>3, NameAssumption DEF Subscribe, FeedInv, MutualExclusion
  <2>3. TypeOK'
    BY <1>3, <2>1, BufferAssumption DEF Subscribe, FeedInv, TypeOK
  <2> QED
    BY <1>3, <2>2, <2>3 DEF Subscribe, FeedInv, MutualExclusion, HoldsLock, ResendHasRoom, NoSendAfterCancel
<1>4. ASSUME NEW s \in Subscribers, Cancel(s) PROVE FeedInv'
  <2>1. \A u \in Updaters : ~ HoldsLock(u)
    BY <1>4, NameAssumption DEF Cancel, FeedInv, MutualExclusion
  <2> QED
    BY <1>4, <2>1 DEF Cancel, FeedInv, TypeOK, MutualExclusion, HoldsLock, ResendHasRoom, NoSendAfterCancel
<1>5. ASSUME NEW s \in Subscribers, Receive(s) PROVE FeedInv'
  <2>1. /\ channel' \in [Subscribers -> Seq(Nat)]
        /\ \A t \in Subscribers : Len(channel'[t]) <= Len(channel[t])
        /\ seen' \in [Subscribers -> Nat]
    BY <1>5, TailShorter DEF Receive, FeedInv, TypeOK
  <2>2. \A t \in Subscribers : Len(channel[t]) \in Nat /\ Len(channel'[t]) \in Nat
    BY <2>1 DEF FeedInv, TypeOK
  <2> QED
    BY <1>5, <2>1, <2>2, BufferAssumption
       DEF Receive, FeedInv, TypeOK, MutualExclusion, HoldsLock, ResendHasRoom, NoSendAfterCancel
<1>6. CASE UNCHANGED vars
  BY <1>6 DEF vars, FeedInv, TypeOK, MutualExclusion, HoldsLock, ResendHasRoom, NoSendAfterCancel
<1> QED
  BY <1>1, <1>2, <1>3, <1>4, <1>5, <1>6 DEF Next

\* The invariant holds throughout (updateSnapshot, publish, Subscribe).
THEOREM FeedInvariant == Spec => []FeedInv
  BY FeedInvInit, FeedInvStep, PTL DEF Spec

\* Type correctness: no channel ever holds more than its buffer.
THEOREM FeedTypeCorrect == Spec => []TypeOK
<1>1. FeedInv => TypeOK
  BY DEF FeedInv
<1> QED
  BY <1>1, FeedInvariant, PTL

\* The second send of publish has room, so a subscriber that stopped reading
\* cannot stop the session.
THEOREM PublishNeverBlocks == Spec => []ResendHasRoom
<1>1. FeedInv => ResendHasRoom
  BY DEF FeedInv
<1> QED
  BY <1>1, FeedInvariant, PTL

\* publish never sends on a channel the cancel function has closed.
THEOREM NoSendOnClosedChannel == Spec => []NoSendAfterCancel
<1>1. FeedInv => NoSendAfterCancel
  BY DEF FeedInv
<1> QED
  BY <1>1, FeedInvariant, PTL

-----------------------------------------------------------------------------
(* What arrives has been published *)

Published ==
  /\ revision >= 1
  /\ \A u \in Updaters : stage[u] # "idle" => held[u] \in 1 .. revision
  /\ \A s \in Subscribers : \A i \in 1 .. Len(channel[s]) : channel[s][i] \in 1 .. revision

\* Sending a published snapshot, or taking one, leaves only published ones.
LEMMA SendPublished ==
  ASSUME NEW q \in Seq(Nat), NEW n \in Nat, \A i \in 1 .. Len(q) : q[i] \in 1 .. n,
         NEW r \in 1 .. n
  PROVE  \A i \in 1 .. Len(Append(q, r)) : Append(q, r)[i] \in 1 .. n
  BY AppendLonger

LEMMA TakePublished ==
  ASSUME NEW q \in Seq(Nat), NEW n \in Nat, \A i \in 1 .. Len(q) : q[i] \in 1 .. n, q # <<>>
  PROVE  \A i \in 1 .. Len(Tail(q)) : Tail(q)[i] \in 1 .. n
  BY TailShorter

LEMMA PublishKeepsPublished ==
  ASSUME FeedInv, Published, NEW u \in Updaters, Publish(u)
  PROVE  Published'
<1> USE DEF FeedInv, TypeOK, Stages
<1>1. CASE LockSubscribers(u) \/ UnlockSubscribers(u)
  BY <1>1 DEF LockSubscribers, UnlockSubscribers, Published
<1>2. ASSUME NEW s \in Subscribers, TrySend(u, s) PROVE Published'
  <2>1. held[u] \in 1 .. revision /\ channel[s] \in Seq(Nat) /\ revision \in Nat
    BY <1>2 DEF TrySend, Published
  <2>2. \A i \in 1 .. Len(Append(channel[s], held[u])) : Append(channel[s], held[u])[i] \in 1 .. revision
    BY <2>1, SendPublished DEF Published
  <2> QED
    BY <1>2, <2>2 DEF TrySend, Published
<1>3. CASE Drain(u)
  <2>1. PICK s \in Subscribers : s = serving
    BY <1>3 DEF Drain, MutualExclusion
  <2>2. channel[s] # <<>> => \A i \in 1 .. Len(Tail(channel[s])) : Tail(channel[s])[i] \in 1 .. revision
    BY TakePublished DEF Published
  <2> QED
    BY <1>3, <2>1, <2>2 DEF Drain, Published
<1>4. CASE Resend(u)
  <2>1. PICK s \in Subscribers : s = serving
    BY <1>4 DEF Resend, MutualExclusion
  <2>2. held[u] \in 1 .. revision /\ channel[s] \in Seq(Nat) /\ revision \in Nat
    BY <1>4 DEF Resend, Published
  <2>3. \A i \in 1 .. Len(Append(channel[s], held[u])) : Append(channel[s], held[u])[i] \in 1 .. revision
    BY <2>2, SendPublished DEF Published
  <2> QED
    BY <1>4, <2>1, <2>3 DEF Resend, Published
<1> QED
  BY <1>1, <1>2, <1>3, <1>4 DEF Publish

LEMMA PublishedStep ==
  ASSUME FeedInv, Published, [Next]_vars
  PROVE  Published'
<1> USE DEF FeedInv, TypeOK, Stages
<1>1. ASSUME NEW u \in Updaters, updateSnapshot(u) PROVE Published'
  BY <1>1 DEF updateSnapshot, Published
<1>2. ASSUME NEW u \in Updaters, Publish(u) PROVE Published'
  BY <1>2, PublishKeepsPublished
<1>3. ASSUME NEW s \in Subscribers, Subscribe(s) PROVE Published'
  <2>1. Len(<<revision>>) = 1 /\ <<revision>>[1] = revision
    OBVIOUS
  <2> QED
    BY <1>3, <2>1 DEF Subscribe, Published
<1>4. ASSUME NEW s \in Subscribers, Cancel(s) PROVE Published'
  BY <1>4 DEF Cancel, Published
<1>5. ASSUME NEW s \in Subscribers, Receive(s) PROVE Published'
  <2>1. \A i \in 1 .. Len(Tail(channel[s])) : Tail(channel[s])[i] \in 1 .. revision
    BY <1>5, TakePublished DEF Receive, Published
  <2> QED
    BY <1>5, <2>1 DEF Receive, Published
<1>6. CASE UNCHANGED vars
  BY <1>6 DEF vars, Published
<1> QED
  BY <1>1, <1>2, <1>3, <1>4, <1>5, <1>6 DEF Next

\* No channel holds anything but revisions the snapshot has had (publish,
\* Subscribe).
THEOREM OnlyPublishedArrives == Spec => []Published
<1>1. Init => Published
  BY DEF Init, Published
<1>2. FeedInv /\ Published /\ [Next]_vars => Published'
  BY PublishedStep
<1> QED
  BY <1>1, <1>2, FeedInvariant, PTL DEF Spec

-----------------------------------------------------------------------------
(* The program uses the feed as SnapshotFeed says *)

LEMMA SessionUsesFeed ==
  ASSUME SessionStep
  PROVE  [Next]_vars
<1> USE ScreenAssumption
<1>1. ASSUME NEW u \in Updaters, updateSnapshot(u)
      PROVE  Next
  BY <1>1 DEF Next
<1>2. CASE HandleBaresipEvent
  BY <1>1, <1>2 DEF HandleBaresipEvent, recordError
<1>3. CASE \E d \in Dispatches : TakeRequest(d)
  BY <1>3 DEF TakeRequest
<1>4. CASE ApplyRequest
  BY <1>1, <1>4 DEF ApplyRequest, recordError
<1>5. CASE FinishRestart
  BY <1>1, <1>5 DEF FinishRestart, recordError
<1>6. CASE FailRequest
  BY <1>1, <1>6 DEF FailRequest, recordError
<1>7. CASE clearError
  BY <1>1, <1>7 DEF clearError, recordError
<1>8. CASE Reply
  BY <1>8 DEF Reply
<1>9. CASE FailRestart
  BY <1>9 DEF FailRestart
<1>10. CASE LoseRuntime
  BY <1>1, <1>10 DEF LoseRuntime, finishRuntime
<1>11. CASE \E u \in Updaters : BackgroundFails(u)
  BY <1>1, <1>11 DEF BackgroundFails, recordError
<1> QED
  BY <1>2, <1>3, <1>4, <1>5, <1>6, <1>7, <1>8, <1>9, <1>10, <1>11 DEF SessionStep

LEMMA ProgramUsesFeed ==
  ASSUME ProgramStep
  PROVE  [Next]_vars
<1> USE ScreenAssumption
<1>1. CASE DispatchStep
  BY <1>1 DEF DispatchStep, GiveUp, TakeSnapshot, SendResult
<1>2. CASE ForwarderReceives
  BY <1>2 DEF ForwarderReceives, Next
<1>3. CASE ForwarderSends
  BY <1>3 DEF ForwarderSends
<1>4. CASE SubscribeUpdates
  BY <1>4 DEF SubscribeUpdates, Next
<1>5. CASE NewProgram
  BY <1>5 DEF NewProgram
<1>6. CASE Unsubscribe
  BY <1>6 DEF Unsubscribe, Next
<1>7. CASE AwaitForwarder
  BY <1>7 DEF AwaitForwarder
<1>8. CASE StopSession
  BY <1>8 DEF StopSession, finishRuntime, Next
<1>9. CASE Return
  BY <1>9 DEF Return
<1> QED
  BY <1>1, <1>2, <1>3, <1>4, <1>5, <1>6, <1>7, <1>8, <1>9
     DEF ProgramStep, ForwarderStep, MainStep

LEMMA StepUsesFeed ==
  ASSUME [ScreenNext]_allVars
  PROVE  [Next]_vars
<1>1. CASE SessionStep
  BY <1>1, SessionUsesFeed
<1>2. CASE FeedStep
  BY <1>2 DEF FeedStep, Next
<1>3. CASE UserStep
  BY <1>3 DEF UserStep, EmitAction, SubmitForm, TypeInForm, UserQuits
<1>4. CASE ProgramStep
  BY <1>4, ProgramUsesFeed
<1>5. CASE UNCHANGED allVars
  BY <1>5 DEF allVars
<1> QED
  BY <1>1, <1>2, <1>3, <1>4, <1>5 DEF ScreenNext

\* The program with its session, forwarder, dispatches and user implements
\* SnapshotFeed: nobody touches a channel or a lock but by the steps of
\* updateSnapshot, publish, Subscribe, cancel and a receive.
THEOREM ScreenImplementsFeed ==
  ScreenSpec => Spec
<1>1. ScreenInit => Init
  BY DEF ScreenInit
<1>2. [ScreenNext]_allVars => [Next]_vars
  BY StepUsesFeed
<1> QED
  BY <1>1, <1>2, PTL DEF ScreenSpec, Spec

\* The send of publish that would block a publisher always finds room, whatever
\* the forwarder does: a slow screen cannot stop the session.
THEOREM ScreenCannotBlockSession ==
  ScreenSpec => []ResendHasRoom
<1> QED
  BY ScreenImplementsFeed, PublishNeverBlocks, PTL

\* No publisher sends to the forwarder's channel once run has closed it.
THEOREM UnsubscribeIsSafe ==
  ScreenSpec => []NoSendAfterCancel
<1> QED
  BY ScreenImplementsFeed, NoSendOnClosedChannel, PTL

-----------------------------------------------------------------------------
(* The newest snapshot *)

\* Taking the oldest of several elements leaves the newest where it is.
LEMMA LastOfTail ==
  ASSUME NEW q \in Seq(Nat), q # <<>>
  PROVE  IF Len(q) = 1 THEN Tail(q) = <<>> /\ Head(q) = q[Len(q)]
         ELSE Tail(q) # <<>> /\ Tail(q)[Len(Tail(q))] = q[Len(q)]
<1>1. Len(q) \in Nat \ {0} /\ Len(Tail(q)) = Len(q) - 1 /\ Tail(q) \in Seq(Nat)
  BY TailShorter
<1>2. CASE Len(q) = 1
  <2>1. Tail(q) = <<>>
    <3> DEFINE rest == Tail(q)
    <3>1. rest \in Seq(Nat) /\ Len(rest) = 0
      BY <1>1, <1>2
    <3> HIDE DEF rest
    <3>2. rest = <<>>
      BY <3>1, EmptySeq
    <3> QED
      BY <3>2 DEF rest
  <2> QED
    BY <1>2, <2>1
<1>3. CASE Len(q) # 1
  <2>1. \A i \in 1 .. Len(Tail(q)) : Tail(q)[i] = q[i + 1]
    BY <1>1
  <2>2. Len(Tail(q)) \in 1 .. Len(Tail(q)) /\ Len(Tail(q)) + 1 = Len(q)
    BY <1>1, <1>3
  <2>3. Tail(q) # <<>>
    <3> DEFINE rest == Tail(q)
    <3>1. Len(rest) # 0
      BY <1>1, <1>3
    <3> HIDE DEF rest
    <3>2. rest # <<>>
      BY <3>1
    <3> QED
      BY <3>2 DEF rest
  <2> QED
    BY <1>3, <2>1, <2>2, <2>3
<1> QED
  BY <1>2, <1>3

\* Receiving moves the newest buffered snapshot nowhere but to the subscriber.
LEMMA ReceiveKeepsLatest ==
  ASSUME TypeOK, NEW s \in Subscribers, Receive(s), NEW t \in Subscribers
  PROVE  LatestFor(t)' = LatestFor(t)
<1>1. channel[s] \in Seq(Nat) /\ channel[s] # <<>>
  BY DEF TypeOK, Receive
<1>2. CASE t # s
  BY <1>2 DEF Receive, LatestFor, TypeOK
<1>3. CASE t = s
  BY <1>1, <1>3, LastOfTail DEF Receive, LatestFor, TypeOK
<1> QED
  BY <1>2, <1>3

\* What was just sent is the newest buffered snapshot.
LEMMA SendIsLatest ==
  ASSUME TypeOK, NEW s \in Subscribers, NEW r \in Nat,
         channel' = [channel EXCEPT ![s] = Append(@, r)]
  PROVE  LatestFor(s)' = r
<1>1. channel'[s] = Append(channel[s], r) /\ channel[s] \in Seq(Nat)
  BY DEF TypeOK
<1>2. Append(channel[s], r) # <<>> /\ Append(channel[s], r)[Len(Append(channel[s], r))] = r
  BY <1>1
<1> QED
  BY <1>1, <1>2 DEF LatestFor

\* What updater v has still to send to s.
Owes(v, s) ==
  \/ stage[v] = "locking"
  \/ stage[v] = "publishing" /\ s \in todo
  \/ stage[v] \in {"draining", "resending"} /\ s \in todo \cup {serving}

NewestReaches(s) ==
  LatestFor(s) = revision \/ \E v \in Updaters : held[v] = revision /\ Owes(v, s)

\* An older snapshot that is still on its way comes before the newest one.
OldestFirst ==
  \A u \in Updaters : stage[u] # "idle" /\ held[u] # revision =>
    \E v \in Updaters : stage[v] = "locking" /\ held[v] = revision

HeldOnce ==
  \A u, v \in Updaters : stage[u] # "idle" /\ stage[v] # "idle" /\ held[u] = held[v] => u = v

InOrder == OldestFirst /\ \A s \in open : NewestReaches(s)

OrderInv == HeldOnce /\ (~ overtaken => InOrder)

\* A new snapshot waits for subMu, and every subscriber will be sent it.
LEMMA UpdateKeepsOrder ==
  ASSUME FeedInv, Published, HeldOnce, NEW u \in Updaters, updateSnapshot(u)
  PROVE  HeldOnce' /\ InOrder'
<1> USE DEF FeedInv, TypeOK, updateSnapshot
<1>1. stage'[u] = "locking" /\ held'[u] = revision'
  OBVIOUS
<1>2. \A v \in Updaters \ {u} : stage'[v] = stage[v] /\ held'[v] = held[v]
  OBVIOUS
<1>3. \A v \in Updaters : stage[v] # "idle" => held[v] # revision'
  BY DEF Published
<1>4. HeldOnce'
  BY <1>1, <1>2, <1>3 DEF HeldOnce
<1>5. InOrder'
  BY <1>1 DEF InOrder, OldestFirst, NewestReaches, Owes
<1> QED
  BY <1>4, <1>5

\* A publisher on its way changes neither its snapshot nor the newest.
LEMMA PublishHolds ==
  ASSUME FeedInv, NEW u \in Updaters, Publish(u)
  PROVE  /\ UNCHANGED <<revision, held, open, seen>>
         /\ stage[u] # "idle" /\ stage'[u] # "locking"
         /\ \A v \in Updaters \ {u} : stage'[v] = stage[v]
<1> USE DEF FeedInv, TypeOK
<1>1. CASE LockSubscribers(u)
  BY <1>1 DEF LockSubscribers
<1>2. ASSUME NEW s \in Subscribers, TrySend(u, s)
      PROVE  /\ UNCHANGED <<revision, held, open, seen>>
             /\ stage[u] # "idle" /\ stage'[u] # "locking"
             /\ \A v \in Updaters \ {u} : stage'[v] = stage[v]
  BY <1>2 DEF TrySend
<1>3. CASE Drain(u)
  BY <1>3 DEF Drain
<1>4. CASE Resend(u)
  BY <1>4 DEF Resend
<1>5. CASE UnlockSubscribers(u)
  BY <1>5 DEF UnlockSubscribers
<1> QED
  BY <1>1, <1>2, <1>3, <1>4, <1>5 DEF Publish

\* Publishing the newest snapshot with no other on its way.
LEMMA PublishNewest ==
  ASSUME FeedInv, NEW u \in Updaters, Publish(u), held[u] = revision,
         \A v \in Updaters \ {u} : stage[v] = "idle",
         NEW s \in open, NewestReaches(s)
  PROVE  NewestReaches(s)'
<1> USE DEF FeedInv, TypeOK, Stages
<1>1. CASE LockSubscribers(u)
  <2>1. stage'[u] = "publishing" /\ s \in todo' /\ held'[u] = revision'
    BY <1>1 DEF LockSubscribers
  <2> QED
    BY <2>1 DEF NewestReaches, Owes
<1>2. LatestFor(s) = revision \/ Owes(u, s)
  BY DEF NewestReaches, Owes
<1>3. UNCHANGED <<revision, held, open, seen>>
  BY PublishHolds
<1>4. SUFFICES ASSUME ~ LockSubscribers(u)
               PROVE  LatestFor(s)' = revision \/ Owes(u, s)'
  BY <1>1, <1>3 DEF NewestReaches
<1>5. ASSUME NEW t \in Subscribers, TrySend(u, t)
      PROVE  LatestFor(s)' = revision \/ Owes(u, s)'
  <2>1. CASE Len(channel[t]) < Buffer
    <3>1. /\ channel' = [channel EXCEPT ![t] = Append(@, held[u])]
          /\ UNCHANGED <<stage, seen>> /\ todo' = todo \ {t} /\ stage[u] = "publishing"
      BY <1>5, <2>1 DEF TrySend
    <3>2. CASE s = t
      BY <3>1, <3>2, SendIsLatest
    <3>3. CASE s # t
      <4>1. LatestFor(s)' = LatestFor(s)
        BY <3>1, <3>3 DEF LatestFor
      <4> QED
        BY <1>2, <3>1, <3>3, <4>1 DEF Owes
    <3> QED
      BY <3>2, <3>3
  <2>2. CASE ~ (Len(channel[t]) < Buffer)
    <3>1. LatestFor(s)' = LatestFor(s)
      BY <1>5, <2>2 DEF TrySend, LatestFor
    <3>2. /\ stage[u] = "publishing" /\ stage'[u] = "draining"
          /\ todo' = todo \ {t} /\ serving' = t
      BY <1>5, <2>2 DEF TrySend
    <3> QED
      BY <1>2, <3>1, <3>2 DEF Owes
  <2> QED
    BY <2>1, <2>2
<1>6. CASE Drain(u)
  <2>1. /\ stage[u] = "draining" /\ stage'[u] = "resending" /\ UNCHANGED <<todo, serving>>
    BY <1>6 DEF Drain
  <2>2. s # serving => LatestFor(s)' = LatestFor(s)
    BY <1>6 DEF Drain, LatestFor
  <2> QED
    BY <1>2, <2>1, <2>2 DEF Owes
<1>7. CASE Resend(u)
  <2>1. /\ stage[u] = "resending" /\ stage'[u] = "publishing" /\ UNCHANGED todo
        /\ channel' = [channel EXCEPT ![serving] = Append(@, held[u])]
        /\ UNCHANGED seen
    BY <1>7 DEF Resend
  <2>2. CASE s = serving
    BY <2>1, <2>2, SendIsLatest
  <2>3. CASE s # serving
    <3>1. LatestFor(s)' = LatestFor(s)
      BY <2>1, <2>3 DEF LatestFor
    <3> QED
      BY <1>2, <2>1, <2>3, <3>1 DEF Owes
  <2> QED
    BY <2>2, <2>3
<1>8. CASE UnlockSubscribers(u)
  <2>1. stage[u] = "publishing" /\ todo = {} /\ LatestFor(s)' = LatestFor(s)
    BY <1>8 DEF UnlockSubscribers, LatestFor
  <2> QED
    BY <1>2, <2>1 DEF Owes
<1> QED
  BY <1>4, <1>5, <1>6, <1>7, <1>8 DEF Publish

\* A step of publish that does not put the newest snapshot before an older one.
LEMMA PublishKeepsOrder ==
  ASSUME FeedInv, Published, HeldOnce, InOrder,
         NEW u \in Updaters, Publish(u), ~ Overtakes(u)
  PROVE  InOrder'
<1> USE DEF FeedInv, TypeOK
<1>1. /\ UNCHANGED <<revision, held, open, seen>>
      /\ stage[u] # "idle" /\ stage'[u] # "locking"
      /\ \A v \in Updaters \ {u} : stage'[v] = stage[v]
  BY PublishHolds
<1>2. CASE \E v \in Updaters \ {u} : stage[v] = "locking" /\ held[v] = revision
  BY <1>1, <1>2 DEF InOrder, OldestFirst, NewestReaches, Owes
<1>3. CASE \A v \in Updaters \ {u} : ~ (stage[v] = "locking" /\ held[v] = revision)
  <2>1. held[u] = revision
    BY <1>1, <1>3 DEF InOrder, OldestFirst
  <2>2. \A v \in Updaters \ {u} : stage[v] # "idle" => held[v] # revision /\ held[v] < revision
    BY <1>1, <2>1 DEF HeldOnce, Published
  <2>3. \A v \in Updaters \ {u} : stage[v] = "idle"
    <3>1. CASE stage[u] = "locking"
      <4>1. subMu = Free
        BY <3>1 DEF Publish, LockSubscribers, TrySend, Drain, Resend, UnlockSubscribers
      <4>2. \A v \in Updaters : stage[v] \in {"idle", "locking"}
        BY <4>1, NameAssumption DEF MutualExclusion, HoldsLock, Stages
      <4> QED
        BY <2>1, <2>2, <3>1, <4>2 DEF Overtakes
    <3>2. CASE stage[u] # "locking"
      <4>1. ~ \E w \in Updaters : stage[w] = "locking" /\ held[w] = revision
        BY <1>3, <3>2
      <4>2. \A v \in Updaters : stage[v] # "idle" => held[v] = revision
        BY <4>1 DEF InOrder, OldestFirst
      <4> QED
        BY <2>2, <4>2
    <3> QED
      BY <3>1, <3>2
  <2>4. OldestFirst'
    BY <1>1, <2>1, <2>3 DEF OldestFirst
  <2>5. \A s \in open : NewestReaches(s)'
    BY <2>1, <2>3, PublishNewest DEF InOrder
  <2> QED
    BY <1>1, <2>4, <2>5 DEF InOrder
<1> QED
  BY <1>2, <1>3

LEMMA PublishKeepsHeldOnce ==
  ASSUME FeedInv, HeldOnce, NEW u \in Updaters, Publish(u)
  PROVE  HeldOnce'
  BY PublishHolds DEF HeldOnce

\* A subscriber coming, going or reading.
LEMMA SubscribersKeepOrder ==
  ASSUME FeedInv, InOrder, NEW s \in Subscribers, Subscribe(s) \/ Cancel(s) \/ Receive(s)
  PROVE  InOrder'
<1> USE DEF FeedInv, TypeOK
<1>1. UNCHANGED <<revision, held, stage, todo, serving>>
  BY DEF Subscribe, Cancel, Receive
<1>2. OldestFirst'
  BY <1>1 DEF InOrder, OldestFirst
<1>3. CASE Subscribe(s)
  <2>1. channel'[s] = <<revision>> /\ LatestFor(s)' = revision
    BY <1>3 DEF Subscribe, LatestFor
  <2>2. \A t \in open : LatestFor(t)' = LatestFor(t)
    BY <1>3 DEF Subscribe, LatestFor
  <2>3. open' = open \cup {s}
    BY <1>3 DEF Subscribe
  <2> QED
    BY <1>1, <1>2, <2>1, <2>2, <2>3 DEF InOrder, NewestReaches, Owes
<1>4. CASE Cancel(s)
  <2>1. open' \subseteq open /\ \A t \in open : LatestFor(t)' = LatestFor(t)
    BY <1>4 DEF Cancel, LatestFor
  <2> QED
    BY <1>1, <1>2, <2>1 DEF InOrder, NewestReaches, Owes
<1>5. CASE Receive(s)
  <2>1. open' = open /\ \A t \in open : LatestFor(t)' = LatestFor(t)
    BY <1>5, ReceiveKeepsLatest DEF Receive
  <2> QED
    BY <1>1, <1>2, <2>1 DEF InOrder, NewestReaches, Owes
<1> QED
  BY <1>3, <1>4, <1>5

\* A step of the program, as the feed and the history variable see it.
Updates == overtaken' = FALSE /\ \E u \in Updaters : updateSnapshot(u)
Publishes == \E u \in Updaters : Publish(u) /\ overtaken' = (overtaken \/ Overtakes(u))
Subscribes ==
  /\ UNCHANGED overtaken
  /\ UNCHANGED vars \/ \E s \in Subscribers : Subscribe(s) \/ Cancel(s) \/ Receive(s)

LEMMA SessionSteps ==
  ASSUME SessionStep
  PROVE  Updates \/ Subscribes
<1> USE ScreenAssumption DEF Updates, Subscribes
<1>1. CASE HandleBaresipEvent
  BY <1>1 DEF HandleBaresipEvent, recordError
<1>2. CASE \E d \in Dispatches : TakeRequest(d)
  BY <1>2 DEF TakeRequest
<1>3. CASE ApplyRequest
  BY <1>3 DEF ApplyRequest, recordError
<1>4. CASE FinishRestart
  BY <1>4 DEF FinishRestart, recordError
<1>5. CASE FailRequest
  BY <1>5 DEF FailRequest, recordError
<1>6. CASE clearError
  BY <1>6 DEF clearError, recordError
<1>7. CASE Reply
  BY <1>7 DEF Reply
<1>8. CASE FailRestart
  BY <1>8 DEF FailRestart
<1>9. CASE LoseRuntime
  BY <1>9 DEF LoseRuntime, finishRuntime
<1>10. CASE \E u \in Updaters : BackgroundFails(u)
  BY <1>10 DEF BackgroundFails, recordError
<1> QED
  BY <1>1, <1>2, <1>3, <1>4, <1>5, <1>6, <1>7, <1>8, <1>9, <1>10 DEF SessionStep

LEMMA ProgramSteps ==
  ASSUME ProgramStep
  PROVE  Updates \/ Subscribes
<1> USE ScreenAssumption DEF Updates, Subscribes, sessionVars
<1>1. CASE DispatchStep
  BY <1>1 DEF DispatchStep, GiveUp, TakeSnapshot, SendResult
<1>2. CASE ForwarderReceives
  BY <1>2 DEF ForwarderReceives
<1>3. CASE ForwarderSends
  BY <1>3 DEF ForwarderSends
<1>4. CASE SubscribeUpdates
  BY <1>4 DEF SubscribeUpdates
<1>5. CASE NewProgram
  BY <1>5 DEF NewProgram
<1>6. CASE Unsubscribe
  BY <1>6 DEF Unsubscribe
<1>7. CASE AwaitForwarder
  BY <1>7 DEF AwaitForwarder
<1>8. CASE StopSession
  BY <1>8 DEF StopSession, finishRuntime
<1>9. CASE Return
  BY <1>9 DEF Return
<1> QED
  BY <1>1, <1>2, <1>3, <1>4, <1>5, <1>6, <1>7, <1>8, <1>9
     DEF ProgramStep, ForwarderStep, MainStep

LEMMA ScreenSteps ==
  ASSUME [ScreenNext]_allVars
  PROVE  Updates \/ Publishes \/ Subscribes
<1>1. CASE FeedStep
  BY <1>1 DEF FeedStep, Publishes
<1>2. CASE UserStep
  BY <1>2 DEF UserStep, EmitAction, SubmitForm, TypeInForm, UserQuits, Subscribes, sessionVars
<1>3. CASE UNCHANGED allVars
  BY <1>3 DEF allVars, Subscribes, sessionVars
<1> QED
  BY <1>1, <1>2, <1>3, SessionSteps, ProgramSteps DEF ScreenNext

\* Whatever number of goroutines update and publish at once, and however slowly
\* the subscribers read: once all are done every subscriber gets the newest
\* snapshot last, the promise in the comment on Subscribe, unless that snapshot
\* was published before an older one (updateSnapshot, publish).
THEOREM NewestArrivesInOrder ==
  ScreenSpec => []NewestUnlessOvertaken
<1>1. ScreenInit => OrderInv
  BY DEF ScreenInit, Init, OrderInv, HeldOnce, InOrder, OldestFirst
<1>2. ASSUME FeedInv, Published, OrderInv, [ScreenNext]_allVars
      PROVE  OrderInv'
  <2>1. CASE Updates
    BY <1>2, <2>1, UpdateKeepsOrder DEF Updates, OrderInv
  <2>2. CASE Publishes
    BY <1>2, <2>2, PublishKeepsOrder, PublishKeepsHeldOnce DEF Publishes, OrderInv
  <2>3. CASE Subscribes
    <3>1. CASE UNCHANGED vars
      BY <1>2, <2>3, <3>1
         DEF Subscribes, vars, OrderInv, HeldOnce, InOrder, OldestFirst, NewestReaches, Owes, LatestFor
    <3>2. ASSUME NEW s \in Subscribers, Subscribe(s) \/ Cancel(s) \/ Receive(s)
          PROVE  OrderInv'
      <4>1. UNCHANGED <<held, stage, overtaken>>
        BY <2>3, <3>2 DEF Subscribes, Subscribe, Cancel, Receive
      <4>2. HeldOnce'
        BY <1>2, <4>1 DEF OrderInv, HeldOnce
      <4> QED
        BY <1>2, <3>2, <4>1, <4>2, SubscribersKeepOrder DEF OrderInv
    <3> QED
      BY <2>3, <3>1, <3>2 DEF Subscribes
  <2> QED
    BY <1>2, <2>1, <2>2, <2>3, ScreenSteps
<1>3. OrderInv => NewestUnlessOvertaken
  BY DEF OrderInv, InOrder, NewestReaches, Owes, NewestUnlessOvertaken, NewestDelivered
<1> QED
  BY <1>1, <1>2, <1>3, ScreenImplementsFeed, FeedInvariant, OnlyPublishedArrives, PTL DEF ScreenSpec

-----------------------------------------------------------------------------
(* The account form *)

\* What is typed and not submitted marks the form, and that mark keeps snapshots
\* from it.
FormInv ==
  /\ DOMAIN screen = {"error", "form", "dirty"}
  /\ draft => screen.form = "typed" /\ screen.dirty = TRUE

LEMMA MessageKeepsForm ==
  ASSUME FormInv, NEW msg, Send(msg)
  PROVE  FormInv'
<1>1. CASE Dropped
  BY <1>1 DEF Dropped, FormInv, screenVars
<1>2. CASE msg = QuitMsg /\ EndProgram("session")
  BY <1>2 DEF EndProgram, FormInv, NewScreen
<1>3. CASE Update(msg)
  <2>1. DOMAIN applySnapshot = {"error", "form", "dirty"}
    BY DEF applySnapshot, FormInv
  <2>2. draft => applySnapshot = screen
    BY DEF applySnapshot, FormInv
  <2> QED
    BY <1>3, <2>1, <2>2 DEF Update, FormInv
<1> QED
  BY <1>1, <1>2, <1>3 DEF Send, Receives

LEMMA UserKeepsForm ==
  ASSUME FormInv, UserStep
  PROVE  FormInv'
<1>1. CASE \E d \in Dispatches : EmitAction(d)
  BY <1>1 DEF EmitAction, FormInv
<1>2. CASE \E d \in Dispatches : SubmitForm(d)
  BY <1>2 DEF SubmitForm, FormInv
<1>3. CASE TypeInForm
  BY <1>3 DEF TypeInForm, FormInv
<1>4. CASE UserQuits
  BY <1>4 DEF UserQuits, EndProgram, FormInv, NewScreen
<1> QED
  BY <1>1, <1>2, <1>3, <1>4 DEF UserStep

LEMMA OthersKeepForm ==
  ASSUME FormInv, SessionStep \/ FeedStep \/ MainStep \/ StopSession
  PROVE  FormInv'
<1> USE DEF screenVars, FormInv
<1>1. CASE SessionStep
  <2>1. CASE HandleBaresipEvent \/ LoseRuntime \/ \E u \in Updaters : BackgroundFails(u)
    BY <2>1 DEF HandleBaresipEvent, LoseRuntime, BackgroundFails
  <2>2. CASE \E d \in Dispatches : TakeRequest(d)
    BY <2>2 DEF TakeRequest
  <2>3. CASE ApplyRequest
    BY <2>3 DEF ApplyRequest
  <2>4. CASE FinishRestart
    BY <2>4 DEF FinishRestart
  <2>5. CASE FailRequest
    BY <2>5 DEF FailRequest
  <2>6. CASE clearError
    BY <2>6 DEF clearError
  <2>7. CASE Reply
    <3>1. UNCHANGED screenVars
      BY <2>7 DEF Reply
    <3> QED
      BY <3>1
  <2>8. CASE FailRestart
    BY <2>8 DEF FailRestart
  <2> QED
    BY <1>1, <2>1, <2>2, <2>3, <2>4, <2>5, <2>6, <2>7, <2>8 DEF SessionStep
<1>2. CASE FeedStep
  BY <1>2 DEF FeedStep
<1>3. CASE MainStep
  BY <1>3 DEF MainStep, SubscribeUpdates, NewProgram, Unsubscribe, AwaitForwarder, Return
<1>4. CASE StopSession
  BY <1>4 DEF StopSession
<1> QED
  BY <1>1, <1>2, <1>3, <1>4

\* Whatever arrives, and in whatever order, the account form keeps what the user
\* typed into it since the last submit (applySnapshot).
THEOREM DraftIsKept ==
  ScreenSpec => []DraftKept
<1>1. ScreenInit => FormInv
  BY DEF ScreenInit, FormInv, NewScreen
<1>2. FormInv /\ [ScreenNext]_allVars => FormInv'
  <2> SUFFICES ASSUME FormInv, [ScreenNext]_allVars PROVE FormInv'
    OBVIOUS
  <2>1. CASE DispatchStep
    <3>1. CASE \E d \in Dispatches : GiveUp(d) \/ TakeSnapshot(d)
      BY <3>1 DEF GiveUp, TakeSnapshot, screenVars, FormInv
    <3>2. CASE \E d \in Dispatches : SendResult(d)
      BY <3>2, MessageKeepsForm DEF SendResult
    <3> QED
      BY <2>1, <3>1, <3>2 DEF DispatchStep
  <2>2. CASE ForwarderStep
    <3>1. CASE ForwarderReceives
      BY <3>1 DEF ForwarderReceives, screenVars, FormInv
    <3>2. CASE ForwarderSends
      BY <3>2, MessageKeepsForm DEF ForwarderSends
    <3> QED
      BY <2>2, <3>1, <3>2 DEF ForwarderStep
  <2>3. CASE UserStep
    BY <2>3, UserKeepsForm
  <2>4. CASE SessionStep \/ FeedStep \/ MainStep \/ StopSession
    BY <2>4, OthersKeepForm
  <2>5. CASE UNCHANGED allVars
    BY <2>5 DEF allVars, screenVars, FormInv
  <2> QED
    BY <2>1, <2>2, <2>3, <2>4, <2>5 DEF ScreenNext, ProgramStep
<1>3. FormInv => DraftKept
  BY DEF FormInv, DraftKept
<1> QED
  BY <1>1, <1>2, <1>3, PTL DEF ScreenSpec
-----------------------------------------------------------------------------
(* Why the program ended *)

Records == [running : BOOLEAN, error : Errors \cup {NoError}]
Messages == [kind : {"snapshot", "result", "error", "quit"}, error : Errors \cup {NoError}]

\* A session that has ended stays so, and keeps an error until run stops it; quit
\* is sent and taken only after that end.
EndInv ==
  /\ snap \in Seq(Records) /\ Len(snap) = revision
  /\ outbox \in Seq(Messages)
  /\ \A r \in 1 .. revision : snap[r].running \/ ~ Current.running
  /\ Current.running \/ loop = "ended"
  /\ Current.running \/ Current.error # NoError \/ main \in {"stopping", "done"}
  /\ \A i \in 1 .. Len(outbox) : outbox[i] = QuitMsg => ~ Current.running
  /\ cause = "session" =>
       IF main \in {"stopping", "done"} THEN Failed /\ terminal \in 1 .. revision
       ELSE ~ Current.running
  /\ ClosingIsExplained

\* The feed counts the snapshots.
Counted == revision \in Nat /\ revision >= 1

\* A new snapshot that is no more alive than the last one.
LEMMA NextSnapshot ==
  ASSUME EndInv, Counted, NEW record \in Records,
         revision' = revision + 1, snap' = Append(snap, record),
         record.running => Current.running,
         record.running \/ loop' = "ended",
         record.running \/ record.error # NoError \/ main = "stopping",
         UNCHANGED <<forwardVars, programVars>>
  PROVE  EndInv'
<1> USE DEF EndInv, Counted, Current
<1>1. /\ snap' \in Seq(Records) /\ Len(snap') = revision'
      /\ \A r \in 1 .. revision : snap'[r] = snap[r]
      /\ snap'[revision'] = record
  OBVIOUS
<1>2. Current' = record
  BY <1>1
<1>3. \A r \in 1 .. revision' : snap'[r].running \/ ~ record.running
  BY <1>1
<1>4. UNCHANGED <<outbox, main, terminal, exit, cause>>
  BY DEF forwardVars, programVars
<1>5. \A i \in 1 .. Len(outbox') : outbox'[i] = QuitMsg => ~ record.running
  BY <1>4 DEF QuitMsg
<1>6. cause' = "session" =>
        IF main' \in {"stopping", "done"} THEN Failed' /\ terminal' \in 1 .. revision'
        ELSE ~ record.running
  BY <1>1, <1>4 DEF Failed
<1>7. ClosingIsExplained'
  BY <1>4 DEF ClosingIsExplained
<1> QED
  BY <1>1, <1>2, <1>3, <1>4, <1>5, <1>6, <1>7

\* A step that leaves the snapshot and the program alone.
LEMMA NoSnapshot ==
  ASSUME EndInv, UNCHANGED <<revision, snap, outbox, programVars>>,
         loop = "ended" => loop' = "ended"
  PROVE  EndInv'
  BY DEF EndInv, Current, Failed, ClosingIsExplained, QuitMsg, programVars

LEMMA RecordKeepsEnd ==
  ASSUME EndInv, Counted, NEW u \in Updaters, NEW e \in Errors \cup {NoError}, recordError(u, e),
         loop = "ended" => loop' = "ended" /\ e # NoError,
         UNCHANGED <<forwardVars, programVars>>
  PROVE  EndInv'
<1> DEFINE record == [Current EXCEPT !.error = e]
<1>1. Current \in Records /\ (Current.running \/ loop = "ended")
  BY DEF EndInv, Counted, Current
<1>2. record \in Records /\ record.running = Current.running /\ record.error = e
  BY <1>1 DEF Records
<1>3. revision' = revision + 1 /\ snap' = Append(snap, record)
  BY DEF recordError, updateSnapshot
<1> QED
  BY <1>1, <1>2, <1>3, NextSnapshot

LEMMA FinishKeepsEnd ==
  ASSUME EndInv, Counted, NEW e \in Errors \cup {NoError}, finishRuntime(e),
         e # NoError \/ main = "stopping",
         UNCHANGED <<forwardVars, programVars>>
  PROVE  EndInv'
<1> DEFINE record == [Current EXCEPT !.running = FALSE, !.error = IF e = NoError THEN @ ELSE e]
<1>1. Current \in Records
  BY DEF EndInv, Counted, Current
<1>2. record \in Records /\ record.running = FALSE /\ (e # NoError => record.error = e)
  BY <1>1 DEF Records
<1>3. revision' = revision + 1 /\ snap' = Append(snap, record) /\ loop' = "ended"
  BY DEF finishRuntime, updateSnapshot
<1> QED
  BY <1>2, <1>3, NextSnapshot

LEMMA SessionKeepsEnd ==
  ASSUME EndInv, Counted, SessionStep
  PROVE  EndInv'
<1> USE ScreenAssumption
<1>0. Current \in Records
  BY DEF EndInv, Counted, Current
<1>1. CASE HandleBaresipEvent
  <2>1. Current.error \in Errors \cup {NoError}
    BY <1>0 DEF Records
  <2> QED
    BY <1>1, <2>1, RecordKeepsEnd DEF HandleBaresipEvent, LoopIs
<1>2. CASE \E d \in Dispatches : TakeRequest(d)
  BY <1>2, NoSnapshot DEF TakeRequest, LoopIs, vars, forwardVars
<1>3. CASE ApplyRequest
  <2>1. Current.error \in Errors \cup {NoError}
    BY <1>0 DEF Records
  <2> QED
    BY <1>3, <2>1, RecordKeepsEnd DEF ApplyRequest, LoopIs
<1>4. CASE FinishRestart
  BY <1>4, RecordKeepsEnd DEF FinishRestart, LoopIs
<1>5. CASE FailRequest
  BY <1>5, RecordKeepsEnd DEF FailRequest, LoopIs
<1>6. CASE clearError
  BY <1>6, RecordKeepsEnd DEF clearError, LoopIs
<1>7. CASE Reply
  BY <1>7, NoSnapshot DEF Reply, LoopIs, vars, forwardVars
<1>8. CASE FailRestart
  BY <1>8, NoSnapshot DEF FailRestart, LoopIs, vars, forwardVars
<1>9. CASE LoseRuntime
  BY <1>9, FinishKeepsEnd DEF LoseRuntime
<1>10. CASE \E u \in Updaters : BackgroundFails(u)
  BY <1>10, RecordKeepsEnd DEF BackgroundFails
<1> QED
  BY <1>1, <1>2, <1>3, <1>4, <1>5, <1>6, <1>7, <1>8, <1>9, <1>10 DEF SessionStep

LEMMA MessageKeepsEnd ==
  ASSUME EndInv, NEW msg, Send(msg), msg = QuitMsg => ~ Current.running,
         UNCHANGED <<vars, sessionVars>>,
         outbox' \in Seq(Messages),
         \A i \in 1 .. Len(outbox') : outbox'[i] = QuitMsg => ~ Current.running
  PROVE  EndInv'
<1> USE DEF EndInv, Current, Failed, ClosingIsExplained, QuitMsg, vars, sessionVars
<1>1. CASE Dropped
  BY <1>1 DEF Dropped, programVars
<1>2. CASE msg = QuitMsg /\ main = "running" /\ EndProgram("session")
  BY <1>2 DEF EndProgram
<1>3. CASE Update(msg)
  BY <1>3 DEF Update, programVars
<1> QED
  BY <1>1, <1>2, <1>3 DEF Send, Receives

\* What the forwarder sends for a snapshot ends with quit only if that has ended.
LEMMA ForwardQuits ==
  ASSUME EndInv, NEW r \in 1 .. revision
  PROVE  /\ Forward(r) \in Seq(Messages)
         /\ \A i \in 1 .. Len(Forward(r)) : Forward(r)[i] = QuitMsg => ~ snap[r].running
<1>1. snap[r] \in Records
  BY DEF EndInv
<1> DEFINE head == <<SnapshotMsg>>
           error == IF snap[r].error = lastError THEN <<>> ELSE <<ErrorMsg(snap[r].error)>>
           quit == IF snap[r].running THEN <<>> ELSE <<QuitMsg>>
<1>2. head \in Seq(Messages) /\ error \in Seq(Messages) /\ quit \in Seq(Messages)
  <2>1. SnapshotMsg \in Messages /\ QuitMsg \in Messages
    BY DEF Messages, SnapshotMsg, QuitMsg
  <2>2. ErrorMsg(snap[r].error) \in Messages
    BY <1>1 DEF Messages, Records, ErrorMsg
  <2> HIDE DEF Messages
  <2> QED
    BY <2>1, <2>2
<1>3. \A i \in 1 .. Len(head) : head[i] # QuitMsg
  BY DEF SnapshotMsg, QuitMsg
<1>4. \A i \in 1 .. Len(error) : error[i] # QuitMsg
  BY DEF ErrorMsg, QuitMsg
<1>5. \A i \in 1 .. Len(quit) : ~ snap[r].running
  OBVIOUS
<1>6. Forward(r) = head \o error \o quit
  BY DEF Forward
<1> HIDE DEF head, error, quit
<1>7. /\ head \o error \in Seq(Messages)
      /\ \A i \in 1 .. Len(head \o error) : (head \o error)[i] # QuitMsg
  BY <1>2, <1>3, <1>4, ConcatProperties
<1> QED
  BY <1>2, <1>5, <1>6, <1>7, ConcatProperties

LEMMA ForwarderKeepsEnd ==
  ASSUME EndInv, FeedInv, Published, ForwarderStep
  PROVE  EndInv'
<1>1. CASE ForwarderReceives
  <2> DEFINE r == Head(channel[Forwarder])
  <2>1. r \in 1 .. revision
    BY <1>1, ScreenAssumption DEF ForwarderReceives, Receive, FeedInv, TypeOK, Published
  <2>2. outbox' = Forward(r)
    BY <1>1 DEF ForwarderReceives
  <2>3. /\ outbox' \in Seq(Messages)
        /\ \A i \in 1 .. Len(outbox') : outbox'[i] = QuitMsg => ~ snap[r].running
    BY <2>1, <2>2, ForwardQuits
  <2>4. UNCHANGED <<revision, sessionVars, programVars>>
    BY <1>1 DEF ForwarderReceives, Receive
  <2>5. \A i \in 1 .. Len(outbox') : outbox'[i] = QuitMsg => ~ Current.running
    BY <2>1, <2>3 DEF EndInv
  <2> HIDE DEF r
  <2> QED
    BY <2>3, <2>4, <2>5 DEF EndInv, Current, Failed, ClosingIsExplained, QuitMsg, programVars, sessionVars
<1>2. CASE ForwarderSends
  <2>1. /\ outbox \in Seq(Messages) /\ outbox # <<>> /\ outbox' = Tail(outbox)
        /\ \A i \in 1 .. Len(outbox) : outbox[i] = QuitMsg => ~ Current.running
    BY <1>2 DEF ForwarderSends, EndInv
  <2>2. /\ outbox' \in Seq(Messages)
        /\ \A i \in 1 .. Len(outbox') : outbox'[i] = QuitMsg => ~ Current.running
    BY <2>1, HeadTailProperties
  <2>3. Head(outbox) = QuitMsg => ~ Current.running
    BY <2>1
  <2> QED
    BY <1>2, <2>2, <2>3, MessageKeepsEnd DEF ForwarderSends
<1> QED
  BY <1>1, <1>2 DEF ForwarderStep

LEMMA DispatchKeepsEnd ==
  ASSUME EndInv, DispatchStep
  PROVE  EndInv'
<1>1. CASE \E d \in Dispatches : GiveUp(d) \/ TakeSnapshot(d)
  BY <1>1, NoSnapshot DEF GiveUp, TakeSnapshot, vars, sessionVars, forwardVars
<1>2. ASSUME NEW d \in Dispatches, SendResult(d) PROVE EndInv'
  <2>1. Message(d) # QuitMsg
    BY DEF Message, ErrorMsg, ActionResultMsg, QuitMsg
  <2>2. /\ outbox' \in Seq(Messages)
        /\ \A i \in 1 .. Len(outbox') : outbox'[i] = QuitMsg => ~ Current.running
    BY <1>2 DEF SendResult, EndInv, forwardVars
  <2> QED
    BY <1>2, <2>1, <2>2, MessageKeepsEnd DEF SendResult
<1> QED
  BY <1>1, <1>2 DEF DispatchStep

LEMMA MainKeepsEnd ==
  ASSUME EndInv, Counted, MainStep
  PROVE  EndInv'
<1> USE DEF EndInv, Current, Failed, ClosingIsExplained, QuitMsg, vars, sessionVars, forwardVars
<1>1. CASE SubscribeUpdates
  BY <1>1 DEF SubscribeUpdates, Subscribe
<1>2. CASE NewProgram
  BY <1>2 DEF NewProgram
<1>3. CASE Unsubscribe
  BY <1>3 DEF Unsubscribe, Cancel
<1>4. CASE AwaitForwarder
  BY <1>4 DEF AwaitForwarder, Counted
<1>5. CASE Return
  BY <1>5 DEF Return
<1> QED
  BY <1>1, <1>2, <1>3, <1>4, <1>5 DEF MainStep

LEMMA UserKeepsEnd ==
  ASSUME EndInv, UserStep
  PROVE  EndInv'
<1> USE DEF vars, sessionVars, forwardVars
<1>1. CASE UserQuits
  BY <1>1 DEF UserQuits, EndProgram, EndInv, Current, Failed, ClosingIsExplained, QuitMsg
<1>2. CASE TypeInForm \/ \E d \in Dispatches : EmitAction(d) \/ SubmitForm(d)
  BY <1>2, NoSnapshot DEF TypeInForm, EmitAction, SubmitForm
<1> QED
  BY <1>1, <1>2 DEF UserStep

\* A program that its session's end has closed returns that end's reason as its
\* error (finishRuntime, the forwarder, the terminal snapshot of run).
THEOREM SessionEndIsExplained ==
  ScreenSpec => []ClosingIsExplained
<1>1. ScreenInit => EndInv
  <2> SUFFICES ASSUME ScreenInit PROVE EndInv
    OBVIOUS
  <2>1. PICK e \in Errors \cup {NoError} : snap = <<[running |-> TRUE, error |-> e]>>
    BY DEF ScreenInit
  <2>2. snap \in Seq(Records) /\ Len(snap) = 1 /\ snap[1].running = TRUE
    BY <2>1 DEF Records
  <2>3. revision = 1 /\ outbox = <<>> /\ cause = "none" /\ main = "subscribing"
    BY DEF ScreenInit, Init
  <2> QED
    BY <2>2, <2>3 DEF EndInv, Current, ClosingIsExplained
<1>2. ASSUME EndInv, FeedInv, Published, [ScreenNext]_allVars
      PROVE  EndInv'
  <2>1. Counted
    BY <1>2 DEF Counted, FeedInv, TypeOK, Published
  <2>2. CASE SessionStep
    BY <1>2, <2>1, <2>2, SessionKeepsEnd
  <2>3. CASE FeedStep
    <3>1. \A u \in Updaters : Publish(u) => revision' = revision
      BY DEF Publish, LockSubscribers, TrySend, Drain, Resend, UnlockSubscribers
    <3> QED
      BY <1>2, <2>3, <3>1, NoSnapshot DEF FeedStep, sessionVars, forwardVars
  <2>4. CASE UserStep
    BY <1>2, <2>4, UserKeepsEnd
  <2>5. CASE DispatchStep
    BY <1>2, <2>5, DispatchKeepsEnd
  <2>6. CASE ForwarderStep
    BY <1>2, <2>6, ForwarderKeepsEnd
  <2>7. CASE MainStep
    BY <1>2, <2>1, <2>7, MainKeepsEnd
  <2>8. CASE StopSession
    BY <1>2, <2>1, <2>8, FinishKeepsEnd DEF StopSession
  <2>9. CASE UNCHANGED allVars
    BY <1>2, <2>9, NoSnapshot DEF allVars, vars, sessionVars, forwardVars, programVars
  <2> QED
    BY <1>2, <2>2, <2>3, <2>4, <2>5, <2>6, <2>7, <2>8, <2>9 DEF ScreenNext, ProgramStep
<1>3. EndInv => ClosingIsExplained
  BY DEF EndInv
<1> QED
  BY <1>1, <1>2, <1>3, ScreenImplementsFeed, FeedInvariant, OnlyPublishedArrives, PTL DEF ScreenSpec
==============================================================================
