----------------------------- MODULE LifecycleProofs -----------------------------
(***************************************************************************)
(* Theorems about Lifecycle, for any number of callers and runtimes and any *)
(* combination of faults: no child without somebody who holds on to it, a   *)
(* Stop that succeeds leaves nothing, and nobody is told that a session is  *)
(* not running whose request was worked on.                                 *)
(***************************************************************************)
EXTENDS Lifecycle, TLAPS

\* The caller is inside Start or Stop, with the lifecycle lock.
Holds(c) ==
  \/ caller[c].stage \in {"starting", "connecting", "ending"}
  \/ caller[c].stage \in {"sending", "waiting"} /\ caller[c].kind = "stop"

\* The caller of Stop has been told that the child is gone.
Stopped(c) ==
  /\ caller[c].kind = "stop"
  /\ \/ caller[c].stage = "waiting" /\ reply[c] = "ok"
     \/ caller[c].stage = "ending" /\ caller[c].result = "ok"

\* Who is in Start has no runtime yet; who is in Stop has the last there was.  A
\* request that was received and not answered is the one the loop works on.
CallerOK(c) ==
  /\ lifecycleMu = c <=> Holds(c)
  /\ caller[c].stage = "locking" => caller[c].kind \in {"start", "stop"}
  /\ caller[c].stage \in {"sending", "waiting"} => caller[c].kind \in {"stop", "request"}
  /\ caller[c].stage = "ending" => caller[c].kind = "stop"
  /\ caller[c].stage \in {"starting", "connecting"} => active = 0
  /\ caller[c].stage = "connecting" => started < MaxRuntimes
  /\ caller[c].stage \in {"sending", "waiting", "ending"} /\ caller[c].kind = "stop"
       => active \in {0, caller[c].runtime}
  /\ reply[c] # "none" => caller[c].stage = "waiting"
  /\ job.caller = c => caller[c].stage = "waiting" /\ caller[c].kind = job.kind
  /\ caller[c].stage = "waiting" /\ reply[c] = "none"
       => loop = "handling" /\ job.caller = c /\ caller[c].runtime = active
  /\ Stopped(c) => child = "none" /\ loop \in {"ending", "none"}

\* Where the run goroutine is tells what it still has and why it goes.
LoopOK ==
  /\ active \in {0, started}
  /\ active # 0 <=> loop # "none"
  /\ done \subseteq 1 .. started /\ active \notin done
  /\ attached <=> loop \in {"select", "handling", "cleaning"}
  /\ loop = "handling" => job.kind \in {"stop", "request"}
  /\ loop = "cleaning" => cancelled \/ failed
  /\ loop = "ending" => cancelled \/ failed \/ job.kind = "stop"

LifeInv ==
  /\ TypeOK
  /\ LoopOK
  /\ NoStrayChild
  /\ \A c \in Callers : CallerOK(c)

-----------------------------------------------------------------------------
(* Callers *)

CallerRecords ==
  [stage : CallerStages, kind : Kinds \cup {"none"}, runtime : 0 .. MaxRuntimes, result : Results]

\* Nothing of caller d has changed.
Aside(d) ==
  /\ caller'[d] = caller[d] /\ reply'[d] = reply[d]
  /\ lifecycleMu' = d <=> lifecycleMu = d
  /\ job'.caller = d <=> job.caller = d
  /\ job.caller = d => job'.kind = job.kind

\* The run goroutine, its runtime and the child are where they were, but that a
\* child may have come to its end.
WorldStays ==
  /\ active' = active /\ started' = started /\ loop' = loop
  /\ child' = child \/ child' = "none"

LEMMA AsideKeeps ==
  ASSUME NEW d \in Callers, CallerOK(d), Aside(d), WorldStays
  PROVE  CallerOK(d)'
  BY DEF CallerOK, Aside, WorldStays, Holds, Stopped

LEMMA CallerTypes ==
  ASSUME TypeOK
  PROVE  caller \in [Callers -> CallerRecords]
  BY DEF TypeOK, CallerRecords

\* One caller moves.
LEMMA SetCaller ==
  ASSUME TypeOK, NEW c \in Callers, NEW r \in CallerRecords, caller' = [caller EXCEPT ![c] = r]
  PROVE  /\ caller' \in [Callers -> CallerRecords]
         /\ caller'[c] = r
         /\ \A d \in Callers \ {c} : caller'[d] = caller[d]
  BY CallerTypes

\* A call returns.
LEMMA Returned ==
  ASSUME TypeOK, NEW c \in Callers, NEW result \in Results, Return(c, result)
  PROVE  /\ caller' \in [Callers -> CallerRecords] /\ expired' \subseteq Callers
         /\ caller'[c].stage = "idle" /\ caller'[c].result = result
         /\ \A d \in Callers \ {c} : caller'[d] = caller[d]
<1> DEFINE r == [Idle EXCEPT !.result = result]
<1>1. r \in CallerRecords /\ r.stage = "idle" /\ r.result = result
  BY RuntimesAssumption DEF Idle, CallerRecords, CallerStages, Kinds, Results, Replies
<1>2. caller' = [caller EXCEPT ![c] = r] /\ expired' = expired \ {c}
  BY DEF Return
<1> HIDE DEF r
<1> QED
  BY <1>1, <1>2, SetCaller DEF TypeOK

\* A caller that is idle has nothing.
LEMMA IdleOK ==
  ASSUME NEW c \in Callers, caller'[c].stage = "idle", reply'[c] = "none",
         lifecycleMu' # c, job'.caller # c
  PROVE  CallerOK(c)'
  BY DEF CallerOK, Holds, Stopped

LEMMA InitLifeInv == Init => LifeInv
<1> SUFFICES ASSUME Init PROVE LifeInv
  OBVIOUS
<1>1. TypeOK
  <2>1. Idle \in CallerRecords
    BY RuntimesAssumption DEF Idle, CallerRecords, CallerStages, Kinds, Results, Replies
  <2>2. caller \in [Callers -> CallerRecords]
    BY <2>1 DEF Init
  <2>3. job \in [kind : Kinds \cup {"none"}, caller : Callers \cup {NoCaller}]
    BY DEF Init, NoJob
  <2>4. 0 \in 0 .. MaxRuntimes
    BY RuntimesAssumption
  <2> QED
    BY <2>2, <2>3, <2>4 DEF Init, TypeOK, CallerRecords, Replies, LoopStages
<1>2. LoopOK /\ NoStrayChild
  BY DEF Init, LoopOK, NoStrayChild
<1>3. \A c \in Callers : CallerOK(c)
  BY CallerAssumption DEF Init, CallerOK, Holds, Stopped, Idle, NoJob
<1> QED
  BY <1>1, <1>2, <1>3 DEF LifeInv

\* A step of a caller that touches neither the run goroutine nor the child keeps
\* what is said of them, if the Start that holds the child goes on.
LEMMA CallerStepKeeps ==
  ASSUME LifeInv, NEW c \in Callers, TypeOK', CallerOK(c)',
         UNCHANGED <<active, started, done, loop, attached, failed, child>>,
         cancelled => cancelled', job'.kind = job.kind,
         \A d \in Callers \ {c} : Aside(d),
         caller[c].stage = "connecting" => caller'[c].stage = "connecting"
  PROVE  LifeInv'
<1>1. LoopOK'
  BY DEF LifeInv, LoopOK
<1>2. NoStrayChild'
  BY DEF LifeInv, NoStrayChild, Aside
<1>3. \A d \in Callers : CallerOK(d)'
  BY AsideKeeps DEF LifeInv, WorldStays
<1> QED
  BY <1>1, <1>2, <1>3 DEF LifeInv

\* Start or Stop returns and lets go of the lifecycle lock.
LEMMA UnlockMoves ==
  ASSUME LifeInv, NEW c \in Callers, Unlock(c), lifecycleMu \in {c, NoCaller},
         caller[c].stage # "waiting", UNCHANGED <<reply, job>>
  PROVE  /\ caller' \in [Callers -> CallerRecords] /\ expired' \subseteq Callers
         /\ lifecycleMu' = NoCaller
         /\ CallerOK(c)'
         /\ caller'[c].stage = "idle"
         /\ \A d \in Callers \ {c} : Aside(d)
<1>1. "none" \in Results
  BY DEF Results, Replies
<1>2. /\ caller' \in [Callers -> CallerRecords] /\ expired' \subseteq Callers
      /\ caller'[c].stage = "idle"
      /\ \A d \in Callers \ {c} : caller'[d] = caller[d]
  BY <1>1, Returned DEF LifeInv, Unlock
<1>3. lifecycleMu' = NoCaller
  BY DEF Unlock
<1>4. reply[c] = "none" /\ job.caller # c
  BY DEF LifeInv, CallerOK
<1>5. CallerOK(c)'
  BY <1>2, <1>3, <1>4, IdleOK, CallerAssumption
<1>6. \A d \in Callers \ {c} : Aside(d)
  BY <1>2, <1>3, CallerAssumption DEF Aside
<1> QED
  BY <1>2, <1>3, <1>5, <1>6

LEMMA BeginKeeps ==
  ASSUME LifeInv, NEW c \in Callers, NEW kind \in Does[c], Begin(c, kind)
  PROVE  LifeInv'
<1> DEFINE r == IF kind \in {"start", "stop"} THEN [Idle EXCEPT !.stage = "locking", !.kind = kind]
                ELSE IF active = 0 THEN [Idle EXCEPT !.result = "notrunning"]
                ELSE [Idle EXCEPT !.stage = "sending", !.kind = kind, !.runtime = active]
<1>1. /\ caller[c].stage = "idle" /\ caller' = [caller EXCEPT ![c] = r]
      /\ reply' = [reply EXCEPT ![c] = "none"]
      /\ UNCHANGED <<active, started, done, lifecycleMu, expired, loop, job, runtimeVars, childVars, lastError>>
  BY DEF Begin
<1>2. kind \in {"start", "stop", "request"} /\ active \in 0 .. MaxRuntimes /\ 0 \in 0 .. MaxRuntimes
  BY DoesAssumption, RuntimesAssumption DEF LifeInv, TypeOK
<1>3. /\ r \in CallerRecords /\ r.stage \in {"locking", "idle", "sending"}
      /\ r.stage = "locking" => r.kind \in {"start", "stop"}
      /\ r.stage = "sending" => r.kind = "request"
  BY <1>2 DEF Idle, CallerRecords, CallerStages, Kinds, Results, Replies
<1> HIDE DEF r
<1>4. /\ caller' \in [Callers -> CallerRecords] /\ caller'[c] = r
      /\ \A d \in Callers \ {c} : caller'[d] = caller[d]
  BY <1>1, <1>3, SetCaller DEF LifeInv
<1>5. reply' \in [Callers -> Replies] /\ reply'[c] = "none" /\ \A d \in Callers \ {c} : reply'[d] = reply[d]
  BY <1>1 DEF LifeInv, TypeOK, Replies
<1>6. TypeOK'
  BY <1>1, <1>4, <1>5 DEF LifeInv, TypeOK, CallerRecords, runtimeVars, childVars
<1>7. lifecycleMu # c /\ job.caller # c
  BY <1>1 DEF LifeInv, CallerOK, Holds
<1>8. CallerOK(c)'
  BY <1>1, <1>3, <1>4, <1>5, <1>7 DEF CallerOK, Holds, Stopped
<1>9. \A d \in Callers \ {c} : Aside(d)
  BY <1>1, <1>4, <1>5 DEF Aside
<1> QED
  BY <1>1, <1>6, <1>8, <1>9, CallerStepKeeps DEF runtimeVars, childVars

LEMMA ExpireKeeps ==
  ASSUME LifeInv, NEW c \in Callers, Expire(c)
  PROVE  LifeInv'
<1>1. TypeOK'
  BY DEF LifeInv, TypeOK, Expire, runtimeVars, childVars
<1>2. \A d \in Callers : Aside(d) /\ WorldStays
  BY DEF Expire, Aside, WorldStays, childVars
<1>3. CallerOK(c)'
  BY <1>2, AsideKeeps DEF LifeInv
<1> QED
  BY <1>1, <1>2, <1>3, CallerStepKeeps DEF Expire, runtimeVars, childVars

LEMMA LockKeeps ==
  ASSUME LifeInv, NEW c \in Callers, Lock(c)
  PROVE  LifeInv'
<1>1. /\ caller[c].stage = "locking" /\ lifecycleMu = NoCaller
      /\ UNCHANGED <<active, started, done, reply, loop, job, runtimeVars, childVars, lastError>>
  BY DEF Lock
<1>2. CASE Unlock(c)
  <2>1. /\ caller' \in [Callers -> CallerRecords] /\ expired' \subseteq Callers
        /\ lifecycleMu' = NoCaller /\ CallerOK(c)' /\ \A d \in Callers \ {c} : Aside(d)
    BY <1>1, <1>2, UnlockMoves
  <2>2. TypeOK'
    BY <1>1, <2>1 DEF LifeInv, TypeOK, CallerRecords, runtimeVars, childVars
  <2> QED
    BY <1>1, <2>1, <2>2, CallerStepKeeps DEF runtimeVars, childVars
<1>3. CASE ~ Unlock(c)
  <2>1. lifecycleMu' = c /\ expired' = expired
    BY <1>3 DEF Lock
  <2>2. reply[c] = "none" /\ job.caller # c
    BY <1>1 DEF LifeInv, CallerOK
  <2>3. PICK r \in CallerRecords :
          /\ caller' = [caller EXCEPT ![c] = r]
          /\ \/ r.stage = "starting" /\ active = 0
             \/ r.stage = "sending" /\ r.kind = "stop" /\ r.runtime = active
    <3>1. caller[c] \in CallerRecords /\ active \in 0 .. MaxRuntimes
      BY CallerTypes DEF LifeInv, TypeOK
    <3>2. CASE caller[c].kind = "start"
      <4> DEFINE r == [caller[c] EXCEPT !.stage = "starting"]
      <4>1. active = 0 /\ caller' = [caller EXCEPT ![c] = r]
        BY <1>3, <3>2 DEF Lock
      <4>2. r \in CallerRecords /\ r.stage = "starting"
        BY <3>1 DEF CallerRecords, CallerStages
      <4> QED
        BY <4>1, <4>2
    <3>3. CASE caller[c].kind = "stop"
      <4> DEFINE r == [caller[c] EXCEPT !.stage = "sending", !.runtime = active]
      <4>1. caller' = [caller EXCEPT ![c] = r]
        BY <1>3, <3>1, <3>3, CallerTypes DEF LifeInv, Lock
      <4>2. r \in CallerRecords /\ r.stage = "sending" /\ r.kind = "stop" /\ r.runtime = active
        BY <3>1, <3>3 DEF CallerRecords, CallerStages
      <4> QED
        BY <4>1, <4>2
    <3> QED
      BY <1>3, <3>2, <3>3 DEF Lock
  <2>4. /\ caller' \in [Callers -> CallerRecords] /\ caller'[c] = r
        /\ \A d \in Callers \ {c} : caller'[d] = caller[d]
    BY <2>3, SetCaller DEF LifeInv
  <2>5. TypeOK'
    BY <1>1, <2>1, <2>4 DEF LifeInv, TypeOK, CallerRecords, runtimeVars, childVars
  <2>6. CallerOK(c)'
    BY <1>1, <2>1, <2>2, <2>3, <2>4 DEF CallerOK, Holds, Stopped
  <2>7. \A d \in Callers \ {c} : Aside(d)
    BY <1>1, <2>1, <2>4, CallerAssumption DEF Aside
  <2> QED
    BY <1>1, <2>5, <2>6, <2>7, CallerStepKeeps DEF runtimeVars, childVars
<1> QED
  BY <1>2, <1>3

\* Nobody waits for the answer of a caller that leaves; one of Stop goes on to see
\* the runtime end.
LEMMA LeaveKeeps ==
  ASSUME LifeInv, NEW c \in Callers, NEW result \in Results, Leave(c, result),
         caller[c].stage \in {"sending", "waiting"},
         result = "ok" => caller[c].stage = "waiting" /\ reply[c] = "ok"
  PROVE  LifeInv'
<1>1. /\ UNCHANGED <<active, started, done, lifecycleMu, loop, runtimeVars, childVars, lastError>>
      /\ reply' = [reply EXCEPT ![c] = "none"]
      /\ job' = IF job.caller = c THEN [job EXCEPT !.caller = NoCaller] ELSE job
  BY DEF Leave
<1>2. /\ reply' \in [Callers -> Replies] /\ reply'[c] = "none"
      /\ \A d \in Callers \ {c} : reply'[d] = reply[d]
  BY <1>1 DEF LifeInv, TypeOK, Replies
<1>3. /\ job' \in [kind : Kinds \cup {"none"}, caller : Callers \cup {NoCaller}]
      /\ job'.kind = job.kind /\ job'.caller # c
      /\ \A d \in Callers \ {c} : job'.caller = d <=> job.caller = d
  BY <1>1, CallerAssumption DEF LifeInv, TypeOK
<1>4. /\ caller' \in [Callers -> CallerRecords] /\ expired' \subseteq Callers
      /\ \A d \in Callers \ {c} : caller'[d] = caller[d]
      /\ CallerOK(c)'
      /\ caller'[c].result = result
  <2>1. CASE caller[c].kind = "stop"
    <3> DEFINE r == [caller[c] EXCEPT !.stage = "ending", !.result = result]
    <3>1. caller[c] \in CallerRecords
      BY CallerTypes DEF LifeInv
    <3>2. /\ r \in CallerRecords /\ r.stage = "ending" /\ r.kind = "stop"
          /\ r.runtime = caller[c].runtime /\ r.result = result
      BY <2>1, <3>1 DEF CallerRecords, CallerStages
    <3>3. caller' = [caller EXCEPT ![c] = r] /\ expired' = expired
      BY <2>1, <3>1, CallerTypes DEF Leave, LifeInv
    <3> HIDE DEF r
    <3>4. /\ caller' \in [Callers -> CallerRecords] /\ caller'[c] = r
          /\ \A d \in Callers \ {c} : caller'[d] = caller[d]
      BY <3>2, <3>3, SetCaller DEF LifeInv
    <3>5. CallerOK(c)'
      <4>1. result = "ok" => Stopped(c)
        BY <2>1 DEF Stopped
      <4> QED
        BY <1>1, <1>2, <1>3, <2>1, <3>2, <3>4, <4>1
           DEF LifeInv, CallerOK, Holds, Stopped, childVars
    <3> QED
      BY <3>2, <3>3, <3>4, <3>5 DEF LifeInv, TypeOK
  <2>2. CASE caller[c].kind # "stop"
    <3>1. /\ caller' \in [Callers -> CallerRecords] /\ expired' \subseteq Callers
          /\ caller'[c].stage = "idle" /\ caller'[c].result = result
          /\ \A d \in Callers \ {c} : caller'[d] = caller[d]
      BY <2>2, Returned DEF Leave, LifeInv
    <3>2. lifecycleMu' # c
      BY <1>1, <2>2 DEF LifeInv, CallerOK, Holds
    <3> QED
      BY <1>2, <1>3, <3>1, <3>2, IdleOK
  <2> QED
    BY <2>1, <2>2
<1>5. TypeOK'
  BY <1>1, <1>2, <1>3, <1>4 DEF LifeInv, TypeOK, CallerRecords, runtimeVars, childVars
<1>6. \A d \in Callers \ {c} : Aside(d)
  BY <1>1, <1>2, <1>3, <1>4 DEF Aside
<1> QED
  BY <1>1, <1>3, <1>4, <1>5, <1>6, CallerStepKeeps DEF runtimeVars, childVars

LEMMA StopReturnsKeeps ==
  ASSUME LifeInv, NEW c \in Callers, StopEnds(c) \/ StopGivesUp(c)
  PROVE  LifeInv'
<1>1. /\ caller[c].stage = "ending" /\ Unlock(c)
      /\ UNCHANGED <<active, started, done, reply, loop, job, attached, failed, childVars, lastError>>
  BY DEF StopEnds, StopGivesUp, runtimeVars
<1>2. cancelled' \in BOOLEAN /\ (cancelled => cancelled')
  BY DEF StopEnds, StopGivesUp, runtimeVars, LifeInv, TypeOK
<1>3. lifecycleMu = c
  BY <1>1 DEF LifeInv, CallerOK, Holds
<1>4. /\ caller' \in [Callers -> CallerRecords] /\ expired' \subseteq Callers
      /\ lifecycleMu' = NoCaller /\ CallerOK(c)' /\ \A d \in Callers \ {c} : Aside(d)
  BY <1>1, <1>3, UnlockMoves
<1>5. TypeOK'
  BY <1>1, <1>2, <1>4 DEF LifeInv, TypeOK, CallerRecords, childVars
<1> QED
  BY <1>1, <1>2, <1>4, <1>5, CallerStepKeeps DEF childVars

-----------------------------------------------------------------------------
(* Start *)

\* A caller without the lock does not care what becomes of the child, nor of a
\* runtime that does not work on its request.
LEMMA BystanderKeeps ==
  ASSUME NEW d \in Callers, CallerOK(d), Aside(d), ~ Holds(d),
         caller[d].stage = "waiting" /\ reply[d] = "none" => loop' = loop /\ active' = active
  PROVE  CallerOK(d)'
  BY DEF CallerOK, Aside, Holds, Stopped

\* Inside Start nobody else holds the lock, and there is no runtime.
LEMMA StartAlone ==
  ASSUME LifeInv, NEW c \in Callers, caller[c].stage \in {"starting", "connecting"}
  PROVE  /\ lifecycleMu = c /\ active = 0 /\ loop = "none" /\ ~ attached
         /\ reply[c] = "none" /\ job.caller # c
         /\ \A d \in Callers \ {c} : ~ Holds(d)
         /\ \A d \in Callers : ~ (caller[d].stage = "waiting" /\ reply[d] = "none")
  BY DEF LifeInv, LoopOK, CallerOK, Holds

LEMMA LaunchKeeps ==
  ASSUME LifeInv, NEW c \in Callers, Launch(c)
  PROVE  LifeInv'
<1>1. /\ caller[c].stage = "starting"
      /\ UNCHANGED <<active, started, done, reply, loop, job, attached, cancelled, failed, severed, lastError>>
  BY DEF Launch, runtimeVars
<1>2. CASE Unlock(c) /\ UNCHANGED child
  <2>1. /\ caller' \in [Callers -> CallerRecords] /\ expired' \subseteq Callers
        /\ lifecycleMu' = NoCaller /\ CallerOK(c)' /\ \A d \in Callers \ {c} : Aside(d)
    BY <1>1, <1>2, UnlockMoves, StartAlone
  <2>2. TypeOK'
    BY <1>1, <1>2, <2>1 DEF LifeInv, TypeOK, CallerRecords
  <2> QED
    BY <1>1, <1>2, <2>1, <2>2, CallerStepKeeps
<1>3. CASE /\ started < MaxRuntimes /\ child' = "alive"
           /\ caller' = [caller EXCEPT ![c].stage = "connecting"]
           /\ UNCHANGED <<lifecycleMu, expired>>
  <2> DEFINE r == [caller[c] EXCEPT !.stage = "connecting"]
  <2>1. caller[c] \in CallerRecords
    BY CallerTypes DEF LifeInv
  <2>2. r \in CallerRecords /\ r.stage = "connecting" /\ caller' = [caller EXCEPT ![c] = r]
    BY <1>3, <2>1 DEF CallerRecords, CallerStages
  <2> HIDE DEF r
  <2>3. /\ caller' \in [Callers -> CallerRecords] /\ caller'[c] = r
        /\ \A d \in Callers \ {c} : caller'[d] = caller[d]
    BY <2>2, SetCaller DEF LifeInv
  <2>4. TypeOK'
    BY <1>1, <1>3, <2>3 DEF LifeInv, TypeOK, CallerRecords
  <2>5. LoopOK'
    BY <1>1 DEF LifeInv, LoopOK
  <2>6. NoStrayChild'
    BY <2>2, <2>3 DEF NoStrayChild
  <2>7. CallerOK(c)'
    BY <1>1, <1>3, <2>2, <2>3, StartAlone DEF CallerOK, Holds, Stopped
  <2>8. ASSUME NEW d \in Callers \ {c} PROVE CallerOK(d)'
    <3>1. Aside(d)
      BY <1>1, <1>3, <2>3 DEF Aside
    <3> QED
      BY <1>1, <3>1, StartAlone, BystanderKeeps DEF LifeInv
  <2> QED
    BY <2>4, <2>5, <2>6, <2>7, <2>8 DEF LifeInv
<1> QED
  BY <1>2, <1>3 DEF Launch

\* A Start that fails takes the child along: nobody else would.
LEMMA ConnectFailsKeeps ==
  ASSUME LifeInv, NEW c \in Callers, ConnectFails(c)
  PROVE  LifeInv'
<1>1. /\ caller[c].stage = "connecting" /\ ChildStopped /\ Unlock(c)
      /\ UNCHANGED <<active, started, done, reply, loop, job, attached, cancelled, failed, severed, lastError>>
  BY DEF ConnectFails, runtimeVars
<1>2. /\ caller' \in [Callers -> CallerRecords] /\ expired' \subseteq Callers
      /\ lifecycleMu' = NoCaller /\ CallerOK(c)' /\ \A d \in Callers \ {c} : Aside(d)
  BY <1>1, UnlockMoves, StartAlone
<1>3. child' \in {"none", "dying"}
  BY <1>1 DEF ChildStopped
<1>4. TypeOK'
  BY <1>1, <1>2, <1>3 DEF LifeInv, TypeOK, CallerRecords
<1>5. LoopOK'
  BY <1>1 DEF LifeInv, LoopOK
<1>6. NoStrayChild'
  BY <1>3 DEF NoStrayChild
<1>7. ASSUME NEW d \in Callers \ {c} PROVE CallerOK(d)'
  BY <1>1, <1>2, StartAlone, BystanderKeeps DEF LifeInv
<1> QED
  BY <1>2, <1>4, <1>5, <1>6, <1>7 DEF LifeInv

LEMMA ActivateKeeps ==
  ASSUME LifeInv, NEW c \in Callers, Activate(c)
  PROVE  LifeInv'
<1>1. /\ caller[c].stage = "connecting" /\ Unlock(c)
      /\ started' = started + 1 /\ active' = started' /\ loop' = "select"
      /\ attached' = TRUE /\ cancelled' = FALSE /\ failed' = FALSE /\ severed' = FALSE
      /\ UNCHANGED <<done, reply, job, child>>
  BY DEF Activate
<1>2. lastError' \in BOOLEAN
  <2> DEFINE unread == "fail" \in Faults
  <2>1. lastError' \in {FALSE, unread}
    BY Zenon DEF Activate
  <2>2. unread \in BOOLEAN
    OBVIOUS
  <2> HIDE DEF unread
  <2> QED
    BY <2>1, <2>2
<1>3. /\ caller' \in [Callers -> CallerRecords] /\ expired' \subseteq Callers
      /\ lifecycleMu' = NoCaller /\ CallerOK(c)' /\ \A d \in Callers \ {c} : Aside(d)
  BY <1>1, UnlockMoves, StartAlone
<1>4. started < MaxRuntimes /\ started \in 0 .. MaxRuntimes
  BY <1>1 DEF LifeInv, CallerOK, TypeOK
<1>5. TypeOK'
  <2>1. started + 1 \in 0 .. MaxRuntimes
    BY <1>4, RuntimesAssumption
  <2> QED
    BY <1>2, <1>1, <1>3, <2>1 DEF LifeInv, TypeOK, CallerRecords, LoopStages
<1>6. LoopOK'
  BY <1>1, <1>4 DEF LifeInv, LoopOK
<1>7. NoStrayChild'
  BY <1>1 DEF NoStrayChild
<1>8. ASSUME NEW d \in Callers \ {c} PROVE CallerOK(d)'
  BY <1>1, <1>3, StartAlone, BystanderKeeps DEF LifeInv
<1> QED
  BY <1>3, <1>5, <1>6, <1>7, <1>8 DEF LifeInv

-----------------------------------------------------------------------------
(* The run goroutine *)

\* A request is received only when the one before is answered.
LEMMA ReceiveKeeps ==
  ASSUME LifeInv, NEW c \in Callers, Receive(c)
  PROVE  LifeInv'
<1> DEFINE r == [caller[c] EXCEPT !.stage = "waiting"]
<1>1. /\ loop = "select" /\ caller[c].stage = "sending" /\ caller[c].runtime = active
      /\ UNCHANGED <<active, started, done, lifecycleMu, expired, attached, cancelled, failed,
                     severed, child, lastError>>
  BY DEF Receive, runtimeVars, childVars
<1>2. /\ caller[c] \in CallerRecords /\ caller[c].kind \in {"stop", "request"}
      /\ reply[c] = "none" /\ job.caller # c
  BY <1>1, CallerTypes DEF LifeInv, CallerOK
<1>3. /\ r \in CallerRecords /\ r.stage = "waiting" /\ r.kind = caller[c].kind
      /\ r.runtime = active /\ caller' = [caller EXCEPT ![c] = r]
  BY <1>1, <1>2 DEF CallerRecords, CallerStages, Receive
<1> HIDE DEF r
<1>4. /\ caller' \in [Callers -> CallerRecords] /\ caller'[c] = r
      /\ \A d \in Callers \ {c} : caller'[d] = caller[d]
  BY <1>3, SetCaller DEF LifeInv
<1>5. NoStrayChild'
  BY <1>1, <1>4 DEF LifeInv, LoopOK, NoStrayChild
<1>6. CASE c \in expired
  <2>1. reply' = [reply EXCEPT ![c] = "expired"] /\ UNCHANGED <<loop, job>>
    BY <1>6 DEF Receive
  <2>2. /\ reply' \in [Callers -> Replies] /\ reply'[c] = "expired"
        /\ \A d \in Callers \ {c} : reply'[d] = reply[d]
    BY <2>1 DEF LifeInv, TypeOK, Replies
  <2>3. TypeOK'
    BY <1>1, <1>4, <2>1, <2>2 DEF LifeInv, TypeOK, CallerRecords
  <2>4. LoopOK'
    BY <1>1, <2>1 DEF LifeInv, LoopOK
  <2>5. CallerOK(c)'
    BY <1>1, <1>2, <1>3, <1>4, <2>1, <2>2 DEF LifeInv, CallerOK, Holds, Stopped
  <2>6. ASSUME NEW d \in Callers \ {c} PROVE CallerOK(d)'
    BY <1>1, <1>4, <2>1, <2>2, AsideKeeps DEF LifeInv, Aside, WorldStays
  <2> QED
    BY <1>5, <2>3, <2>4, <2>5, <2>6 DEF LifeInv
<1>7. CASE c \notin expired
  <2>1. /\ loop' = "handling" /\ job' = [kind |-> caller[c].kind, caller |-> c] /\ reply' = reply
    BY <1>7 DEF Receive
  <2>2. TypeOK'
    BY <1>1, <1>2, <1>4, <2>1 DEF LifeInv, TypeOK, CallerRecords, LoopStages, Kinds
  <2>3. LoopOK'
    BY <1>1, <1>2, <2>1 DEF LifeInv, LoopOK
  <2>4. CallerOK(c)'
    BY <1>1, <1>2, <1>3, <1>4, <2>1 DEF LifeInv, CallerOK, Holds, Stopped
  <2>5. ASSUME NEW d \in Callers \ {c} PROVE CallerOK(d)'
    BY <1>1, <1>4, <2>1 DEF LifeInv, CallerOK, Holds, Stopped
  <2> QED
    BY <1>5, <2>2, <2>3, <2>4, <2>5 DEF LifeInv
<1> QED
  BY <1>6, <1>7

\* Whatever the loop does with the request it works on, it answers it, once; it
\* ends with the answer if it has given up the child.
LEMMA AnswerKeeps ==
  ASSUME LifeInv, loop = "handling", NEW result \in {"ok", "error"}, NEW terminate \in BOOLEAN,
         Answer(result, terminate),
         child' \in {"none", "alive", "dying"}, attached' \in BOOLEAN, severed' \in BOOLEAN,
         attached' <=> ~ terminate,
         terminate => result = "error" \/ job.kind = "stop",
         result = "ok" /\ job.kind = "stop" => terminate /\ child' = "none",
         child' = "alive" => attached'
  PROVE  LifeInv'
<1>1. /\ reply' = IF job.caller = NoCaller THEN reply ELSE [reply EXCEPT ![job.caller] = result]
      /\ loop' = IF terminate THEN "ending" ELSE "select"
      /\ job' = IF terminate THEN job ELSE NoJob
      /\ failed' = (terminate /\ result = "error")
      /\ lastError' = IF terminate THEN lastError ELSE result = "error"
      /\ UNCHANGED <<active, started, done, lifecycleMu, caller, expired, cancelled>>
  BY DEF Answer, callerVars
<1>2. /\ reply' \in [Callers -> Replies]
      /\ job.caller \in Callers => reply'[job.caller] = result
      /\ \A d \in Callers : d # job.caller => reply'[d] = reply[d]
  <2>1. reply \in [Callers -> Replies] /\ result \in Replies
    BY DEF LifeInv, TypeOK, Replies
  <2>2. CASE job.caller = NoCaller
    BY <1>1, <2>1, <2>2, CallerAssumption
  <2>3. CASE job.caller # NoCaller
    BY <1>1, <2>1, <2>3
  <2> QED
    BY <2>2, <2>3
<1>3. TypeOK'
  BY <1>1, <1>2 DEF LifeInv, TypeOK, LoopStages, NoJob
<1>4. LoopOK'
  BY <1>1 DEF LifeInv, LoopOK
<1>5. NoStrayChild'
  BY DEF NoStrayChild
<1>6. ASSUME NEW d \in Callers PROVE CallerOK(d)'
  <2>1. ~ Stopped(d) /\ CallerOK(d)
    BY DEF LifeInv, CallerOK
  <2>2. job'.caller = d => job.caller = d /\ job'.kind = job.kind
    BY <1>1, CallerAssumption DEF NoJob
  <2>3. CASE job.caller = d
    BY <1>1, <1>2, <2>1, <2>2, <2>3 DEF CallerOK, Holds, Stopped
  <2>4. CASE job.caller # d
    BY <1>1, <1>2, <2>1, <2>2, <2>4 DEF CallerOK, Holds, Stopped
  <2> QED
    BY <2>3, <2>4
<1> QED
  BY <1>3, <1>4, <1>5, <1>6 DEF LifeInv

\* Detach leaves no living child.
LEMMA Detached ==
  ASSUME Detach
  PROVE  attached' = FALSE /\ child' \in {"none", "dying"} /\ severed' = severed
  BY DEF Detach, ChildStopped

LEMMA HandlingKeeps ==
  ASSUME LifeInv, Operate \/ RestartChild \/ StopChild
  PROVE  LifeInv'
<1>1. loop = "handling" /\ attached /\ severed \in BOOLEAN /\ child \in {"none", "alive", "dying"}
  BY DEF LifeInv, LoopOK, TypeOK, Operate, RestartChild, StopChild, Serves
<1>2. CASE Operate
  BY <1>1, <1>2, AnswerKeeps DEF Operate, Serves, childVars
<1>3. CASE RestartChild
  <2>1. CASE child' = "alive" /\ severed' = FALSE /\ Answer("ok", FALSE) /\ UNCHANGED attached
    BY <1>1, <1>3, <2>1, AnswerKeeps DEF RestartChild, Serves
  <2>2. CASE Detach /\ Answer("error", TRUE)
    BY <1>1, <2>2, Detached, AnswerKeeps
  <2> QED
    BY <1>3, <2>1, <2>2 DEF RestartChild
<1>4. CASE StopChild
  <2>1. CASE child' = "none" /\ Answer("ok", TRUE)
    BY <1>1, <1>4, <2>1, Detached, AnswerKeeps DEF StopChild, Serves
  <2>2. CASE Answer("error", TRUE)
    BY <1>1, <1>4, <2>2, Detached, AnswerKeeps DEF StopChild, Serves
  <2> QED
    BY <1>4, <2>1, <2>2 DEF StopChild
<1> QED
  BY <1>2, <1>3, <1>4

\* Between requests the loop goes its way to the end without a word to anybody.
LEMMA LoopStepKeeps ==
  ASSUME LifeInv, loop # "handling", TypeOK', LoopOK', NoStrayChild',
         UNCHANGED <<callerVars, reply, started>>, active' \in {active, 0}, job' \in {job, NoJob},
         loop \in {"ending", "none"}
           => loop' \in {"ending", "none"} /\ child' \in {child, "none"}
  PROVE  LifeInv'
<1>1. ASSUME NEW d \in Callers PROVE CallerOK(d)'
  <2>1. CallerOK(d)
    BY DEF LifeInv
  <2>2. job'.caller = d => job' = job
    BY CallerAssumption DEF NoJob
  <2> QED
    BY <2>1, <2>2 DEF CallerOK, Holds, Stopped, callerVars
<1> QED
  BY <1>1 DEF LifeInv

LEMMA EndingKeeps ==
  ASSUME LifeInv, SeeCancelled \/ LoseClient \/ LoseChild \/ CleanUp \/ Finish
  PROVE  LifeInv'
<1>1. CASE SeeCancelled
  <2>1. TypeOK' /\ LoopOK' /\ NoStrayChild'
    BY <1>1 DEF SeeCancelled, LifeInv, TypeOK, LoopOK, NoStrayChild, LoopStages, callerVars,
       runtimeVars, childVars
  <2> QED
    BY <1>1, <2>1, LoopStepKeeps DEF SeeCancelled
<1>2. CASE LoseClient
  <2>1. TypeOK' /\ LoopOK' /\ NoStrayChild'
    BY <1>2 DEF LoseClient, LifeInv, TypeOK, LoopOK, NoStrayChild, LoopStages, callerVars, childVars
  <2> QED
    BY <1>2, <2>1, LoopStepKeeps DEF LoseClient
<1>3. CASE LoseChild
  <2>1. TypeOK' /\ LoopOK' /\ NoStrayChild'
    BY <1>3 DEF LoseChild, LifeInv, TypeOK, LoopOK, NoStrayChild, LoopStages, callerVars, childVars
  <2> QED
    BY <1>3, <2>1, LoopStepKeeps DEF LoseChild
<1>4. CASE CleanUp
  <2>1. attached' = FALSE /\ child' \in {"none", "dying"} /\ severed' = severed
    BY <1>4, Detached DEF CleanUp
  <2>2. /\ loop = "cleaning" /\ loop' = "ending"
        /\ failed' \in {failed, TRUE}
        /\ UNCHANGED <<active, started, done, lifecycleMu, caller, expired, reply, job, cancelled, lastError>>
    BY <1>4, Zenon DEF CleanUp, callerVars
  <2>3. failed' \in BOOLEAN /\ (failed => failed')
    BY <2>2 DEF LifeInv, TypeOK
  <2>4. TypeOK'
    BY <2>1, <2>2, <2>3 DEF LifeInv, TypeOK, LoopStages
  <2>5. LoopOK'
    BY <2>1, <2>2, <2>3 DEF LifeInv, LoopOK
  <2>6. NoStrayChild'
    BY <2>1 DEF NoStrayChild
  <2> QED
    BY <2>2, <2>4, <2>5, <2>6, LoopStepKeeps DEF callerVars
<1>5. CASE Finish
  <2>1. /\ loop = "ending" /\ loop' = "none" /\ active' = 0 /\ job' = NoJob
        /\ cancelled' = FALSE /\ failed' = FALSE /\ severed' = FALSE
        /\ lastError' = (lastError \/ failed)
        /\ UNCHANGED <<started, done, lifecycleMu, caller, expired, reply, attached, child>>
    BY <1>5 DEF Finish, callerVars
  <2>2. 0 \in 0 .. MaxRuntimes /\ NoJob \in [kind : Kinds \cup {"none"}, caller : Callers \cup {NoCaller}]
    BY RuntimesAssumption DEF NoJob
  <2>3. TypeOK'
    BY <2>1, <2>2 DEF LifeInv, TypeOK, LoopStages
  <2>4. LoopOK'
    <3>1. 0 \notin 1 .. started
      BY DEF LifeInv, TypeOK
    <3> QED
      BY <2>1, <3>1 DEF LifeInv, LoopOK
  <2>5. NoStrayChild'
    BY <2>1 DEF LifeInv, LoopOK, NoStrayChild
  <2> QED
    BY <2>1, <2>3, <2>4, <2>5, LoopStepKeeps DEF callerVars
<1> QED
  BY <1>1, <1>2, <1>3, <1>4, <1>5

\* What happens around the run goroutine
LEMMA WorldKeeps ==
  ASSUME LifeInv, ChildExits \/ BusBreaks \/ \E rt \in Runtimes : CloseDone(rt)
  PROVE  LifeInv'
<1>1. TypeOK'
  BY DEF LifeInv, TypeOK, ChildExits, BusBreaks, CloseDone, Runtimes, callerVars, runtimeVars, childVars
<1>2. LoopOK'
  <2>1. UNCHANGED <<active, started, loop, job, attached, cancelled, failed>>
    BY DEF ChildExits, BusBreaks, CloseDone, runtimeVars
  <2>2. done' \subseteq 1 .. started /\ active \notin done'
    BY DEF LifeInv, LoopOK, ChildExits, BusBreaks, CloseDone
  <2> QED
    BY <2>1, <2>2 DEF LifeInv, LoopOK
<1>3. NoStrayChild'
  BY DEF LifeInv, NoStrayChild, ChildExits, BusBreaks, CloseDone, callerVars, runtimeVars, childVars
<1>4. \A d \in Callers : Aside(d) /\ WorldStays
  BY DEF Aside, WorldStays, ChildExits, BusBreaks, CloseDone, callerVars, childVars
<1> QED
  BY <1>1, <1>2, <1>3, <1>4, AsideKeeps DEF LifeInv

-----------------------------------------------------------------------------
(* Theorems *)

LEMMA NextKeeps == LifeInv /\ [Next]_vars => LifeInv'
<1> SUFFICES ASSUME LifeInv, [Next]_vars PROVE LifeInv'
  OBVIOUS
<1>1. CASE UNCHANGED vars
  BY <1>1 DEF vars, LifeInv, TypeOK, LoopOK, NoStrayChild, CallerOK, Holds, Stopped
<1>2. ASSUME NEW c \in Callers, GetReply(c) \/ SeeExpired(c) \/ SeeDone(c) PROVE LifeInv'
  <2>1. reply[c] \in Results /\ {"expired", "notrunning"} \subseteq Results
    BY DEF LifeInv, TypeOK, Results, Replies
  <2> QED
    BY <1>2, <2>1, LeaveKeeps DEF GetReply, SeeExpired, SeeDone
<1>3. ASSUME NEW c \in Callers, CallerStep(c) PROVE LifeInv'
  BY <1>2, <1>3, LockKeeps, LaunchKeeps, ConnectFailsKeeps, ActivateKeeps, StopReturnsKeeps
     DEF CallerStep
<1>4. CASE Work \/ SeeCancelled \/ LoseClient \/ LoseChild
  BY <1>4, HandlingKeeps, EndingKeeps DEF Work
<1> QED
  BY <1>1, <1>3, <1>4, ReceiveKeeps, ExpireKeeps, BeginKeeps, WorldKeeps DEF Next

\* Who is in Start, Stop or a request, what the run goroutine has and who holds the
\* child is as LifeInv says in every reachable state.
THEOREM LifeInvariant == Spec => []LifeInv
<1> QED
  BY InitLifeInv, NextKeeps, PTL DEF Spec

\* The variables keep their types.
THEOREM LifecycleTypes == Spec => []TypeOK
<1>1. LifeInv => TypeOK
  BY DEF LifeInv
<1> QED
  BY <1>1, LifeInvariant, PTL

\* No child lives that neither a runtime nor a Start in progress holds on to
\* (launch, cleanupRuntime).
THEOREM ChildHasOwner == Spec => []NoStrayChild
<1>1. LifeInv => NoStrayChild
  BY DEF LifeInv
<1> QED
  BY <1>1, LifeInvariant, PTL

\* The loop selects and handles only with a client and a process at hand.
THEOREM LoopHasClient == Spec => []LoopIsAttached
<1>1. LifeInv => LoopIsAttached
  BY DEF LifeInv, LoopOK, LoopIsAttached
<1> QED
  BY <1>1, LifeInvariant, PTL

\* A Stop about to report success leaves no runtime and no child.
THEOREM StopIsComplete == Spec => []StopLeavesNothing
<1>1. LifeInv => StopLeavesNothing
  <2> SUFFICES ASSUME LifeInv, NEW c \in Callers, caller[c].stage = "ending",
                      caller[c].result = "ok", caller[c].runtime \in done
               PROVE  active = 0 /\ child = "none"
    BY DEF StopLeavesNothing
  <2>1. Stopped(c) /\ active \in {0, caller[c].runtime} /\ active \notin done
    BY DEF LifeInv, CallerOK, LoopOK, Stopped
  <2> QED
    BY <2>1 DEF LifeInv, CallerOK
<1> QED
  BY <1>1, LifeInvariant, PTL

\* The result a caller that was waiting returns with.
LEMMA LeaveReports ==
  ASSUME TypeOK, NEW c \in Callers, NEW result \in Results, Leave(c, result)
  PROVE  /\ caller'[c].result = result
         /\ \A d \in Callers \ {c} : caller'[d] = caller[d]
<1>1. CASE caller[c].kind = "stop"
  <2> DEFINE r == [caller[c] EXCEPT !.stage = "ending", !.result = result]
  <2>1. caller[c] \in CallerRecords
    BY CallerTypes
  <2>2. r \in CallerRecords /\ r.result = result
    BY <2>1 DEF CallerRecords, CallerStages
  <2>3. caller' = [caller EXCEPT ![c] = r]
    BY <1>1, <2>1, CallerTypes DEF Leave
  <2> HIDE DEF r
  <2> QED
    BY <2>2, <2>3, SetCaller
<1>2. CASE caller[c].kind # "stop"
  BY <1>2, Returned DEF Leave
<1> QED
  BY <1>1, <1>2

\* Who is told that the session is not running can rely on it that the request was
\* not worked on: while it is, its runtime is not done (sendRequest).
THEOREM NotRunningIsTrue == Spec => NotRunningMeansNotDone
<1> DEFINE Fair(c) == caller[c].stage = "waiting" /\ caller'[c].stage # "waiting"
                        => caller'[c].result = reply[c] \/ c \in expired
<1>1. ASSUME LifeInv, [Next]_vars, NEW c \in Callers PROVE Fair(c)
  <2> SUFFICES ASSUME caller[c].stage = "waiting", caller'[c].stage # "waiting"
               PROVE  caller'[c].result = reply[c] \/ c \in expired
    OBVIOUS
  <2>1. reply[c] \in Results
    BY <1>1 DEF LifeInv, TypeOK, Results
  <2>2. ~ SeeDone(c)
    BY <1>1 DEF SeeDone, LifeInv, CallerOK, LoopOK
  <2>3. CASE GetReply(c)
    BY <1>1, <2>1, <2>3, LeaveReports DEF GetReply, LifeInv
  <2>4. CASE SeeExpired(c)
    BY <2>4 DEF SeeExpired
  <2>5. ~ (Work \/ SeeCancelled \/ LoseClient \/ LoseChild \/ ChildExits \/ BusBreaks)
        /\ ~ \E rt \in Runtimes : CloseDone(rt)
    BY DEF Work, Operate, RestartChild, StopChild, Answer, CleanUp, Finish, SeeCancelled,
           LoseClient, LoseChild, ChildExits, BusBreaks, CloseDone, callerVars
  <2>6. ASSUME NEW d \in Callers, d # c,
               \/ CallerStep(d) \/ Receive(d) \/ Expire(d) \/ \E kind \in Does[d] : Begin(d, kind)
        PROVE  FALSE
    <3>1. caller'[c] = caller[c]
      BY <1>1, <2>6 DEF CallerStep, Lock, Launch, ConnectFails, Activate, GetReply, SeeExpired,
         SeeDone, StopEnds, StopGivesUp, Leave, Unlock, Return, Receive, Expire, Begin,
         LifeInv, TypeOK
    <3> QED
      BY <3>1
  <2>7. ~ (Lock(c) \/ Launch(c) \/ ConnectFails(c) \/ Activate(c) \/ StopEnds(c) \/ StopGivesUp(c)
           \/ Receive(c) \/ Expire(c) \/ \E kind \in Does[c] : Begin(c, kind))
    BY DEF Lock, Launch, ConnectFails, Activate, StopEnds, StopGivesUp, Receive, Expire, Begin
  <2>8. CASE UNCHANGED vars
    BY <2>8 DEF vars
  <2> QED
    BY <1>1, <2>2, <2>3, <2>4, <2>5, <2>6, <2>7, <2>8 DEF Next, CallerStep
<1>2. LifeInv /\ [Next]_vars => [\A c \in Callers : Fair(c)]_vars
  BY <1>1
<1>3. Spec => [][\A c \in Callers : Fair(c)]_vars
  BY <1>2, LifeInvariant, PTL DEF Spec
<1> QED
  BY <1>3 DEF NotRunningMeansNotDone

\* A runtime that ends without a Stop and without a cancelled context leaves an
\* error behind (finishRuntime).
THEOREM EndIsToldWhy == Spec => EndIsExplained
<1> DEFINE Explained == active # 0 /\ active' = 0 => lastError' \/ cancelled \/ job.kind = "stop"
<1>1. ASSUME LifeInv, [Next]_vars PROVE Explained
  <2> SUFFICES ASSUME active # 0, active' = 0 PROVE lastError' \/ cancelled \/ job.kind = "stop"
    OBVIOUS
  <2>1. CASE Finish
    BY <1>1, <2>1 DEF Finish, LifeInv, LoopOK
  <2>2. active \in Nat /\ started \in Nat
    BY <1>1 DEF LifeInv, TypeOK
  <2>3. ~ (SeeCancelled \/ LoseClient \/ LoseChild \/ ChildExits \/ BusBreaks)
        /\ ~ \E rt \in Runtimes : CloseDone(rt)
    BY DEF SeeCancelled, LoseClient, LoseChild, ChildExits, BusBreaks, CloseDone
  <2>4. ~ (Operate \/ RestartChild \/ StopChild \/ CleanUp)
    BY DEF Operate, RestartChild, StopChild, Answer, CleanUp
  <2>5. ASSUME NEW c \in Callers,
               \/ CallerStep(c) \/ Receive(c) \/ Expire(c) \/ \E kind \in Does[c] : Begin(c, kind)
        PROVE  FALSE
    <3>1. ~ Activate(c)
      <4>1. Activate(c) => active' = started' /\ started' = started + 1
        BY Zenon DEF Activate
      <4> QED
        BY <2>2, <4>1
    <3> QED
      BY <2>5, <3>1 DEF CallerStep, Lock, Launch, ConnectFails, GetReply, SeeExpired, SeeDone,
         StopEnds, StopGivesUp, Leave, Receive, Expire, Begin
  <2>6. ~ UNCHANGED vars
    BY DEF vars
  <2> QED
    BY <1>1, <2>1, <2>3, <2>4, <2>5, <2>6 DEF Next, Work
<1>2. LifeInv /\ [Next]_vars => [Explained]_vars
  BY <1>1
<1>3. Spec => [][Explained]_vars
  BY <1>2, LifeInvariant, PTL DEF Spec
<1> QED
  BY <1>3 DEF EndIsExplained
================================================================================
