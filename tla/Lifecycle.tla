-------------------------------- MODULE Lifecycle --------------------------------
(***************************************************************************)
(* The life of a session and the way of a request (internal/session:        *)
(* session.go, operations.go and the frame of run in runtime.go).           *)
(*                                                                         *)
(* Callers are goroutines of the program that call Start, Stop or an        *)
(* operation with a context that may end at any time.  Each Start makes a   *)
(* runtime with its own run goroutine; a request goes to it over an         *)
(* unbuffered channel and is answered over a buffered one.  What a request  *)
(* does to calls is in PhoneSession, how the child ends in OwnedProcess.    *)
(*                                                                         *)
(* A runtime that is no longer active only closes its done channel, so the  *)
(* rest of its state is kept for the active one alone.                      *)
(***************************************************************************)
EXTENDS Naturals, FiniteSets

CONSTANTS
  Callers,
  Does,           \* the kinds of calls each caller makes
  NoCaller,
  MaxRuntimes,    \* bound: runtimes started
  Faults          \* subset of {"deadline", "exit", "bus", "fail"}

ASSUME CallerAssumption == NoCaller \notin Callers
ASSUME DoesAssumption == Does \in [Callers -> SUBSET {"start", "stop", "request"}]
ASSUME RuntimesAssumption == MaxRuntimes \in Nat

Runtimes == 1 .. MaxRuntimes

VARIABLES
  active,       \* Session.active: a runtime, or 0
  started,      \* the number of runtimes started
  done,         \* the runtimes with a closed done channel
  lifecycleMu,  \* the caller of Start or Stop that holds the lock
  caller,       \* where each caller is, with what request, for which runtime
  expired,      \* callers whose context has ended
  reply,        \* what is in the result channel of each caller
  loop,         \* where the run goroutine of the active runtime is
  job,          \* the request it works on
  attached,     \* it has a client and a process
  cancelled,    \* its context is cancelled
  failed,       \* it has a terminalErr
  severed,      \* its D-Bus client has ended
  child,        \* the child; a dying one still holds the startup lock
  lastError     \* LastError is not empty (but for errors of background goroutines)

callerVars == <<lifecycleMu, caller, expired>>
runtimeVars == <<attached, cancelled, failed>>
childVars == <<severed, child>>
vars == <<active, started, done, lifecycleMu, caller, expired, reply, loop, job,
          attached, cancelled, failed, severed, child, lastError>>

Kinds == {"start", "stop", "request"}
CallerStages == {"idle", "locking", "starting", "connecting", "sending", "waiting", "ending"}
LoopStages == {"none", "select", "handling", "cleaning", "ending"}
Replies == {"none", "ok", "error", "expired"}
Results == Replies \cup {"notrunning"}

Idle == [stage |-> "idle", kind |-> "none", runtime |-> 0, result |-> "none"]
NoJob == [kind |-> "none", caller |-> NoCaller]

\* The result of an operation is seen in the step that makes its caller idle.
Return(c, result) ==
  /\ caller' = [caller EXCEPT ![c] = [Idle EXCEPT !.result = result]]
  /\ expired' = expired \ {c}

\* Return from Start or Stop, with the deferred unlock
Unlock(c) == Return(c, "none") /\ lifecycleMu' = NoCaller

-----------------------------------------------------------------------------
(* Callers.  Definitions named X_... are mutants of X: plausible bugs the runs are
   shown to catch, used by no other definition. *)

\* request reads active without the lifecycle lock.
Begin(c, kind) ==
  /\ caller[c].stage = "idle"
  /\ caller' = [caller EXCEPT ![c] =
       IF kind \in {"start", "stop"} THEN [Idle EXCEPT !.stage = "locking", !.kind = kind]
       ELSE IF active = 0 THEN [Idle EXCEPT !.result = "notrunning"]
       ELSE [Idle EXCEPT !.stage = "sending", !.kind = kind, !.runtime = active]]
  /\ reply' = [reply EXCEPT ![c] = "none"]
  /\ UNCHANGED <<active, started, done, lifecycleMu, expired, loop, job, runtimeVars, childVars, lastError>>

Expire(c) ==
  /\ "deadline" \in Faults
  /\ caller[c].stage # "idle"
  /\ expired' = expired \cup {c}
  /\ UNCHANGED <<active, started, done, lifecycleMu, caller, reply, loop, job, runtimeVars, childVars, lastError>>

\* Stop has nothing to do, and Start nothing it may do (ErrAlreadyRunning).
Lock(c) ==
  /\ caller[c].stage = "locking" /\ lifecycleMu = NoCaller
  /\ \/ /\ caller[c].kind = "start" /\ active = 0
        /\ lifecycleMu' = c
        /\ caller' = [caller EXCEPT ![c].stage = "starting"]
        /\ UNCHANGED expired
     \/ /\ caller[c].kind = "stop" /\ active # 0
        /\ lifecycleMu' = c
        /\ caller' = [caller EXCEPT ![c].stage = "sending", ![c].runtime = active]
        /\ UNCHANGED expired
     \/ caller[c].kind = "start" /\ active # 0 /\ Unlock(c)
     \/ caller[c].kind = "stop" /\ active = 0 /\ Unlock(c)
  /\ UNCHANGED <<active, started, done, reply, loop, job, runtimeVars, childVars, lastError>>

\* The end of sendRequest: an operation returns, Stop goes on to its own select.
\* Nobody reads the answer any more.
Leave(c, result) ==
  /\ IF caller[c].kind = "stop"
     THEN caller' = [caller EXCEPT ![c] = [@ EXCEPT !.stage = "ending", !.result = result]] /\ UNCHANGED expired
     ELSE Return(c, result)
  /\ job' = IF job.caller = c THEN [job EXCEPT !.caller = NoCaller] ELSE job
  /\ reply' = [reply EXCEPT ![c] = "none"]
  /\ UNCHANGED <<active, started, done, lifecycleMu, loop, runtimeVars, childVars, lastError>>

GetReply(c) == caller[c].stage = "waiting" /\ reply[c] # "none" /\ Leave(c, reply[c])

SeeExpired(c) == caller[c].stage \in {"sending", "waiting"} /\ c \in expired /\ Leave(c, "expired")

SeeDone_AtOnce(c) ==
  /\ caller[c].stage \in {"sending", "waiting"} /\ caller[c].runtime \in done
  /\ Leave(c, "notrunning")

SeeDone_WhenAccepted(c) ==
  /\ caller[c].stage = "waiting" /\ caller[c].runtime \in done
  /\ reply[c] = "none"
  /\ Leave(c, "notrunning")

\* rt.done is closed.  A reply that came before goes first.
SeeDone(c) ==
  /\ caller[c].stage \in {"sending", "waiting"} /\ caller[c].runtime \in done
  /\ reply[c] = "none"
  /\ Leave(c, "notrunning")

\* The select of Stop: rt.done
StopEnds(c) ==
  /\ caller[c].stage = "ending" /\ caller[c].runtime \in done
  /\ Unlock(c)
  /\ UNCHANGED <<active, started, done, reply, loop, job, runtimeVars, childVars, lastError>>

StopGivesUp_Leaves(c) ==
  /\ caller[c].stage = "ending" /\ c \in expired
  /\ Unlock(c)
  /\ UNCHANGED <<active, started, done, reply, loop, job, runtimeVars, childVars, lastError>>

\* The select of Stop: ctx.Done
StopGivesUp(c) ==
  /\ caller[c].stage = "ending" /\ c \in expired
  /\ cancelled' = (cancelled \/ caller[c].runtime = active)
  /\ Unlock(c)
  /\ UNCHANGED <<active, started, done, reply, loop, job, attached, failed, childVars, lastError>>

-----------------------------------------------------------------------------
(* Start *)

\* process.Stop, which may run into its timeout
ChildStopped == child' \in (IF child = "none" THEN {"none"} ELSE {"none", "dying"})

\* loadPersistedState and process.Start
Launch(c) ==
  /\ caller[c].stage = "starting"
  /\ \/ /\ child = "none" /\ started < MaxRuntimes
        /\ child' = "alive"
        /\ caller' = [caller EXCEPT ![c].stage = "connecting"]
        /\ UNCHANGED <<lifecycleMu, expired>>
     \/ /\ child # "none" \/ c \in expired \/ "fail" \in Faults
        /\ Unlock(c)
        /\ UNCHANGED child
  /\ UNCHANGED <<active, started, done, reply, loop, job, runtimeVars, severed, lastError>>

ConnectFails_LeavesChild(c) ==
  /\ caller[c].stage = "connecting"
  /\ child # "alive" \/ c \in expired \/ "fail" \in Faults
  /\ Unlock(c)
  /\ UNCHANGED <<active, started, done, reply, loop, job, runtimeVars, childVars, lastError>>

\* No connection, or not to the own child: launch stops what it started.
ConnectFails(c) ==
  /\ caller[c].stage = "connecting"
  /\ child # "alive" \/ c \in expired \/ "fail" \in Faults
  /\ ChildStopped
  /\ Unlock(c)
  /\ UNCHANGED <<active, started, done, reply, loop, job, runtimeVars, severed, lastError>>

\* The rest of Start.  LastError tells whether the registration could be read.
Activate(c) ==
  /\ caller[c].stage = "connecting" /\ child = "alive"
  /\ started' = started + 1
  /\ active' = started'
  /\ loop' = "select"
  /\ attached' = TRUE /\ cancelled' = FALSE /\ failed' = FALSE /\ severed' = FALSE
  /\ lastError' \in {FALSE, "fail" \in Faults}
  /\ Unlock(c)
  /\ UNCHANGED <<done, reply, job, child>>

-----------------------------------------------------------------------------
(* run *)

\* A request whose context has ended is answered and not worked on.
Receive(c) ==
  /\ loop = "select"
  /\ caller[c].stage = "sending" /\ caller[c].runtime = active
  /\ caller' = [caller EXCEPT ![c].stage = "waiting"]
  /\ IF c \in expired
     THEN reply' = [reply EXCEPT ![c] = "expired"] /\ UNCHANGED <<loop, job>>
     ELSE loop' = "handling" /\ job' = [kind |-> caller[c].kind, caller |-> c] /\ UNCHANGED reply
  /\ UNCHANGED <<active, started, done, lifecycleMu, expired, runtimeVars, childVars, lastError>>

\* What handleRequest and the loop do with a result
Answer(result, terminate) ==
  /\ reply' = IF job.caller = NoCaller THEN reply ELSE [reply EXCEPT ![job.caller] = result]
  /\ loop' = IF terminate THEN "ending" ELSE "select"
  /\ job' = IF terminate THEN job ELSE NoJob
  /\ failed' = (terminate /\ result = "error")
  /\ lastError' = IF terminate THEN lastError ELSE result = "error"
  /\ UNCHANGED <<active, started, done, callerVars, cancelled>>

Serves(kind) == loop = "handling" /\ job.kind = kind

\* Any request but the two below, or an account that is refused or cannot be saved
Operate ==
  /\ Serves("request")
  /\ \/ Answer("ok", FALSE)
     \/ "fail" \in Faults /\ Answer("error", FALSE)
  /\ UNCHANGED <<attached, childVars>>

\* cleanupRuntime
Detach == attached' = FALSE /\ ChildStopped /\ UNCHANGED severed

RestartChild_Continues == Serves("request") /\ Detach /\ Answer("error", FALSE)

\* writeAccount: a new child in the same runtime.  That the registration could
\* not be read is forgotten by clearError.
RestartChild ==
  /\ Serves("request")
  /\ \/ /\ ~ cancelled
        /\ child' = "alive" /\ severed' = FALSE
        /\ Answer("ok", FALSE)
        /\ UNCHANGED attached
     \/ Detach /\ Answer("error", TRUE)

StopChild_IgnoresTimeout == Serves("stop") /\ Detach /\ Answer("ok", TRUE)

\* requestStop; the hangup may fail, or process.Stop time out.
StopChild ==
  /\ Serves("stop")
  /\ Detach
  /\ \/ child' = "none" /\ Answer("ok", TRUE)
     \/ Answer("error", TRUE)

\* rt.ctx.Done
SeeCancelled ==
  /\ loop = "select" /\ cancelled
  /\ loop' = "cleaning"
  /\ UNCHANGED <<active, started, done, callerVars, reply, job, runtimeVars, childVars, lastError>>

LoseClient_Quietly ==
  /\ loop = "select" /\ (severed \/ child # "alive")
  /\ loop' = "cleaning"
  /\ UNCHANGED <<active, started, done, callerVars, reply, job, runtimeVars, childVars, lastError>>

\* client.Events is closed, or client.Done
LoseClient ==
  /\ loop = "select" /\ (severed \/ child # "alive")
  /\ failed' = TRUE
  /\ loop' = "cleaning"
  /\ UNCHANGED <<active, started, done, callerVars, reply, job, attached, cancelled, childVars, lastError>>

\* process.Done
LoseChild ==
  /\ loop = "select" /\ child = "none"
  /\ failed' = TRUE /\ attached' = FALSE
  /\ loop' = "ending"
  /\ UNCHANGED <<active, started, done, callerVars, reply, job, cancelled, childVars, lastError>>

\* cleanupRuntime on the way out of the loop
CleanUp ==
  /\ loop = "cleaning"
  /\ Detach
  /\ failed' \in {failed, TRUE}
  /\ child' = "dying" => failed'
  /\ loop' = "ending"
  /\ UNCHANGED <<active, started, done, callerVars, reply, job, cancelled, lastError>>

\* rt.cancel and finishRuntime
Finish ==
  /\ loop = "ending"
  /\ active' = 0
  /\ lastError' = (lastError \/ failed)
  /\ loop' = "none" /\ job' = NoJob
  /\ cancelled' = FALSE /\ failed' = FALSE /\ severed' = FALSE
  /\ UNCHANGED <<started, done, callerVars, reply, attached, child>>

\* close(rt.done), with which the goroutine ends; another runtime may be active.
CloseDone(rt) ==
  /\ rt \in 1 .. started /\ rt # active
  /\ done' = done \cup {rt}
  /\ UNCHANGED <<active, started, callerVars, reply, loop, job, runtimeVars, childVars, lastError>>

-----------------------------------------------------------------------------
(* The child and its connection *)

\* On its own, or ended by the context of its runtime; a dying one is reaped.
ChildExits ==
  /\ \/ child = "dying"
     \/ child = "alive" /\ ("exit" \in Faults \/ cancelled)
  /\ child' = "none"
  /\ UNCHANGED <<active, started, done, callerVars, reply, loop, job, runtimeVars, severed, lastError>>

BusBreaks ==
  /\ "bus" \in Faults /\ attached
  /\ severed' = TRUE
  /\ UNCHANGED <<active, started, done, callerVars, reply, loop, job, runtimeVars, child, lastError>>

-----------------------------------------------------------------------------
Init ==
  /\ active = 0 /\ started = 0 /\ done = {}
  /\ lifecycleMu = NoCaller
  /\ caller = [c \in Callers |-> Idle]
  /\ expired = {}
  /\ reply = [c \in Callers |-> "none"]
  /\ loop = "none" /\ job = NoJob
  /\ attached = FALSE /\ cancelled = FALSE /\ failed = FALSE
  /\ severed = FALSE /\ child = "none"
  /\ lastError = FALSE

CallerStep(c) ==
  \/ Lock(c) \/ Launch(c) \/ ConnectFails(c) \/ Activate(c)
  \/ GetReply(c) \/ SeeExpired(c) \/ SeeDone(c) \/ StopEnds(c) \/ StopGivesUp(c)

Work == Operate \/ RestartChild \/ StopChild \/ CleanUp \/ Finish

Next ==
  \/ \E c \in Callers : CallerStep(c) \/ Receive(c) \/ Expire(c) \/ \E kind \in Does[c] : Begin(c, kind)
  \/ Work \/ SeeCancelled \/ LoseClient \/ LoseChild
  \/ \E rt \in Runtimes : CloseDone(rt)
  \/ ChildExits \/ BusBreaks

Spec == Init /\ [][Next]_vars

\* Goroutines go on.  Mutex and channel serve waiting goroutines in turn, and
\* select passes no ready case over for ever.  Contexts need never end.
Fairness ==
  /\ \A c \in Callers : WF_vars(CallerStep(c)) /\ SF_vars(Lock(c)) /\ SF_vars(Receive(c))
  /\ WF_vars(Work) /\ SF_vars(SeeCancelled)
  /\ \A rt \in Runtimes : WF_vars(CloseDone(rt))

FairSpec == Spec /\ Fairness

-----------------------------------------------------------------------------
(* Properties *)

\* Every variable holds a value of its kind.
TypeOK ==
  /\ active \in 0 .. MaxRuntimes /\ started \in 0 .. MaxRuntimes
  /\ done \subseteq Runtimes
  /\ lifecycleMu \in Callers \cup {NoCaller}
  /\ caller \in [Callers -> [stage : CallerStages, kind : Kinds \cup {"none"}, runtime : 0 .. MaxRuntimes, result : Results]]
  /\ expired \subseteq Callers
  /\ reply \in [Callers -> Replies]
  /\ loop \in LoopStages
  /\ job \in [kind : Kinds \cup {"none"}, caller : Callers \cup {NoCaller}]
  /\ attached \in BOOLEAN /\ cancelled \in BOOLEAN /\ failed \in BOOLEAN
  /\ severed \in BOOLEAN /\ child \in {"none", "alive", "dying"}
  /\ lastError \in BOOLEAN

\* A caller who is told ErrNotRunning can rely on it that his request was not
\* worked on (sendRequest): otherwise it would be told its outcome.
NotRunningMeansNotDone ==
  [][\A c \in Callers :
       caller[c].stage = "waiting" /\ caller'[c].stage # "waiting"
         => caller'[c].result = reply[c] \/ c \in expired]_vars

\* A child lives only under a runtime that holds on to it, or under a Start in
\* progress ("Session owns at most one child process").
NoStrayChild == child = "alive" => attached \/ \E c \in Callers : caller[c].stage = "connecting"

\* The loop waits for events only of a runtime that has a client and a process:
\* whoever takes them away also ends the loop.
LoopIsAttached == loop \in {"select", "handling"} => attached

\* A Stop that is about to report success leaves no runtime and no child.
StopLeavesNothing ==
  \A c \in Callers :
    caller[c].stage = "ending" /\ caller[c].result = "ok" /\ caller[c].runtime \in done
      => active = 0 /\ child = "none"

\* A runtime that ends without having been stopped leaves an error, which is all
\* the program tells its user then (finishRuntime, and run in main.go).
EndIsExplained ==
  [][active # 0 /\ active' = 0 => lastError' \/ cancelled \/ job.kind = "stop"]_vars

\* Once Stop has a runtime, that runtime ends, also when the context of Stop ends
\* first.
StopEndsRuntime ==
  \A rt \in Runtimes :
    (\E c \in Callers : caller[c].kind = "stop" /\ caller[c].runtime = rt) ~> rt \in done

\* Every call returns, whatever its context does.
CallReturns == \A c \in Callers : caller[c].stage # "idle" ~> caller[c].stage = "idle"
================================================================================
