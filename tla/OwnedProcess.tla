------------------------------ MODULE OwnedProcess ------------------------------
(***************************************************************************)
(* The baresip child and its lock (internal/baresip/process.go and          *)
(* ownership.go).                                                           *)
(*                                                                         *)
(* A ProcessManager starts one child at a time.  It holds a name on the      *)
(* session bus from before the start until the child is reaped, so that no  *)
(* other program starts one; if it loses that name it ends the child.        *)
(* Managers here belong to any number of programs.  Each has a goroutine     *)
(* that waits for the child (reaping), one that watches the lock, and any    *)
(* of Callers may be inside its Stop.                                        *)
(*                                                                         *)
(* The child is in a process group that may hold more processes (helpers).   *)
(***************************************************************************)
EXTENDS Naturals

CONSTANTS
  Managers, Callers,
  Free,           \* no manager has the lock
  MaxStarts,      \* bound: how many children each manager starts
  Faults          \* subset of {"bus", "refused", "deadline", "cancel", "exit", "fork"}

ASSUME FreeAssumption == Free \notin Managers
ASSUME StartsAssumption == MaxStarts \in [Managers -> Nat]

VARIABLES
  lock,       \* the owner of com.github.GoSipTea.OwnedProcess
  lost,       \* managers whose lock connection broke while they held it
  service,    \* the manager whose child owns com.github.Baresip
  starting,   \* how far Start has come; it holds manager.mu all the while
  starts,     \* the number of children started: names the current done channel
  child,      \* the child: none, alive, or exited and not reaped
  helpers,    \* managers whose child's group has other living processes
  asked,      \* managers whose child got SIGTERM
  cancelled,  \* managers whose child context is cancelled: the killer is armed
  reaping,    \* where the goroutine of wait is
  running,    \* manager.running; done is closed when it becomes FALSE
  stopping,   \* manager.stopping
  stop        \* where each caller of Stop is, with whom, for which child

managerVars == <<running, stopping>>
groupVars == <<service, child, helpers>>
vars == <<lock, lost, service, starting, starts, child, helpers, asked, cancelled,
          reaping, running, stopping, stop>>

Outside == [stage |-> "outside", manager |-> Free, start |-> 0]
StopStages == {"outside", "signal", "grace", "final", "leaving", "joining"}
Stopper == {"signal", "grace", "final", "leaving"}

Move(c, next) == stop' = [stop EXCEPT ![c].stage = next]

\* The done channel a caller of Stop has taken is closed.
Done(c) == stop[c].start < starts[stop[c].manager] \/ ~ running[stop[c].manager]

\* SIGKILL to the process group
Kill(m) ==
  /\ child' = [child EXCEPT ![m] = IF @ = "alive" THEN "exited" ELSE @]
  /\ helpers' = helpers \ {m}
  /\ service' = IF service = m THEN Free ELSE service

-----------------------------------------------------------------------------
(* Start.  Definitions named X_... are mutants of X: plausible bugs the runs are
   shown to catch, used by no other definition. *)

Startable(m) == starting[m] = "no" /\ ~ running[m] /\ ~ stopping[m] /\ starts[m] < MaxStarts[m]

AcquireLock_AsksOnly(m) ==
  /\ Startable(m)
  /\ lock' = IF lock = Free THEN m ELSE lock
  /\ lost' = lost \ {m}
  /\ starting' = [starting EXCEPT ![m] = "locked"]
  /\ UNCHANGED <<groupVars, starts, asked, cancelled, reaping, managerVars, stop>>

\* AcquireStartupLock: a name without queueing.  A start that does not get it
\* changes nothing.
AcquireLock(m) ==
  /\ Startable(m)
  /\ lock = Free
  /\ lock' = m
  /\ lost' = lost \ {m}
  /\ starting' = [starting EXCEPT ![m] = "locked"]
  /\ UNCHANGED <<groupVars, starts, asked, cancelled, reaping, managerVars, stop>>

\* The deferred lock.Close
FailStart(m) ==
  /\ lock' = IF lock = m THEN Free ELSE lock
  /\ starting' = [starting EXCEPT ![m] = "no"]
  /\ UNCHANGED <<lost, groupVars, starts, asked, cancelled, reaping, managerVars, stop>>

\* ErrServiceOwned when another child has the name on the bus
CheckOwner(m) ==
  /\ starting[m] = "locked"
  /\ \/ /\ service = Free
        /\ starting' = [starting EXCEPT ![m] = "checked"]
        /\ UNCHANGED <<lock, lost, groupVars, starts, asked, cancelled, reaping, managerVars, stop>>
     \/ service # Free /\ FailStart(m)
     \/ "refused" \in Faults /\ FailStart(m)

Launch(m) ==
  /\ starting[m] = "checked"
  /\ \/ /\ child' = [child EXCEPT ![m] = "alive"]
        /\ starts' = [starts EXCEPT ![m] = @ + 1]
        /\ running' = [running EXCEPT ![m] = TRUE]
        /\ reaping' = [reaping EXCEPT ![m] = "waiting"]
        /\ asked' = asked \ {m}
        /\ cancelled' = cancelled \ {m}
        /\ starting' = [starting EXCEPT ![m] = "no"]
        /\ UNCHANGED <<lock, lost, service, helpers, stopping, stop>>
     \/ "refused" \in Faults /\ FailStart(m)

-----------------------------------------------------------------------------
(* Losing the lock, or the lifetime context: cmd.Cancel *)

LoseLock ==
  /\ "bus" \in Faults
  /\ lock # Free
  /\ lost' = lost \cup {lock}
  /\ lock' = Free
  /\ UNCHANGED <<groupVars, starting, starts, asked, cancelled, reaping, managerVars, stop>>

\* exec calls cmd.Cancel while it waits for the child: SIGTERM, and SIGKILL later.
Cancel(m) ==
  /\ reaping[m] = "waiting" /\ m \notin cancelled
  /\ cancelled' = cancelled \cup {m}
  /\ asked' = asked \cup {m}
  /\ UNCHANGED <<lock, lost, groupVars, starting, starts, reaping, managerVars, stop>>

\* The goroutine that watches lock.Done
WatchLock(m) == m \in lost /\ Cancel(m)

\* The context of Start ends.
EndContext(m) == "cancel" \in Faults /\ Cancel(m)

KillAfterCancel_Again(m) ==
  /\ m \in cancelled /\ running[m]
  /\ asked' = asked \cup {m}
  /\ UNCHANGED <<lock, lost, groupVars, starting, starts, cancelled, reaping, managerVars, stop>>

\* killProcessGroupAfter, unless done is closed first
KillAfterCancel(m) ==
  /\ m \in cancelled /\ running[m]
  /\ Kill(m)
  /\ UNCHANGED <<lock, lost, starting, starts, asked, cancelled, reaping, managerVars, stop>>

-----------------------------------------------------------------------------
(* The child *)

\* baresip takes its name on the bus.
Serve(m) ==
  /\ child[m] = "alive" /\ service = Free
  /\ service' = m
  /\ UNCHANGED <<lock, lost, starting, starts, child, helpers, asked, cancelled, reaping, managerVars, stop>>

Fork(m) ==
  /\ "fork" \in Faults
  /\ child[m] = "alive" /\ m \notin helpers
  /\ helpers' = helpers \cup {m}
  /\ UNCHANGED <<lock, lost, service, starting, starts, child, asked, cancelled, reaping, managerVars, stop>>

\* On its own, or because it was asked to; the helpers may outlive it.
Exit(m) ==
  /\ child[m] = "alive"
  /\ m \in asked \/ "exit" \in Faults
  /\ child' = [child EXCEPT ![m] = "exited"]
  /\ service' = IF service = m THEN Free ELSE service
  /\ UNCHANGED <<lock, lost, starting, starts, helpers, asked, cancelled, reaping, managerVars, stop>>

-----------------------------------------------------------------------------
(* wait *)

\* cmd.Wait returns: the child is reaped.  WaitDelay bounds the wait for helpers
\* that hold its output open.
Reap(m) ==
  /\ reaping[m] = "waiting" /\ child[m] = "exited"
  /\ child' = [child EXCEPT ![m] = "none"]
  /\ reaping' = [reaping EXCEPT ![m] = "reaped"]
  /\ UNCHANGED <<lock, lost, service, starting, starts, helpers, asked, cancelled, managerVars, stop>>

Sweep_Nobody(m) ==
  /\ reaping[m] = "reaped"
  /\ reaping' = [reaping EXCEPT ![m] = "swept"]
  /\ UNCHANGED <<lock, lost, groupVars, starting, starts, asked, cancelled, managerVars, stop>>

Sweep(m) ==
  /\ reaping[m] = "reaped"
  /\ Kill(m)
  /\ reaping' = [reaping EXCEPT ![m] = "swept"]
  /\ UNCHANGED <<lock, lost, starting, starts, asked, cancelled, managerVars, stop>>

CloseLock(m) ==
  /\ reaping[m] = "swept"
  /\ lock' = IF lock = m THEN Free ELSE lock
  /\ reaping' = [reaping EXCEPT ![m] = "unlocked"]
  /\ UNCHANGED <<lost, groupVars, starting, starts, asked, cancelled, managerVars, stop>>

\* running = false and close(done), under manager.mu
CloseDone(m) ==
  /\ reaping[m] = "unlocked"
  /\ running' = [running EXCEPT ![m] = FALSE]
  /\ reaping' = [reaping EXCEPT ![m] = "none"]
  /\ UNCHANGED <<lock, lost, groupVars, starting, starts, asked, cancelled, stopping, stop>>

-----------------------------------------------------------------------------
(* Stop *)

\* A second caller joins the first; without a child there is nothing to do.
EnterStop(c, m) ==
  /\ stop[c] = Outside
  /\ starting[m] = "no" /\ running[m]
  /\ stop' = [stop EXCEPT ![c] = [stage |-> IF stopping[m] THEN "joining" ELSE "signal",
                                  manager |-> m, start |-> starts[m]]]
  /\ stopping' = [stopping EXCEPT ![m] = TRUE]
  /\ UNCHANGED <<lock, lost, groupVars, starting, starts, asked, cancelled, reaping, running>>

Terminate(c) ==
  /\ stop[c].stage = "signal"
  /\ asked' = asked \cup {stop[c].manager}
  /\ Move(c, "grace")
  /\ UNCHANGED <<lock, lost, groupVars, starting, starts, cancelled, reaping, managerVars>>

\* done is closed; only the first caller has to finish.
SeeDone(c) ==
  /\ stop[c].stage \in {"grace", "final", "joining"} /\ Done(c)
  /\ stop' = [stop EXCEPT ![c] = IF @.stage = "joining" THEN Outside ELSE [@ EXCEPT !.stage = "leaving"]]
  /\ UNCHANGED <<lock, lost, groupVars, starting, starts, asked, cancelled, reaping, managerVars>>

Escalate_Terminates(c) ==
  /\ stop[c].stage = "grace"
  /\ Move(c, "final")
  /\ UNCHANGED <<lock, lost, groupVars, starting, starts, asked, cancelled, reaping, managerVars>>

\* The timer: SIGTERM was not enough.
Escalate(c) ==
  /\ stop[c].stage = "grace"
  /\ Kill(stop[c].manager)
  /\ Move(c, "final")
  /\ UNCHANGED <<lock, lost, starting, starts, asked, cancelled, reaping, managerVars>>

GiveUp_Returns(c) ==
  /\ "deadline" \in Faults
  /\ stop[c].stage \in {"grace", "final", "joining"}
  /\ stop' = [stop EXCEPT ![c] = Outside]
  /\ UNCHANGED <<lock, lost, groupVars, starting, starts, asked, cancelled, reaping, managerVars>>

\* ctx.Done: the child is killed, but nobody waits until it is gone.
GiveUp(c) ==
  /\ "deadline" \in Faults
  /\ \/ stop[c].stage = "grace" /\ Kill(stop[c].manager) /\ Move(c, "leaving")
     \/ stop[c].stage = "final" /\ UNCHANGED groupVars /\ Move(c, "leaving")
     \/ stop[c].stage = "joining" /\ UNCHANGED groupVars /\ stop' = [stop EXCEPT ![c] = Outside]
  /\ UNCHANGED <<lock, lost, starting, starts, asked, cancelled, reaping, managerVars>>

\* The deferred finishStopping
FinishStopping(c) ==
  /\ stop[c].stage = "leaving"
  /\ starting[stop[c].manager] = "no"
  /\ stopping' = IF starts[stop[c].manager] = stop[c].start
                 THEN [stopping EXCEPT ![stop[c].manager] = FALSE] ELSE stopping
  /\ stop' = [stop EXCEPT ![c] = Outside]
  /\ UNCHANGED <<lock, lost, groupVars, starting, starts, asked, cancelled, reaping, running>>

-----------------------------------------------------------------------------
Init ==
  /\ lock = Free
  /\ lost = {}
  /\ service = Free
  /\ starting = [m \in Managers |-> "no"]
  /\ starts = [m \in Managers |-> 0]
  /\ child = [m \in Managers |-> "none"]
  /\ helpers = {}
  /\ asked = {}
  /\ cancelled = {}
  /\ reaping = [m \in Managers |-> "none"]
  /\ running = [m \in Managers |-> FALSE]
  /\ stopping = [m \in Managers |-> FALSE]
  /\ stop = [c \in Callers |-> Outside]

Start(m) == AcquireLock(m) \/ CheckOwner(m) \/ Launch(m)

Wait(m) == Reap(m) \/ Sweep(m) \/ CloseLock(m) \/ CloseDone(m)

Child(m) == Serve(m) \/ Fork(m) \/ Exit(m)

Stop(c) == Terminate(c) \/ SeeDone(c) \/ Escalate(c) \/ FinishStopping(c)

Next ==
  \/ LoseLock
  \/ \E m \in Managers :
       \/ Start(m) \/ Wait(m) \/ Child(m)
       \/ WatchLock(m) \/ EndContext(m) \/ KillAfterCancel(m)
  \/ \E c \in Callers : Stop(c) \/ GiveUp(c) \/ \E m \in Managers : EnterStop(c, m)

Spec == Init /\ [][Next]_vars

\* Goroutines and timers go on.  Nothing is assumed of the child: it may ignore
\* SIGTERM for ever.
Fairness ==
  /\ \A m \in Managers : WF_vars(Wait(m)) /\ WF_vars(WatchLock(m)) /\ WF_vars(KillAfterCancel(m))
  /\ \A c \in Callers : WF_vars(Stop(c))

FairSpec == Spec /\ Fairness

-----------------------------------------------------------------------------
(* Properties *)

\* Every variable holds a value of its kind.
TypeOK ==
  /\ lock \in Managers \cup {Free} /\ service \in Managers \cup {Free}
  /\ lost \subseteq Managers /\ helpers \subseteq Managers
  /\ asked \subseteq Managers /\ cancelled \subseteq Managers
  /\ starting \in [Managers -> {"no", "locked", "checked"}]
  /\ starts \in [Managers -> Nat]
  /\ child \in [Managers -> {"none", "alive", "exited"}]
  /\ reaping \in [Managers -> {"none", "waiting", "reaped", "swept", "unlocked"}]
  /\ running \in [Managers -> BOOLEAN] /\ stopping \in [Managers -> BOOLEAN]
  /\ stop \in [Callers -> [stage : StopStages, manager : Managers \cup {Free}, start : Nat]]

\* Two programs never have a child at a time, unless one has lost its lock and
\* is about to end its child ("StartupLock excludes other app instances until
\* the owned child exits").
OneChild ==
  \A m, n \in Managers :
    child[m] # "none" /\ child[n] # "none" /\ m # n => m \in lost \/ n \in lost

\* When done is closed, so when Stop returns without an error, the child is
\* reaped, nothing of its group lives and the lock is free for others; a start
\* that failed leaves nothing behind either.
NotRunningIsGone ==
  \A m \in Managers :
    ~ running[m] /\ starting[m] = "no"
      => child[m] = "none" /\ m \notin helpers /\ lock # m

\* A manager that refuses to start because it is stopping has a caller in Stop
\* who will end that, and only one: no deadline leaves a manager stopping for
\* ever (finishStopping).
StoppingHasStopper ==
  \A m \in Managers :
    LET stoppers == {c \in Callers : stop[c].stage \in Stopper /\ stop[c].manager = m} IN
    /\ stopping[m] <=> stoppers # {}
    /\ \A c, d \in stoppers : c = d
    /\ \A c \in stoppers : stop[c].start = starts[m]

\* A manager that has lost the lock ends its child, whatever the child does.
LostLockEndsChild == \A m \in Managers : m \in lost /\ running[m] ~> ~ running[m]

\* Stop returns even without a deadline, whatever the child does.
StopReturns == \A c \in Callers : stop[c] # Outside ~> stop[c] = Outside
================================================================================
