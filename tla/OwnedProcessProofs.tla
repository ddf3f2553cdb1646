---------------------------- MODULE OwnedProcessProofs ----------------------------
(***************************************************************************)
(* Theorems about OwnedProcess, for any number of managers, callers of Stop *)
(* and starts and every combination of faults: at most one program that     *)
(* holds the lock has a child, nothing is left of a child when its manager  *)
(* is not running, and a manager is stopping exactly while one caller of    *)
(* Stop will end that.                                                      *)
(***************************************************************************)
EXTENDS OwnedProcess, TLAPS

\* The manager has something to lose: it has acquired the lock and not closed it.
Holds(m) == starting[m] # "no" \/ reaping[m] \in {"waiting", "reaped", "swept"}

\* Where wait is tells what there is of the child, and whether the lock is held.
ManagerOK(m) ==
  /\ running[m] <=> reaping[m] # "none"
  /\ starting[m] # "no" => ~ running[m] /\ ~ stopping[m]
  /\ child[m] # "none" <=> reaping[m] = "waiting"
  /\ m \in helpers => reaping[m] \in {"waiting", "reaped"}
  /\ Holds(m) => lock = m \/ m \in lost
  /\ lock = m => Holds(m)

\* c will end the stopping of m.
Stops(c, m) == stop[c].stage \in Stopper /\ stop[c].manager = m

\* A manager is stopping while one caller, who stops its current child, is at it.
StopOK(m) ==
  /\ stopping[m] <=> \E c \in Callers : Stops(c, m)
  /\ \A c, d \in Callers : Stops(c, m) /\ Stops(d, m) => c = d
  /\ \A c \in Callers : Stops(c, m) => stop[c].start = starts[m]

ProcessInv ==
  /\ TypeOK
  /\ \A c \in Callers : stop[c].stage # "outside" => stop[c].manager \in Managers
  /\ \A m \in Managers : ManagerOK(m) /\ StopOK(m)

-----------------------------------------------------------------------------
(* What a step leaves alone *)

\* Manager n has not moved; at most its child has come to its end or its lock has
\* been lost.
Calm(n) ==
  /\ starting'[n] = starting[n] /\ reaping'[n] = reaping[n] /\ running'[n] = running[n]
  /\ stopping'[n] => stopping[n]
  /\ child'[n] = "none" <=> child[n] = "none"
  /\ n \in helpers' => n \in helpers
  /\ lock' = n => lock = n
  /\ lock = n \/ n \in lost => lock' = n \/ n \in lost'

LEMMA CalmKeeps ==
  ASSUME NEW n \in Managers, ManagerOK(n), Calm(n)
  PROVE  ManagerOK(n)'
  BY DEF ManagerOK, Calm, Holds

\* The callers of Stop go on stopping what they were stopping.
LEMMA SameStops ==
  ASSUME NEW n \in Managers, StopOK(n),
         starts'[n] = starts[n], stopping'[n] = stopping[n],
         \A c \in Callers : (Stops(c, n)' <=> Stops(c, n)) /\ stop'[c].start = stop[c].start
  PROVE  StopOK(n)'
  BY DEF StopOK

\* A step that no caller of Stop makes, and that starts no child
LEMMA ManagerStepKeeps ==
  ASSUME ProcessInv, TypeOK', UNCHANGED <<starts, stopping, stop>>,
         \A n \in Managers : Calm(n) \/ ManagerOK(n)'
  PROVE  ProcessInv'
<1>1. \A n \in Managers : ManagerOK(n)'
  BY CalmKeeps DEF ProcessInv
<1>2. \A n \in Managers : StopOK(n)'
  BY SameStops DEF ProcessInv, Stops
<1> QED
  BY <1>1, <1>2 DEF ProcessInv

\* SIGKILL makes no child and no helper, and reaps nobody.
LEMMA KillOnlyEnds ==
  ASSUME TypeOK, NEW m \in Managers, Kill(m)
  PROVE  /\ child' \in [Managers -> {"none", "alive", "exited"}] /\ helpers' \subseteq Managers
         /\ service' \in Managers \cup {Free}
         /\ \A n \in Managers : child'[n] = "none" <=> child[n] = "none"
         /\ helpers' \subseteq helpers
         /\ m \notin helpers'
  BY DEF TypeOK, Kill

-----------------------------------------------------------------------------
(* The steps of a manager *)

LEMMA InitProcessInv == Init => ProcessInv
<1> SUFFICES ASSUME Init PROVE ProcessInv
  OBVIOUS
<1>1. TypeOK
  BY DEF Init, TypeOK, Outside, StopStages
<1>2. \A m \in Managers : ManagerOK(m)
  BY FreeAssumption DEF Init, ManagerOK, Holds
<1>3. \A m \in Managers : StopOK(m)
  BY DEF Init, StopOK, Stops, Outside, Stopper
<1> QED
  BY <1>1, <1>2, <1>3 DEF ProcessInv, Init, Outside

LEMMA AcquireLockKeeps ==
  ASSUME ProcessInv, NEW m \in Managers, AcquireLock(m)
  PROVE  ProcessInv'
<1>1. TypeOK'
  BY DEF ProcessInv, TypeOK, AcquireLock, groupVars, managerVars
<1>2. UNCHANGED <<starts, stopping, stop>>
  BY DEF AcquireLock, managerVars
<1>3. ManagerOK(m)'
  BY DEF ProcessInv, TypeOK, ManagerOK, Holds, AcquireLock, Startable, groupVars, managerVars
<1>4. ASSUME NEW n \in Managers \ {m} PROVE Calm(n)
  BY FreeAssumption DEF ProcessInv, TypeOK, AcquireLock, Calm, groupVars, managerVars
<1> QED
  BY <1>1, <1>2, <1>3, <1>4, ManagerStepKeeps

LEMMA FailStartKeeps ==
  ASSUME ProcessInv, NEW m \in Managers, FailStart(m), starting[m] # "no"
  PROVE  ProcessInv'
<1>1. TypeOK'
  BY DEF ProcessInv, TypeOK, FailStart, groupVars, managerVars
<1>2. UNCHANGED <<starts, stopping, stop>>
  BY DEF FailStart, managerVars
<1>3. ManagerOK(m)'
  BY FreeAssumption DEF ProcessInv, TypeOK, ManagerOK, Holds, FailStart, groupVars, managerVars
<1>4. ASSUME NEW n \in Managers \ {m} PROVE Calm(n)
  BY FreeAssumption DEF ProcessInv, TypeOK, FailStart, Calm, groupVars, managerVars
<1> QED
  BY <1>1, <1>2, <1>3, <1>4, ManagerStepKeeps

LEMMA CheckOwnerKeeps ==
  ASSUME ProcessInv, NEW m \in Managers, CheckOwner(m)
  PROVE  ProcessInv'
<1>1. CASE FailStart(m)
  BY <1>1, FailStartKeeps DEF CheckOwner
<1>2. CASE ~ FailStart(m)
  <2>1. /\ starting[m] = "locked" /\ starting' = [starting EXCEPT ![m] = "checked"]
        /\ UNCHANGED <<lock, lost, groupVars, starts, asked, cancelled, reaping, managerVars, stop>>
    BY <1>2 DEF CheckOwner
  <2>2. TypeOK'
    BY <2>1 DEF ProcessInv, TypeOK, groupVars, managerVars
  <2>3. ManagerOK(m)'
    BY <2>1 DEF ProcessInv, TypeOK, ManagerOK, Holds, groupVars, managerVars
  <2>4. ASSUME NEW n \in Managers \ {m} PROVE Calm(n)
    BY <2>1 DEF ProcessInv, TypeOK, Calm, groupVars, managerVars
  <2> QED
    BY <2>1, <2>2, <2>3, <2>4, ManagerStepKeeps DEF managerVars
<1> QED
  BY <1>1, <1>2

\* A start makes a new child, which no caller of Stop is stopping: Start does not
\* begin while the manager is stopping, and Stop not while it starts.
LEMMA LaunchKeeps ==
  ASSUME ProcessInv, NEW m \in Managers, Launch(m)
  PROVE  ProcessInv'
<1>1. CASE FailStart(m)
  BY <1>1, FailStartKeeps DEF Launch
<1>2. CASE ~ FailStart(m)
  <2>1. /\ starting[m] = "checked"
        /\ child' = [child EXCEPT ![m] = "alive"]
        /\ starts' = [starts EXCEPT ![m] = @ + 1]
        /\ running' = [running EXCEPT ![m] = TRUE]
        /\ reaping' = [reaping EXCEPT ![m] = "waiting"]
        /\ asked' = asked \ {m}
        /\ cancelled' = cancelled \ {m}
        /\ starting' = [starting EXCEPT ![m] = "no"]
        /\ UNCHANGED <<lock, lost, service, helpers, stopping, stop>>
    BY <1>2 DEF Launch
  <2>2. TypeOK'
    BY <2>1 DEF ProcessInv, TypeOK
  <2>3. ManagerOK(m)'
    BY <2>1 DEF ProcessInv, TypeOK, ManagerOK, Holds
  <2>4. \A n \in Managers : ManagerOK(n)'
    <3>1. ASSUME NEW n \in Managers \ {m} PROVE Calm(n)
      BY <2>1 DEF ProcessInv, TypeOK, Calm
    <3> QED
      BY <2>3, <3>1, CalmKeeps DEF ProcessInv
  <2>5. StopOK(m)'
    <3>1. ~ stopping[m] /\ \A c \in Callers : ~ Stops(c, m)
      BY <2>1 DEF ProcessInv, ManagerOK, StopOK
    <3> QED
      BY <2>1, <3>1 DEF StopOK, Stops
  <2>6. ASSUME NEW n \in Managers \ {m} PROVE StopOK(n)'
    BY <2>1, SameStops DEF ProcessInv, TypeOK, Stops
  <2> QED
    BY <2>1, <2>2, <2>4, <2>5, <2>6 DEF ProcessInv
<1> QED
  BY <1>1, <1>2

LEMMA LoseLockKeeps ==
  ASSUME ProcessInv, LoseLock
  PROVE  ProcessInv'
<1>1. TypeOK'
  BY DEF ProcessInv, TypeOK, LoseLock, groupVars, managerVars
<1>2. ASSUME NEW n \in Managers PROVE Calm(n)
  BY FreeAssumption DEF ProcessInv, TypeOK, LoseLock, Calm, groupVars, managerVars
<1> QED
  BY <1>1, <1>2, ManagerStepKeeps DEF LoseLock, managerVars

LEMMA CancelKeeps ==
  ASSUME ProcessInv, NEW m \in Managers, Cancel(m)
  PROVE  ProcessInv'
<1>1. TypeOK'
  BY DEF ProcessInv, TypeOK, Cancel, groupVars, managerVars
<1>2. ASSUME NEW n \in Managers PROVE Calm(n)
  BY DEF Cancel, Calm, groupVars, managerVars
<1> QED
  BY <1>1, <1>2, ManagerStepKeeps DEF Cancel, managerVars

LEMMA KillAfterCancelKeeps ==
  ASSUME ProcessInv, NEW m \in Managers, KillAfterCancel(m)
  PROVE  ProcessInv'
<1>1. TypeOK'
  BY KillOnlyEnds DEF ProcessInv, TypeOK, KillAfterCancel, managerVars
<1>2. ASSUME NEW n \in Managers PROVE Calm(n)
  BY KillOnlyEnds DEF ProcessInv, KillAfterCancel, Calm, managerVars
<1> QED
  BY <1>1, <1>2, ManagerStepKeeps DEF KillAfterCancel, managerVars

\* What the child does by itself
LEMMA ChildKeeps ==
  ASSUME ProcessInv, NEW m \in Managers, Child(m)
  PROVE  ProcessInv'
<1>1. UNCHANGED <<starts, stopping, stop>>
  BY DEF Child, Serve, Fork, Exit, managerVars
<1>2. TypeOK'
  BY DEF ProcessInv, TypeOK, Child, Serve, Fork, Exit, managerVars
<1>3. ASSUME NEW n \in Managers PROVE Calm(n) \/ ManagerOK(n)'
  <2>1. CASE Fork(m) /\ n = m
    <3>1. child[m] # "none" /\ UNCHANGED <<lock, lost, starting, reaping, child, running, stopping>>
      BY <2>1 DEF Fork, managerVars
    <3>2. reaping[m] = "waiting"
      BY <3>1 DEF ProcessInv, ManagerOK
    <3> QED
      BY <2>1, <3>1, <3>2 DEF ProcessInv, ManagerOK, Holds
  <2>2. CASE Fork(m) /\ n # m
    BY <2>2 DEF Fork, Calm, managerVars
  <2>3. CASE Serve(m)
    BY <2>3 DEF Serve, Calm, managerVars
  <2>4. CASE Exit(m)
    BY <2>4 DEF ProcessInv, TypeOK, Exit, Calm, managerVars
  <2> QED
    BY <2>1, <2>2, <2>3, <2>4 DEF Child
<1> QED
  BY <1>1, <1>2, <1>3, ManagerStepKeeps

\* The goroutine of wait gives things up one after the other: the child, the rest
\* of its group, the lock, running.
LEMMA WaitKeeps ==
  ASSUME ProcessInv, NEW m \in Managers, Wait(m)
  PROVE  ProcessInv'
<1>1. UNCHANGED <<starts, stopping, stop>>
  BY DEF Wait, Reap, Sweep, CloseLock, CloseDone, managerVars
<1>2. CASE Reap(m)
  <2>1. TypeOK'
    BY <1>2 DEF ProcessInv, TypeOK, Reap, managerVars
  <2>2. ManagerOK(m)'
    BY <1>2 DEF ProcessInv, TypeOK, ManagerOK, Holds, Reap, managerVars
  <2>3. ASSUME NEW n \in Managers \ {m} PROVE Calm(n)
    BY <1>2 DEF ProcessInv, TypeOK, Reap, Calm, managerVars
  <2> QED
    BY <1>1, <2>1, <2>2, <2>3, ManagerStepKeeps
<1>3. CASE Sweep(m)
  <2>1. TypeOK'
    BY <1>3, KillOnlyEnds DEF ProcessInv, TypeOK, Sweep, managerVars
  <2>2. ManagerOK(m)'
    BY <1>3, KillOnlyEnds DEF ProcessInv, TypeOK, ManagerOK, Holds, Sweep, managerVars
  <2>3. ASSUME NEW n \in Managers \ {m} PROVE Calm(n)
    BY <1>3, KillOnlyEnds DEF ProcessInv, TypeOK, Sweep, Calm, managerVars
  <2> QED
    BY <1>1, <2>1, <2>2, <2>3, ManagerStepKeeps
<1>4. CASE CloseLock(m)
  <2>1. TypeOK'
    BY <1>4 DEF ProcessInv, TypeOK, CloseLock, groupVars, managerVars
  <2>2. ManagerOK(m)'
    BY <1>4, FreeAssumption DEF ProcessInv, TypeOK, ManagerOK, Holds, CloseLock, groupVars, managerVars
  <2>3. ASSUME NEW n \in Managers \ {m} PROVE Calm(n)
    BY <1>4, FreeAssumption DEF ProcessInv, TypeOK, CloseLock, Calm, groupVars, managerVars
  <2> QED
    BY <1>1, <2>1, <2>2, <2>3, ManagerStepKeeps
<1>5. CASE CloseDone(m)
  <2>1. TypeOK'
    BY <1>5 DEF ProcessInv, TypeOK, CloseDone, groupVars
  <2>2. ManagerOK(m)'
    BY <1>5 DEF ProcessInv, TypeOK, ManagerOK, Holds, CloseDone, groupVars
  <2>3. ASSUME NEW n \in Managers \ {m} PROVE Calm(n)
    BY <1>5 DEF ProcessInv, TypeOK, CloseDone, Calm, groupVars
  <2> QED
    BY <1>1, <2>1, <2>2, <2>3, ManagerStepKeeps
<1> QED
  BY <1>2, <1>3, <1>4, <1>5 DEF Wait

-----------------------------------------------------------------------------
(* The steps of a caller of Stop *)

StopRecords == [stage : StopStages, manager : Managers \cup {Free}, start : Nat]

\* Whoever is in Stop is there with a manager.
InStop == \A c \in Callers : stop[c].stage # "outside" => stop[c].manager \in Managers

\* The caller that goes on inside Stop goes on stopping the same child.
LEMMA MoveStays ==
  ASSUME stop \in [Callers -> StopRecords], InStop, NEW c \in Callers, NEW next \in Stopper,
         stop[c].stage \in Stopper, Move(c, next)
  PROVE  /\ stop' \in [Callers -> StopRecords] /\ InStop'
         /\ \A d \in Callers, n \in Managers :
              (Stops(d, n)' <=> Stops(d, n)) /\ stop'[d].start = stop[d].start
<1> DEFINE r == [stop[c] EXCEPT !.stage = next]
<1>1. next \in StopStages /\ next # "outside" /\ stop[c].stage # "outside"
  BY DEF Stopper, StopStages
<1>2. r \in StopRecords /\ r.stage = next /\ r.manager = stop[c].manager /\ r.start = stop[c].start
  BY <1>1 DEF StopRecords
<1>3. stop' = [stop EXCEPT ![c] = r]
  BY DEF Move
<1> HIDE DEF r
<1>4. stop' \in [Callers -> StopRecords]
  BY <1>2, <1>3
<1>5. InStop'
  BY <1>1, <1>2, <1>3 DEF InStop
<1>6. ASSUME NEW d \in Callers, NEW n \in Managers
      PROVE  (Stops(d, n)' <=> Stops(d, n)) /\ stop'[d].start = stop[d].start
  BY <1>1, <1>2, <1>3 DEF Stops
<1> QED
  BY <1>4, <1>5, <1>6

\* The caller that was not the stopper goes away.
LEMMA GoingOutside ==
  ASSUME stop \in [Callers -> StopRecords], InStop, NEW c \in Callers,
         stop' = [stop EXCEPT ![c] = Outside]
  PROVE  /\ stop' \in [Callers -> StopRecords] /\ InStop'
         /\ \A n \in Managers : ~ Stops(c, n)'
         /\ \A d \in Callers \ {c} : stop'[d] = stop[d]
<1>1. Outside \in StopRecords /\ Outside.stage = "outside" /\ "outside" \notin Stopper
  BY DEF Outside, StopRecords, StopStages, Stopper
<1> QED
  BY <1>1 DEF InStop, Stops

\* A caller's step that at most kills keeps the invariant if the stoppers stay.
LEMMA CallerStepKeeps ==
  ASSUME ProcessInv, UNCHANGED <<lock, lost, starting, starts, cancelled, reaping, managerVars>>,
         asked' \subseteq Managers, child' \in [Managers -> {"none", "alive", "exited"}],
         helpers' \subseteq helpers, service' \in Managers \cup {Free},
         \A n \in Managers : child'[n] = "none" <=> child[n] = "none",
         stop' \in [Callers -> StopRecords], InStop',
         \A d \in Callers, n \in Managers :
           (Stops(d, n)' <=> Stops(d, n)) /\ (Stops(d, n) => stop'[d].start = stop[d].start)
  PROVE  ProcessInv'
<1>1. TypeOK'
  BY DEF ProcessInv, TypeOK, StopRecords, managerVars
<1>2. ASSUME NEW n \in Managers PROVE Calm(n)
  BY DEF Calm, managerVars
<1>3. ASSUME NEW n \in Managers PROVE StopOK(n)'
  BY DEF ProcessInv, StopOK, managerVars
<1> QED
  BY <1>1, <1>2, <1>3, CalmKeeps DEF ProcessInv, InStop

LEMMA StopTypes ==
  ASSUME ProcessInv
  PROVE  stop \in [Callers -> StopRecords] /\ InStop
  BY DEF ProcessInv, TypeOK, StopRecords, InStop

LEMMA TerminateKeeps ==
  ASSUME ProcessInv, NEW c \in Callers, Terminate(c)
  PROVE  ProcessInv'
<1>1. stop[c].stage = "signal" /\ Move(c, "grace") /\ asked' = asked \cup {stop[c].manager}
      /\ UNCHANGED <<lock, lost, groupVars, starting, starts, cancelled, reaping, managerVars>>
  BY DEF Terminate
<1>2. /\ stop' \in [Callers -> StopRecords] /\ InStop'
      /\ \A d \in Callers, n \in Managers :
           (Stops(d, n)' <=> Stops(d, n)) /\ stop'[d].start = stop[d].start
  BY <1>1, StopTypes, MoveStays DEF Stopper
<1>3. asked' \subseteq Managers
  BY <1>1, StopTypes DEF ProcessInv, TypeOK, InStop
<1> QED
  BY <1>1, <1>2, <1>3, CallerStepKeeps DEF ProcessInv, TypeOK, groupVars

LEMMA EscalateKeeps ==
  ASSUME ProcessInv, NEW c \in Callers, Escalate(c)
  PROVE  ProcessInv'
<1>1. stop[c].stage = "grace" /\ Move(c, "final") /\ Kill(stop[c].manager)
      /\ UNCHANGED <<lock, lost, starting, starts, asked, cancelled, reaping, managerVars>>
  BY DEF Escalate
<1>2. stop[c].manager \in Managers
  BY <1>1, StopTypes DEF InStop
<1>3. /\ stop' \in [Callers -> StopRecords] /\ InStop'
      /\ \A d \in Callers, n \in Managers :
           (Stops(d, n)' <=> Stops(d, n)) /\ stop'[d].start = stop[d].start
  BY <1>1, StopTypes, MoveStays DEF Stopper
<1> QED
  BY <1>1, <1>2, <1>3, KillOnlyEnds, CallerStepKeeps DEF ProcessInv, TypeOK

\* A caller that joined the first one leaves without being missed.
LEMMA JoinerLeaves ==
  ASSUME ProcessInv, NEW c \in Callers, stop[c].stage = "joining",
         stop' = [stop EXCEPT ![c] = Outside]
  PROVE  /\ stop' \in [Callers -> StopRecords] /\ InStop'
         /\ \A d \in Callers, n \in Managers :
              (Stops(d, n)' <=> Stops(d, n)) /\ (Stops(d, n) => stop'[d].start = stop[d].start)
<1>1. \A n \in Managers : ~ Stops(c, n)
  BY DEF Stops, Stopper
<1> QED
  BY <1>1, StopTypes, GoingOutside DEF Stops

LEMMA SeeDoneKeeps ==
  ASSUME ProcessInv, NEW c \in Callers, SeeDone(c)
  PROVE  ProcessInv'
<1>1. UNCHANGED <<lock, lost, groupVars, starting, starts, asked, cancelled, reaping, managerVars>>
  BY DEF SeeDone
<1>2. /\ stop' \in [Callers -> StopRecords] /\ InStop'
      /\ \A d \in Callers, n \in Managers :
           (Stops(d, n)' <=> Stops(d, n)) /\ (Stops(d, n) => stop'[d].start = stop[d].start)
  <2>1. CASE stop[c].stage = "joining"
    <3>1. stop' = [stop EXCEPT ![c] = Outside]
      BY <2>1 DEF SeeDone
    <3> QED
      BY <2>1, <3>1, JoinerLeaves
  <2>2. CASE stop[c].stage \in {"grace", "final"}
    <3>1. Move(c, "leaving")
      BY <2>2 DEF SeeDone, Move
    <3> QED
      BY <2>2, <3>1, StopTypes, MoveStays DEF Stopper
  <2> QED
    BY <2>1, <2>2 DEF SeeDone
<1> QED
  BY <1>1, <1>2, CallerStepKeeps DEF ProcessInv, TypeOK, groupVars

LEMMA GiveUpKeeps ==
  ASSUME ProcessInv, NEW c \in Callers, GiveUp(c)
  PROVE  ProcessInv'
<1>1. UNCHANGED <<lock, lost, starting, starts, asked, cancelled, reaping, managerVars>>
  BY DEF GiveUp
<1>2. CASE stop[c].stage = "grace" /\ Kill(stop[c].manager) /\ Move(c, "leaving")
  <2>1. stop[c].manager \in Managers
    BY <1>2, StopTypes DEF InStop
  <2>2. /\ stop' \in [Callers -> StopRecords] /\ InStop'
        /\ \A d \in Callers, n \in Managers :
             (Stops(d, n)' <=> Stops(d, n)) /\ stop'[d].start = stop[d].start
    BY <1>2, StopTypes, MoveStays DEF Stopper
  <2> QED
    BY <1>1, <1>2, <2>1, <2>2, KillOnlyEnds, CallerStepKeeps DEF ProcessInv, TypeOK
<1>3. CASE stop[c].stage = "final" /\ UNCHANGED groupVars /\ Move(c, "leaving")
  <2>1. /\ stop' \in [Callers -> StopRecords] /\ InStop'
        /\ \A d \in Callers, n \in Managers :
             (Stops(d, n)' <=> Stops(d, n)) /\ stop'[d].start = stop[d].start
    BY <1>3, StopTypes, MoveStays DEF Stopper
  <2> QED
    BY <1>1, <1>3, <2>1, CallerStepKeeps DEF ProcessInv, TypeOK, groupVars
<1>4. CASE stop[c].stage = "joining" /\ UNCHANGED groupVars /\ stop' = [stop EXCEPT ![c] = Outside]
  BY <1>1, <1>4, JoinerLeaves, CallerStepKeeps DEF ProcessInv, TypeOK, groupVars
<1> QED
  BY <1>2, <1>3, <1>4 DEF GiveUp

\* Only the stopper of the current child ends the stopping, and it is the only one.
LEMMA FinishStoppingKeeps ==
  ASSUME ProcessInv, NEW c \in Callers, FinishStopping(c)
  PROVE  ProcessInv'
<1>0. PICK m \in Managers : stop[c].manager = m
  BY StopTypes DEF FinishStopping, InStop
<1>1. Stops(c, m) /\ starts[m] = stop[c].start
  <2>1. Stops(c, m)
    BY <1>0 DEF FinishStopping, Stops, Stopper
  <2> QED
    BY <2>1 DEF ProcessInv, StopOK
<1>2. /\ stopping' = [stopping EXCEPT ![m] = FALSE] /\ stop' = [stop EXCEPT ![c] = Outside]
      /\ UNCHANGED <<lock, lost, groupVars, starting, starts, asked, cancelled, reaping, running>>
  BY <1>0, <1>1 DEF FinishStopping
<1>3. /\ stop' \in [Callers -> StopRecords] /\ InStop'
      /\ \A n \in Managers : ~ Stops(c, n)'
      /\ \A d \in Callers \ {c} : stop'[d] = stop[d]
  BY <1>2, StopTypes, GoingOutside
<1>4. TypeOK'
  BY <1>2, <1>3 DEF ProcessInv, TypeOK, StopRecords, groupVars
<1>5. ASSUME NEW n \in Managers PROVE ManagerOK(n)'
  <2>1. Calm(n)
    BY <1>2 DEF ProcessInv, TypeOK, Calm, groupVars
  <2> QED
    BY <2>1, CalmKeeps DEF ProcessInv
<1>6. StopOK(m)'
  <2>1. \A d \in Callers : ~ Stops(d, m)'
    BY <1>1, <1>3 DEF ProcessInv, StopOK, Stops
  <2> QED
    BY <1>1, <1>2, <2>1 DEF ProcessInv, TypeOK, StopOK
<1>7. ASSUME NEW n \in Managers \ {m} PROVE StopOK(n)'
  <2>1. ~ Stops(c, n)
    BY <1>1 DEF Stops
  <2>2. \A d \in Callers : (Stops(d, n)' <=> Stops(d, n)) /\ (Stops(d, n) => stop'[d] = stop[d])
    BY <1>3, <2>1 DEF Stops
  <2>3. stopping'[n] = stopping[n] /\ starts'[n] = starts[n]
    BY <1>1, <1>2 DEF ProcessInv, TypeOK
  <2> QED
    BY <2>2, <2>3 DEF ProcessInv, StopOK
<1> QED
  BY <1>3, <1>4, <1>5, <1>6, <1>7 DEF ProcessInv, InStop

\* The first caller becomes the stopper; whoever comes later joins.
LEMMA EnterStopKeeps ==
  ASSUME ProcessInv, NEW c \in Callers, NEW m \in Managers, EnterStop(c, m)
  PROVE  ProcessInv'
<1> DEFINE r == [stage |-> IF stopping[m] THEN "joining" ELSE "signal",
                 manager |-> m, start |-> starts[m]]
<1>1. /\ stop[c] = Outside /\ starting[m] = "no" /\ running[m]
      /\ stop' = [stop EXCEPT ![c] = r] /\ stopping' = [stopping EXCEPT ![m] = TRUE]
      /\ UNCHANGED <<lock, lost, groupVars, starting, starts, asked, cancelled, reaping, running>>
  BY DEF EnterStop
<1>2. /\ r \in StopRecords /\ r.manager = m /\ r.start = starts[m]
      /\ r.stage = IF stopping[m] THEN "joining" ELSE "signal"
  BY DEF ProcessInv, TypeOK, StopRecords, StopStages
<1> HIDE DEF r
<1>3. stop' \in [Callers -> StopRecords] /\ stop'[c] = r /\ \A d \in Callers \ {c} : stop'[d] = stop[d]
  BY <1>1, <1>2, StopTypes
<1>4. InStop'
  BY <1>2, <1>3, StopTypes DEF InStop
<1>5. TypeOK'
  BY <1>1, <1>3 DEF ProcessInv, TypeOK, StopRecords, groupVars
<1>6. \A n \in Managers : ~ Stops(c, n)
  BY <1>1 DEF Stops, Outside, Stopper
<1>7. ManagerOK(m)'
  BY <1>1 DEF ProcessInv, TypeOK, ManagerOK, Holds, groupVars
<1>8. ASSUME NEW n \in Managers \ {m} PROVE ManagerOK(n)'
  <2>1. Calm(n)
    BY <1>1 DEF ProcessInv, TypeOK, Calm, groupVars
  <2> QED
    BY <2>1, CalmKeeps DEF ProcessInv
<1>9. StopOK(m)'
  <2>1. stopping'[m] /\ starts'[m] = starts[m]
    BY <1>1 DEF ProcessInv, TypeOK
  <2>2. \A d \in Callers \ {c} : (Stops(d, m)' <=> Stops(d, m)) /\ stop'[d] = stop[d]
    BY <1>3 DEF Stops
  <2>3. CASE stopping[m]
    <3>1. ~ Stops(c, m)'
      BY <1>2, <1>3, <2>3 DEF Stops, Stopper
    <3> QED
      BY <1>6, <2>1, <2>2, <2>3, <3>1 DEF ProcessInv, StopOK
  <2>4. CASE ~ stopping[m]
    <3>1. Stops(c, m)'
      BY <1>2, <1>3, <2>4 DEF Stops, Stopper
    <3>2. \A d \in Callers : ~ Stops(d, m)
      BY <2>4 DEF ProcessInv, StopOK
    <3>3. stop'[c].start = starts'[m]
      BY <1>2, <1>3, <2>1
    <3> QED
      BY <2>1, <2>2, <3>1, <3>2, <3>3 DEF StopOK
  <2> QED
    BY <2>3, <2>4
<1>10. ASSUME NEW n \in Managers \ {m} PROVE StopOK(n)'
  <2>1. ~ Stops(c, n)'
    BY <1>2, <1>3 DEF Stops
  <2>2. \A d \in Callers : (Stops(d, n)' <=> Stops(d, n)) /\ (Stops(d, n) => stop'[d] = stop[d])
    BY <1>3, <1>6, <2>1 DEF Stops
  <2>3. stopping'[n] = stopping[n] /\ starts'[n] = starts[n]
    BY <1>1 DEF ProcessInv, TypeOK
  <2> QED
    BY <2>2, <2>3 DEF ProcessInv, StopOK
<1> QED
  BY <1>4, <1>5, <1>7, <1>8, <1>9, <1>10 DEF ProcessInv, InStop

-----------------------------------------------------------------------------
(* Theorems *)

LEMMA NextKeeps == ProcessInv /\ [Next]_vars => ProcessInv'
<1> SUFFICES ASSUME ProcessInv, [Next]_vars PROVE ProcessInv'
  OBVIOUS
<1>1. CASE UNCHANGED vars
  BY <1>1 DEF vars, ProcessInv, TypeOK, ManagerOK, Holds, StopOK, Stops
<1>2. ASSUME NEW m \in Managers,
             \/ Start(m) \/ Wait(m) \/ Child(m)
             \/ WatchLock(m) \/ EndContext(m) \/ KillAfterCancel(m)
      PROVE  ProcessInv'
  BY <1>2, AcquireLockKeeps, CheckOwnerKeeps, LaunchKeeps, WaitKeeps, ChildKeeps, CancelKeeps,
     KillAfterCancelKeeps DEF Start, WatchLock, EndContext
<1>3. ASSUME NEW c \in Callers, Stop(c) \/ GiveUp(c) \/ \E m \in Managers : EnterStop(c, m)
      PROVE  ProcessInv'
  BY <1>3, TerminateKeeps, SeeDoneKeeps, EscalateKeeps, FinishStoppingKeeps, GiveUpKeeps,
     EnterStopKeeps DEF Stop
<1> QED
  BY <1>1, <1>2, <1>3, LoseLockKeeps DEF Next

\* What every manager has and who stops it is as ProcessInv says in every
\* reachable state.
THEOREM ProcessInvariant == Spec => []ProcessInv
<1> QED
  BY InitProcessInv, NextKeeps, PTL DEF Spec

\* The variables keep their types.
THEOREM ProcessTypes == Spec => []TypeOK
<1>1. ProcessInv => TypeOK
  BY DEF ProcessInv
<1> QED
  BY <1>1, ProcessInvariant, PTL

\* Two programs have a child at a time only if one of them has lost its lock and
\* is about to end its child (AcquireStartupLock, held until wait has reaped).
THEOREM OneChildAtATime == Spec => []OneChild
<1>1. ProcessInv => OneChild
  <2> SUFFICES ASSUME ProcessInv, NEW m \in Managers, NEW n \in Managers,
                      child[m] # "none", child[n] # "none", m # n
               PROVE  m \in lost \/ n \in lost
    BY DEF OneChild
  <2>1. Holds(m) /\ Holds(n)
    BY DEF ProcessInv, ManagerOK, Holds
  <2> QED
    BY <2>1 DEF ProcessInv, ManagerOK
<1> QED
  BY <1>1, ProcessInvariant, PTL

\* When done is closed, and after a start that failed, the child is reaped, nothing
\* of its group lives and the lock is free for others.
THEOREM NothingIsLeft == Spec => []NotRunningIsGone
<1>1. ProcessInv => NotRunningIsGone
  <2> SUFFICES ASSUME ProcessInv, NEW m \in Managers, ~ running[m], starting[m] = "no"
               PROVE  child[m] = "none" /\ m \notin helpers /\ lock # m
    BY DEF NotRunningIsGone
  <2>1. reaping[m] = "none" /\ ~ Holds(m)
    BY DEF ProcessInv, ManagerOK, Holds
  <2> QED
    BY <2>1 DEF ProcessInv, ManagerOK
<1> QED
  BY <1>1, ProcessInvariant, PTL

\* A manager refuses to start as stopping exactly while one caller of Stop is
\* there that will end that, for the child it has now.
THEOREM OneStopper == Spec => []StoppingHasStopper
<1>1. ProcessInv => StoppingHasStopper
  BY DEF ProcessInv, StopOK, Stops, StoppingHasStopper
<1> QED
  BY <1>1, ProcessInvariant, PTL
================================================================================
