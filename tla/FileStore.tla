-------------------------------- MODULE FileStore --------------------------------
(***************************************************************************)
(* Changing a managed file (internal/storage): AddContact and RemoveContact *)
(* read, change and replace the contacts file under an exclusive flock on a *)
(* lock file; atomicWrite writes a temporary file, syncs it, renames it     *)
(* over the old one and syncs the directory.                                *)
(*                                                                         *)
(* A writer is a goroutine of any program that uses the directory.  It may  *)
(* die with its program between any two steps, and the machine may lose     *)
(* power.  A file is the set of addresses in it (a missing one has none);   *)
(* Torn is what is found after a power failure where data was never synced. *)
(***************************************************************************)
EXTENDS Naturals

CONSTANTS
  Writers, Contacts,
  Free,          \* nobody holds the lock
  Garbage,       \* what stands in a file whose data never reached the disk
  Faults         \* subset of {"io", "die", "power"}

ASSUME FreeAssumption == Free \notin Writers
ASSUME GarbageAssumption == Garbage \notin Contacts

VARIABLES
  file,      \* the content behind the file's name
  durable,   \* what a power failure would leave behind it
  flock,     \* the holder of the lock file
  stage,     \* where each writer is
  job,       \* what it has been asked to do
  data,      \* what it is going to write
  temp,      \* its temporary file: content and whether it was synced
  ok         \* the result it is about to return

vars == <<file, durable, flock, stage, job, data, temp, ok>>

Jobs == [kind : {"add", "remove"}, contact : Contacts]
NoJob == [kind |-> "none"]
Stages == {"idle", "locking", "reading", "creating", "writing", "syncing",
           "renaming", "flushing", "unlocking"}
Critical == Stages \ {"idle", "locking"}

Torn == {Garbage}
Contents == SUBSET Contacts \cup {Torn}
NoTemp == [exists |-> FALSE, content |-> {}, synced |-> FALSE]
Temps == [exists : BOOLEAN, content : Contents, synced : BOOLEAN]

Go(w, next) == stage' = [stage EXCEPT ![w] = next]

\* Return an error from inside the lock; the temporary file, if any, is removed.
Fail(w) ==
  /\ Go(w, "unlocking")
  /\ temp' = [temp EXCEPT ![w] = NoTemp]
  /\ UNCHANGED <<file, durable, flock, job, data, ok>>

-----------------------------------------------------------------------------
(* withExclusiveLock.  Definitions named X_... are mutants of X: plausible bugs
   the runs are shown to catch, used by no other definition. *)

Begin(w, request) ==
  /\ stage[w] = "idle"
  /\ job' = [job EXCEPT ![w] = request]
  /\ Go(w, "locking")
  /\ UNCHANGED <<file, durable, flock, data, temp, ok>>

\* What a writer holds locally is gone when it returns, or dies.
Leave(w) ==
  /\ Go(w, "idle")
  /\ job' = [job EXCEPT ![w] = NoJob]
  /\ data' = [data EXCEPT ![w] = {}]
  /\ temp' = [temp EXCEPT ![w] = NoTemp]
  /\ ok' = [ok EXCEPT ![w] = FALSE]

\* flock on a lock file that is opened once per operation and never removed
TakeLock_Shared(w) ==
  /\ stage[w] = "locking"
  /\ flock' = w
  /\ Go(w, "reading")
  /\ UNCHANGED <<file, durable, job, data, temp, ok>>

TakeLock(w) ==
  /\ stage[w] = "locking" /\ flock = Free
  /\ flock' = w
  /\ Go(w, "reading")
  /\ UNCHANGED <<file, durable, job, data, temp, ok>>

\* The lock file cannot be opened.
OpenFails(w) ==
  /\ "io" \in Faults
  /\ stage[w] = "locking"
  /\ Leave(w)
  /\ UNCHANGED <<file, durable, flock>>

LockTimesOut_KeepsTrying(w) ==
  /\ stage[w] = "locking" /\ flock # Free
  /\ UNCHANGED vars

\* ErrLockTimeout
LockTimesOut(w) ==
  /\ stage[w] = "locking" /\ flock # Free
  /\ Leave(w)
  /\ UNCHANGED <<file, durable, flock>>

Unlock_OnSuccess(w) ==
  /\ stage[w] = "unlocking"
  /\ flock' = IF ok[w] THEN Free ELSE flock
  /\ Leave(w)
  /\ UNCHANGED <<file, durable>>

\* The deferred unlock of every way out of the critical section
Unlock(w) ==
  /\ stage[w] = "unlocking"
  /\ flock' = Free
  /\ Leave(w)
  /\ UNCHANGED <<file, durable>>

-----------------------------------------------------------------------------
(* AddContact and RemoveContact *)

AddContact(content, c) == content \cup {c}

RemoveContact(content, c) == content \ {c}

\* ErrDuplicate, ErrNotFound
Refused(w) == (job[w].kind = "add") = (job[w].contact \in file)

ReadFile(w) ==
  /\ stage[w] = "reading"
  /\ \/ /\ ~ Refused(w)
        /\ data' = [data EXCEPT ![w] = IF job[w].kind = "add"
                                       THEN AddContact(file, job[w].contact)
                                       ELSE RemoveContact(file, job[w].contact)]
        /\ Go(w, "creating")
        /\ UNCHANGED <<file, durable, flock, job, temp, ok>>
     \/ Refused(w) /\ Fail(w)
     \/ "io" \in Faults /\ Fail(w)

-----------------------------------------------------------------------------
(* atomicWrite *)

CreateTemp(w) ==
  /\ stage[w] = "creating"
  /\ \/ /\ temp' = [temp EXCEPT ![w] = [exists |-> TRUE, content |-> {}, synced |-> FALSE]]
        /\ Go(w, "writing")
        /\ UNCHANGED <<file, durable, flock, job, data, ok>>
     \/ "io" \in Faults /\ Fail(w)

WriteTemp(w) ==
  /\ stage[w] = "writing"
  /\ \/ /\ temp' = [temp EXCEPT ![w].content = data[w]]
        /\ Go(w, "syncing")
        /\ UNCHANGED <<file, durable, flock, job, data, ok>>
     \/ "io" \in Faults /\ Fail(w)

\* Sync and Close
SyncTemp(w) ==
  /\ stage[w] = "syncing"
  /\ \/ /\ temp' = [temp EXCEPT ![w].synced = TRUE]
        /\ Go(w, "renaming")
        /\ UNCHANGED <<file, durable, flock, job, data, ok>>
     \/ "io" \in Faults /\ Fail(w)

\* The rename reaches the disk at once or later.  Later is Settle; at once, and
\* without the data, is what the Sync before prevents.
Rename(w) ==
  /\ stage[w] = "renaming"
  /\ \/ /\ file' = temp[w].content
        /\ temp' = [temp EXCEPT ![w] = NoTemp]
        /\ durable' = IF temp[w].synced THEN durable ELSE Torn
        /\ Go(w, "flushing")
        /\ UNCHANGED <<flock, job, data, ok>>
     \/ "io" \in Faults /\ Fail(w)

FlushDirectory_Lazily(w) ==
  /\ stage[w] = "flushing"
  /\ ok' = [ok EXCEPT ![w] = TRUE]
  /\ Go(w, "unlocking")
  /\ UNCHANGED <<file, durable, flock, job, data, temp>>

\* Sync of the directory; its failure is returned although the file is replaced.
FlushDirectory(w) ==
  /\ stage[w] = "flushing"
  /\ \/ /\ durable' = file
        /\ ok' = [ok EXCEPT ![w] = TRUE]
        /\ Go(w, "unlocking")
        /\ UNCHANGED <<file, flock, job, data, temp>>
     \/ "io" \in Faults /\ Fail(w)

-----------------------------------------------------------------------------
(* The world around *)

\* The kernel writes the directory back when it likes.
Settle ==
  /\ durable' = file
  /\ UNCHANGED <<file, flock, stage, job, data, temp, ok>>

\* The program dies: its lock goes with its descriptor.  Its temporary file stays
\* behind, under a name nobody uses again.
Die(w) ==
  /\ "die" \in Faults
  /\ stage[w] # "idle"
  /\ flock' = IF flock = w THEN Free ELSE flock
  /\ Leave(w)
  /\ UNCHANGED <<file, durable>>

PowerFails ==
  /\ "power" \in Faults
  /\ file' = durable
  /\ flock' = Free
  /\ stage' = [w \in Writers |-> "idle"]
  /\ job' = [w \in Writers |-> NoJob]
  /\ data' = [w \in Writers |-> {}]
  /\ temp' = [w \in Writers |-> NoTemp]
  /\ ok' = [w \in Writers |-> FALSE]
  /\ UNCHANGED durable

Init ==
  /\ file = {} /\ durable = {}
  /\ flock = Free
  /\ stage = [w \in Writers |-> "idle"]
  /\ job = [w \in Writers |-> NoJob]
  /\ data = [w \in Writers |-> {}]
  /\ temp = [w \in Writers |-> NoTemp]
  /\ ok = [w \in Writers |-> FALSE]

Step(w) ==
  \/ TakeLock(w) \/ LockTimesOut(w) \/ ReadFile(w)
  \/ CreateTemp(w) \/ WriteTemp(w) \/ SyncTemp(w) \/ Rename(w) \/ FlushDirectory(w)
  \/ Unlock(w)

Next ==
  \/ \E w \in Writers : Step(w) \/ OpenFails(w) \/ Die(w) \/ \E request \in Jobs : Begin(w, request)
  \/ Settle
  \/ PowerFails

Spec == Init /\ [][Next]_vars

\* A writer that is not killed goes on; nothing has to fail, but the wait for a
\* lock that is held has to end.
FairSpec == Spec /\ \A w \in Writers : WF_vars(Step(w))

-----------------------------------------------------------------------------
(* Properties *)

\* Every variable holds a value of its kind.
TypeOK ==
  /\ file \in Contents /\ durable \in Contents
  /\ flock \in Writers \cup {Free}
  /\ stage \in [Writers -> Stages]
  /\ job \in [Writers -> Jobs \cup {NoJob}]
  /\ data \in [Writers -> SUBSET Contacts]
  /\ temp \in [Writers -> Temps]
  /\ ok \in [Writers -> BOOLEAN]

\* Every change of the file is one complete operation on the file as it was: no
\* writer overwrites what another has saved meanwhile (withExclusiveLock around
\* reading and writing), and a failed operation changes nothing but by having
\* been completed.  A reader, which takes no lock, so finds a whole file at any
\* time, after a power failure too (sync before rename).
OneOperationAtATime == INSTANCE ContactFile WITH saved <- file, durable <- durable
NoLostUpdate == OneOperationAtATime!Spec

\* An operation that reports success is on the disk: a power failure does not
\* take it back.
SuccessIsDurable ==
  \A w \in Writers :
    ok[w] => file = durable /\ ((job[w].kind = "add") <=> (job[w].contact \in durable))

\* The lock is held by a writer inside the critical section, so that it is
\* never lost to one that has failed or died.
LockIsInUse == \A w \in Writers : flock = w <=> stage[w] \in Critical

\* Every operation returns: a writer that cannot have the lock gives up.
OperationReturns == \A w \in Writers : stage[w] # "idle" ~> stage[w] = "idle"
================================================================================
