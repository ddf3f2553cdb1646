----------------------------- MODULE FileStoreProofs -----------------------------
(***************************************************************************)
(* Theorems about FileStore, for any number of writers and addresses and    *)
(* any combination of failures: the variables keep their types, the lock is *)
(* never lost, success means durable, and the file changes as ContactFile   *)
(* promises, which is a refinement proved step by step.                     *)
(***************************************************************************)
EXTENDS FileStore, TLAPS

Writing == {"creating", "writing", "syncing", "renaming"}

\* What the writer is about to put in place is one operation on the file as it is.
OneOperation(w) ==
  /\ job[w].kind = "add" => job[w].contact \notin file /\ data[w] = file \cup {job[w].contact}
  /\ job[w].kind = "remove" => job[w].contact \in file /\ data[w] = file \ {job[w].contact}

\* The file says that the operation has been done.
IsDone(w) == (job[w].kind = "add") <=> (job[w].contact \in file)

\* How far a writer is tells what it holds: it has read the file that is still
\* there, has all of its data in the temporary file, has it on the disk.
WriterOK(w) ==
  /\ stage[w] # "idle" => job[w] \in Jobs
  /\ stage[w] \in Writing => OneOperation(w)
  /\ stage[w] \in {"syncing", "renaming"} => temp[w].content = data[w]
  /\ stage[w] = "renaming" => temp[w].synced
  /\ stage[w] = "flushing" => IsDone(w)
  /\ ok[w] => stage[w] = "unlocking" /\ file = durable /\ IsDone(w)

\* Garbage never gets behind the file's name, nor into what is left of it.
Whole == file \subseteq Contacts /\ durable \subseteq Contacts

FileInv ==
  /\ TypeOK
  /\ Whole
  /\ LockIsInUse
  /\ \A w \in Writers : WriterOK(w)

-----------------------------------------------------------------------------
(* What one writer's step leaves alone *)

\* Nothing of writer v has changed.
Untouched(v) ==
  /\ stage'[v] = stage[v] /\ job'[v] = job[v] /\ data'[v] = data[v]
  /\ temp'[v] = temp[v] /\ ok'[v] = ok[v]

\* w has stopped working: it is out, with nothing in its hands.
Left(w) == stage'[w] = "idle" /\ ~ ok'[w]

\* Leave empties the writer's hands and keeps the types.
LEMMA LeaveLeaves ==
  ASSUME TypeOK, NEW w \in Writers, Leave(w)
  PROVE  /\ stage' \in [Writers -> Stages] /\ job' \in [Writers -> Jobs \cup {NoJob}]
         /\ data' \in [Writers -> SUBSET Contacts] /\ temp' \in [Writers -> Temps]
         /\ ok' \in [Writers -> BOOLEAN]
         /\ Left(w)
         /\ \A v \in Writers \ {w} : Untouched(v)
<1>1. stage' \in [Writers -> Stages] /\ ok' \in [Writers -> BOOLEAN]
  BY DEF TypeOK, Leave, Go, Stages
<1>2. job' \in [Writers -> Jobs \cup {NoJob}] /\ data' \in [Writers -> SUBSET Contacts]
  BY DEF TypeOK, Leave
<1>3. NoTemp \in Temps
  BY DEF NoTemp, Temps, Contents
<1>4. temp' \in [Writers -> Temps]
  BY <1>3 DEF TypeOK, Leave
<1>5. Left(w)
  BY DEF TypeOK, Leave, Left, Go
<1>6. \A v \in Writers \ {w} : Untouched(v)
  BY DEF TypeOK, Leave, Untouched, Go
<1> QED
  BY <1>1, <1>2, <1>4, <1>5, <1>6

\* A failing step keeps the lock, the file and the types, and goes to the unlock.
LEMMA FailFails ==
  ASSUME TypeOK, NEW w \in Writers, Fail(w)
  PROVE  /\ TypeOK'
         /\ stage'[w] = "unlocking" /\ job'[w] = job[w] /\ ok'[w] = ok[w]
         /\ \A v \in Writers \ {w} : Untouched(v)
<1>1. stage' \in [Writers -> Stages]
  BY DEF TypeOK, Fail, Go, Stages
<1>2. NoTemp \in Temps
  BY DEF NoTemp, Temps, Contents
<1>3. temp' \in [Writers -> Temps]
  BY <1>2 DEF TypeOK, Fail
<1>4. stage'[w] = "unlocking" /\ job'[w] = job[w] /\ ok'[w] = ok[w]
  BY DEF TypeOK, Fail, Go
<1>5. \A v \in Writers \ {w} : Untouched(v)
  BY DEF TypeOK, Fail, Go, Untouched
<1> QED
  BY <1>1, <1>3, <1>4, <1>5 DEF TypeOK, Fail

\* A writer that is not touched stays right when the file stays, and also when
\* the holder of the lock changes it: the writer is then not working on it.
LEMMA BystanderOK ==
  ASSUME FileInv, NEW v \in Writers, Untouched(v),
         \/ file' = file /\ durable' = durable
         \/ v # flock
  PROVE  WriterOK(v)'
<1>1. CASE file' = file /\ durable' = durable
  BY <1>1 DEF FileInv, WriterOK, Untouched, OneOperation, IsDone
<1>2. CASE v # flock
  <2>1. stage[v] \notin Critical
    BY <1>2 DEF FileInv, LockIsInUse
  <2>2. stage[v] \in {"idle", "locking"}
    BY <2>1 DEF Critical, FileInv, TypeOK
  <2> QED
    BY <2>2 DEF FileInv, WriterOK, Untouched, Writing
<1> QED
  BY <1>1, <1>2

\* The lock stays in use when only w moves and the lock moves with it.
LEMMA LockFollows ==
  ASSUME FileInv, NEW w \in Writers, \A v \in Writers \ {w} : Untouched(v),
         flock' = w <=> stage'[w] \in Critical,
         \A v \in Writers \ {w} : flock' = v <=> flock = v
  PROVE  LockIsInUse'
  BY DEF FileInv, LockIsInUse, Untouched

\* A writer that has left satisfies everything.
LEMMA LeftOK ==
  ASSUME NEW w \in Writers, Left(w)
  PROVE  WriterOK(w)'
  BY DEF Left, WriterOK, Writing

\* A step that lets w go, and frees the lock if w had it, keeps the invariant.
LEMMA LeavingKeeps ==
  ASSUME FileInv, NEW w \in Writers, Leave(w), UNCHANGED <<file, durable>>,
         flock' = IF flock = w THEN Free ELSE flock
  PROVE  FileInv'
<1>1. Left(w) /\ \A v \in Writers \ {w} : Untouched(v)
  BY LeaveLeaves DEF FileInv
<1>2. TypeOK'
  BY LeaveLeaves DEF FileInv, TypeOK
<1>3. LockIsInUse'
  <2>1. stage'[w] \notin Critical
    BY <1>1 DEF Left, Critical
  <2>2. flock' # w /\ \A v \in Writers \ {w} : flock' = v <=> flock = v
    BY FreeAssumption
  <2> QED
    BY <1>1, <2>1, <2>2, LockFollows
<1>4. \A v \in Writers : WriterOK(v)'
  BY <1>1, LeftOK, BystanderOK
<1> QED
  BY <1>2, <1>3, <1>4 DEF FileInv, Whole

\* A step that fails inside the critical section keeps the invariant.
LEMMA FailingKeeps ==
  ASSUME FileInv, NEW w \in Writers, Fail(w), stage[w] \in Critical \ {"unlocking"}
  PROVE  FileInv'
<1>1. UNCHANGED <<file, durable, flock>>
  BY DEF Fail
<1>2. /\ stage'[w] = "unlocking" /\ job'[w] = job[w] /\ ok'[w] = ok[w]
      /\ \A v \in Writers \ {w} : Untouched(v)
  BY FailFails DEF FileInv
<1>3. TypeOK'
  BY FailFails DEF FileInv
<1>4. LockIsInUse'
  BY <1>1, <1>2, LockFollows DEF FileInv, LockIsInUse, Critical, Stages
<1>5. WriterOK(w)'
  <2>1. job[w] \in Jobs /\ ~ ok[w]
    BY DEF FileInv, WriterOK, Critical
  <2> QED
    BY <1>2, <2>1 DEF WriterOK, Writing
<1>6. \A v \in Writers : WriterOK(v)'
  BY <1>1, <1>2, <1>5, BystanderOK
<1> QED
  BY <1>1, <1>3, <1>4, <1>6 DEF FileInv, Whole

-----------------------------------------------------------------------------
(* The steps, one by one *)

LEMMA InitFileInv == Init => FileInv
<1> SUFFICES ASSUME Init PROVE FileInv
  OBVIOUS
<1>1. TypeOK
  BY DEF Init, TypeOK, Contents, Stages, Temps, NoTemp
<1>2. LockIsInUse
  BY FreeAssumption DEF Init, LockIsInUse, Critical
<1>3. \A w \in Writers : WriterOK(w)
  BY DEF Init, WriterOK, Writing
<1> QED
  BY <1>1, <1>2, <1>3 DEF FileInv, Init, Whole

LEMMA BeginKeeps ==
  ASSUME FileInv, NEW w \in Writers, NEW request \in Jobs, Begin(w, request)
  PROVE  FileInv'
<1>1. UNCHANGED <<file, durable, flock>>
  BY DEF Begin
<1>2. /\ stage'[w] = "locking" /\ job'[w] = request /\ ok'[w] = ok[w] /\ ~ ok[w]
      /\ \A v \in Writers \ {w} : Untouched(v)
  BY DEF FileInv, WriterOK, TypeOK, Begin, Go, Untouched
<1>3. TypeOK'
  BY DEF FileInv, TypeOK, Begin, Go, Stages
<1>4. LockIsInUse'
  BY <1>1, <1>2, LockFollows DEF FileInv, LockIsInUse, Critical, Begin
<1>5. \A v \in Writers : WriterOK(v)'
  <2>1. WriterOK(w)'
    BY <1>2 DEF WriterOK, Writing
  <2> QED
    BY <1>1, <1>2, <2>1, BystanderOK
<1> QED
  BY <1>1, <1>3, <1>4, <1>5 DEF FileInv, Whole

LEMMA TakeLockKeeps ==
  ASSUME FileInv, NEW w \in Writers, TakeLock(w)
  PROVE  FileInv'
<1>1. UNCHANGED <<file, durable, job, data, temp, ok>> /\ flock' = w /\ flock = Free
  BY DEF TakeLock
<1>2. /\ stage'[w] = "reading" /\ \A v \in Writers \ {w} : Untouched(v)
      /\ job[w] \in Jobs /\ ~ ok[w]
  BY DEF FileInv, WriterOK, TypeOK, TakeLock, Go, Untouched
<1>3. TypeOK'
  BY DEF FileInv, TypeOK, TakeLock, Go, Stages
<1>4. LockIsInUse'
  BY <1>1, <1>2, LockFollows, FreeAssumption DEF Critical, Stages
<1>5. \A v \in Writers : WriterOK(v)'
  <2>1. WriterOK(w)'
    BY <1>1, <1>2 DEF WriterOK, Writing
  <2> QED
    BY <1>1, <1>2, <2>1, BystanderOK
<1> QED
  BY <1>1, <1>3, <1>4, <1>5 DEF FileInv, Whole

\* What a step on the way to the rename has to show for itself: the lock and the
\* file stay, and the writer is as far as it says.
LEMMA ProgressKeeps ==
  ASSUME FileInv, NEW w \in Writers, stage[w] \in Critical, stage'[w] \in Critical,
         UNCHANGED <<file, durable, flock>>, \A v \in Writers \ {w} : Untouched(v),
         TypeOK', WriterOK(w)'
  PROVE  FileInv'
<1>1. LockIsInUse'
  BY LockFollows DEF FileInv, LockIsInUse
<1>2. \A v \in Writers : WriterOK(v)'
  BY BystanderOK
<1> QED
  BY <1>1, <1>2 DEF FileInv, Whole

LEMMA ReadFileKeeps ==
  ASSUME FileInv, NEW w \in Writers, ReadFile(w)
  PROVE  FileInv'
<1>1. CASE Fail(w)
  BY <1>1, FailingKeeps DEF ReadFile, Critical, Stages
<1>2. CASE ~ Fail(w)
  <2>1. /\ ~ Refused(w) /\ Go(w, "creating")
        /\ data' = [data EXCEPT ![w] = IF job[w].kind = "add"
                                       THEN AddContact(file, job[w].contact)
                                       ELSE RemoveContact(file, job[w].contact)]
        /\ UNCHANGED <<file, durable, flock, job, temp, ok>> /\ stage[w] = "reading"
    BY <1>2 DEF ReadFile
  <2>2. job[w] \in Jobs /\ ~ ok[w]
    BY <2>1 DEF FileInv, WriterOK
  <2>3. stage'[w] = "creating" /\ \A v \in Writers \ {w} : Untouched(v)
    BY <2>1 DEF FileInv, TypeOK, Go, Untouched
  <2>4. data'[w] = IF job[w].kind = "add" THEN file \cup {job[w].contact} ELSE file \ {job[w].contact}
    BY <2>1 DEF FileInv, TypeOK, AddContact, RemoveContact
  <2>5. job[w].kind \in {"add", "remove"} /\ job[w].contact \in Contacts
    BY <2>2 DEF Jobs
  <2>6. TypeOK'
    <3>1. AddContact(file, job[w].contact) \in SUBSET Contacts
          /\ RemoveContact(file, job[w].contact) \in SUBSET Contacts
      BY <2>5 DEF FileInv, Whole, AddContact, RemoveContact
    <3>2. data' \in [Writers -> SUBSET Contacts]
      BY <2>1, <3>1 DEF FileInv, TypeOK
    <3>3. stage' \in [Writers -> Stages]
      BY <2>1 DEF FileInv, TypeOK, Go, Stages
    <3> QED
      BY <2>1, <3>2, <3>3 DEF FileInv, TypeOK
  <2>7. OneOperation(w)'
    BY <2>1, <2>4, <2>5 DEF OneOperation, Refused
  <2>8. WriterOK(w)'
    BY <2>1, <2>2, <2>3, <2>7 DEF WriterOK
  <2> QED
    BY <2>1, <2>3, <2>6, <2>8, ProgressKeeps DEF Critical, Stages
<1> QED
  BY <1>1, <1>2

LEMMA CreateTempKeeps ==
  ASSUME FileInv, NEW w \in Writers, CreateTemp(w)
  PROVE  FileInv'
<1>1. CASE Fail(w)
  BY <1>1, FailingKeeps DEF CreateTemp, Critical, Stages
<1>2. CASE ~ Fail(w)
  <2> DEFINE empty == [exists |-> TRUE, content |-> {}, synced |-> FALSE]
  <2>1. /\ temp' = [temp EXCEPT ![w] = empty] /\ Go(w, "writing")
        /\ UNCHANGED <<file, durable, flock, job, data, ok>> /\ stage[w] = "creating"
    BY <1>2 DEF CreateTemp
  <2>2. job[w] \in Jobs /\ ~ ok[w] /\ OneOperation(w)
    BY <2>1 DEF FileInv, WriterOK, Writing
  <2>3. stage'[w] = "writing" /\ \A v \in Writers \ {w} : Untouched(v)
    BY <2>1 DEF FileInv, TypeOK, Go, Untouched
  <2>4. TypeOK'
    <3>1. empty \in Temps
      BY DEF Temps, Contents
    <3>2. temp' \in [Writers -> Temps]
      BY <2>1, <3>1 DEF FileInv, TypeOK
    <3>3. stage' \in [Writers -> Stages]
      BY <2>1 DEF FileInv, TypeOK, Go, Stages
    <3> QED
      BY <2>1, <3>2, <3>3 DEF FileInv, TypeOK
  <2>5. WriterOK(w)'
    BY <2>1, <2>2, <2>3 DEF WriterOK, OneOperation
  <2> QED
    BY <2>1, <2>3, <2>4, <2>5, ProgressKeeps DEF Critical, Stages
<1> QED
  BY <1>1, <1>2

LEMMA WriteTempKeeps ==
  ASSUME FileInv, NEW w \in Writers, WriteTemp(w)
  PROVE  FileInv'
<1>1. CASE Fail(w)
  BY <1>1, FailingKeeps DEF WriteTemp, Critical, Stages
<1>2. CASE ~ Fail(w)
  <2>1. /\ temp' = [temp EXCEPT ![w].content = data[w]] /\ Go(w, "syncing")
        /\ UNCHANGED <<file, durable, flock, job, data, ok>> /\ stage[w] = "writing"
    BY <1>2 DEF WriteTemp
  <2>2. job[w] \in Jobs /\ ~ ok[w] /\ OneOperation(w)
    BY <2>1 DEF FileInv, WriterOK, Writing
  <2>3. stage'[w] = "syncing" /\ \A v \in Writers \ {w} : Untouched(v)
    BY <2>1 DEF FileInv, TypeOK, Go, Untouched
  <2>4. TypeOK' /\ temp'[w].content = data[w]
    <3>1. data[w] \in Contents /\ temp[w] \in Temps
      BY DEF FileInv, TypeOK, Contents
    <3>2. [temp[w] EXCEPT !.content = data[w]] \in Temps
          /\ [temp[w] EXCEPT !.content = data[w]].content = data[w]
      BY <3>1 DEF Temps
    <3>3. temp' \in [Writers -> Temps] /\ temp'[w].content = data[w]
      BY <2>1, <3>2 DEF FileInv, TypeOK
    <3>4. stage' \in [Writers -> Stages]
      BY <2>1 DEF FileInv, TypeOK, Go, Stages
    <3> QED
      BY <2>1, <3>3, <3>4 DEF FileInv, TypeOK
  <2>5. WriterOK(w)'
    BY <2>1, <2>2, <2>3, <2>4 DEF WriterOK, OneOperation
  <2> QED
    BY <2>1, <2>3, <2>4, <2>5, ProgressKeeps DEF Critical, Stages
<1> QED
  BY <1>1, <1>2

LEMMA SyncTempKeeps ==
  ASSUME FileInv, NEW w \in Writers, SyncTemp(w)
  PROVE  FileInv'
<1>1. CASE Fail(w)
  BY <1>1, FailingKeeps DEF SyncTemp, Critical, Stages
<1>2. CASE ~ Fail(w)
  <2>1. /\ temp' = [temp EXCEPT ![w].synced = TRUE] /\ Go(w, "renaming")
        /\ UNCHANGED <<file, durable, flock, job, data, ok>> /\ stage[w] = "syncing"
    BY <1>2 DEF SyncTemp
  <2>2. job[w] \in Jobs /\ ~ ok[w] /\ OneOperation(w) /\ temp[w].content = data[w]
    BY <2>1 DEF FileInv, WriterOK, Writing
  <2>3. stage'[w] = "renaming" /\ \A v \in Writers \ {w} : Untouched(v)
    BY <2>1 DEF FileInv, TypeOK, Go, Untouched
  <2>4. TypeOK' /\ temp'[w].content = data[w] /\ temp'[w].synced
    <3>1. temp[w] \in Temps
      BY DEF FileInv, TypeOK
    <3>2. [temp[w] EXCEPT !.synced = TRUE] \in Temps
          /\ [temp[w] EXCEPT !.synced = TRUE].content = data[w]
          /\ [temp[w] EXCEPT !.synced = TRUE].synced
      BY <2>2, <3>1 DEF Temps
    <3>3. temp' \in [Writers -> Temps] /\ temp'[w].content = data[w] /\ temp'[w].synced
      BY <2>1, <3>2 DEF FileInv, TypeOK
    <3>4. stage' \in [Writers -> Stages]
      BY <2>1 DEF FileInv, TypeOK, Go, Stages
    <3> QED
      BY <2>1, <3>3, <3>4 DEF FileInv, TypeOK
  <2>5. WriterOK(w)'
    BY <2>1, <2>2, <2>3, <2>4 DEF WriterOK, OneOperation
  <2> QED
    BY <2>1, <2>3, <2>4, <2>5, ProgressKeeps DEF Critical, Stages
<1> QED
  BY <1>1, <1>2

\* The rename that succeeds: what is put in place is the operation asked for on
\* the file as it was, and it is on the disk before it has the file's name.
LEMMA RenameIsOneOperation ==
  ASSUME FileInv, NEW w \in Writers, Rename(w), ~ Fail(w)
  PROVE  /\ job[w] \in Jobs /\ ~ ok[w] /\ flock = w
         /\ \/ job[w].kind = "add" /\ job[w].contact \notin file
               /\ file' = file \cup {job[w].contact}
            \/ job[w].kind = "remove" /\ job[w].contact \in file
               /\ file' = file \ {job[w].contact}
         /\ durable' = durable
<1>1. stage[w] = "renaming" /\ file' = temp[w].content
      /\ durable' = IF temp[w].synced THEN durable ELSE Torn
  BY DEF Rename
<1>2. /\ job[w] \in Jobs /\ ~ ok[w] /\ OneOperation(w)
      /\ temp[w].content = data[w] /\ temp[w].synced
  BY <1>1 DEF FileInv, WriterOK, Writing
<1>3. flock = w
  BY <1>1 DEF FileInv, LockIsInUse, Critical, Stages
<1>4. job[w].kind \in {"add", "remove"}
  BY <1>2 DEF Jobs
<1> QED
  BY <1>1, <1>2, <1>3, <1>4 DEF OneOperation

LEMMA RenameKeeps ==
  ASSUME FileInv, NEW w \in Writers, Rename(w)
  PROVE  FileInv'
<1>1. CASE Fail(w)
  BY <1>1, FailingKeeps DEF Rename, Critical, Stages
<1>2. CASE ~ Fail(w)
  <2>1. /\ temp' = [temp EXCEPT ![w] = NoTemp] /\ Go(w, "flushing")
        /\ UNCHANGED <<flock, job, data, ok>>
    BY <1>2 DEF Rename
  <2>2. /\ job[w] \in Jobs /\ ~ ok[w] /\ flock = w /\ durable' = durable
        /\ \/ job[w].kind = "add" /\ file' = file \cup {job[w].contact}
           \/ job[w].kind = "remove" /\ file' = file \ {job[w].contact}
    BY <1>2, RenameIsOneOperation
  <2>3. stage'[w] = "flushing" /\ \A v \in Writers \ {w} : Untouched(v)
    BY <2>1 DEF FileInv, TypeOK, Go, Untouched
  <2>4. Whole'
    BY <2>2 DEF FileInv, Whole, Jobs
  <2>5. TypeOK'
    <3>1. NoTemp \in Temps
      BY DEF NoTemp, Temps, Contents
    <3>2. temp' \in [Writers -> Temps]
      BY <2>1, <3>1 DEF FileInv, TypeOK
    <3>3. stage' \in [Writers -> Stages]
      BY <2>1 DEF FileInv, TypeOK, Go, Stages
    <3>4. file' \in Contents /\ durable' \in Contents
      BY <2>4 DEF Whole, Contents
    <3> QED
      BY <2>1, <3>2, <3>3, <3>4 DEF FileInv, TypeOK
  <2>6. LockIsInUse'
    BY <2>1, <2>2, <2>3, LockFollows DEF Critical, Stages
  <2>7. WriterOK(w)'
    <3>1. IsDone(w)'
      BY <2>1, <2>2 DEF IsDone
    <3> QED
      BY <2>1, <2>2, <2>3, <3>1 DEF WriterOK, Writing
  <2>8. \A v \in Writers : WriterOK(v)'
    BY <2>2, <2>3, <2>7, BystanderOK
  <2> QED
    BY <2>4, <2>5, <2>6, <2>8 DEF FileInv
<1> QED
  BY <1>1, <1>2

LEMMA FlushDirectoryKeeps ==
  ASSUME FileInv, NEW w \in Writers, FlushDirectory(w)
  PROVE  FileInv'
<1>1. CASE Fail(w)
  BY <1>1, FailingKeeps DEF FlushDirectory, Critical, Stages
<1>2. CASE ~ Fail(w)
  <2>1. /\ durable' = file /\ ok' = [ok EXCEPT ![w] = TRUE] /\ Go(w, "unlocking")
        /\ UNCHANGED <<file, flock, job, data, temp>> /\ stage[w] = "flushing"
    BY <1>2 DEF FlushDirectory
  <2>2. job[w] \in Jobs /\ IsDone(w) /\ flock = w
    BY <2>1 DEF FileInv, WriterOK, LockIsInUse, Critical, Stages
  <2>3. stage'[w] = "unlocking" /\ \A v \in Writers \ {w} : Untouched(v)
    BY <2>1 DEF FileInv, TypeOK, Go, Untouched
  <2>4. TypeOK' /\ Whole'
    BY <2>1 DEF FileInv, TypeOK, Go, Stages, Whole
  <2>5. LockIsInUse'
    BY <2>1, <2>2, <2>3, LockFollows DEF Critical, Stages
  <2>6. WriterOK(w)'
    BY <2>1, <2>2, <2>3 DEF WriterOK, Writing, IsDone
  <2>7. \A v \in Writers : WriterOK(v)'
    BY <2>2, <2>3, <2>6, BystanderOK
  <2> QED
    BY <2>4, <2>5, <2>7 DEF FileInv
<1> QED
  BY <1>1, <1>2

LEMMA SettleKeeps ==
  ASSUME FileInv, Settle
  PROVE  FileInv'
<1>1. TypeOK' /\ Whole' /\ LockIsInUse'
  BY DEF FileInv, TypeOK, Whole, LockIsInUse, Settle
<1>2. ASSUME NEW w \in Writers PROVE WriterOK(w)'
  BY DEF FileInv, WriterOK, Settle, OneOperation, IsDone
<1> QED
  BY <1>1, <1>2 DEF FileInv

LEMMA PowerFailsKeeps ==
  ASSUME FileInv, PowerFails
  PROVE  FileInv'
<1>1. TypeOK'
  BY DEF FileInv, TypeOK, PowerFails, Stages, Temps, NoTemp, Contents
<1>2. Whole' /\ LockIsInUse'
  BY FreeAssumption DEF FileInv, Whole, LockIsInUse, PowerFails, Critical
<1>3. ASSUME NEW w \in Writers PROVE WriterOK(w)'
  BY DEF PowerFails, WriterOK, Writing
<1> QED
  BY <1>1, <1>2, <1>3 DEF FileInv

LEMMA StepKeeps ==
  ASSUME FileInv, NEW w \in Writers, Step(w)
  PROVE  FileInv'
<1>1. CASE LockTimesOut(w)
  BY <1>1, LeavingKeeps DEF LockTimesOut, FileInv, LockIsInUse, Critical
<1>2. CASE Unlock(w)
  <2>1. flock = w
    BY <1>2 DEF Unlock, FileInv, LockIsInUse, Critical, Stages
  <2> QED
    BY <1>2, <2>1, LeavingKeeps DEF Unlock
<1> QED
  BY <1>1, <1>2, TakeLockKeeps, ReadFileKeeps, CreateTempKeeps, WriteTempKeeps, SyncTempKeeps,
     RenameKeeps, FlushDirectoryKeeps DEF Step

LEMMA NextKeeps == FileInv /\ [Next]_vars => FileInv'
<1> SUFFICES ASSUME FileInv, [Next]_vars PROVE FileInv'
  OBVIOUS
<1>1. ASSUME NEW w \in Writers, OpenFails(w) PROVE FileInv'
  BY <1>1, LeavingKeeps DEF OpenFails, FileInv, LockIsInUse, Critical
<1>2. ASSUME NEW w \in Writers, Die(w) PROVE FileInv'
  BY <1>2, LeavingKeeps DEF Die
<1>3. CASE UNCHANGED vars
  BY <1>3 DEF vars, FileInv, TypeOK, Whole, LockIsInUse, WriterOK, OneOperation, IsDone
<1> QED
  BY <1>1, <1>2, <1>3, StepKeeps, BeginKeeps, SettleKeeps, PowerFailsKeeps DEF Next

-----------------------------------------------------------------------------
(* Theorems *)

\* Types, whole files, the lock and what every writer holds are as FileInv says
\* in every reachable state.
THEOREM FileInvariant == Spec => []FileInv
<1> QED
  BY InitFileInv, NextKeeps, PTL DEF Spec

\* The variables keep their types.
THEOREM FileStoreTypes == Spec => []TypeOK
<1>1. FileInv => TypeOK
  BY DEF FileInv
<1> QED
  BY <1>1, FileInvariant, PTL

\* The lock has a holder exactly when somebody is inside the critical section, and
\* then that one: no failure, death or power failure loses it
\* (withExclusiveLock).
THEOREM LockIsNeverLost == Spec => []LockIsInUse
<1>1. FileInv => LockIsInUse
  BY DEF FileInv
<1> QED
  BY <1>1, FileInvariant, PTL

\* AddContact and RemoveContact report success only of what a power failure does
\* not take back (atomicWrite).
THEOREM SuccessSurvivesPowerFailure == Spec => []SuccessIsDurable
<1>1. FileInv => SuccessIsDurable
  <2> SUFFICES ASSUME FileInv, NEW w \in Writers, ok[w]
               PROVE  file = durable /\ ((job[w].kind = "add") <=> (job[w].contact \in durable))
    BY DEF SuccessIsDurable
  <2> QED
    BY DEF FileInv, WriterOK, IsDone
<1> QED
  BY <1>1, FileInvariant, PTL

\* A reader, who takes no lock, finds a whole file at any time, and so does one
\* after a power failure (sync before rename).
THEOREM FilesAreWhole == Spec => []Whole
<1>1. FileInv => Whole
  BY DEF FileInv
<1> QED
  BY <1>1, FileInvariant, PTL

-----------------------------------------------------------------------------
(* The file is a ContactFile. *)

\* A step of a writer that fails, leaves or is on its way changes neither the file
\* nor what is on the disk.
LEMMA QuietStep ==
  ASSUME NEW w \in Writers,
         \/ Fail(w) \/ TakeLock(w) \/ LockTimesOut(w) \/ ReadFile(w) \/ CreateTemp(w)
         \/ WriteTemp(w) \/ SyncTemp(w) \/ Unlock(w) \/ OpenFails(w) \/ Die(w)
         \/ \E request \in Jobs : Begin(w, request)
  PROVE  UNCHANGED <<file, durable>>
  BY DEF Fail, TakeLock, LockTimesOut, ReadFile, CreateTemp, WriteTemp, SyncTemp, Unlock,
         OpenFails, Die, Begin

LEMMA StepImplementsFile ==
  FileInv /\ [Next]_vars => [OneOperationAtATime!Next]_OneOperationAtATime!vars
<1> SUFFICES ASSUME FileInv, [Next]_vars
             PROVE  OneOperationAtATime!Next \/ UNCHANGED <<file, durable>>
  BY DEF OneOperationAtATime!vars
<1>1. ASSUME NEW w \in Writers, Rename(w), ~ Fail(w) PROVE OneOperationAtATime!Next
  <2>1. CASE job[w].kind = "add"
    <3>1. OneOperationAtATime!Add(job[w].contact) /\ job[w].contact \in Contacts
      BY <1>1, <2>1, RenameIsOneOperation DEF OneOperationAtATime!Add, Jobs
    <3> QED
      BY <3>1 DEF OneOperationAtATime!Next
  <2>2. CASE job[w].kind = "remove"
    <3>1. OneOperationAtATime!Remove(job[w].contact) /\ job[w].contact \in Contacts
      BY <1>1, <2>2, RenameIsOneOperation DEF OneOperationAtATime!Remove, Jobs
    <3> QED
      BY <3>1 DEF OneOperationAtATime!Next
  <2> QED
    BY <1>1, <2>1, <2>2, RenameIsOneOperation
<1>2. ASSUME NEW w \in Writers, FlushDirectory(w), ~ Fail(w) PROVE OneOperationAtATime!Next
  BY <1>2 DEF FlushDirectory, OneOperationAtATime!Next, OneOperationAtATime!Settle
<1>3. ASSUME Settle PROVE OneOperationAtATime!Next
  BY <1>3 DEF Settle, OneOperationAtATime!Next, OneOperationAtATime!Settle
<1>4. ASSUME PowerFails PROVE OneOperationAtATime!Next
  BY <1>4 DEF PowerFails, OneOperationAtATime!Next, OneOperationAtATime!PowerFails
<1>5. ASSUME NEW w \in Writers, Step(w) PROVE OneOperationAtATime!Next \/ UNCHANGED <<file, durable>>
  BY <1>1, <1>2, <1>5, QuietStep DEF Step
<1> QED
  BY <1>3, <1>4, <1>5, QuietStep DEF Next, vars

\* The contacts file changes by one complete operation at a time, each against the
\* file as it is: no writer's change is lost to another's, whoever fails or dies
\* in between.  A rename is the operation, Settle and the directory's sync let
\* it reach the disk, and every other step leaves the file alone.
THEOREM NoUpdateIsLost == Spec => NoLostUpdate
<1>1. Init => OneOperationAtATime!Init
  BY DEF Init, OneOperationAtATime!Init
<1>2. FileInv /\ [Next]_vars => [OneOperationAtATime!Next]_OneOperationAtATime!vars
  BY StepImplementsFile
<1>3. Spec => OneOperationAtATime!Spec
  BY <1>1, <1>2, FileInvariant, PTL DEF Spec, OneOperationAtATime!Spec
<1> QED
  BY <1>3 DEF NoLostUpdate
================================================================================
