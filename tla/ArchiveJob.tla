----------------------------- MODULE ArchiveJob -----------------------------
(***************************************************************************)
(* Archive jobs: the dispatch of a tape, and the goroutine that occupies a *)
(* drive, formats and mounts the tape, copies what is left of the job to   *)
(* it, registers the tape in the library and moves the job on              *)
(* (executor/job_archive_exe.go, job_archive_tape.go, device.go).  An item *)
(* of the job is one source file.                                          *)
(***************************************************************************)
EXTENDS JobSteps

CONSTANTS
    Workers,        \* makeTape goroutines: bounds how many run at once
    Tapes,          \* cartridges, each with its barcode: bounds the tapes
    MaxCrashes,     \* bounds server restarts
    ReuseTapes      \* may a user insert a tape the library knows

ASSUME ArchiveAssumption ==
    /\ MaxCrashes \in Nat
    /\ ReuseTapes \in BOOLEAN
    /\ None \notin Devices \cup Tapes

VARIABLES
    pc,             \* worker -> where makeTape is
    task,           \* worker -> its executor, drive and tape
    copy,           \* worker -> item -> how far the copier is with it
    readonly,       \* worker -> has the tape dropped to readonly
    failed,         \* worker -> does makeTape return an error
    tapes,          \* tapes of the library
    position,       \* tape -> the files the library says are on it
    data,           \* tape -> the files its written index lists
    crashes         \* restarts so far

workerVars == <<available, pc, task, copy, readonly, failed>>
libraryVars == <<tapes, position>>
vars == <<storeVars, workerVars, libraryVars, data, crashes>>

-----------------------------------------------------------------------------
WorkerPCs == {"off", "occupy", "prepare", "copy", "report", "mark", "umount",
              "todo", "wait", "complete", "release", "fail"}

(* from OccupyDevice to the deferred ReleaseDevice *)
Holding == WorkerPCs \ {"off", "occupy", "fail"}
(* the tape is mounted *)
Mounted == {"copy", "report", "mark", "umount"}
(* from the dispatch to the deferred makeTapeFinished *)
Making == WorkerPCs \ {"off", "release", "fail"}

(* an item the copier was not given, not started, announced, being written, *)
(* ended well, ended well but with no usable hash or no longer a file,      *)
(* ended badly                                                              *)
CopyPhases == {"out", "queued", "pending", "running", "good", "unhashed", "bad"}
Ended == {"out", "good", "unhashed", "bad"}

Task == [exe : Executors \cup {None}, dev : Devices \cup {None}, tape : Tapes \cup {None}]
NoTask == [exe |-> None, dev |-> None, tape |-> None]
NoCopy == [i \in Items |-> "out"]

Exe(w) == task[w].exe
Files(w, phases) == {owner[Exe(w)]} \X {i \in Items : copy[w][i] \in phases}

Goes(w, to) == pc' = [pc EXCEPT ![w] = to]
(* makeTape returns an error, its deferred calls still run *)
GoesWrong(w, to) == Goes(w, to) /\ failed' = [failed EXCEPT ![w] = TRUE]

(* Mutants, never used by the model: what a plausible bug would make of the *)
(* definition of the same name below.                                       *)
MutReported(w) == Files(w, {"good", "bad"})
MutMarked(w) == {i \in Items : copy[w][i] \in {"good", "unhashed", "bad"}}
MutTodo(row) == Items
MutNothingLeft(row) == \A i \in Items : row.items[i] \in {"SUBMITED", "STAGED"}
MutTapeRefused(w) == GoesWrong(w, "mark")

(* the files of the report that go to the library: copied, regular, hashed  *)
Reported(w) == Files(w, {"good"})
Marked(w) == {i \in Items : copy[w][i] = "good"}

(* what the copier is given, and what getTodoSources counts                 *)
Todo(row) == Items \ Submited(row)
NothingLeft(row) == Todo(row) = {}

(* CreateTape has failed: nothing is marked                                 *)
TapeRefused(w) == GoesWrong(w, "umount")

-----------------------------------------------------------------------------
(* dispatch(Copying): switchStep, then a goroutine.  The user picks a drive *)
(* and the tape in it; a cartridge in use is not in his hand.               *)

DispatchCopying(c, w, dev, tape) ==
    /\ At(c, "dispatch")
    /\ "copy" \in Ops
    /\ LET e == client[c].exe
       IN  /\ MayCopy(mem[e])
           /\ Saves(e, Switched(mem[e], "COPYING", "PROCESSING"))
           /\ pc[w] = "off"
           /\ \A v \in Workers : pc[v] # "off" => task[v].tape # tape
           /\ ReuseTapes \/ tape \notin tapes
           /\ Goes(w, "occupy")
           /\ task' = [task EXCEPT ![w] = [exe |-> e, dev |-> dev, tape |-> tape]]
    /\ Reply(c)
    /\ UNCHANGED <<owner, cache, available, copy, readonly, failed, libraryVars, data, crashes>>

(* the save fails: no goroutine, but the copy in memory says COPYING *)
DispatchCopyingUnsaved(c) ==
    /\ At(c, "dispatch")
    /\ "copy" \in Ops
    /\ LET e == client[c].exe
       IN  /\ MayCopy(mem[e])
           /\ FailsToSave(e, Switched(mem[e], "COPYING", "PROCESSING"))
    /\ Reply(c)
    /\ UNCHANGED <<owner, cache, workerVars, libraryVars, data, crashes>>

(* unexpected current step *)
DispatchRefused(c) ==
    /\ At(c, "dispatch")
    /\ \/ "copy" \in Ops /\ ~ MayCopy(mem[client[c].exe])
       \/ "wait" \in Ops /\ ~ MayWait(mem[client[c].exe])
       \/ "finish" \in Ops /\ ~ MayFinish(mem[client[c].exe])
    /\ Reply(c)
    /\ UNCHANGED <<job, owner, mem, cache, faults, workerVars, libraryVars, data, crashes>>

DispatchWait(c) ==
    /\ At(c, "dispatch")
    /\ "wait" \in Ops
    /\ WaitForTape(client[c].exe)
    /\ Reply(c)
    /\ UNCHANGED <<owner, workerVars, libraryVars, data, crashes>>

DispatchFinish(c) ==
    /\ At(c, "dispatch")
    /\ "finish" \in Ops
    /\ Finished(client[c].exe)
    /\ Reply(c)
    /\ UNCHANGED <<owner, workerVars, libraryVars, data, crashes>>

-----------------------------------------------------------------------------
(* makeTape.  Its deferred calls run in the reverse of the order they are   *)
(* written in: report, umount, makeTapeFinished, ReleaseDevice.             *)

Occupy(w) ==
    /\ pc[w] = "occupy"
    /\ LET dev == task[w].dev
       IN  IF dev \in available
           THEN /\ TakesDevice(dev)
                /\ Goes(w, "prepare")
                /\ UNCHANGED failed
           ELSE /\ GoesWrong(w, "fail")
                /\ UNCHANGED available
    /\ UNCHANGED <<storeVars, task, copy, readonly, libraryVars, data, crashes>>

(* newKey, encrypt, mkfs, mount; then the copier gets the items that are    *)
(* not submitted.  Once mkfs has run the tape is blank.                     *)
Prepare(w) ==
    /\ pc[w] = "prepare"
    /\ \/ /\ data' = [data EXCEPT ![task[w].tape] = {}]
          /\ copy' = [copy EXCEPT ![w] = [i \in Items |->
                        IF i \in Todo(mem[Exe(w)]) THEN "queued" ELSE "out"]]
          /\ Goes(w, "copy")
          /\ UNCHANGED failed
       \/ /\ data' \in {data, [data EXCEPT ![task[w].tape] = {}]}
          /\ GoesWrong(w, "todo")
          /\ UNCHANGED copy
    /\ UNCHANGED <<storeVars, available, task, readonly, libraryVars, crashes>>

(* the event handler: the copier has moved on with item i.  The result of   *)
(* updateJob is ignored.                                                    *)
CopyEvent(w, i, phase, status) ==
    /\ pc[w] = "copy"
    /\ copy' = [copy EXCEPT ![w][i] = phase]
    /\ Updates(Exe(w), [mem[Exe(w)] EXCEPT !.items[i] = status])
    /\ UNCHANGED <<owner, cache, client, available, pc, task, failed, libraryVars, data, crashes>>

CopyStarts(w, i) ==
    /\ \/ copy[w][i] = "queued" /\ CopyEvent(w, i, "pending", "PENDING")
       \/ copy[w][i] = "pending" /\ CopyEvent(w, i, "running", "RUNNING")
    /\ UNCHANGED readonly

CopyEnds(w, i) ==
    /\ copy[w][i] = "running"
    /\ \/ /\ ~ readonly[w]
          /\ \E phase \in {"good", "unhashed"} : CopyEvent(w, i, phase, "STAGED")
          /\ UNCHANGED readonly
       \/ /\ CopyEvent(w, i, "bad", "FAILED")
          /\ \/ UNCHANGED readonly
             \/ readonly' = [readonly EXCEPT ![w] = TRUE]

(* the copier reports an error for an item it never starts (the source is   *)
(* gone): that event changes nothing                                        *)
CopySkips(w, i) ==
    /\ pc[w] = "copy"
    /\ copy[w][i] = "queued"
    /\ copy' = [copy EXCEPT ![w][i] = "bad"]
    /\ UNCHANGED <<storeVars, available, pc, task, readonly, failed, libraryVars, data, crashes>>

(* copyer.Wait returns, or acp.New fails before any event *)
CopyDone(w) ==
    /\ pc[w] = "copy"
    /\ \/ /\ \A i \in Items : copy[w][i] \in Ended
          /\ Goes(w, "report")
          /\ UNCHANGED <<copy, failed>>
       \/ /\ \A i \in Items : copy[w][i] \in {"out", "queued"}
          /\ GoesWrong(w, "report")
          /\ copy' = [copy EXCEPT ![w] = NoCopy]
    /\ UNCHANGED <<storeVars, available, task, readonly, libraryVars, data, crashes>>

-----------------------------------------------------------------------------
(* The deferred report.                                                     *)

(* rollbackSources: no tape, everything not submitted is pending again *)
RollbackSources(w) ==
    /\ pc[w] = "report"
    /\ readonly[w]
    /\ LET row == mem[Exe(w)]
       IN  Updates(Exe(w), [row EXCEPT !.items = [i \in Items |->
                IF i \in Submited(row) THEN "SUBMITED" ELSE "PENDING"]])
    /\ Goes(w, "umount")
    /\ UNCHANGED <<owner, cache, client, available, task, copy, readonly, failed, libraryVars, data, crashes>>

(* CreateTape: the tape row, then its positions in one transaction.  A      *)
(* barcode the library has is refused by the unique index.                  *)
CreateTape(w) ==
    /\ pc[w] = "report"
    /\ ~ readonly[w]
    /\ LET t == task[w].tape
       IN  \/ /\ t \notin tapes
              /\ tapes' = tapes \cup {t}
              /\ position' = [position EXCEPT ![t] = Reported(w)]
              /\ Goes(w, "mark")
              /\ UNCHANGED <<failed, faults>>
           \/ /\ t \in tapes
              /\ TapeRefused(w)
              /\ UNCHANGED <<libraryVars, faults>>
           \/ /\ Fault
              /\ tapes' \in {tapes, tapes \cup {t}}
              /\ TapeRefused(w)
              /\ UNCHANGED position
    /\ UNCHANGED <<job, owner, mem, cache, client, available, task, copy, readonly, data, crashes>>

MarkSourcesAsSubmited(w) ==
    /\ pc[w] = "mark"
    /\ LET row == [mem[Exe(w)] EXCEPT !.items = [i \in Items |->
                    IF i \in Marked(w) THEN "SUBMITED" ELSE mem[Exe(w)].items[i]]]
       IN  \/ Saves(Exe(w), row) /\ Goes(w, "umount") /\ UNCHANGED failed
           \/ FailsToSave(Exe(w), row) /\ GoesWrong(w, "umount")
    /\ UNCHANGED <<owner, cache, client, available, task, copy, readonly, libraryVars, data, crashes>>

(* The mount is made with sync_type=unmount: the index reaches the tape     *)
(* when it is unmounted, unless the tape is readonly.                       *)
Umount(w) ==
    /\ pc[w] = "umount"
    /\ data' = [data EXCEPT ![task[w].tape] =
                    IF readonly[w] THEN {} ELSE Files(w, {"good", "unhashed"})]
    /\ Goes(w, "todo")
    /\ UNCHANGED <<storeVars, available, task, copy, readonly, failed, libraryVars, crashes>>

-----------------------------------------------------------------------------
(* makeTapeFinished: count what is left, then dispatch; the result of the   *)
(* dispatch is ignored.                                                     *)

CountTodo(w) ==
    /\ pc[w] = "todo"
    /\ Goes(w, IF NothingLeft(mem[Exe(w)]) THEN "complete" ELSE "wait")
    /\ UNCHANGED <<storeVars, available, task, copy, readonly, failed, libraryVars, data, crashes>>

FinishWait(w) ==
    /\ pc[w] = "wait"
    /\ \/ WaitForTape(Exe(w))
       \/ /\ ~ MayWait(mem[Exe(w)])
          /\ UNCHANGED <<job, mem, cache, faults>>
    /\ Goes(w, "release")
    /\ UNCHANGED <<owner, client, available, task, copy, readonly, failed, libraryVars, data, crashes>>

FinishComplete(w) ==
    /\ pc[w] = "complete"
    /\ \/ Finished(Exe(w))
       \/ /\ ~ MayFinish(mem[Exe(w)])
          /\ UNCHANGED <<job, mem, cache, faults>>
    /\ Goes(w, "release")
    /\ UNCHANGED <<owner, client, available, task, copy, readonly, failed, libraryVars, data, crashes>>

(* a worker that is done leaves nothing behind *)
Off(w) ==
    /\ Goes(w, "off")
    /\ task' = [task EXCEPT ![w] = NoTask]
    /\ copy' = [copy EXCEPT ![w] = NoCopy]
    /\ readonly' = [readonly EXCEPT ![w] = FALSE]
    /\ failed' = [failed EXCEPT ![w] = FALSE]

Release(w) ==
    /\ pc[w] = "release"
    /\ ReturnsDevice(task[w].dev)
    /\ IF failed[w]
       THEN Goes(w, "fail") /\ UNCHANGED <<task, copy, readonly, failed>>
       ELSE Off(w)
    /\ UNCHANGED <<storeVars, libraryVars, data, crashes>>

(* the goroutine marks the job failed after makeTape has returned *)
MarkFailed(w) ==
    /\ pc[w] = "fail"
    /\ Updates(Exe(w), [mem[Exe(w)] EXCEPT !.status = "FAILED"])
    /\ Off(w)
    /\ UNCHANGED <<owner, cache, client, available, libraryVars, data, crashes>>

-----------------------------------------------------------------------------
(* The server dies and starts again: the database and the written indexes   *)
(* are all that is left.                                                    *)
Crash ==
    /\ crashes < MaxCrashes
    /\ crashes' = crashes + 1
    /\ owner' = [e \in Executors |-> None]
    /\ mem' = [e \in Executors |-> NoRow]
    /\ cache' = [j \in Jobs |-> None]
    /\ client' = [c \in Clients |-> Idle]
    /\ available' = Devices
    /\ pc' = [w \in Workers |-> "off"]
    /\ task' = [w \in Workers |-> NoTask]
    /\ copy' = [w \in Workers |-> NoCopy]
    /\ readonly' = [w \in Workers |-> FALSE]
    /\ failed' = [w \in Workers |-> FALSE]
    /\ UNCHANGED <<job, faults, libraryVars, data>>

(* the server starts on a database that may hold jobs waiting for a tape *)
Init ==
    /\ StoreInit
    /\ available = Devices
    /\ pc = [w \in Workers |-> "off"]
    /\ task = [w \in Workers |-> NoTask]
    /\ copy = [w \in Workers |-> NoCopy]
    /\ readonly = [w \in Workers |-> FALSE]
    /\ failed = [w \in Workers |-> FALSE]
    /\ tapes = {}
    /\ position = [t \in Tapes |-> {}]
    /\ data = [t \in Tapes |-> {}]
    /\ crashes = 0

Dispatch(c) ==
    \/ \E w \in Workers, dev \in Devices, tape \in Tapes : DispatchCopying(c, w, dev, tape)
    \/ DispatchCopyingUnsaved(c)
    \/ DispatchRefused(c)
    \/ DispatchWait(c)
    \/ DispatchFinish(c)

MakeTape(w) ==
    \/ Occupy(w)
    \/ Prepare(w)
    \/ \E i \in Items : CopyStarts(w, i) \/ CopyEnds(w, i) \/ CopySkips(w, i)
    \/ CopyDone(w)
    \/ RollbackSources(w)
    \/ CreateTape(w)
    \/ MarkSourcesAsSubmited(w)
    \/ Umount(w)
    \/ CountTodo(w)
    \/ FinishWait(w)
    \/ FinishComplete(w)
    \/ Release(w)
    \/ MarkFailed(w)

Next ==
    \/ StoreNext /\ UNCHANGED <<workerVars, libraryVars, data, crashes>>
    \/ \E c \in Clients : Dispatch(c)
    \/ \E w \in Workers : MakeTape(w)
    \/ Crash

(* A goroutine that runs goes on running; the scripts it waits for and the  *)
(* copier end.  A request that was accepted is served.  Users owe nothing.  *)
Fairness == \A w \in Workers : WF_vars(MakeTape(w))

Spec == Init /\ [][Next]_vars
FairSpec == Spec /\ Fairness
-----------------------------------------------------------------------------
TypeOK ==
    /\ StoreTypeOK
    /\ available \subseteq Devices
    /\ pc \in [Workers -> WorkerPCs]
    /\ task \in [Workers -> Task]
    /\ copy \in [Workers -> [Items -> CopyPhases]]
    /\ readonly \in [Workers -> BOOLEAN]
    /\ failed \in [Workers -> BOOLEAN]
    /\ tapes \subseteq Tapes
    /\ position \in [Tapes -> SUBSET (Jobs \X Items)]
    /\ data \in [Tapes -> SUBSET (Jobs \X Items)]
    /\ crashes \in 0..MaxCrashes

(* Every drive is either available or in the hands of exactly one worker:   *)
(* no two workers format, mount or copy on one drive, and no error path of  *)
(* makeTape loses a drive (OccupyDevice, ReleaseDevice).                    *)
DevicesAccounted ==
    /\ \A w \in Workers : pc[w] \in Holding => task[w].dev \in Devices \ available
    /\ \A v, w \in Workers :
            pc[v] \in Holding /\ pc[w] \in Holding /\ task[v].dev = task[w].dev => v = w
    /\ \A d \in Devices \ available :
            \E w \in Workers : pc[w] \in Holding /\ task[w].dev = d

(* The step of an executor is a lock: while one makeTape of an executor is  *)
(* between its dispatch and its makeTapeFinished no second one starts, so   *)
(* event handlers, report and count never see another worker's changes.     *)
OneWorkerPerExecutor ==
    \A v, w \in Workers :
        pc[v] \in Making /\ pc[w] \in Making /\ Exe(v) = Exe(w) => v = w

(* As long as the executor of a job stays the cached one, the lock is the   *)
(* job's: no two workers copy for one job at the same time.                 *)
OneWorkerPerJob ==
    \A v, w \in Workers :
        pc[v] \in Making /\ pc[w] \in Making /\ owner[Exe(v)] = owner[Exe(w)] => v = w

InLibrary(j, i) == \E t \in tapes : <<j, i>> \in position[t]

(* What the job calls submitted, in the table, in any executor's copy or on *)
(* a page that may be sent back, the library can find on a tape: the order  *)
(* CreateTape, then markSourcesAsSubmited survives failing saves, crashes,  *)
(* rollbacks and lost updates.                                              *)
SubmittedInLibrary ==
    /\ \A j \in Jobs : \A i \in Submited(job[j]) : InLibrary(j, i)
    /\ \A e \in Executors : \A i \in Submited(mem[e]) : InLibrary(owner[e], i)
    /\ \A c \in Clients : \A i \in Submited(client[c].read) : InLibrary(client[c].job, i)
    /\ \A c \in Clients : \A i \in Submited(client[c].view) : InLibrary(client[c].job, i)

(* the written index of the tape lists the file, or the tape is still       *)
(* mounted with the file on it                                              *)
OnTape(t, f) ==
    \/ f \in data[t]
    \/ \E w \in Workers : /\ pc[w] \in Mounted
                           /\ task[w].tape = t
                           /\ ~ readonly[w]
                           /\ f \in Files(w, {"good", "unhashed"})

(* Every file the library lists on a tape is there: a tape that dropped to  *)
(* readonly is not registered, nor is a file whose copy failed.             *)
LibraryIsOnTape == \A t \in tapes : \A f \in position[t] : OnTape(t, f)

(* A worker completes a job only when every source has been submitted, in   *)
(* the executor's copy and so in the row it saves: nothing is counted and   *)
(* then taken back between getTodoSources and the dispatch of Finished.     *)
CompletedIsArchived ==
    [][\A w \in Workers :
         pc[w] = "complete" /\ pc'[w] = "release" =>
            /\ mem'[Exe(w)].status = "COMPLETED"
            /\ Submited(mem'[Exe(w)]) = Items]_vars

(* What has been submitted stays submitted, through failing saves, retries  *)
(* on other tapes and restarts, as long as nobody rolls the job back.       *)
SubmittedStays ==
    [][\A j \in Jobs : Submited(job[j]) \subseteq Submited(job'[j])]_vars

(* No job stays PROCESSING for ever: whatever fails in makeTape, a deferred *)
(* step or the goroutine's error path moves the row on.                     *)
ProcessingEnds ==
    \A j \in Jobs : job[j].status = "PROCESSING" ~> job[j].status # "PROCESSING"

(* An occupied drive comes back. *)
DeviceComesBack == \A d \in Devices : d \notin available ~> d \in available

-----------------------------------------------------------------------------
(* The row of an archive job keeps the contract of JobContract.             *)

Contract == INSTANCE JobContract WITH
    phase <- [j \in Jobs |->
        CASE job[j].status = "PROCESSING" -> "working"
          [] job[j].status = "FAILED" -> "failed"
          [] job[j].status = "COMPLETED" -> "completed"
          [] OTHER -> "waiting"],
    done <- [j \in Jobs |-> Submited(job[j])]

(* With reliable saves and clients that dispatch and look, what the row of  *)
(* a job shows over time is a behaviour of the contract: it completes only  *)
(* with every source submitted, and no attempt undoes another.              *)
KeepsContract == Contract!Spec
=============================================================================
