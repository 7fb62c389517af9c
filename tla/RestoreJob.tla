----------------------------- MODULE RestoreJob -----------------------------
(***************************************************************************)
(* Restore jobs: the dispatch of a drive, and the goroutine that occupies  *)
(* the drive, reads the barcode of the tape in it, copies the files the    *)
(* job still wants from that tape, checks them against the library's hash  *)
(* and size, and moves the job on (executor/job_restore_exe.go,            *)
(* job_restore_tape.go).  The state of a restore job lists tapes and, for  *)
(* each, files: an entry of the row is a file or a tape.                   *)
(***************************************************************************)
EXTENDS JobSteps

CONSTANTS
    Workers,        \* restoreTape goroutines: bounds how many run at once
    Lists,          \* tape entry -> its file entries, as the plan lists them
    Foreign,        \* a cartridge the job does not list
    MaxCrashes      \* bounds server restarts

TapeEntries == DOMAIN Lists
FileEntries == Items \ TapeEntries
Cartridges == TapeEntries \cup {Foreign}

(* the plan reads every file from exactly one tape, and no tape for nothing *)
ASSUME RestoreAssumption ==
    /\ TapeEntries \subseteq Items
    /\ \A t \in TapeEntries : Lists[t] # {} /\ Lists[t] \subseteq FileEntries
    /\ \A s, t \in TapeEntries : s # t => Lists[s] \cap Lists[t] = {}
    /\ \A f \in FileEntries : \E t \in TapeEntries : f \in Lists[t]
    /\ Foreign \notin Items
    /\ MaxCrashes \in Nat
    /\ None \notin Devices \cup Cartridges

VARIABLES
    pc,             \* worker -> where restoreTape is
    task,           \* worker -> its executor, drive and the tape in it
    copy,           \* worker -> file -> how far the copier is with it
    failed,         \* worker -> does restoreTape return an error
    target,         \* job -> files that lie complete and unchanged at their target
    crashes         \* restarts so far

workerVars == <<available, pc, task, copy, failed>>
vars == <<storeVars, workerVars, target, crashes>>

-----------------------------------------------------------------------------
WorkerPCs == {"off", "occupy", "readinfo", "start", "copy", "report", "todo",
              "wait", "complete", "release", "fail"}

(* from OccupyDevice to the deferred ReleaseDevice *)
Holding == WorkerPCs \ {"off", "occupy", "fail"}
(* from the dispatch to the deferred dispatch of the next step *)
Making == WorkerPCs \ {"off", "release", "fail"}

(* a file the copier was not given, not started, announced, being written,  *)
(* over                                                                     *)
CopyPhases == {"out", "queued", "pending", "running", "over"}

Task == [exe : Executors \cup {None}, dev : Devices \cup {None}, tape : Cartridges \cup {None}]
NoTask == [exe |-> None, dev |-> None, tape |-> None]
NoCopy == [f \in FileEntries |-> "out"]

Exe(w) == task[w].exe
Goes(w, to) == pc' = [pc EXCEPT ![w] = to]
(* restoreTape returns an error, its deferred calls still run *)
GoesWrong(w, to) == Goes(w, to) /\ failed' = [failed EXCEPT ![w] = TRUE]

(* Mutants, never used by the model: what a plausible bug would make of the *)
(* definition of the same name below.                                       *)
MutWanted(row, tape) == Lists[tape]
MutVerdict(same) == "STAGED"
MutSettled(row, tape) == [row EXCEPT !.items =
    [i \in Items |-> IF i = tape THEN "SUBMITED" ELSE
                     IF i \in Lists[tape] /\ row.items[i] = "STAGED" THEN "SUBMITED" ELSE row.items[i]]]
MutAllDone(row) == \A t \in TapeEntries : row.items[t] \in {"SUBMITED", "FAILED"}

(* a tape of the job that is not restored yet                               *)
Accepts(row, tape) == tape \in TapeEntries /\ row.items[tape] # "SUBMITED"

(* what the copier is given *)
Wanted(row, tape) == Lists[tape] \ Submited(row)

(* a file that was copied is staged when hash and size are the library's    *)
Verdict(same) == IF same THEN "STAGED" ELSE "FAILED"

(* staged files of the tape are submitted; the tape is when all of them are *)
Settled(row, tape) ==
    LET done == {f \in Lists[tape] : row.items[f] \in {"STAGED", "SUBMITED"}}
    IN  [row EXCEPT !.items = [i \in Items |->
            IF i \in done THEN "SUBMITED"
            ELSE IF i # tape THEN row.items[i]
            ELSE IF done = Lists[tape] THEN "SUBMITED" ELSE "FAILED"]]

AllDone(row) == TapeEntries \subseteq Submited(row)

-----------------------------------------------------------------------------
(* dispatch(Copying): switchStep, then a goroutine.  The user puts a        *)
(* cartridge into a drive; one in use is not in his hand.                   *)

DispatchCopying(c, w, dev, tape) ==
    /\ At(c, "dispatch")
    /\ "copy" \in Ops
    /\ LET e == client[c].exe
       IN  /\ MayCopy(mem[e])
           /\ Saves(e, Switched(mem[e], "COPYING", "PROCESSING"))
           /\ pc[w] = "off"
           /\ \A v \in Workers : pc[v] # "off" => task[v].tape # tape
           /\ Goes(w, "occupy")
           /\ task' = [task EXCEPT ![w] = [exe |-> e, dev |-> dev, tape |-> tape]]
    /\ Reply(c)
    /\ UNCHANGED <<owner, cache, available, copy, failed, target, crashes>>

(* the save fails: no goroutine, but the copy in memory says COPYING *)
DispatchCopyingUnsaved(c) ==
    /\ At(c, "dispatch")
    /\ "copy" \in Ops
    /\ LET e == client[c].exe
       IN  /\ MayCopy(mem[e])
           /\ FailsToSave(e, Switched(mem[e], "COPYING", "PROCESSING"))
    /\ Reply(c)
    /\ UNCHANGED <<owner, cache, workerVars, target, crashes>>

(* unexpected current step *)
DispatchRefused(c) ==
    /\ At(c, "dispatch")
    /\ \/ "copy" \in Ops /\ ~ MayCopy(mem[client[c].exe])
       \/ "wait" \in Ops /\ ~ MayWait(mem[client[c].exe])
       \/ "finish" \in Ops /\ ~ MayFinish(mem[client[c].exe])
    /\ Reply(c)
    /\ UNCHANGED <<job, owner, mem, cache, faults, workerVars, target, crashes>>

DispatchWait(c) ==
    /\ At(c, "dispatch")
    /\ "wait" \in Ops
    /\ WaitForTape(client[c].exe)
    /\ Reply(c)
    /\ UNCHANGED <<owner, workerVars, target, crashes>>

DispatchFinish(c) ==
    /\ At(c, "dispatch")
    /\ "finish" \in Ops
    /\ Finished(client[c].exe)
    /\ Reply(c)
    /\ UNCHANGED <<owner, workerVars, target, crashes>>

-----------------------------------------------------------------------------
(* restoreTape.  Its deferred calls run in the reverse of the order they    *)
(* are written in: report, umount, dispatch of the next step, ReleaseDevice.*)

Occupy(w) ==
    /\ pc[w] = "occupy"
    /\ LET dev == task[w].dev
       IN  IF dev \in available
           THEN /\ TakesDevice(dev)
                /\ Goes(w, "readinfo")
                /\ UNCHANGED failed
           ELSE /\ GoesWrong(w, "fail")
                /\ UNCHANGED available
    /\ UNCHANGED <<storeVars, task, copy, target, crashes>>

(* read info, find the tape in the job, get it from the library, restore    *)
(* the key, encrypt, mount: any of them may fail                            *)
ReadInfo(w) ==
    /\ pc[w] = "readinfo"
    /\ LET row == mem[Exe(w)]
           tape == task[w].tape
       IN  \/ /\ Accepts(row, tape)
              /\ copy' = [copy EXCEPT ![w] = [f \in FileEntries |->
                            IF f \in Wanted(row, tape) THEN "queued" ELSE "out"]]
              /\ Goes(w, "start")
              /\ UNCHANGED failed
           \/ GoesWrong(w, "todo") /\ UNCHANGED copy
    /\ UNCHANGED <<storeVars, available, task, target, crashes>>

Start(w) ==
    /\ pc[w] = "start"
    /\ Updates(Exe(w), [mem[Exe(w)] EXCEPT !.items[task[w].tape] = "RUNNING"])
    /\ Goes(w, "copy")
    /\ UNCHANGED <<owner, cache, client, available, task, copy, failed, target, crashes>>

(* the event handler; the result of updateJob is ignored *)
CopyEvent(w, f, phase, status) ==
    /\ pc[w] = "copy"
    /\ copy' = [copy EXCEPT ![w][f] = phase]
    /\ Updates(Exe(w), [mem[Exe(w)] EXCEPT !.items[f] = status])
    /\ UNCHANGED <<owner, cache, client, available, pc, task, failed, crashes>>

Lose(w, f) == target' = [target EXCEPT ![owner[Exe(w)]] = @ \ {f}]
Gain(w, f) == target' = [target EXCEPT ![owner[Exe(w)]] = @ \cup {f}]

(* from "preparing" on the file at the target is opened and written *)
CopyStarts(w, f) ==
    \/ copy[w][f] = "queued" /\ CopyEvent(w, f, "pending", "PENDING") /\ UNCHANGED target
    \/ copy[w][f] = "pending" /\ CopyEvent(w, f, "running", "RUNNING") /\ Lose(w, f)

CopyEnds(w, f) ==
    /\ copy[w][f] = "running"
    /\ \/ CopyEvent(w, f, "over", Verdict(TRUE)) /\ Gain(w, f)
       \/ CopyEvent(w, f, "over", Verdict(FALSE)) /\ UNCHANGED target
       \/ CopyEvent(w, f, "over", "FAILED") /\ UNCHANGED target

(* the copier reports an error for a file it never starts: nothing changes  *)
CopySkips(w, f) ==
    /\ pc[w] = "copy"
    /\ copy[w][f] = "queued"
    /\ copy' = [copy EXCEPT ![w][f] = "over"]
    /\ UNCHANGED <<storeVars, available, pc, task, failed, target, crashes>>

(* copyer.Wait returns, or acp.New fails before any event *)
CopyDone(w) ==
    /\ pc[w] = "copy"
    /\ \/ /\ \A f \in FileEntries : copy[w][f] \in {"out", "over"}
          /\ Goes(w, "report")
          /\ UNCHANGED failed
       \/ /\ \A f \in FileEntries : copy[w][f] \in {"out", "queued"}
          /\ GoesWrong(w, "report")
    /\ copy' = [copy EXCEPT ![w] = NoCopy]
    /\ UNCHANGED <<storeVars, available, task, target, crashes>>

(* the deferred report, whose result is ignored; then the tape is unmounted *)
Report(w) ==
    /\ pc[w] = "report"
    /\ Updates(Exe(w), Settled(mem[Exe(w)], task[w].tape))
    /\ Goes(w, "todo")
    /\ UNCHANGED <<owner, cache, client, available, task, copy, failed, target, crashes>>

(* the deferred dispatch: look at the tapes, then dispatch, result ignored  *)
CountTodo(w) ==
    /\ pc[w] = "todo"
    /\ Goes(w, IF AllDone(mem[Exe(w)]) THEN "complete" ELSE "wait")
    /\ UNCHANGED <<storeVars, available, task, copy, failed, target, crashes>>

FinishWait(w) ==
    /\ pc[w] = "wait"
    /\ \/ WaitForTape(Exe(w))
       \/ /\ ~ MayWait(mem[Exe(w)])
          /\ UNCHANGED <<job, mem, cache, faults>>
    /\ Goes(w, "release")
    /\ UNCHANGED <<owner, client, available, task, copy, failed, target, crashes>>

FinishComplete(w) ==
    /\ pc[w] = "complete"
    /\ \/ Finished(Exe(w))
       \/ /\ ~ MayFinish(mem[Exe(w)])
          /\ UNCHANGED <<job, mem, cache, faults>>
    /\ Goes(w, "release")
    /\ UNCHANGED <<owner, client, available, task, copy, failed, target, crashes>>

(* a worker that is done leaves nothing behind *)
Off(w) ==
    /\ Goes(w, "off")
    /\ task' = [task EXCEPT ![w] = NoTask]
    /\ failed' = [failed EXCEPT ![w] = FALSE]

Release(w) ==
    /\ pc[w] = "release"
    /\ ReturnsDevice(task[w].dev)
    /\ IF failed[w]
       THEN Goes(w, "fail") /\ UNCHANGED <<task, failed>>
       ELSE Off(w)
    /\ UNCHANGED <<storeVars, copy, target, crashes>>

(* the goroutine marks the job failed after restoreTape has returned *)
MarkFailed(w) ==
    /\ pc[w] = "fail"
    /\ Updates(Exe(w), [mem[Exe(w)] EXCEPT !.status = "FAILED"])
    /\ Off(w)
    /\ UNCHANGED <<owner, cache, client, available, copy, target, crashes>>

-----------------------------------------------------------------------------
(* The server dies and starts again: the table and the disk are left.       *)
Crash ==
    /\ crashes < MaxCrashes
    /\ crashes' = crashes + 1
    /\ owner' = [e \in Executors |-> None]
    /\ mem' = [e \in Executors |-> NoRow]
    /\ cache' = [j \in Jobs |-> None]
    /\ client' = [c \in Clients |-> Idle]
    /\ available' = Devices
    /\ pc' = [w \in Workers |-> "off"]
    /\ task' = [w \in Workers |-> NoTask]
    /\ copy' = [w \in Workers |-> NoCopy]
    /\ failed' = [w \in Workers |-> FALSE]
    /\ UNCHANGED <<job, faults, target>>

Init ==
    /\ StoreInit
    /\ available = Devices
    /\ pc = [w \in Workers |-> "off"]
    /\ task = [w \in Workers |-> NoTask]
    /\ copy = [w \in Workers |-> NoCopy]
    /\ failed = [w \in Workers |-> FALSE]
    /\ target = [j \in Jobs |-> {}]
    /\ crashes = 0

Dispatch(c) ==
    \/ \E w \in Workers, dev \in Devices, tape \in Cartridges : DispatchCopying(c, w, dev, tape)
    \/ DispatchCopyingUnsaved(c)
    \/ DispatchRefused(c)
    \/ DispatchWait(c)
    \/ DispatchFinish(c)

RestoreTape(w) ==
    \/ Occupy(w)
    \/ ReadInfo(w)
    \/ Start(w)
    \/ \E f \in FileEntries : CopyStarts(w, f) \/ CopyEnds(w, f) \/ CopySkips(w, f)
    \/ CopyDone(w)
    \/ Report(w)
    \/ CountTodo(w)
    \/ FinishWait(w)
    \/ FinishComplete(w)
    \/ Release(w)
    \/ MarkFailed(w)

Next ==
    \/ StoreNext /\ UNCHANGED <<workerVars, target, crashes>>
    \/ \E c \in Clients : Dispatch(c)
    \/ \E w \in Workers : RestoreTape(w)
    \/ Crash

(* A goroutine that runs goes on running; the scripts it waits for and the  *)
(* copier end.  Users owe nothing.                                          *)
Fairness == \A w \in Workers : WF_vars(RestoreTape(w))

Spec == Init /\ [][Next]_vars
FairSpec == Spec /\ Fairness
-----------------------------------------------------------------------------
TypeOK ==
    /\ StoreTypeOK
    /\ available \subseteq Devices
    /\ pc \in [Workers -> WorkerPCs]
    /\ task \in [Workers -> Task]
    /\ copy \in [Workers -> [FileEntries -> CopyPhases]]
    /\ failed \in [Workers -> BOOLEAN]
    /\ target \in [Jobs -> SUBSET FileEntries]
    /\ crashes \in 0..MaxCrashes

(* Every drive is either available or in the hands of exactly one worker,   *)
(* on every path out of restoreTape (OccupyDevice, ReleaseDevice).          *)
DevicesAccounted ==
    /\ \A w \in Workers : pc[w] \in Holding => task[w].dev \in Devices \ available
    /\ \A v, w \in Workers :
            pc[v] \in Holding /\ pc[w] \in Holding /\ task[v].dev = task[w].dev => v = w
    /\ \A d \in Devices \ available :
            \E w \in Workers : pc[w] \in Holding /\ task[w].dev = d

(* What a job calls restored lies at its target with the hash and size the  *)
(* library has: neither the statuses of another attempt nor a copy that     *)
(* ended badly make a file restored.  With one failing save or one restart: *)
(* with two of each a STAGED the row kept, of a file a later attempt opened *)
(* without saving so, may be submitted by the report of a third.            *)
RestoredIsVerified == \A j \in Jobs : Submited(job[j]) \ TapeEntries \subseteq target[j]

(* A tape the job is done with has all its files restored, in the table and *)
(* in every copy: nobody is asked for the tape again, so a file it left out *)
(* would be lost from the job.                                              *)
RestoredTapeIsWhole ==
    \A row \in {job[j] : j \in Jobs} \cup {mem[e] : e \in Executors} :
        \A t \in TapeEntries \cap Submited(row) : Lists[t] \subseteq Submited(row)

(* A worker completes a job only when every file of it is restored, in the  *)
(* executor's copy and so in the row it saves.                              *)
CompletedIsRestored ==
    [][\A w \in Workers :
         pc[w] = "complete" /\ pc'[w] = "release" =>
            /\ mem'[Exe(w)].status = "COMPLETED"
            /\ Submited(mem'[Exe(w)]) = Items]_vars

(* What has been restored stays restored, through failing saves, retries    *)
(* and restarts.                                                            *)
RestoredStays ==
    [][\A j \in Jobs : Submited(job[j]) \subseteq Submited(job'[j])]_vars

(* No job stays PROCESSING for ever: whatever fails in restoreTape, a       *)
(* deferred step or the goroutine's error path moves the row on.            *)
ProcessingEnds ==
    \A j \in Jobs : job[j].status = "PROCESSING" ~> job[j].status # "PROCESSING"

-----------------------------------------------------------------------------
(* The row of a restore job keeps the contract of JobContract.              *)

Contract == INSTANCE JobContract WITH
    Items <- FileEntries,
    phase <- [j \in Jobs |->
        CASE job[j].status = "PROCESSING" -> "working"
          [] job[j].status = "FAILED" -> "failed"
          [] job[j].status = "COMPLETED" -> "completed"
          [] OTHER -> "waiting"],
    done <- [j \in Jobs |-> Submited(job[j]) \ TapeEntries]

(* With reliable saves and clients that dispatch and look, what the row of  *)
(* a restore job shows over time is a behaviour of the contract: it         *)
(* completes only with every file restored, and no attempt undoes another.  *)
KeepsContract == Contract!Spec
=============================================================================
