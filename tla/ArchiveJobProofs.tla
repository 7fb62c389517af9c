--------------------------- MODULE ArchiveJobProofs ---------------------------
(***************************************************************************)
(* Proofs about ArchiveJob, for any jobs, sources, executors, clients,     *)
(* workers, drives and tapes, any number of failing saves and restarts.    *)
(***************************************************************************)
EXTENDS ArchiveJob, JobStoreProofs

USE JobStoreAssumption, ArchiveAssumption

(* What a worker holds exists and belongs to a job. *)
WorkerRefs ==
    \A w \in Workers : pc[w] # "off" =>
        /\ task[w] \in [exe : Executors, dev : Devices, tape : Tapes]
        /\ owner[task[w].exe] \in Jobs

WorkersTyped ==
    /\ available \subseteq Devices
    /\ pc \in [Workers -> WorkerPCs]
    /\ task \in [Workers -> Task]
    /\ copy \in [Workers -> [Items -> CopyPhases]]
    /\ readonly \in [Workers -> BOOLEAN]
    /\ failed \in [Workers -> BOOLEAN]
    /\ WorkerRefs

LibraryTyped ==
    /\ tapes \subseteq Tapes
    /\ position \in [Tapes -> SUBSET (Jobs \X Items)]
    /\ data \in [Tapes -> SUBSET (Jobs \X Items)]

(* TypeOK is inductive together with the references. *)
Typed == StoreTyped /\ WorkersTyped /\ LibraryTyped /\ crashes \in 0..MaxCrashes

USE DEF Typed

(* Workers go on where they are while executors keep their jobs. *)
LEMMA WorkersKept ==
    ASSUME Typed, UNCHANGED <<pc, task>>,
           OwnersKept
    PROVE  WorkerRefs'
  BY DEF WorkersTyped, WorkerRefs, OwnersKept

LEMMA StoreNextTyped ==
    ASSUME Typed, StoreNext, UNCHANGED <<workerVars, libraryVars, data, crashes>>
    PROVE  Typed'
  <1>1. StoreTyped' /\ OwnersKept
    BY StoreNextType
  <1>2. WorkersTyped'
    BY <1>1, WorkersKept DEF workerVars, WorkersTyped
  <1> QED
    BY <1>1, <1>2 DEF LibraryTyped, libraryVars

-----------------------------------------------------------------------------
(* The steps of dispatches and workers *)

LEMMA Assemble ==
    ASSUME Typed, StoreTyped', WorkersTyped', LibraryTyped', UNCHANGED crashes
    PROVE  Typed'
  OBVIOUS

LEMMA LibraryStays ==
    ASSUME Typed, UNCHANGED <<libraryVars, data>>
    PROVE  LibraryTyped'
  BY DEF StoreTyped, WorkersTyped, LibraryTyped, libraryVars

LEMMA WorkerMoves ==
    ASSUME Typed, NEW w \in Workers, pc[w] # "off", NEW to \in WorkerPCs, Goes(w, to),
           UNCHANGED <<task, owner>>
    PROVE  pc' \in [Workers -> WorkerPCs] /\ WorkerRefs'
  BY DEF Goes, StoreTyped, WorkersTyped, LibraryTyped, WorkerRefs

LEMMA WorkerErrs ==
    ASSUME Typed, NEW w \in Workers, pc[w] # "off", NEW to \in WorkerPCs, GoesWrong(w, to),
           UNCHANGED <<task, owner>>
    PROVE  /\ pc' \in [Workers -> WorkerPCs]
           /\ failed' \in [Workers -> BOOLEAN]
           /\ WorkerRefs'
  BY WorkerMoves DEF GoesWrong, StoreTyped, WorkersTyped, LibraryTyped

LEMMA WorkersStay ==
    ASSUME Typed, UNCHANGED <<workerVars, owner>>
    PROVE  WorkersTyped'
  BY DEF StoreTyped, WorkersTyped, LibraryTyped, WorkerRefs, workerVars

LEMMA OffType ==
    ASSUME Typed, NEW w \in Workers, Off(w), UNCHANGED owner
    PROVE  /\ pc' \in [Workers -> WorkerPCs]
           /\ task' \in [Workers -> Task]
           /\ copy' \in [Workers -> [Items -> CopyPhases]]
           /\ readonly' \in [Workers -> BOOLEAN]
           /\ failed' \in [Workers -> BOOLEAN]
           /\ WorkerRefs'
  <1>1. /\ "off" \in WorkerPCs
        /\ NoTask \in Task
        /\ NoCopy \in [Items -> CopyPhases]
    BY DEF WorkerPCs, NoTask, Task, NoCopy, CopyPhases
  <1>2. pc' \in [Workers -> WorkerPCs] /\ task' \in [Workers -> Task]
    BY <1>1 DEF Off, Goes, StoreTyped, WorkersTyped, LibraryTyped
  <1>3. copy' \in [Workers -> [Items -> CopyPhases]]
    BY <1>1 DEF Off, StoreTyped, WorkersTyped, LibraryTyped
  <1>4. readonly' \in [Workers -> BOOLEAN] /\ failed' \in [Workers -> BOOLEAN]
    BY DEF Off, StoreTyped, WorkersTyped, LibraryTyped
  <1>5. WorkerRefs'
    BY DEF Off, Goes, StoreTyped, WorkersTyped, LibraryTyped, WorkerRefs
  <1> QED
    BY <1>2, <1>3, <1>4, <1>5

LEMMA TaskType ==
    ASSUME Typed, NEW w \in Workers, pc[w] # "off"
    PROVE  /\ Exe(w) \in Executors
           /\ owner[Exe(w)] \in Jobs
           /\ mem[Exe(w)] \in Row
           /\ task[w].dev \in Devices
           /\ task[w].tape \in Tapes
           /\ \A phases : Files(w, phases) \in SUBSET (Jobs \X Items)
  <1>1. task[w] \in [exe : Executors, dev : Devices, tape : Tapes] /\ owner[task[w].exe] \in Jobs
    BY DEF WorkersTyped, WorkerRefs
  <1> QED
    BY <1>1 DEF Exe, Files, StoreTyped, WorkersTyped, LibraryTyped, StoreTypeOK

LEMMA DispatchTyped ==
    ASSUME Typed, NEW c \in Clients, Dispatch(c)
    PROVE  Typed'
  <1> DEFINE e == client[c].exe
  <1>0. At(c, "dispatch") => e \in Executors /\ owner[e] \in Jobs /\ mem[e] \in Row
    BY DEF At, StoreTyped, ClientRefs, WorkersTyped, LibraryTyped, StoreTypeOK
  <1>1. ASSUME NEW w \in Workers, NEW dev \in Devices, NEW tape \in Tapes,
               DispatchCopying(c, w, dev, tape)
        PROVE  Typed'
    <2> DEFINE row == Switched(mem[e], "COPYING", "PROCESSING")
    <2>1. e \in Executors /\ owner[e] \in Jobs /\ row \in Row
      BY <1>0, <1>1, SwitchedType DEF DispatchCopying, Steps, Statuses
    <2>2. Updates(e, row) /\ Reply(c) /\ UNCHANGED <<owner, cache>>
      BY <1>1 DEF DispatchCopying, Updates
    <2> HIDE DEF row
    <2>3. StoreTyped'
      BY <2>1, <2>2, DispatchedStays
    <2>4. /\ pc' = [pc EXCEPT ![w] = "occupy"]
          /\ task' = [task EXCEPT ![w] = [exe |-> e, dev |-> dev, tape |-> tape]]
          /\ UNCHANGED <<available, copy, readonly, failed, libraryVars, data, crashes, owner>>
      BY <1>1 DEF DispatchCopying, Goes
    <2>5. WorkersTyped'
      <3>1. pc' \in [Workers -> WorkerPCs] /\ task' \in [Workers -> Task]
        BY <2>1, <2>4 DEF WorkerPCs, Task, StoreTyped, WorkersTyped, LibraryTyped
      <3>2. WorkerRefs'
        BY <2>1, <2>4 DEF WorkersTyped, WorkerRefs, StoreTyped, LibraryTyped
      <3> QED
        BY <2>4, <3>1, <3>2 DEF WorkersTyped, StoreTyped, LibraryTyped
    <2>6. LibraryTyped'
      BY <2>4, LibraryStays
    <2> QED
      BY <2>3, <2>4, <2>5, <2>6, Assemble
  <1>2. CASE DispatchCopyingUnsaved(c)
    <2> DEFINE row == Switched(mem[e], "COPYING", "PROCESSING")
    <2>1. e \in Executors /\ owner[e] \in Jobs /\ row \in Row
      BY <1>0, <1>2, SwitchedType DEF DispatchCopyingUnsaved, Steps, Statuses
    <2>2. /\ Updates(e, row) /\ Reply(c)
          /\ UNCHANGED <<owner, cache, workerVars, libraryVars, data, crashes>>
      BY <1>2 DEF DispatchCopyingUnsaved, Updates
    <2> HIDE DEF row
    <2>3. StoreTyped'
      BY <2>1, <2>2, DispatchedStays
    <2>4. WorkersTyped' /\ LibraryTyped'
      BY <2>2, WorkersStay, LibraryStays
    <2> QED
      BY <2>2, <2>3, <2>4, Assemble
  <1>3. CASE DispatchRefused(c)
    <2>1. /\ Reply(c)
          /\ UNCHANGED <<job, owner, mem, cache, faults, workerVars, libraryVars, data, crashes>>
      BY <1>3 DEF DispatchRefused
    <2>2. StoreTyped'
      BY <2>1, ReplyType DEF OwnersKept, StoreTyped, StoreTypeOK, CacheRefs, WorkersTyped, LibraryTyped
    <2>3. WorkersTyped' /\ LibraryTyped'
      BY <2>1, WorkersStay, LibraryStays
    <2> QED
      BY <2>1, <2>2, <2>3, Assemble
  <1>4. CASE DispatchWait(c)
    <2> DEFINE row == Switched(mem[e], "WAIT_FOR_TAPE", "PENDING")
    <2>1. e \in Executors /\ owner[e] \in Jobs /\ row \in Row
      BY <1>0, <1>4, SwitchedType DEF DispatchWait, Steps, Statuses
    <2>2. /\ Updates(e, row) /\ Reply(c)
          /\ UNCHANGED <<owner, cache, workerVars, libraryVars, data, crashes>>
      BY <1>4 DEF DispatchWait, WaitForTape
    <2> HIDE DEF row
    <2>3. StoreTyped'
      BY <2>1, <2>2, DispatchedStays
    <2>4. WorkersTyped' /\ LibraryTyped'
      BY <2>2, WorkersStay, LibraryStays
    <2> QED
      BY <2>2, <2>3, <2>4, Assemble
  <1>5. CASE DispatchFinish(c)
    <2> DEFINE row == Switched(mem[e], "FINISHED", "COMPLETED")
    <2>1. e \in Executors /\ owner[e] \in Jobs /\ row \in Row
      BY <1>0, <1>5, SwitchedType DEF DispatchFinish, Steps, Statuses
    <2>2. /\ Updates(e, row) /\ Reply(c)
          /\ UNCHANGED cache \/ Uncache(owner[e])
          /\ UNCHANGED <<owner, workerVars, libraryVars, data, crashes>>
      BY <1>5 DEF DispatchFinish, Finished, Updates
    <2> HIDE DEF row
    <2>3. StoreTyped'
      BY <2>1, <2>2, DispatchedStays
    <2>4. WorkersTyped' /\ LibraryTyped'
      BY <2>2, WorkersStay, LibraryStays
    <2> QED
      BY <2>2, <2>3, <2>4, Assemble
  <1> QED
    BY <1>1, <1>2, <1>3, <1>4, <1>5 DEF Dispatch

(* A worker that only saves a new row of its executor and moves on. *)
LEMMA CopyEventTyped ==
    ASSUME Typed, NEW w \in Workers, NEW i \in Items, NEW phase \in CopyPhases,
           NEW status \in CopyStatuses, CopyEvent(w, i, phase, status),
           readonly' \in [Workers -> BOOLEAN]
    PROVE  Typed'
  <1> DEFINE e == Exe(w)
             row == [mem[e] EXCEPT !.items[i] = status]
  <1>1. pc[w] # "off"
    BY DEF CopyEvent
  <1>2. e \in Executors /\ row \in Row
    BY <1>1, TaskType, ItemType
  <1>3. /\ Updates(e, row)
        /\ copy' = [copy EXCEPT ![w][i] = phase]
        /\ UNCHANGED <<owner, cache, client, available, pc, task, failed, libraryVars, data, crashes>>
    BY DEF CopyEvent
  <1> HIDE DEF row, e
  <1>4. StoreTyped'
    BY <1>2, <1>3, UpdatesStays
  <1>5. WorkersTyped'
    <2>1. copy' \in [Workers -> [Items -> CopyPhases]]
      BY <1>3 DEF StoreTyped, WorkersTyped, LibraryTyped
    <2> QED
      BY <1>3, <2>1 DEF WorkersTyped, WorkerRefs, StoreTyped, LibraryTyped
  <1>6. LibraryTyped'
    BY <1>3, LibraryStays
  <1> QED
    BY <1>3, <1>4, <1>5, <1>6, Assemble

LEMMA MakeTapeTyped ==
    ASSUME Typed, NEW w \in Workers, MakeTape(w)
    PROVE  Typed'
  <1> DEFINE e == Exe(w)
             t == task[w].tape
  <1>1. CASE Occupy(w)
    <2>1. /\ pc[w] # "off"
          /\ available' \subseteq Devices
          /\ (Goes(w, "prepare") /\ UNCHANGED failed) \/ GoesWrong(w, "fail")
          /\ UNCHANGED <<storeVars, task, copy, readonly, libraryVars, data, crashes>>
      BY <1>1 DEF Occupy, TakesDevice, StoreTyped, WorkersTyped, LibraryTyped
    <2>2. WorkersTyped'
      <3>1. {"prepare", "fail"} \subseteq WorkerPCs
        BY DEF WorkerPCs
      <3>2. /\ pc' \in [Workers -> WorkerPCs]
            /\ failed' \in [Workers -> BOOLEAN]
            /\ WorkerRefs'
        BY <2>1, <3>1, WorkerMoves, WorkerErrs DEF storeVars, StoreTyped, WorkersTyped, LibraryTyped
      <3> QED
        BY <2>1, <3>2 DEF WorkersTyped, StoreTyped, LibraryTyped
    <2> QED
      BY <2>1, <2>2, StoreStays, LibraryStays, Assemble
  <1>2. CASE Prepare(w)
    <2>1. /\ pc[w] # "off"
          /\ (Goes(w, "copy") /\ UNCHANGED failed) \/ GoesWrong(w, "todo")
          /\ UNCHANGED <<storeVars, available, task, readonly, libraryVars, crashes>>
      BY <1>2 DEF Prepare
    <2>2. copy' \in [Workers -> [Items -> CopyPhases]]
      <3>1. [i \in Items |-> IF i \in Todo(mem[e]) THEN "queued" ELSE "out"] \in [Items -> CopyPhases]
        BY DEF CopyPhases
      <3> QED
        BY <1>2, <3>1 DEF Prepare, StoreTyped, WorkersTyped, LibraryTyped
    <2>3. WorkersTyped'
      <3>1. {"copy", "todo"} \subseteq WorkerPCs
        BY DEF WorkerPCs
      <3>2. /\ pc' \in [Workers -> WorkerPCs]
            /\ failed' \in [Workers -> BOOLEAN]
            /\ WorkerRefs'
        BY <2>1, <3>1, WorkerMoves, WorkerErrs DEF storeVars, StoreTyped, WorkersTyped, LibraryTyped
      <3> QED
        BY <2>1, <2>2, <3>2 DEF WorkersTyped, StoreTyped, LibraryTyped
    <2>4. LibraryTyped'
      BY <1>2 DEF Prepare, LibraryTyped, libraryVars, StoreTyped, WorkersTyped
    <2> QED
      BY <2>1, <2>3, <2>4, StoreStays, Assemble
  <1>3. ASSUME NEW i \in Items, CopyStarts(w, i) \/ CopyEnds(w, i) \/ CopySkips(w, i)
        PROVE  Typed'
    <2>1. /\ {"pending", "running", "good", "unhashed", "bad"} \subseteq CopyPhases
          /\ {"PENDING", "RUNNING", "STAGED", "FAILED"} \subseteq CopyStatuses
      BY DEF CopyPhases, CopyStatuses
    <2>2. readonly' \in [Workers -> BOOLEAN]
      BY <1>3 DEF CopyStarts, CopyEnds, CopySkips, StoreTyped, WorkersTyped, LibraryTyped
    <2>3. CASE CopyStarts(w, i)
      BY <2>1, <2>2, <2>3, CopyEventTyped DEF CopyStarts
    <2>4. CASE CopyEnds(w, i)
      BY <2>1, <2>2, <2>4, CopyEventTyped DEF CopyEnds
    <2>5. CASE CopySkips(w, i)
      <3>1. copy' \in [Workers -> [Items -> CopyPhases]]
        BY <2>1, <2>5 DEF CopySkips, StoreTyped, WorkersTyped, LibraryTyped
      <3>2. UNCHANGED <<storeVars, available, pc, task, readonly, failed, libraryVars, data, crashes>>
        BY <2>5 DEF CopySkips
      <3>3. WorkersTyped'
        BY <3>1, <3>2 DEF WorkersTyped, WorkerRefs, storeVars, StoreTyped, LibraryTyped
      <3> QED
        BY <3>2, <3>3, StoreStays, LibraryStays, Assemble
    <2> QED
      BY <1>3, <2>3, <2>4, <2>5
  <1>4. CASE CopyDone(w)
    <2>1. /\ pc[w] # "off"
          /\ (Goes(w, "report") /\ UNCHANGED failed) \/ GoesWrong(w, "report")
          /\ UNCHANGED <<storeVars, available, task, readonly, libraryVars, data, crashes>>
      BY <1>4 DEF CopyDone
    <2>2. copy' \in [Workers -> [Items -> CopyPhases]]
      <3>1. NoCopy \in [Items -> CopyPhases]
        BY DEF NoCopy, CopyPhases
      <3> QED
        BY <1>4, <3>1 DEF CopyDone, StoreTyped, WorkersTyped, LibraryTyped
    <2>3. WorkersTyped'
      <3>1. "report" \in WorkerPCs
        BY DEF WorkerPCs
      <3>2. /\ pc' \in [Workers -> WorkerPCs]
            /\ failed' \in [Workers -> BOOLEAN]
            /\ WorkerRefs'
        BY <2>1, <3>1, WorkerMoves, WorkerErrs DEF storeVars, StoreTyped, WorkersTyped, LibraryTyped
      <3> QED
        BY <2>1, <2>2, <3>2 DEF WorkersTyped, StoreTyped, LibraryTyped
    <2> QED
      BY <2>1, <2>3, StoreStays, LibraryStays, Assemble
  <1>5. CASE RollbackSources(w)
    <2> DEFINE row == [mem[e] EXCEPT !.items = [i \in Items |->
                            IF i \in Submited(mem[e]) THEN "SUBMITED" ELSE "PENDING"]]
    <2>1. pc[w] # "off" /\ Goes(w, "umount") /\ Updates(e, row)
      BY <1>5 DEF RollbackSources
    <2>2. /\ UNCHANGED <<owner, cache, client>>
          /\ UNCHANGED <<available, task, copy, readonly, failed, libraryVars, data, crashes>>
      BY <1>5 DEF RollbackSources
    <2>3. e \in Executors /\ row \in Row
      BY <2>1, TaskType DEF Row, CopyStatuses
    <2> HIDE DEF row, e
    <2>4. StoreTyped'
      BY <2>1, <2>2, <2>3, UpdatesStays
    <2>5. WorkersTyped'
      <3>1. "umount" \in WorkerPCs
        BY DEF WorkerPCs
      <3> QED
        BY <2>1, <2>2, <3>1, WorkerMoves DEF WorkersTyped, StoreTyped, LibraryTyped
    <2> QED
      BY <2>2, <2>4, <2>5, LibraryStays, Assemble
  <1>6. CASE CreateTape(w)
    <2>1. pc[w] # "off" /\ UNCHANGED <<job, owner, mem, cache, client, available, task, copy, readonly, data, crashes>>
      BY <1>6 DEF CreateTape
    <2>2. /\ (Goes(w, "mark") /\ UNCHANGED failed) \/ GoesWrong(w, "umount")
          /\ faults' \in 0..MaxFaults
      BY <1>6 DEF CreateTape, TapeRefused, Fault, StoreTyped, WorkersTyped, LibraryTyped,
             StoreTypeOK
    <2>3. StoreTyped'
      BY <2>1, <2>2 DEF StoreTyped, StoreTypeOK, CacheRefs, ClientRefs, WorkersTyped, LibraryTyped
    <2>4. WorkersTyped'
      <3>1. {"mark", "umount"} \subseteq WorkerPCs
        BY DEF WorkerPCs
      <3>2. /\ pc' \in [Workers -> WorkerPCs]
            /\ failed' \in [Workers -> BOOLEAN]
            /\ WorkerRefs'
        BY <2>1, <2>2, <3>1, WorkerMoves, WorkerErrs DEF StoreTyped, WorkersTyped, LibraryTyped
      <3> QED
        BY <2>1, <3>2 DEF WorkersTyped, StoreTyped, LibraryTyped
    <2>5. LibraryTyped'
      <3>1. t \in Tapes /\ Reported(w) \in SUBSET (Jobs \X Items)
        BY <2>1, TaskType DEF Reported
      <3>2. tapes' \in {tapes, tapes \cup {t}} /\ position' \in {position, [position EXCEPT ![t] = Reported(w)]}
        BY <1>6 DEF CreateTape, libraryVars
      <3> QED
        BY <2>1, <3>1, <3>2 DEF LibraryTyped, StoreTyped, WorkersTyped
    <2> QED
      BY <2>1, <2>3, <2>4, <2>5, Assemble
  <1>7. CASE MarkSourcesAsSubmited(w)
    <2> DEFINE row == [mem[e] EXCEPT !.items = [i \in Items |->
                            IF i \in Marked(w) THEN "SUBMITED" ELSE mem[e].items[i]]]
    <2>1. /\ pc[w] # "off"
          /\ Updates(e, row)
          /\ (Goes(w, "umount") /\ UNCHANGED failed) \/ GoesWrong(w, "umount")
      BY <1>7 DEF MarkSourcesAsSubmited, Updates
    <2>2. /\ UNCHANGED <<owner, cache, client>>
          /\ UNCHANGED <<available, task, copy, readonly, libraryVars, data, crashes>>
      BY <1>7 DEF MarkSourcesAsSubmited
    <2>3. e \in Executors /\ row \in Row
      BY <2>1, TaskType DEF Row, CopyStatuses
    <2> HIDE DEF row, e
    <2>4. StoreTyped'
      BY <2>1, <2>2, <2>3, UpdatesStays
    <2>5. WorkersTyped'
      <3>1. "umount" \in WorkerPCs
        BY DEF WorkerPCs
      <3> QED
        BY <2>1, <2>2, <3>1, WorkerMoves, WorkerErrs DEF WorkersTyped, StoreTyped, LibraryTyped
    <2> QED
      BY <2>2, <2>4, <2>5, LibraryStays, Assemble
  <1>8. CASE Umount(w)
    <2>1. /\ pc[w] # "off"
          /\ Goes(w, "todo")
          /\ UNCHANGED <<storeVars, available, task, copy, readonly, failed, libraryVars, crashes>>
      BY <1>8 DEF Umount
    <2>2. WorkersTyped'
      <3>1. "todo" \in WorkerPCs
        BY DEF WorkerPCs
      <3> QED
        BY <2>1, <3>1, WorkerMoves DEF WorkersTyped, StoreTyped, LibraryTyped, storeVars
    <2>3. LibraryTyped'
      <3>1. Files(w, {"good", "unhashed"}) \in SUBSET (Jobs \X Items)
        BY <2>1, TaskType
      <3> QED
        BY <1>8, <3>1 DEF Umount, LibraryTyped, libraryVars, StoreTyped, WorkersTyped
    <2> QED
      BY <2>1, <2>2, <2>3, StoreStays, Assemble
  <1>9. CASE CountTodo(w)
    <2>1. /\ pc[w] # "off"
          /\ Goes(w, "complete") \/ Goes(w, "wait")
          /\ UNCHANGED <<storeVars, available, task, copy, readonly, failed, libraryVars, data, crashes>>
      BY <1>9 DEF CountTodo
    <2>2. WorkersTyped'
      <3>1. {"complete", "wait"} \subseteq WorkerPCs
        BY DEF WorkerPCs
      <3> QED
        BY <2>1, <3>1, WorkerMoves DEF WorkersTyped, StoreTyped, LibraryTyped, storeVars
    <2> QED
      BY <2>1, <2>2, StoreStays, LibraryStays, Assemble
  <1>10. CASE FinishWait(w)
    <2> DEFINE row == Switched(mem[e], "WAIT_FOR_TAPE", "PENDING")
    <2>1. /\ pc[w] # "off"
          /\ Goes(w, "release")
          /\ UNCHANGED <<owner, client>>
          /\ UNCHANGED <<available, task, copy, readonly, failed, libraryVars, data, crashes>>
      BY <1>10 DEF FinishWait
    <2>2. UNCHANGED storeVars \/ (Updates(e, row) /\ UNCHANGED cache)
      BY <1>10 DEF FinishWait, WaitForTape, storeVars
    <2>3. e \in Executors /\ row \in Row
      BY <2>1, TaskType, SwitchedType DEF Steps, Statuses
    <2> HIDE DEF row, e
    <2>4. StoreTyped'
      BY <2>1, <2>2, <2>3, UpdatesStays, StoreStays
    <2>5. WorkersTyped'
      <3>1. "release" \in WorkerPCs
        BY DEF WorkerPCs
      <3> QED
        BY <2>1, <3>1, WorkerMoves DEF WorkersTyped, StoreTyped, LibraryTyped
    <2> QED
      BY <2>1, <2>4, <2>5, LibraryStays, Assemble
  <1>11. CASE FinishComplete(w)
    <2> DEFINE row == Switched(mem[e], "FINISHED", "COMPLETED")
    <2>1. /\ pc[w] # "off"
          /\ Goes(w, "release")
          /\ UNCHANGED <<owner, client>>
          /\ UNCHANGED <<available, task, copy, readonly, failed, libraryVars, data, crashes>>
      BY <1>11 DEF FinishComplete
    <2>2. \/ UNCHANGED storeVars
          \/ Updates(e, row) /\ (UNCHANGED cache \/ Uncache(owner[e]))
      BY <1>11 DEF FinishComplete, Finished, Updates, storeVars
    <2>3. e \in Executors /\ owner[e] \in Jobs /\ row \in Row
      BY <2>1, TaskType, SwitchedType DEF Steps, Statuses
    <2> HIDE DEF row, e
    <2>4. StoreTyped'
      <3>1. CASE UNCHANGED storeVars
        BY <3>1, StoreStays
      <3>2. CASE Updates(e, row) /\ (UNCHANGED cache \/ Uncache(owner[e]))
        <4>1. cache' \in [Jobs -> Executors \cup {None, Broken}] /\ CacheRefs'
          BY <2>1, <2>3, <3>2, UncacheType DEF StoreTyped, CacheRefs, WorkersTyped, LibraryTyped, StoreTypeOK
        <4> QED
          BY <2>1, <2>3, <3>2, <4>1, UpdatesType
             DEF StoreTyped, StoreTypeOK, ClientRefs, WorkersTyped, LibraryTyped
      <3> QED
        BY <2>2, <3>1, <3>2
    <2>5. WorkersTyped'
      <3>1. "release" \in WorkerPCs
        BY DEF WorkerPCs
      <3> QED
        BY <2>1, <3>1, WorkerMoves DEF WorkersTyped, StoreTyped, LibraryTyped
    <2> QED
      BY <2>1, <2>4, <2>5, LibraryStays, Assemble
  <1>12. CASE Release(w)
    <2>1. /\ pc[w] # "off"
          /\ available' = available \cup {task[w].dev}
          /\ UNCHANGED <<storeVars, libraryVars, data, crashes>>
          /\ Off(w) \/ (Goes(w, "fail") /\ UNCHANGED <<task, copy, readonly, failed>>)
      <3>1. pc[w] = "release" /\ ReturnsDevice(task[w].dev)
        BY <1>12 DEF Release
      <3>2. Off(w) \/ (Goes(w, "fail") /\ UNCHANGED <<task, copy, readonly, failed>>)
        BY <1>12, Zenon DEF Release
      <3>3. UNCHANGED <<storeVars, libraryVars, data, crashes>>
        BY <1>12, Zenon DEF Release
      <3> QED
        BY <3>1, <3>2, <3>3 DEF ReturnsDevice
    <2>2. available' \subseteq Devices
      BY <2>1, TaskType DEF StoreTyped, WorkersTyped, LibraryTyped
    <2>3. CASE Off(w)
      BY <2>1, <2>2, <2>3, OffType, StoreStays, LibraryStays, Assemble
         DEF WorkersTyped, storeVars
    <2>4. CASE Goes(w, "fail") /\ UNCHANGED <<task, copy, readonly, failed>>
      <3>1. "fail" \in WorkerPCs
        BY DEF WorkerPCs
      <3>2. WorkersTyped'
        BY <2>1, <2>2, <2>4, <3>1, WorkerMoves DEF WorkersTyped, StoreTyped, LibraryTyped, storeVars
      <3> QED
        BY <2>1, <3>2, StoreStays, LibraryStays, Assemble
    <2> QED
      BY <2>1, <2>3, <2>4
  <1>13. CASE MarkFailed(w)
    <2> DEFINE row == [mem[e] EXCEPT !.status = "FAILED"]
    <2>1. /\ pc[w] # "off"
          /\ Updates(e, row)
          /\ Off(w)
          /\ UNCHANGED <<owner, cache, client>>
          /\ UNCHANGED <<available, libraryVars, data, crashes>>
      BY <1>13 DEF MarkFailed
    <2>2. e \in Executors /\ row \in Row
      BY <2>1, TaskType DEF Row, Statuses
    <2> HIDE DEF row, e
    <2>3. StoreTyped'
      BY <2>1, <2>2, UpdatesStays
    <2>4. WorkersTyped'
      BY <2>1, OffType DEF WorkersTyped, StoreTyped, LibraryTyped
    <2> QED
      BY <2>1, <2>3, <2>4, LibraryStays, Assemble
  <1> QED
    BY <1>1, <1>2, <1>3, <1>4, <1>5, <1>6, <1>7, <1>8, <1>9, <1>10, <1>11, <1>12, <1>13
       DEF MakeTape

-----------------------------------------------------------------------------
LEMMA CrashTyped ==
    ASSUME Typed, Crash
    PROVE  Typed'
  <1>1. StoreTyped'
    BY RestartedType DEF Crash, Restarted
  <1>2. WorkersTyped'
    BY DEF Crash, WorkersTyped, WorkerRefs, WorkerPCs, NoTask, Task, NoCopy, CopyPhases
  <1>3. LibraryTyped' /\ crashes' \in 0..MaxCrashes
    BY DEF Crash, LibraryTyped, libraryVars
  <1> QED
    BY <1>1, <1>2, <1>3

LEMMA InitTyped ==
    ASSUME Init
    PROVE  Typed
  <1>1. StoreTyped
    BY StoreInitType DEF Init
  <1>2. WorkersTyped
    BY DEF Init, WorkersTyped, WorkerRefs, WorkerPCs, NoTask, Task, NoCopy, CopyPhases
  <1>3. LibraryTyped /\ crashes \in 0..MaxCrashes
    BY DEF Init, LibraryTyped
  <1> QED
    BY <1>1, <1>2, <1>3

LEMMA NextTyped ==
    ASSUME Typed, [Next]_vars
    PROVE  Typed'
  <1>1. CASE UNCHANGED vars
    BY <1>1, StoreStays, WorkersStay, LibraryStays, Assemble DEF vars, storeVars
  <1>2. CASE Next
    BY <1>2, StoreNextTyped, DispatchTyped, MakeTapeTyped, CrashTyped DEF Next
  <1> QED
    BY <1>1, <1>2

LEMMA TypedInvariant == Spec => []Typed
  BY InitTyped, NextTyped, PTL DEF Spec

(* Type correctness: the state of the store, the requests, the workers and  *)
(* the library stays in its types whatever clients, workers, failing saves  *)
(* and restarts do.                                                         *)
THEOREM TypeCorrect == Spec => []TypeOK
  <1>1. Typed => TypeOK
    BY DEF StoreTyped, WorkersTyped, LibraryTyped, TypeOK
  <1> QED
    BY <1>1, TypedInvariant, PTL

-----------------------------------------------------------------------------
(* Drives *)

(* A step that takes and returns no drive, and after which the same workers *)
(* hold the same ones.                                                      *)
LEMMA HoldersKept ==
    ASSUME DevicesAccounted, UNCHANGED available,
           \A v \in Workers :
                /\ pc'[v] \in Holding <=> pc[v] \in Holding
                /\ pc[v] \in Holding => task'[v] = task[v]
    PROVE  DevicesAccounted'
  <1>1. \A v \in Workers : pc'[v] \in Holding => pc[v] \in Holding /\ task'[v] = task[v]
    OBVIOUS
  <1>2. \A v \in Workers : pc'[v] \in Holding => task'[v].dev \in Devices \ available'
    BY <1>1 DEF DevicesAccounted
  <1>3. \A u, v \in Workers :
            pc'[u] \in Holding /\ pc'[v] \in Holding /\ task'[u].dev = task'[v].dev => u = v
    BY <1>1 DEF DevicesAccounted
  <1>4. ASSUME NEW d \in Devices \ available'
        PROVE  \E v \in Workers : pc'[v] \in Holding /\ task'[v].dev = d
    <2>1. PICK v \in Workers : pc[v] \in Holding /\ task[v].dev = d
      BY DEF DevicesAccounted
    <2> QED
      BY <2>1
  <1> QED
    BY <1>2, <1>3, <1>4 DEF DevicesAccounted

LEMMA StepDevices ==
    ASSUME Typed, DevicesAccounted, NEW w \in Workers, MakeTape(w)
    PROVE  DevicesAccounted'
  <1> USE DEF Goes, GoesWrong, Off
  <1>1. CASE Occupy(w)
    <2>1. CASE task[w].dev \in available
      <3>1. /\ available' = available \ {task[w].dev}
            /\ pc' = [pc EXCEPT ![w] = "prepare"]
            /\ UNCHANGED task
            /\ pc[w] = "occupy"
        BY <1>1, <2>1 DEF Occupy, TakesDevice
      <3>2. pc'[w] \in Holding /\ pc[w] \notin Holding /\ task[w].dev \in Devices
        BY <3>1, TaskType DEF Holding, WorkerPCs, StoreTyped, WorkersTyped, LibraryTyped
      <3>3. \A v \in Workers : v # w => (pc'[v] \in Holding <=> pc[v] \in Holding)
        BY <3>1 DEF StoreTyped, WorkersTyped, LibraryTyped
      <3> QED
        BY <2>1, <3>1, <3>2, <3>3 DEF DevicesAccounted
    <2>2. CASE task[w].dev \notin available
      <3>1. \A v \in Workers : pc'[v] \in Holding <=> pc[v] \in Holding
        BY <1>1, <2>2 DEF Occupy, Holding, StoreTyped, WorkersTyped, LibraryTyped
      <3> QED
        BY <1>1, <2>2, <3>1, HoldersKept DEF Occupy
    <2> QED
      BY <2>1, <2>2
  <1>2. CASE Release(w)
    <2>1. /\ pc[w] = "release"
          /\ available' = available \cup {task[w].dev}
          /\ \A v \in Workers : v # w => pc'[v] = pc[v] /\ task'[v] = task[v]
          /\ pc'[w] \in {"fail", "off"}
      BY <1>2 DEF Release, ReturnsDevice, StoreTyped, WorkersTyped, LibraryTyped
    <2>2. pc[w] \in Holding /\ pc'[w] \notin Holding
      BY <2>1 DEF Holding, WorkerPCs
    <2> QED
      BY <2>1, <2>2 DEF DevicesAccounted
  <1>3. CASE MarkFailed(w)
    <2>1. /\ \A v \in Workers : v # w => pc'[v] = pc[v] /\ task'[v] = task[v]
          /\ pc[w] = "fail"
          /\ pc'[w] = "off"
          /\ UNCHANGED available
      BY <1>3 DEF MarkFailed, StoreTyped, WorkersTyped, LibraryTyped
    <2> QED
      BY <2>1, HoldersKept DEF Holding
  <1>4. CASE ~ (Occupy(w) \/ Release(w) \/ MarkFailed(w))
    <2>1. /\ UNCHANGED <<available, task>>
          /\ \A v \in Workers : v # w => pc'[v] = pc[v]
      BY <1>4 DEF MakeTape, Prepare, CopyStarts, CopyEnds, CopySkips, CopyEvent, CopyDone,
             RollbackSources, CreateTape, TapeRefused, MarkSourcesAsSubmited,
             Umount, CountTodo, FinishWait, FinishComplete, StoreTyped,
             WorkersTyped, LibraryTyped
    <2>2. pc[w] \in Holding /\ pc'[w] \in Holding
      BY <1>4 DEF MakeTape, Prepare, CopyStarts, CopyEnds, CopySkips, CopyEvent, CopyDone,
             RollbackSources, CreateTape, TapeRefused, MarkSourcesAsSubmited,
             Umount, CountTodo, FinishWait, FinishComplete, Holding, WorkerPCs,
             StoreTyped, WorkersTyped, LibraryTyped
    <2> QED
      BY <2>1, <2>2, HoldersKept
  <1> QED
    BY <1>1, <1>2, <1>3, <1>4

(* A drive is either available or in the hands of exactly one worker, on    *)
(* every path through makeTape and after every restart.                     *)
THEOREM DrivesAreExclusive == Spec => []DevicesAccounted
  <1>1. Init => DevicesAccounted
    BY DEF Init, DevicesAccounted, Holding
  <1>2. ASSUME Typed, DevicesAccounted, [Next]_vars
        PROVE  DevicesAccounted'
    <2>1. CASE UNCHANGED vars
      BY <1>2, <2>1, HoldersKept DEF vars, workerVars
    <2>2. CASE StoreNext /\ UNCHANGED <<workerVars, libraryVars, data, crashes>>
      BY <1>2, <2>2, HoldersKept DEF workerVars
    <2>3. ASSUME NEW c \in Clients, Dispatch(c)
          PROVE  DevicesAccounted'
      <3>1. ASSUME NEW w \in Workers, NEW dev \in Devices, NEW tape \in Tapes,
                   DispatchCopying(c, w, dev, tape)
            PROVE  DevicesAccounted'
        <4>1. /\ pc[w] = "off"
              /\ pc' = [pc EXCEPT ![w] = "occupy"]
              /\ \A v \in Workers : v # w => task'[v] = task[v]
              /\ UNCHANGED available
          BY <1>2, <3>1 DEF DispatchCopying, Goes, StoreTyped, WorkersTyped, LibraryTyped
        <4> QED
          BY <1>2, <4>1, HoldersKept DEF Holding, StoreTyped, WorkersTyped, LibraryTyped
      <3>2. CASE DispatchCopyingUnsaved(c) \/ DispatchRefused(c) \/ DispatchWait(c) \/ DispatchFinish(c)
        BY <1>2, <3>2, HoldersKept
           DEF DispatchCopyingUnsaved, DispatchRefused, DispatchWait, DispatchFinish, workerVars
      <3> QED
        BY <2>3, <3>1, <3>2 DEF Dispatch
    <2>4. ASSUME NEW w \in Workers, MakeTape(w)
          PROVE  DevicesAccounted'
      BY <1>2, <2>4, StepDevices
    <2>5. CASE Crash
      BY <2>5 DEF Crash, DevicesAccounted, Holding
    <2> QED
      BY <1>2, <2>1, <2>2, <2>3, <2>4, <2>5 DEF Next
  <1> QED
    BY <1>1, <1>2, TypedInvariant, PTL DEF Spec

-----------------------------------------------------------------------------
(* The lock of an executor.  A worker between its dispatch and its          *)
(* makeTapeFinished finds its executor in step COPYING, and no dispatch     *)
(* starts from there; what it has counted as nothing left stays so.         *)
Locked ==
    /\ OneWorkerPerExecutor
    /\ \A w \in Workers : pc[w] \in Making => mem[Exe(w)].step = "COPYING"
    /\ \A w \in Workers : pc[w] = "complete" => NothingLeft(mem[Exe(w)])

LEMMA LockKept ==
    ASSUME Locked,
           \A v \in Workers : pc'[v] \in Making =>
                /\ pc[v] \in Making
                /\ task'[v] = task[v]
                /\ mem'[Exe(v)].step = mem[Exe(v)].step
                /\ pc'[v] = "complete" => pc[v] = "complete"
                /\ pc'[v] = "complete" => mem'[Exe(v)].items = mem[Exe(v)].items
    PROVE  Locked'
  <1>1. "complete" \in Making
    BY DEF Making, WorkerPCs
  <1>2. \A v \in Workers : pc'[v] \in Making => Exe(v)' = Exe(v)
    BY DEF Exe
  <1>3. OneWorkerPerExecutor'
    BY <1>2 DEF Locked, OneWorkerPerExecutor
  <1>4. \A v \in Workers : pc'[v] \in Making => mem'[Exe(v)'].step = "COPYING"
    BY <1>2 DEF Locked
  <1>5. ASSUME NEW v \in Workers, pc'[v] = "complete"
        PROVE  NothingLeft(mem[Exe(v)])'
    <2>1. NothingLeft(mem[Exe(v)]) /\ Exe(v)' = Exe(v) /\ mem'[Exe(v)].items = mem[Exe(v)].items
      BY <1>1, <1>2, <1>5 DEF Locked
    <2> QED
      BY <2>1 DEF NothingLeft, Todo, Submited
  <1> QED
    BY <1>3, <1>4, <1>5 DEF Locked

-----------------------------------------------------------------------------
(* Requests leave the executors of workers alone. *)
LEMMA StoreLocked ==
    ASSUME Typed, Locked, Fresh, StoreNext, UNCHANGED workerVars
    PROVE  Locked' /\ Fresh'
  <1>1. \A v \in Workers : pc[v] \in Making => mem'[Exe(v)] = mem[Exe(v)]
    <2>1. \A v \in Workers : pc[v] \in Making =>
            Exe(v) \in Executors /\ owner[Exe(v)] \in Jobs /\ mem[Exe(v)].step = "COPYING"
      BY TaskType DEF Locked, Making
    <2> QED
      BY <2>1, StoreFresh DEF BusyKept
  <1> QED
    BY <1>1, LockKept, StoreFresh DEF workerVars

-----------------------------------------------------------------------------
(* Dispatches lock, workers work under the lock and unlock last. *)

LEMMA DispatchLocked ==
    ASSUME PagesOnly, Typed, Locked, Fresh, NEW c \in Clients, Dispatch(c)
    PROVE  Locked' /\ Fresh'
  <1> DEFINE x == client[c].exe
  <1>1. client'[c].pc \notin Initialising /\ \A d \in Clients : d # c => client'[d] = client[d]
    <2>1. Reply(c)
      BY DEF Dispatch, DispatchCopying, DispatchCopyingUnsaved, DispatchRefused,
             DispatchWait, DispatchFinish
    <2> QED
      BY <2>1 DEF Reply, Become, Idle, Initialising, StoreTyped, WorkersTyped, StoreTypeOK
  <1>2. x \in Executors /\ owner[x] \in Jobs
    <2>1. client[c].pc = "dispatch"
      BY DEF Dispatch, DispatchCopying, DispatchCopyingUnsaved, DispatchRefused,
             DispatchWait, DispatchFinish, At
    <2> QED
      BY <2>1 DEF StoreTyped, ClientRefs
  <1>3. CASE UNCHANGED <<mem, workerVars>>
    BY <1>1, <1>3, LockKept, FreshKept DEF workerVars
  <1>4. ASSUME MayCopy(mem[x]), mem' = [mem EXCEPT ![x] = Switched(mem[x], "COPYING", "PROCESSING")]
        PROVE  /\ Fresh'
               /\ mem'[x].step = "COPYING"
               /\ \A e \in Executors : e # x => mem'[e] = mem[e]
               /\ \A v \in Workers : pc[v] \in Making => Exe(v) \in Executors /\ Exe(v) # x
    <2>1. /\ mem'[x].step = "COPYING"
          /\ \A e \in Executors : e # x => mem'[e] = mem[e]
      BY <1>2, <1>4 DEF Switched, Row, StoreTyped, WorkersTyped, StoreTypeOK
    <2>2. mem[x].step = "WAIT_FOR_TAPE"
      BY <1>4 DEF MayCopy
    <2>3. \A v \in Workers : pc[v] \in Making => Exe(v) \in Executors /\ Exe(v) # x
      BY <2>2, TaskType DEF Locked, Making
    <2> QED
      BY <1>1, <2>1, <2>2, <2>3, FreshKept
  <1>5. CASE DispatchCopyingUnsaved(c)
    <2>1. /\ MayCopy(mem[x])
          /\ mem' = [mem EXCEPT ![x] = Switched(mem[x], "COPYING", "PROCESSING")]
          /\ UNCHANGED workerVars
      BY <1>5 DEF DispatchCopyingUnsaved, FailsToSave
    <2> QED
      BY <1>4, <2>1, LockKept DEF workerVars
  <1>6. ASSUME NEW w \in Workers, NEW dev \in Devices, NEW tape \in Tapes,
               DispatchCopying(c, w, dev, tape)
        PROVE  Locked' /\ Fresh'
    <2>1. /\ MayCopy(mem[x])
          /\ mem' = [mem EXCEPT ![x] = Switched(mem[x], "COPYING", "PROCESSING")]
      BY <1>6 DEF DispatchCopying, Saves
    <2>2. /\ pc'[w] = "occupy"
          /\ Exe(w)' = x
          /\ \A v \in Workers : v # w => pc'[v] = pc[v] /\ Exe(v)' = Exe(v)
      BY <1>6 DEF DispatchCopying, Goes, Exe, StoreTyped, WorkersTyped
    <2>3. OneWorkerPerExecutor'
      BY <1>4, <2>1, <2>2 DEF Locked, OneWorkerPerExecutor
    <2>4. \A v \in Workers : pc'[v] \in Making => mem'[Exe(v)'].step = "COPYING"
      BY <1>4, <2>1, <2>2 DEF Locked
    <2>5. ASSUME NEW v \in Workers, pc'[v] = "complete"
          PROVE  NothingLeft(mem'[Exe(v)'])
      <3>1. v # w /\ pc[v] = "complete" /\ pc[v] \in Making /\ Exe(v)' = Exe(v)
        BY <2>2, <2>5 DEF Making, WorkerPCs
      <3> QED
        BY <1>4, <2>1, <3>1 DEF Locked
    <2>6. \A v \in Workers : pc'[v] = "complete" => NothingLeft(mem[Exe(v)])'
      BY <2>5 DEF NothingLeft, Todo, Submited
    <2> QED
      BY <1>4, <2>1, <2>3, <2>4, <2>6 DEF Locked
  <1>7. CASE DispatchRefused(c)
    BY <1>3, <1>7 DEF DispatchRefused
  <1>8. ~ DispatchWait(c) /\ ~ DispatchFinish(c)
    BY DEF PagesOnly, DispatchWait, DispatchFinish
  <1> QED
    BY <1>5, <1>6, <1>7, <1>8 DEF Dispatch

LEMMA MakeTapeLocked ==
    ASSUME Typed, Locked, Fresh, NEW w \in Workers, MakeTape(w)
    PROVE  Locked' /\ Fresh'
  <1> DEFINE x == Exe(w)
  <1>1. pc[w] # "off" /\ x \in Executors /\ mem[x] \in Row
    <2>1. pc[w] # "off"
      BY DEF MakeTape, Occupy, Prepare, CopyStarts, CopyEnds, CopySkips, CopyEvent, CopyDone,
             RollbackSources, CreateTape, MarkSourcesAsSubmited, Umount, CountTodo,
             FinishWait, FinishComplete, Release, MarkFailed
    <2> QED
      BY <2>1, TaskType
  <1>2. \A v \in Workers : pc[v] \in Making /\ pc[w] \in Making /\ v # w =>
            Exe(v) \in Executors /\ Exe(v) # x
    BY TaskType DEF Locked, OneWorkerPerExecutor, Making
  <1>3. UNCHANGED client /\ \A v \in Workers : v # w => pc'[v] = pc[v] /\ task'[v] = task[v]
    BY DEF MakeTape, Occupy, Prepare, CopyStarts, CopyEnds, CopySkips, CopyEvent,
             CopyDone, RollbackSources, CreateTape, TapeRefused,
             MarkSourcesAsSubmited, Umount, CountTodo, FinishWait,
             FinishComplete, Release, MarkFailed, Off, Goes, GoesWrong,
             storeVars, StoreTyped, WorkersTyped
  <1>4. ASSUME NEW row \in Row, mem' = [mem EXCEPT ![x] = row], row.step = mem[x].step
        PROVE  Fresh' /\ mem'[x] = row /\ \A e \in Executors : e # x => mem'[e] = mem[e]
    BY <1>1, <1>3, <1>4, FreshKept DEF StoreTyped, WorkersTyped, StoreTypeOK
  (* steps that leave the copy of the row alone *)
  <1>5. ASSUME UNCHANGED mem,
               pc'[w] \in Making => pc[w] \in Making /\ task'[w] = task[w],
               pc'[w] = "complete" => pc[w] = "complete"
        PROVE  Locked' /\ Fresh'
    BY <1>3, <1>5, LockKept, FreshKept
  (* steps that change its items, before the count *)
  <1>6. ASSUME NEW row \in Row, mem' = [mem EXCEPT ![x] = row], row.step = mem[x].step,
               pc[w] \in Making, UNCHANGED task, pc'[w] # "complete"
        PROVE  Locked' /\ Fresh'
    <2>1. /\ Fresh' /\ mem'[x] = row /\ \A e \in Executors : e # x => mem'[e] = mem[e]
      BY <1>4, <1>6
    <2>2. ASSUME NEW v \in Workers, pc'[v] \in Making
          PROVE  /\ pc[v] \in Making
                 /\ task'[v] = task[v]
                 /\ mem'[Exe(v)].step = mem[Exe(v)].step
                 /\ pc'[v] = "complete" => pc[v] = "complete"
                 /\ pc'[v] = "complete" => mem'[Exe(v)].items = mem[Exe(v)].items
      <3>1. CASE v = w
        BY <1>6, <2>1, <3>1
      <3>2. CASE v # w
        BY <1>2, <1>3, <1>6, <2>1, <2>2, <3>2
      <3> QED
        BY <3>1, <3>2
    <2>3. Locked'
      BY <2>2, LockKept
    <2> QED
      BY <2>1, <2>3
  <1>7. CASE Occupy(w)
    <2>1. /\ UNCHANGED <<mem, task>>
          /\ pc[w] = "occupy"
          /\ pc'[w] \in {"prepare", "fail"}
      BY <1>7 DEF Occupy, Goes, GoesWrong, storeVars, StoreTyped, WorkersTyped
    <2> QED
      BY <1>5, <2>1 DEF Making, WorkerPCs
  <1>8. CASE Prepare(w)
    <2>1. /\ UNCHANGED <<mem, task>>
          /\ pc[w] = "prepare"
          /\ pc'[w] \in {"copy", "todo"}
      BY <1>8 DEF Prepare, Goes, GoesWrong, storeVars, StoreTyped, WorkersTyped
    <2> QED
      BY <1>5, <2>1 DEF Making, WorkerPCs
  <1>9. ASSUME NEW i \in Items, CopyStarts(w, i) \/ CopyEnds(w, i)
        PROVE  Locked' /\ Fresh'
    <2>1. PICK phase \in CopyPhases, status \in CopyStatuses : CopyEvent(w, i, phase, status)
      BY <1>9 DEF CopyStarts, CopyEnds, CopyPhases, CopyStatuses
    <2> DEFINE row == [mem[x] EXCEPT !.items[i] = status]
    <2>2. row \in Row /\ row.step = mem[x].step
      BY <1>1, ItemType DEF Row
    <2>3. /\ mem' = [mem EXCEPT ![x] = row]
          /\ pc[w] = "copy"
          /\ UNCHANGED <<pc, task>>
      BY <2>1 DEF CopyEvent, Updates, Saves, FailsToSave
    <2> HIDE DEF row, x
    <2> QED
      BY <1>6, <2>2, <2>3 DEF Making, WorkerPCs
  <1>9a. ASSUME NEW i \in Items, CopySkips(w, i)
         PROVE  Locked' /\ Fresh'
    <2>1. UNCHANGED <<mem, pc, task>>
      BY <1>9a DEF CopySkips, storeVars
    <2> QED
      BY <1>5, <2>1
  <1>10. CASE CopyDone(w)
    <2>1. /\ UNCHANGED <<mem, task>>
          /\ pc[w] = "copy"
          /\ pc'[w] = "report"
      BY <1>10 DEF CopyDone, Goes, GoesWrong, storeVars, StoreTyped, WorkersTyped
    <2> QED
      BY <1>5, <2>1 DEF Making, WorkerPCs
  <1>11. CASE RollbackSources(w)
    <2> DEFINE row == [mem[x] EXCEPT !.items = [i \in Items |->
                            IF i \in Submited(mem[x]) THEN "SUBMITED" ELSE "PENDING"]]
    <2>1. row \in Row /\ row.step = mem[x].step
      BY <1>1 DEF Row, CopyStatuses
    <2>2. /\ mem' = [mem EXCEPT ![x] = row]
          /\ pc[w] = "report"
          /\ pc'[w] = "umount"
          /\ UNCHANGED task
      BY <1>11 DEF RollbackSources, Updates, Saves, FailsToSave, Goes, StoreTyped, WorkersTyped
    <2> HIDE DEF row, x
    <2> QED
      BY <1>6, <2>1, <2>2 DEF Making, WorkerPCs
  <1>12. CASE CreateTape(w)
    <2>1. /\ UNCHANGED <<mem, task>>
          /\ pc[w] = "report"
          /\ pc'[w] \in {"mark", "umount"}
      BY <1>12 DEF CreateTape, TapeRefused, Goes, GoesWrong, StoreTyped, WorkersTyped
    <2> QED
      BY <1>5, <2>1 DEF Making, WorkerPCs
  <1>13. CASE MarkSourcesAsSubmited(w)
    <2> DEFINE row == [mem[x] EXCEPT !.items = [i \in Items |->
                            IF i \in Marked(w) THEN "SUBMITED" ELSE mem[x].items[i]]]
    <2>1. row \in Row /\ row.step = mem[x].step
      BY <1>1 DEF Row, CopyStatuses
    <2>2. /\ mem' = [mem EXCEPT ![x] = row]
          /\ pc[w] = "mark"
          /\ pc'[w] = "umount"
          /\ UNCHANGED task
      BY <1>13 DEF MarkSourcesAsSubmited, Saves, FailsToSave, Goes, GoesWrong, StoreTyped,
             WorkersTyped
    <2> HIDE DEF row, x
    <2> QED
      BY <1>6, <2>1, <2>2 DEF Making, WorkerPCs
  <1>14. CASE Umount(w)
    <2>1. /\ UNCHANGED <<mem, task>>
          /\ pc[w] = "umount"
          /\ pc'[w] = "todo"
      BY <1>14 DEF Umount, Goes, storeVars, StoreTyped, WorkersTyped
    <2> QED
      BY <1>5, <2>1 DEF Making, WorkerPCs
  <1>15. CASE CountTodo(w)
    <2>1. /\ UNCHANGED <<mem, task, client>>
          /\ pc[w] = "todo"
          /\ pc'[w] = IF NothingLeft(mem[x]) THEN "complete" ELSE "wait"
      BY <1>15 DEF CountTodo, Goes, storeVars, StoreTyped, WorkersTyped
    <2>2. \A v \in Workers : Exe(v)' = Exe(v) /\ (pc'[v] \in Making => pc[v] \in Making)
      BY <1>3, <2>1 DEF Exe, Making, WorkerPCs
    <2>3. OneWorkerPerExecutor' /\ \A v \in Workers : pc'[v] \in Making => mem'[Exe(v)'].step = "COPYING"
      BY <2>1, <2>2 DEF Locked, OneWorkerPerExecutor
    <2>4. ASSUME NEW v \in Workers, pc'[v] = "complete"
          PROVE  NothingLeft(mem[Exe(v)])
      BY <1>3, <2>1, <2>4 DEF Locked
    <2>5. \A v \in Workers : pc'[v] = "complete" => NothingLeft(mem[Exe(v)])'
      BY <2>1, <2>2, <2>4 DEF NothingLeft, Todo, Submited
    <2> QED
      BY <2>1, <2>3, <2>5, FreshKept DEF Locked
  <1>16. CASE FinishWait(w) \/ FinishComplete(w)
    <2>1. /\ pc[w] \in Making
          /\ UNCHANGED task
          /\ pc'[w] = "release"
      BY <1>16 DEF FinishWait, FinishComplete, Goes, Making, WorkerPCs, StoreTyped,
             WorkersTyped
    <2>2. \A e \in Executors : e # x => mem'[e] = mem[e]
      BY <1>1, <1>16 DEF FinishWait, WaitForTape, FinishComplete, Finished, Updates, Saves,
             FailsToSave, StoreTyped, WorkersTyped, StoreTypeOK
    <2>3. Fresh'
      <3>1. mem[x].step = "COPYING"
        BY <2>1 DEF Locked
      <3> QED
        BY <1>3, <2>2, <3>1, FreshKept
    <2>4. Locked'
      <3>1. pc'[w] \notin Making
        BY <2>1 DEF Making
      <3> QED
        BY <1>2, <1>3, <2>1, <2>2, <3>1, LockKept
    <2> QED
      BY <2>3, <2>4
  <1>17. CASE Release(w)
    <2>1. UNCHANGED mem /\ pc'[w] \in {"fail", "off"}
      BY <1>17 DEF Release, Off, Goes, storeVars, StoreTyped, WorkersTyped
    <2> QED
      BY <1>5, <2>1 DEF Making
  (* the late mark of an attempt that has released the lock: only the status *)
  <1>18. CASE MarkFailed(w)
    <2> DEFINE row == [mem[x] EXCEPT !.status = "FAILED"]
    <2>1. row \in Row /\ row.step = mem[x].step /\ row.items = mem[x].items
      BY <1>1 DEF Row, Statuses
    <2>2. /\ mem' = [mem EXCEPT ![x] = row]
          /\ pc'[w] = "off"
      BY <1>18 DEF MarkFailed, Updates, Saves, FailsToSave, Off, Goes, StoreTyped, WorkersTyped
    <2> HIDE DEF row
    <2>3. Fresh' /\ mem'[x] = row /\ \A e \in Executors : e # x => mem'[e] = mem[e]
      BY <1>4, <2>1, <2>2
    <2>4. \A v \in Workers : pc'[v] \in Making => v # w /\ Exe(v) \in Executors
      BY <1>3, <2>2, TaskType DEF Making
    <2> QED
      BY <1>3, <2>1, <2>3, <2>4, LockKept
  <1> QED
    BY <1>7, <1>8, <1>9, <1>9a, <1>10, <1>11, <1>12, <1>13, <1>14, <1>15, <1>16, <1>17, <1>18
       DEF MakeTape

LEMMA LockInvariant ==
    ASSUME PagesOnly
    PROVE  Spec => [](Locked /\ Fresh)
  <1>1. Init => Locked /\ Fresh
    BY DEF Init, StoreInit, Idle, Locked, OneWorkerPerExecutor, Fresh, Initialising, At, Making
  <1>2. ASSUME Typed, Locked, Fresh, [Next]_vars
        PROVE  Locked' /\ Fresh'
    <2>1. CASE UNCHANGED vars
      <3>1. UNCHANGED <<mem, client, pc, task>>
        BY <2>1 DEF vars, storeVars, workerVars
      <3> QED
        BY <1>2, <3>1, LockKept, FreshKept
    <2>2. CASE StoreNext /\ UNCHANGED <<workerVars, libraryVars, data, crashes>>
      BY <1>2, <2>2, StoreLocked
    <2>3. CASE Crash
      BY <2>3 DEF Crash, Idle, Locked, OneWorkerPerExecutor, Fresh, Initialising, At, Making
    <2> QED
      BY <1>2, <2>1, <2>2, <2>3, DispatchLocked, MakeTapeLocked DEF Next
  <1> QED
    BY <1>1, <1>2, TypedInvariant, PTL DEF Spec

(* No two workers share an executor between dispatch and makeTapeFinished,  *)
(* whatever fails and however requests interleave: the check of switchStep  *)
(* under the executor's lock is enough.                                     *)
THEOREM ExecutorIsALock ==
    ASSUME PagesOnly
    PROVE  Spec => []OneWorkerPerExecutor
  BY LockInvariant, PTL DEF Locked

(* A worker that completes a job has found and keeps every source           *)
(* submitted: between getTodoSources and the dispatch of Finished nobody    *)
(* takes back what was counted.                                             *)
THEOREM CompletionIsSound ==
    ASSUME PagesOnly
    PROVE  Spec => CompletedIsArchived
  <1> DEFINE Sound == \A w \in Workers :
         pc[w] = "complete" /\ pc'[w] = "release" =>
            /\ mem'[Exe(w)].status = "COMPLETED"
            /\ Submited(mem'[Exe(w)]) = Items
  <1>1. ASSUME Typed, Locked, [Next]_vars
        PROVE  [Sound]_vars
    <2> SUFFICES ASSUME NEW w \in Workers, pc[w] = "complete", pc'[w] = "release"
                 PROVE  /\ mem'[Exe(w)].status = "COMPLETED"
                        /\ Submited(mem'[Exe(w)]) = Items
      OBVIOUS
    <2>1. FinishComplete(w)
      <3>1. Next
        BY <1>1 DEF vars, workerVars
      <3>2. ~ StoreNext \/ ~ UNCHANGED <<workerVars, libraryVars, data, crashes>>
        BY DEF workerVars
      <3>3. ~ Crash /\ \A c \in Clients : ~ Dispatch(c)
        BY <1>1 DEF Crash, Dispatch, DispatchCopying, DispatchCopyingUnsaved, DispatchRefused,
             DispatchWait, DispatchFinish, workerVars, Goes, StoreTyped,
             WorkersTyped
      <3>4. PICK v \in Workers : MakeTape(v)
        BY <3>1, <3>2, <3>3 DEF Next
      <3>5. v = w
        BY <1>1, <3>4 DEF MakeTape, Occupy, Prepare, CopyStarts, CopyEnds, CopySkips, CopyEvent,
             CopyDone, RollbackSources, CreateTape, TapeRefused,
             MarkSourcesAsSubmited, Umount, CountTodo, FinishWait,
             FinishComplete, Release, MarkFailed, Off, Goes, GoesWrong,
             StoreTyped, WorkersTyped
      <3> QED
        BY <3>4, <3>5 DEF MakeTape, Occupy, Prepare, CopyStarts, CopyEnds, CopySkips, CopyEvent, CopyDone,
           RollbackSources, CreateTape, MarkSourcesAsSubmited, Umount, CountTodo,
           FinishWait, Release, MarkFailed
    <2>2. /\ NothingLeft(mem[Exe(w)])
          /\ MayFinish(mem[Exe(w)])
          /\ Exe(w) \in Executors
          /\ mem[Exe(w)] \in Row
      BY <1>1, TaskType DEF Locked, MayFinish, Making, WorkerPCs
    <2>3. mem' = [mem EXCEPT ![Exe(w)] = Switched(mem[Exe(w)], "FINISHED", "COMPLETED")]
      BY <2>1, <2>2 DEF FinishComplete, Finished, Saves, FailsToSave
    <2>4. mem'[Exe(w)].status = "COMPLETED" /\ mem'[Exe(w)].items = mem[Exe(w)].items
      BY <1>1, <2>2, <2>3 DEF Switched, Row, StoreTyped, WorkersTyped, StoreTypeOK
    <2> QED
      BY <2>2, <2>4 DEF NothingLeft, Todo, Submited
  <1> QED
    BY <1>1, LockInvariant, TypedInvariant, PTL DEF Spec, CompletedIsArchived

-----------------------------------------------------------------------------
(* What workers and dispatches do to the rows                               *)

(* Every row a worker saves is a step on from the executor's copy: it takes *)
(* no source back, and changes the status only to report a failure.         *)
Extends(w, row) ==
    /\ row.step = mem[Exe(w)].step
    /\ Submited(mem[Exe(w)]) \subseteq Submited(row)
    /\ \/ pc[w] = "fail" /\ row.status = "FAILED" /\ row.items = mem[Exe(w)].items
       \/ pc[w] \in {"copy", "report", "mark"} /\ row.status = mem[Exe(w)].status

WorkerWrites(w) ==
    /\ pc[w] # "off"
    /\ UNCHANGED <<owner, client>>
    /\ pc'[w] # "off" => task'[w] = task[w]
    /\ \A v \in Workers : v # w => pc'[v] = pc[v] /\ task'[v] = task[v] /\ copy'[v] = copy[v]
    /\ \/ UNCHANGED <<job, mem, cache>>
       \/ pc[w] = "wait" /\ pc'[w] = "release" /\ WaitForTape(Exe(w))
       \/ pc[w] = "complete" /\ pc'[w] = "release" /\ Finished(Exe(w))
       \/ /\ \E row \in Row : Extends(w, row) /\ Updates(Exe(w), row)
          /\ UNCHANGED cache

(* What the copier still has to do is not submitted. *)
Unfinished == {"queued", "pending", "running"}
Copying ==
    \A w \in Workers : pc[w] = "copy" =>
        \A i \in Items : copy[w][i] \in Unfinished => mem[Exe(w)].items[i] # "SUBMITED"

LEMMA MakeTapeWrites ==
    ASSUME Typed, Copying, NEW w \in Workers, MakeTape(w)
    PROVE  WorkerWrites(w)
  <1> DEFINE e == Exe(w)
  <1>1. pc[w] # "off"
    BY DEF MakeTape, Occupy, Prepare, CopyStarts, CopyEnds, CopySkips, CopyEvent, CopyDone,
           RollbackSources, CreateTape, MarkSourcesAsSubmited, Umount, CountTodo,
           FinishWait, FinishComplete, Release, MarkFailed
  <1>2. e \in Executors /\ owner[e] \in Jobs /\ mem[e] \in Row
    BY <1>1, TaskType
  <1>3. CASE Occupy(w) \/ Prepare(w) \/ CopyDone(w) \/ CreateTape(w) \/ Umount(w) \/ CountTodo(w)
            \/ Release(w) \/ \E i \in Items : CopySkips(w, i)
    BY <1>1, <1>3 DEF Occupy, Prepare, CopyDone, CreateTape, TapeRefused, Umount, CountTodo, Release,
             CopySkips, Goes, GoesWrong, Off, storeVars, WorkerWrites, WorkersTyped
  <1>4. CASE FinishWait(w) \/ FinishComplete(w)
    BY <1>1, <1>4 DEF FinishWait, FinishComplete, Goes, WorkerWrites, WorkersTyped
  <1>5. ASSUME NEW row \in Row, Updates(e, row), Extends(w, row),
               Goes(w, "umount") \/ UNCHANGED pc, UNCHANGED <<owner, cache, client, task>>,
               \A v \in Workers : v # w => copy'[v] = copy[v]
        PROVE  WorkerWrites(w)
    BY <1>1, <1>5 DEF Goes, WorkerWrites, WorkersTyped
  <1>6. ASSUME NEW i \in Items, CopyStarts(w, i) \/ CopyEnds(w, i)
        PROVE  WorkerWrites(w)
    <2>1. PICK phase \in CopyPhases, status \in CopyStatuses \ {"SUBMITED"} : CopyEvent(w, i, phase, status)
      BY <1>6 DEF CopyStarts, CopyEnds, CopyPhases, CopyStatuses
    <2> DEFINE row == [mem[e] EXCEPT !.items[i] = status]
    <2>2. row \in Row /\ row.step = mem[e].step /\ row.status = mem[e].status
          /\ \A k \in Items : row.items[k] = IF k = i THEN status ELSE mem[e].items[k]
      BY <1>2 DEF Row
    <2>3. pc[w] = "copy" /\ mem[e].items[i] # "SUBMITED"
      BY <1>6, <2>1 DEF CopyStarts, CopyEnds, CopyEvent, Copying, Unfinished
    <2>4. Updates(e, row) /\ UNCHANGED <<owner, cache, client, pc, task>>
      BY <2>1 DEF CopyEvent
    <2>5. \A v \in Workers : v # w => copy'[v] = copy[v]
      BY <2>1 DEF CopyEvent, WorkersTyped
    <2> HIDE DEF row
    <2>6. Extends(w, row)
      BY <2>2, <2>3 DEF Extends, Submited
    <2> QED
      BY <1>5, <2>2, <2>4, <2>5, <2>6
  <1>7. CASE RollbackSources(w)
    <2> DEFINE row == [mem[e] EXCEPT !.items = [i \in Items |->
                            IF i \in Submited(mem[e]) THEN "SUBMITED" ELSE "PENDING"]]
    <2>1. row \in Row /\ row.step = mem[e].step /\ row.status = mem[e].status
          /\ Submited(mem[e]) \subseteq Submited(row)
      BY <1>2 DEF Row, CopyStatuses, Submited
    <2>2. pc[w] = "report" /\ Updates(e, row) /\ Goes(w, "umount")
          /\ UNCHANGED <<owner, cache, client, task, copy>>
      BY <1>7 DEF RollbackSources
    <2> HIDE DEF row
    <2> QED
      BY <1>5, <2>1, <2>2 DEF Extends
  <1>8. CASE MarkSourcesAsSubmited(w)
    <2> DEFINE row == [mem[e] EXCEPT !.items = [i \in Items |->
                            IF i \in Marked(w) THEN "SUBMITED" ELSE mem[e].items[i]]]
    <2>1. row \in Row /\ row.step = mem[e].step /\ row.status = mem[e].status
          /\ Submited(mem[e]) \subseteq Submited(row)
      BY <1>2 DEF Row, CopyStatuses, Submited
    <2>2. pc[w] = "mark" /\ Updates(e, row) /\ Goes(w, "umount")
          /\ UNCHANGED <<owner, cache, client, task, copy>>
      BY <1>8 DEF MarkSourcesAsSubmited, Updates, GoesWrong
    <2> HIDE DEF row
    <2> QED
      BY <1>5, <2>1, <2>2 DEF Extends
  <1>9. CASE MarkFailed(w)
    <2> DEFINE row == [mem[e] EXCEPT !.status = "FAILED"]
    <2>1. row \in Row /\ row.step = mem[e].step /\ row.items = mem[e].items /\ row.status = "FAILED"
      BY <1>2 DEF Row, Statuses
    <2>2. pc[w] = "fail" /\ Updates(e, row) /\ Off(w) /\ UNCHANGED <<owner, cache, client>>
      BY <1>9 DEF MarkFailed
    <2> HIDE DEF row
    <2>3. Extends(w, row)
      BY <2>1, <2>2 DEF Extends, Submited
    <2> QED
      BY <1>1, <2>1, <2>2, <2>3 DEF Off, Goes, WorkerWrites, WorkersTyped
  <1> QED
    BY <1>3, <1>4, <1>6, <1>7, <1>8, <1>9 DEF MakeTape

(* What a dispatch does, as the pages send it: nothing, or it locks the     *)
(* executor and, when that is saved, starts a worker.                       *)
DispatchWrites(c) ==
    LET e == client[c].exe
    IN  /\ e \in Executors
        /\ owner[e] \in Jobs
        /\ Reply(c)
        /\ UNCHANGED <<owner, cache, copy>>
        /\ \/ UNCHANGED <<job, mem, faults, pc, task>>
           \/ /\ MayCopy(mem[e])
              /\ \/ /\ FailsToSave(e, Switched(mem[e], "COPYING", "PROCESSING"))
                    /\ UNCHANGED <<pc, task>>
                 \/ /\ Saves(e, Switched(mem[e], "COPYING", "PROCESSING"))
                    /\ \E w \in Workers :
                        /\ pc[w] = "off"
                        /\ pc' = [pc EXCEPT ![w] = "occupy"]
                        /\ \A v \in Workers : v # w => task'[v] = task[v]

LEMMA DispatchIs ==
    ASSUME PagesOnly, Typed, NEW c \in Clients, Dispatch(c)
    PROVE  DispatchWrites(c)
  <1> DEFINE e == client[c].exe
  <1>0. At(c, "dispatch") => e \in Executors /\ owner[e] \in Jobs
    BY DEF At, StoreTyped, ClientRefs
  <1>1. ASSUME NEW w \in Workers, NEW dev \in Devices, NEW tape \in Tapes,
               DispatchCopying(c, w, dev, tape)
        PROVE  DispatchWrites(c)
    <2>1. \A v \in Workers : v # w => task'[v] = task[v]
      BY <1>1 DEF DispatchCopying, WorkersTyped
    <2> QED
      BY <1>0, <1>1, <2>1 DEF DispatchCopying, DispatchWrites, Goes
  <1>2. CASE DispatchCopyingUnsaved(c)
    BY <1>0, <1>2 DEF DispatchCopyingUnsaved, DispatchWrites, workerVars
  <1>3. CASE DispatchRefused(c)
    BY <1>0, <1>3 DEF DispatchRefused, DispatchWrites, workerVars
  <1>4. ~ DispatchWait(c) /\ ~ DispatchFinish(c)
    BY DEF PagesOnly, DispatchWait, DispatchFinish
  <1> QED
    BY <1>1, <1>2, <1>3, <1>4 DEF Dispatch

-----------------------------------------------------------------------------
(* Attempts of jobs that nobody edits                                       *)

Attempts == Reading /\ Cached /\ Copying /\ Full /\ RowsBehind

(* Under the lock, what a worker does to the rows moves one on. *)
LEMMA WorkerMovesRow ==
    ASSUME Typed, Locked, Copying, NEW w \in Workers, MakeTape(w)
    PROVE  /\ Exe(w) \in Executors /\ owner[Exe(w)] \in Jobs
           /\ Moves(Exe(w))
           /\ UNCHANGED client
  <1> DEFINE e == Exe(w)
             wait == Switched(mem[e], "WAIT_FOR_TAPE", "PENDING")
             finish == Switched(mem[e], "FINISHED", "COMPLETED")
  <1>1. WorkerWrites(w)
    BY MakeTapeWrites
  <1>2. e \in Executors /\ owner[e] \in Jobs /\ mem[e] \in Row /\ UNCHANGED <<owner, client>>
    BY <1>1, TaskType DEF WorkerWrites
  <1>3. CASE UNCHANGED <<job, mem, cache>>
    BY <1>2, <1>3 DEF Moves
  <1>4. CASE pc[w] = "wait" /\ WaitForTape(e)
    <2>1. mem[e].step = "COPYING"
      BY <1>4 DEF Locked, Making, WorkerPCs
    <2>2. wait \in Row /\ RowMoves(mem[e], wait) /\ Updates(e, wait) /\ UNCHANGED cache
      BY <1>2, <1>4, <2>1, SwitchedRow DEF RowMoves, WaitForTape, Steps, Statuses
    <2> HIDE DEF wait
    <2> QED
      BY <1>2, <2>2 DEF Moves
  <1>5. CASE pc[w] = "complete" /\ Finished(e)
    <2>1. mem[e].step = "COPYING" /\ Submited(mem[e]) = Items
      BY <1>5 DEF Locked, Making, WorkerPCs, NothingLeft, Todo, Submited
    <2>2. finish \in Row /\ RowMoves(mem[e], finish) /\ Updates(e, finish)
      BY <1>2, <1>5, <2>1, SwitchedRow DEF RowMoves, Finished, Updates, Steps, Statuses
    <2> HIDE DEF finish
    <2> QED
      BY <1>2, <1>5, <2>2 DEF Moves
  <1>6. ASSUME NEW row \in Row, Extends(w, row), Updates(e, row), UNCHANGED cache
        PROVE  Moves(e)
    <2>1. RowMoves(mem[e], row)
      <3>1. CASE pc[w] = "fail"
        BY <1>6, <3>1 DEF Extends, RowMoves, Submited
      <3>2. CASE pc[w] \in {"copy", "report", "mark"}
        <4>1. mem[e].step = "COPYING"
          BY <3>2 DEF Locked, Making, WorkerPCs
        <4> QED
          BY <1>6, <3>2, <4>1 DEF Extends, RowMoves
      <3> QED
        BY <1>6, <3>1, <3>2 DEF Extends
    <2> QED
      BY <1>2, <1>6, <2>1 DEF Moves
  <1> QED
    BY <1>1, <1>2, <1>3, <1>4, <1>5, <1>6 DEF WorkerWrites

LEMMA DispatchMovesRow ==
    ASSUME PagesOnly, Typed, NEW c \in Clients, Dispatch(c)
    PROVE  /\ client[c].exe \in Executors /\ owner[client[c].exe] \in Jobs
           /\ Moves(client[c].exe)
           /\ Reply(c)
  <1> DEFINE e == client[c].exe
             copying == Switched(mem[e], "COPYING", "PROCESSING")
  <1>1. DispatchWrites(c)
    BY DispatchIs
  <1>2. /\ e \in Executors /\ owner[e] \in Jobs /\ mem[e] \in Row
        /\ Reply(c) /\ UNCHANGED <<owner, cache>>
    BY <1>1 DEF DispatchWrites, StoreTyped, StoreTypeOK
  <1>3. CASE UNCHANGED <<job, mem>>
    BY <1>2, <1>3 DEF Moves
  <1>4. CASE MayCopy(mem[e]) /\ Updates(e, copying)
    <2>1. copying \in Row /\ RowMoves(mem[e], copying) /\ Updates(e, copying)
      BY <1>2, <1>4, SwitchedRow DEF MayCopy, RowMoves, Steps, Statuses
    <2> HIDE DEF copying
    <2> QED
      BY <1>2, <2>1 DEF Moves
  <1> QED
    BY <1>1, <1>2, <1>3, <1>4 DEF DispatchWrites, Updates

(* A worker's copier stays at what is not submitted, while nobody else      *)
(* changes the items of its executor's copy.                                *)
LEMMA CopyingKept ==
    ASSUME Copying,
           \A v \in Workers : pc'[v] = "copy" =>
                pc[v] = "copy" /\ task'[v] = task[v] /\ copy'[v] = copy[v]
                    /\ mem'[Exe(v)].items = mem[Exe(v)].items
    PROVE  Copying'
  BY DEF Copying, Exe

LEMMA MakeTapeCopying ==
    ASSUME Typed, Locked, Copying, NEW w \in Workers, MakeTape(w)
    PROVE  Copying'
  <1> DEFINE e == Exe(w)
  <1>1. WorkerWrites(w)
    BY MakeTapeWrites
  <1>2. e \in Executors /\ owner[e] \in Jobs /\ mem[e] \in Row /\ pc[w] # "off"
    BY <1>1, TaskType DEF WorkerWrites
  (* another worker that copies has another executor, or w is past its lock *)
  <1>3. ASSUME NEW v \in Workers, v # w, pc'[v] = "copy"
        PROVE  /\ pc[v] = "copy" /\ task'[v] = task[v] /\ copy'[v] = copy[v]
               /\ mem'[Exe(v)].items = mem[Exe(v)].items
    <2>1. pc[v] = "copy" /\ task'[v] = task[v] /\ copy'[v] = copy[v]
      BY <1>1, <1>3 DEF WorkerWrites
    <2>2. Exe(v) \in Executors
      BY <2>1, TaskType
    <2>3. pc[w] \in Making => Exe(v) # e
      BY <1>3, <2>1 DEF Locked, OneWorkerPerExecutor, Making, WorkerPCs
    <2>4. CASE UNCHANGED mem
      BY <2>1, <2>4
    <2>5. ASSUME Exe(v) # e, NEW row, Updates(e, row)
          PROVE  mem'[Exe(v)] = mem[Exe(v)]
      BY <2>2, <2>5 DEF Updates, Saves, FailsToSave, StoreTyped, StoreTypeOK
    <2>6. CASE (pc[w] = "wait" /\ WaitForTape(e)) \/ (pc[w] = "complete" /\ Finished(e))
      <3>1. Exe(v) # e
        BY <2>3, <2>6 DEF Making, WorkerPCs
      <3> QED
        BY <2>1, <2>5, <2>6, <3>1 DEF WaitForTape, Finished, Updates
    <2>7. ASSUME NEW row \in Row, Extends(w, row), Updates(e, row)
          PROVE  mem'[Exe(v)].items = mem[Exe(v)].items
      <3>1. CASE Exe(v) # e
        BY <2>5, <2>7, <3>1
      <3>2. CASE Exe(v) = e
        <4>1. pc[w] = "fail"
          BY <2>3, <2>7, <3>2 DEF Extends, Making, WorkerPCs
        <4>2. row.items = mem[e].items /\ mem'[e] = row
          BY <1>2, <2>7, <4>1, UpdatesEffect DEF Extends
        <4> QED
          BY <3>2, <4>2
      <3> QED
        BY <3>1, <3>2
    <2> QED
      BY <1>1, <2>1, <2>4, <2>6, <2>7 DEF WorkerWrites
  <1>4. ASSUME pc'[w] # "copy"
        PROVE  Copying'
    BY <1>3, <1>4, CopyingKept
  <1>5. CASE Prepare(w)
    <2>1. UNCHANGED <<mem, task>>
      BY <1>5 DEF Prepare, storeVars
    <2>2. pc'[w] = "copy" => \A i \in Items : copy'[w][i] = IF i \in Todo(mem[e]) THEN "queued" ELSE "out"
      BY <1>5 DEF Prepare, Goes, GoesWrong, WorkersTyped
    <2>3. \A i \in Items : i \in Todo(mem[e]) => mem[e].items[i] # "SUBMITED"
      BY DEF Todo, Submited
    <2>4. pc'[w] = "copy" => \A i \in Items : copy'[w][i] \in Unfinished => mem[e].items[i] # "SUBMITED"
      BY <2>2, <2>3 DEF Unfinished
    <2> QED
      BY <1>3, <2>1, <2>4 DEF Copying, Exe
  <1>6. ASSUME NEW i \in Items, CopyStarts(w, i) \/ CopyEnds(w, i)
        PROVE  Copying'
    <2>1. PICK phase \in CopyPhases, status \in CopyStatuses \ {"SUBMITED"} : CopyEvent(w, i, phase, status)
      BY <1>6 DEF CopyStarts, CopyEnds, CopyPhases, CopyStatuses
    <2>2. /\ pc[w] = "copy" /\ UNCHANGED <<pc, task>>
          /\ \A k \in Items : copy'[w][k] = IF k = i THEN phase ELSE copy[w][k]
          /\ \A k \in Items : mem'[e].items[k] = IF k = i THEN status ELSE mem[e].items[k]
      BY <1>2, <2>1 DEF CopyEvent, Updates, Saves, FailsToSave, WorkersTyped, StoreTyped, StoreTypeOK, Row
    <2>3. \A k \in Items : copy'[w][k] \in Unfinished => mem'[e].items[k] # "SUBMITED"
      BY <2>2 DEF Copying
    <2> QED
      BY <1>3, <2>2, <2>3 DEF Copying, Exe
  <1>7. ASSUME NEW i \in Items, CopySkips(w, i)
        PROVE  Copying'
    <2>1. /\ pc[w] = "copy" /\ UNCHANGED <<pc, task, mem>>
          /\ \A k \in Items : copy'[w][k] \in Unfinished => copy'[w][k] = copy[w][k]
      BY <1>7 DEF CopySkips, storeVars, WorkersTyped, Unfinished
    <2> QED
      BY <1>3, <2>1 DEF Copying, Exe
  <1>8. CASE ~ Prepare(w) /\ \A i \in Items : ~ (CopyStarts(w, i) \/ CopyEnds(w, i) \/ CopySkips(w, i))
    <2>1. pc'[w] # "copy"
      BY <1>8 DEF MakeTape, Occupy, CopyDone, RollbackSources, CreateTape, TapeRefused,
             MarkSourcesAsSubmited, Umount, CountTodo, FinishWait, FinishComplete, Release,
             MarkFailed, Off, Goes, GoesWrong, WorkersTyped
    <2> QED
      BY <1>4, <2>1
  <1> QED
    BY <1>5, <1>6, <1>7, <1>8

LEMMA DispatchKeepsCopying ==
    ASSUME PagesOnly, Typed, Locked, Copying, NEW c \in Clients, Dispatch(c)
    PROVE  Copying'
  <1> DEFINE e == client[c].exe
  <1>1. DispatchWrites(c)
    BY DispatchIs
  <1>2. ASSUME NEW v \in Workers, pc'[v] = "copy"
        PROVE  pc[v] = "copy" /\ task'[v] = task[v] /\ copy'[v] = copy[v]
    BY <1>1, <1>2 DEF DispatchWrites, WorkersTyped
  <1>3. ASSUME NEW v \in Workers, pc[v] = "copy"
        PROVE  mem'[Exe(v)] = mem[Exe(v)]
    <2>1. mem[Exe(v)].step = "COPYING" /\ Exe(v) \in Executors
      BY <1>3, TaskType DEF Locked, Making, WorkerPCs
    <2>2. MayCopy(mem[e]) => Exe(v) # e
      BY <2>1 DEF MayCopy
    <2> QED
      BY <1>1, <2>1, <2>2 DEF DispatchWrites, Saves, FailsToSave, StoreTyped, StoreTypeOK
  <1> QED
    BY <1>2, <1>3, CopyingKept

LEMMA StepAttempts ==
    ASSUME PagesOnly, NobodyEdits, Typed, Locked, Fresh, Attempts, [Next]_vars
    PROVE  /\ Attempts'
           /\ \A j \in Jobs : Submited(job[j]) \subseteq Submited(job'[j])
           /\ \/ UNCHANGED job /\ (UNCHANGED <<owner, mem>> \/ Looks
                    \/ \E j \in Jobs, e \in Executors : Loads(j, e))
              \/ UNCHANGED job /\ (\A e \in Executors : owner'[e] = None)
              \/ \E e \in Executors : owner[e] \in Jobs /\ Moves(e)
  <1> USE DEF Attempts
  <1>1. CASE UNCHANGED vars
    BY <1>1 DEF vars, storeVars, workerVars, Reading, Cached, Copying, Exe, Full, RowsBehind, Submited
  <1>2. CASE StoreNext /\ UNCHANGED <<workerVars, libraryVars, data, crashes>>
    <2>1. Reading' /\ UNCHANGED job /\ (Looks \/ \E j \in Jobs, e \in Executors : Loads(j, e))
      BY <1>2, RequestsRead
    <2>2. Cached' /\ Full' /\ RowsBehind'
      BY <2>1, LoadsCached, LoadsGrow
    <2>3. \A v \in Workers : pc[v] = "copy" => mem'[Exe(v)] = mem[Exe(v)]
      <3>1. \A v \in Workers : pc[v] = "copy" =>
              Exe(v) \in Executors /\ owner[Exe(v)] \in Jobs /\ mem[Exe(v)].step = "COPYING"
        BY TaskType DEF Locked, Making, WorkerPCs
      <3> QED
        BY <1>2, <3>1, StoreFresh DEF BusyKept
    <2>4. Copying'
      BY <1>2, <2>3, CopyingKept DEF workerVars
    <2> QED
      BY <2>1, <2>2, <2>4
  <1>3. ASSUME NEW c \in Clients, Dispatch(c)
        PROVE  /\ Attempts'
               /\ \A j \in Jobs : Submited(job[j]) \subseteq Submited(job'[j])
               /\ \E e \in Executors : owner[e] \in Jobs /\ Moves(e)
    <2>1. /\ client[c].exe \in Executors /\ owner[client[c].exe] \in Jobs
          /\ Moves(client[c].exe)
          /\ Reply(c)
      BY <1>3, DispatchMovesRow
    <2>2. Reading'
      BY <2>1 DEF Reply, Become, Idle, Reading, StoreTyped, StoreTypeOK
    <2>3. Copying'
      BY <1>3, DispatchKeepsCopying
    <2> QED
      BY <2>1, <2>2, <2>3, MovesKeep
  <1>4. ASSUME NEW w \in Workers, MakeTape(w)
        PROVE  /\ Attempts'
               /\ \A j \in Jobs : Submited(job[j]) \subseteq Submited(job'[j])
               /\ \E e \in Executors : owner[e] \in Jobs /\ Moves(e)
    <2>1. /\ Exe(w) \in Executors /\ owner[Exe(w)] \in Jobs
          /\ Moves(Exe(w))
          /\ UNCHANGED client
      BY <1>4, WorkerMovesRow
    <2>2. Reading'
      BY <2>1 DEF Reading
    <2>3. Copying'
      BY <1>4, MakeTapeCopying
    <2> QED
      BY <2>1, <2>2, <2>3, MovesKeep
  <1>5. CASE Crash
    <2>1. /\ UNCHANGED job
          /\ \A e \in Executors : owner'[e] = None /\ mem'[e] = NoRow
          /\ \A c \in Clients : client'[c] = Idle
          /\ \A w \in Workers : pc'[w] = "off"
      BY <1>5 DEF Crash
    <2>2. Reading' /\ Cached' /\ Copying' /\ RowsBehind'
      BY <2>1 DEF Reading, Cached, Copying, RowsBehind, Idle
    <2>3. Full'
      BY <2>1 DEF Full, NoRow, Submited
    <2> QED
      BY <2>1, <2>2, <2>3
  <1> QED
    BY <1>1, <1>2, <1>3, <1>4, <1>5 DEF Next

LEMMA AttemptsInvariant ==
    ASSUME PagesOnly, NobodyEdits
    PROVE  Spec => [](Typed /\ Locked /\ Fresh /\ Attempts)
  <1>1. ASSUME Init
        PROVE  Attempts
    <2>1. /\ \A e \in Executors : owner[e] = None /\ mem[e] = NoRow
          /\ \A c \in Clients : client[c] = Idle
          /\ \A j \in Jobs : job[j].step = "WAIT_FOR_TAPE"
      BY <1>1, FirstRows DEF Init
    <2>2. /\ \A w \in Workers : pc[w] = "off"
          /\ NoRow.step = "NONE"
      BY <1>1 DEF Init, NoRow
    <2> QED
      BY <2>1, <2>2 DEF Attempts, Reading, Cached, Copying, Full, RowsBehind, Idle
  <1> QED
    BY <1>1, StepAttempts, TypedInvariant, LockInvariant, PTL DEF Spec

(* No two workers copy for one job at the same time, through failing saves  *)
(* and restarts: a second executor of a job exists only when both are       *)
(* finished, and an executor is a lock.  So far as clients send what the    *)
(* pages send, and neither create, delete nor roll back jobs.               *)
THEOREM JobIsALock ==
    ASSUME PagesOnly, NobodyEdits
    PROVE  Spec => []OneWorkerPerJob
  <1>1. ASSUME Typed, Locked, Cached
        PROVE  OneWorkerPerJob
    <2> SUFFICES ASSUME NEW v \in Workers, NEW w \in Workers, pc[v] \in Making, pc[w] \in Making,
                        owner[Exe(v)] = owner[Exe(w)]
                 PROVE  v = w
      BY DEF OneWorkerPerJob
    <2>1. /\ Exe(v) \in Executors /\ owner[Exe(v)] \in Jobs /\ mem[Exe(v)].step = "COPYING"
          /\ Exe(w) \in Executors
      BY <1>1, TaskType DEF Locked, Making
    <2>2. Exe(v) = Exe(w)
      BY <1>1, <2>1, Alone
    <2> QED
      BY <1>1, <2>2 DEF Locked, OneWorkerPerExecutor
  <1> QED
    BY <1>1, AttemptsInvariant, PTL DEF Attempts

(* What has been submitted stays submitted, through failing saves, attempts *)
(* on other tapes and restarts: a worker changes only sources its executor  *)
(* does not call submitted, and no executor that still saves is behind the  *)
(* row.                                                                     *)
THEOREM NothingIsUnsubmitted ==
    ASSUME PagesOnly, NobodyEdits
    PROVE  Spec => SubmittedStays
  <1>1. ASSUME Typed, Locked, Fresh, Attempts, [Next]_vars
        PROVE  [\A j \in Jobs : Submited(job[j]) \subseteq Submited(job'[j])]_vars
    BY <1>1, StepAttempts
  <1> QED
    BY <1>1, AttemptsInvariant, PTL DEF Spec, SubmittedStays

-----------------------------------------------------------------------------
(* The contract                                                             *)

LEMMA StepSync ==
    ASSUME PagesOnly, NobodyEdits, MaxFaults = 0, Typed, Locked, Fresh, Attempts, InSync, AllSane,
           [Next]_vars
    PROVE  InSync' /\ AllSane' /\ JobMoves
  <1>1. CASE UNCHANGED job /\ UNCHANGED <<owner, mem>>
    BY <1>1 DEF InSync, AllSane, Sane, JobMoves
  <1>2. CASE UNCHANGED job /\ (Looks \/ \E j \in Jobs, e \in Executors : Loads(j, e))
    BY <1>2, LoadsSync DEF JobMoves
  <1>3. CASE UNCHANGED job /\ \A e \in Executors : owner'[e] = None
    BY <1>3 DEF InSync, AllSane, Sane, JobMoves
  <1>4. ASSUME NEW e \in Executors, owner[e] \in Jobs, Moves(e)
        PROVE  InSync' /\ AllSane' /\ JobMoves
    BY <1>4, MovesSync DEF Attempts
  <1> QED
    BY <1>1, <1>2, <1>3, <1>4, StepAttempts

LEMMA ContractInit ==
    ASSUME NobodyEdits, Init
    PROVE  Contract!Init
  <1>1. \A j \in Jobs : job[j].status = "PENDING" /\ Submited(job[j]) = {}
    BY FirstRows DEF Init
  <1> QED
    BY <1>1 DEF Contract!Init

LEMMA ContractStep ==
    ASSUME Typed, Typed', AllSane, JobMoves
    PROVE  Contract!Next \/ UNCHANGED Contract!vars
  <1> DEFINE phase == [j \in Jobs |->
                CASE job[j].status = "PROCESSING" -> "working"
                  [] job[j].status = "FAILED" -> "failed"
                  [] job[j].status = "COMPLETED" -> "completed"
                  [] OTHER -> "waiting"]
             done == [j \in Jobs |-> Submited(job[j])]
  <1>2. CASE UNCHANGED job
    BY <1>2 DEF Contract!vars, Submited
  <1>3. ASSUME NEW j \in Jobs, NEW row \in Row, job' = [job EXCEPT ![j] = row],
               \/ RowMoves(job[j], row)
               \/ row.status = "FAILED" /\ Submited(row) = Submited(job[j])
        PROVE  Contract!Next
    <2>1. job \in [Jobs -> Row] /\ job[j] \in Row /\ Sane(job[j])
      BY DEF AllSane, StoreTyped, StoreTypeOK
    <2>2. job'[j] = row /\ \A k \in Jobs : k # j => job'[k] = job[k]
      BY <1>3, <2>1
    <2>3. phase' = [phase EXCEPT ![j] = Phase(row)] /\ done' = [done EXCEPT ![j] = Submited(row)]
      BY <2>2 DEF Phase, Submited
    <2>4. /\ phase[j] = Phase(job[j]) /\ phase = [phase EXCEPT ![j] = phase[j]]
          /\ done[j] = Submited(job[j]) /\ done = [done EXCEPT ![j] = done[j]]
      BY DEF Phase
    <2>5. Submited(row) \in SUBSET Items
      BY DEF Submited
    <2>6. /\ phase[j] \in {"waiting", "failed"} /\ phase' = [phase EXCEPT ![j] = "working"]
          /\ UNCHANGED done
          => Contract!Next
      BY DEF Contract!Next, Contract!Start, Contract!Enters
    <2>7. /\ phase[j] \in {"working", "failed"} /\ UNCHANGED phase
          /\ \E more \in SUBSET Items : done' = [done EXCEPT ![j] = done[j] \cup more]
          => Contract!Next
      BY DEF Contract!Next, Contract!Progress
    <2>8. /\ phase[j] \in {"working", "failed"} /\ phase' = [phase EXCEPT ![j] = "waiting"]
          /\ UNCHANGED done
          => Contract!Next
      BY DEF Contract!Next, Contract!Pause, Contract!Enters
    <2>9. /\ phase[j] \in {"working", "failed"} /\ phase' = [phase EXCEPT ![j] = "completed"]
          /\ done[j] = Items /\ UNCHANGED done
          => Contract!Next
      BY DEF Contract!Next, Contract!Complete, Contract!Enters
    <2>10. phase' = [phase EXCEPT ![j] = "failed"] /\ UNCHANGED done => Contract!Next
      BY DEF Contract!Next, Contract!Fail, Contract!Enters
    <2> HIDE DEF phase, done
    <2>11. Submited(row) = Submited(job[j]) => UNCHANGED done
      BY <2>3, <2>4
    <2>12. Phase(row) = Phase(job[j]) => UNCHANGED phase
      BY <2>3, <2>4
    <2>13. Submited(job[j]) \subseteq Submited(row) =>
                \E more \in SUBSET Items : done' = [done EXCEPT ![j] = done[j] \cup more]
      <3>1. Submited(job[j]) \subseteq Submited(row) => done[j] \cup Submited(row) = Submited(row)
        BY <2>4
      <3> QED
        BY <2>3, <2>5, <3>1
    <2> QED
      BY <1>3, <2>1, <2>3, <2>4, <2>6, <2>7, <2>8, <2>9, <2>10, <2>11, <2>12, <2>13, ShownMoves
  <1> QED
    BY <1>2, <1>3 DEF JobMoves

(* With saves that do not fail, what the row of an archive job shows over   *)
(* time is a behaviour of the contract, through restarts and however many   *)
(* attempts: it completes only with every source submitted, makes progress  *)
(* only while it is worked on or has failed, and no attempt undoes another. *)
(* So far as clients send what the pages send, and neither create, delete   *)
(* nor roll back jobs.                                                      *)
THEOREM AttemptsKeepTheContract ==
    ASSUME PagesOnly, NobodyEdits, MaxFaults = 0
    PROVE  Spec => KeepsContract
  <1>1. ASSUME Init
        PROVE  InSync /\ AllSane
    BY <1>1, FirstRows DEF Init, InSync, AllSane, Sane
  <1>2. Typed /\ Locked /\ Fresh /\ Attempts /\ InSync /\ AllSane /\ [Next]_vars
            => InSync' /\ AllSane'
    BY StepSync
  <1>3. Typed /\ Typed' /\ Locked /\ Fresh /\ Attempts /\ InSync /\ AllSane /\ [Next]_vars
            => [Contract!Next]_(Contract!vars)
    BY StepSync, ContractStep
  <1>4. Init => Contract!Init
    BY ContractInit
  <1> QED
    BY <1>1, <1>2, <1>3, <1>4, AttemptsInvariant, PTL DEF Spec, KeepsContract, Contract!Spec

-----------------------------------------------------------------------------
(***************************************************************************)
(* What archive jobs and the library say of each other: what is submitted  *)
(* is in the library, and what is in the library is on the tape.           *)
(***************************************************************************)
USE DEF Typed

(* Every source the row calls submitted is on a tape of the library. *)
Archived(j, row) == \A i \in Submited(row) : InLibrary(j, i)

(* What is about to be marked is in the library. *)
Registered ==
    \A w \in Workers : pc[w] = "mark" =>
        task[w].tape \in tapes /\ Reported(w) \subseteq position[task[w].tape]

LibraryInv == SubmittedInLibrary /\ Registered

(* The library forgets nothing. *)
LibraryGrows ==
    /\ tapes \subseteq tapes'
    /\ \A t \in tapes : position[t] \subseteq position'[t]

LEMMA SubmittedParts ==
    SubmittedInLibrary <=>
        /\ \A j \in Jobs : Archived(j, job[j])
        /\ \A e \in Executors : Archived(owner[e], mem[e])
        /\ \A c \in Clients : Archived(client[c].job, client[c].read)
        /\ \A c \in Clients : Archived(client[c].job, client[c].view)
  BY DEF SubmittedInLibrary, Archived

LEMMA NothingSubmitted ==
    /\ \A i \in Items : AllPending[i] # "SUBMITED"
    /\ Submited(NoRow) = {}
    /\ Submited(NewRow) = {}
    /\ Submited(ReadyRow) = {}
    /\ Submited(Idle.read) = {}
    /\ Submited(Idle.view) = {}
  BY DEF Submited, NoRow, NewRow, ReadyRow, AllPending, Idle

LEMMA FewerSubmitted ==
    ASSUME NEW j, NEW old, NEW row, Archived(j, old), Submited(row) \subseteq Submited(old)
    PROVE  Archived(j, row)
  BY DEF Archived

(* A step that forgets no position, and after which every row names only    *)
(* sources the library had before it.                                       *)
LEMMA RowsKept ==
    ASSUME LibraryGrows,
           \A j \in Jobs : Archived(j, job'[j]),
           \A e \in Executors : Archived(owner'[e], mem'[e]),
           \A c \in Clients : Archived(client'[c].job, client'[c].read),
           \A c \in Clients : Archived(client'[c].job, client'[c].view)
    PROVE  SubmittedInLibrary'
  <1>1. ASSUME NEW j, NEW row, Archived(j, row)
        PROVE  \A i \in Submited(row) : \E t \in tapes' : <<j, i>> \in position'[t]
    BY <1>1 DEF Archived, InLibrary, LibraryGrows
  <1>2. \A j \in Jobs : \A i \in Submited(job'[j]) : \E t \in tapes' : <<j, i>> \in position'[t]
    BY <1>1
  <1>3. \A e \in Executors : \A i \in Submited(mem'[e]) : \E t \in tapes' : <<owner'[e], i>> \in position'[t]
    BY <1>1
  <1>4. \A c \in Clients : \A i \in Submited(client'[c].read) :
            \E t \in tapes' : <<client'[c].job, i>> \in position'[t]
    BY <1>1
  <1>5. \A c \in Clients : \A i \in Submited(client'[c].view) :
            \E t \in tapes' : <<client'[c].job, i>> \in position'[t]
    BY <1>1
  <1> QED
    BY <1>2, <1>3, <1>4, <1>5 DEF SubmittedInLibrary, InLibrary, Submited

(* An executor saves a row whose submitted sources the library has. *)
LEMMA SavesKept ==
    ASSUME Typed, SubmittedInLibrary, LibraryGrows, NEW e \in Executors, owner[e] \in Jobs,
           NEW row, Archived(owner[e], row), Updates(e, row), UNCHANGED owner,
           \A c \in Clients : Archived(client'[c].job, client'[c].read),
           \A c \in Clients : Archived(client'[c].job, client'[c].view)
    PROVE  SubmittedInLibrary'
  <1>1. \A j \in Jobs : job'[j] = job[j] \/ (j = owner[e] /\ job'[j] = row)
    BY DEF Updates, Saves, FailsToSave, StoreTyped, WorkersTyped, LibraryTyped,
             StoreTypeOK
  <1>2. \A f \in Executors : mem'[f] = mem[f] \/ (f = e /\ mem'[f] = row)
    BY DEF Updates, Saves, FailsToSave, StoreTyped, WorkersTyped, LibraryTyped,
             StoreTypeOK
  <1>3. \A j \in Jobs : Archived(j, job'[j])
    BY <1>1, SubmittedParts
  <1>4. \A f \in Executors : Archived(owner'[f], mem'[f])
    BY <1>2, SubmittedParts
  <1> QED
    BY <1>3, <1>4, RowsKept

LEMMA BecomeKept ==
    ASSUME Typed, SubmittedInLibrary, NEW c \in Clients, NEW req, Become(c, req),
           Archived(req.job, req.read), Archived(req.job, req.view)
    PROVE  /\ \A d \in Clients : Archived(client'[d].job, client'[d].read)
           /\ \A d \in Clients : Archived(client'[d].job, client'[d].view)
  <1>1. \A d \in Clients : client'[d] = client[d] \/ client'[d] = req
    BY DEF Become, StoreTyped, WorkersTyped, LibraryTyped, StoreTypeOK
  <1> QED
    BY <1>1, SubmittedParts

LEMMA GoToKept ==
    ASSUME Typed, SubmittedInLibrary, NEW c \in Clients, NEW to,
           GoTo(c, to) \/ Reply(c)
    PROVE  /\ \A d \in Clients : Archived(client'[d].job, client'[d].read)
           /\ \A d \in Clients : Archived(client'[d].job, client'[d].view)
  <1>1. CASE GoTo(c, to)
    <2> DEFINE req == [client[c] EXCEPT !.pc = to]
    <2>1. Become(c, req)
      BY <1>1 DEF GoTo
    <2>2. req.job = client[c].job /\ req.read = client[c].read /\ req.view = client[c].view
      BY DEF StoreTyped, WorkersTyped, LibraryTyped, StoreTypeOK, Request
    <2> HIDE DEF req
    <2> QED
      BY <2>1, <2>2, BecomeKept, SubmittedParts
  <1>2. CASE Reply(c)
    <2>1. Archived(Idle.job, Idle.read) /\ Archived(Idle.job, Idle.view)
      BY NothingSubmitted DEF Archived
    <2> QED
      BY <1>2, <2>1, BecomeKept DEF Reply
  <1> QED
    BY <1>1, <1>2

LEMMA GetsKept ==
    ASSUME Typed, SubmittedInLibrary, NEW j \in Jobs, NEW e \in Executors, Gets(j, e)
    PROVE  \A f \in Executors : Archived(owner'[f], mem'[f])
  <1>1. \A f \in Executors :
            \/ owner'[f] = owner[f] /\ mem'[f] = mem[f]
            \/ owner'[f] = j /\ mem'[f] = job[j]
    BY DEF Gets, StoreTyped, WorkersTyped, LibraryTyped, StoreTypeOK
  <1> QED
    BY <1>1, SubmittedParts

-----------------------------------------------------------------------------
LEMMA StoreKept ==
    ASSUME Typed, SubmittedInLibrary, StoreNext, UNCHANGED libraryVars
    PROVE  SubmittedInLibrary'
  <1>0. PICK c \in Clients : Serve(c) \/ Ask(c)
    BY DEF StoreNext
  <1>a. LibraryGrows /\ client[c] \in Request
    BY DEF LibraryGrows, libraryVars, StoreTyped, WorkersTyped, LibraryTyped,
             StoreTypeOK
  <1> DEFINE j == client[c].job
             x == client[c].exe
  (* steps that only change the client, the cache and the faults *)
  <1>b. ASSUME UNCHANGED <<job, owner, mem>>,
               \A d \in Clients : Archived(client'[d].job, client'[d].read),
               \A d \in Clients : Archived(client'[d].job, client'[d].view)
        PROVE  SubmittedInLibrary'
    BY <1>a, <1>b, RowsKept, SubmittedParts
  (* steps that make an executor *)
  <1>c. ASSUME UNCHANGED job, j \in Jobs, NEW e \in Executors, Gets(j, e),
               \A d \in Clients : Archived(client'[d].job, client'[d].read),
               \A d \in Clients : Archived(client'[d].job, client'[d].view)
        PROVE  SubmittedInLibrary'
    BY <1>a, <1>c, RowsKept, GetsKept, SubmittedParts
  <1>1. CASE ApplyParam(c)
    <2> DEFINE row == [mem[x] EXCEPT !.step = "PENDING", !.items = AllPending]
    <2>1. x \in Executors /\ owner[x] \in Jobs /\ UNCHANGED owner
      BY <1>1 DEF ApplyParam, At, StoreTyped, ClientRefs
    <2>2. Submited(row) = {}
      BY <2>1, NothingSubmitted DEF Submited, Row, StoreTyped, WorkersTyped, LibraryTyped, StoreTypeOK
    <2>3. GoTo(c, "initWait") \/ Reply(c)
      BY <1>1 DEF ApplyParam
    <2>4. Updates(x, row) \/ UNCHANGED <<job, owner, mem>>
      BY <1>1 DEF ApplyParam, Updates
    <2> HIDE DEF row, x
    <2>5. Archived(owner[x], row)
      BY <2>2 DEF Archived
    <2> QED
      BY <1>a, <1>b, <2>1, <2>3, <2>4, <2>5, SavesKept, GoToKept
  <1>2. CASE InitWait(c)
    <2> DEFINE row == Switched(mem[x], "WAIT_FOR_TAPE", "PENDING")
    <2>1. x \in Executors /\ owner[x] \in Jobs /\ UNCHANGED owner
      BY <1>2 DEF InitWait, At, StoreTyped, ClientRefs
    <2>2. Submited(row) = Submited(mem[x])
      BY <2>1 DEF Submited, Switched, Row, StoreTyped, WorkersTyped, LibraryTyped, StoreTypeOK
    <2>3. (GoTo(c, "initClose") \/ Reply(c)) /\ Updates(x, row)
      BY <1>2 DEF InitWait, Updates
    <2> HIDE DEF row, x
    <2>4. Archived(owner[x], row)
      BY <2>1, <2>2, SubmittedParts DEF Archived
    <2> QED
      BY <1>a, <2>1, <2>3, <2>4, SavesKept, GoToKept
  <1>3. CASE InitClose(c) \/ EditClose(c) \/ LeavePage(c) \/ AskDispatchFails(c)
    <2>1. Reply(c) /\ UNCHANGED <<job, owner, mem>>
      BY <1>3 DEF InitClose, EditClose, LeavePage, AskDispatchFails
    <2> QED
      BY <1>b, <2>1, GoToKept
  <1>4. CASE Display(c)
    <2>1. j \in Jobs /\ Reply(c) /\ UNCHANGED job
      BY <1>4 DEF Display, At, StoreTyped, ClientRefs
    <2>2. (\E e \in Executors : Gets(j, e)) \/ UNCHANGED <<owner, mem>>
      BY <1>4 DEF Display
    <2> QED
      BY <1>b, <1>c, <2>1, <2>2, GoToKept
  <1>5. CASE SaveDeleted(c)
    <2> DEFINE row == [client[c].read EXCEPT !.status = "DELETED"]
    <2>1. j \in Jobs /\ Reply(c) /\ UNCHANGED <<owner, mem>>
      BY <1>5 DEF SaveDeleted, At, StoreTyped, ClientRefs
    <2>2. Submited(row) = Submited(client[c].read)
      BY <1>a DEF Submited, Request, Row
    <2>3. UNCHANGED job \/ job' = [job EXCEPT ![j] = row]
      BY <1>5 DEF SaveDeleted
    <2> HIDE DEF row
    <2>4. Archived(j, row)
      BY <2>2, SubmittedParts DEF Archived
    <2>5. \A k \in Jobs : Archived(k, job'[k])
      BY <2>3, <2>4, SubmittedParts DEF StoreTyped, WorkersTyped, LibraryTyped, StoreTypeOK
    <2> QED
      BY <1>a, <2>1, <2>5, RowsKept, GoToKept, SubmittedParts
  <1>6. CASE SaveRollback(c)
    <2> DEFINE row(from) == [RolledBack(client[c].view, from) EXCEPT !.status = client[c].read.status]
               req == [Idle EXCEPT !.pc = "editGet", !.job = j]
    <2>1. j \in Jobs /\ UNCHANGED <<owner, mem>>
      BY <1>6 DEF SaveRollback, At, StoreTyped, ClientRefs
    <2>2. ASSUME NEW from \in Items
          PROVE  Submited(row(from)) \subseteq Submited(client[c].view)
      BY <1>a DEF RolledBack, Submited, Request, Row
    <2>3. UNCHANGED job \/ \E from \in Items : job' = [job EXCEPT ![j] = row(from)]
      BY <1>6 DEF SaveRollback
    <2>4. Reply(c) \/ Become(c, req)
      BY <1>6 DEF SaveRollback
    <2>5. Submited(req.read) = {} /\ Submited(req.view) = {}
      BY NothingSubmitted DEF Idle
    <2> HIDE DEF row, req
    <2>6. \A from \in Items : Archived(j, row(from))
      BY <2>2, SubmittedParts, FewerSubmitted
    <2>7. \A k \in Jobs : Archived(k, job'[k])
      <3>1. \A k \in Jobs : job'[k] = job[k] \/ \E from \in Items : k = j /\ job'[k] = row(from)
        BY <2>3 DEF StoreTyped, StoreTypeOK
      <3> QED
        BY <2>6, <3>1, SubmittedParts
    <2>8. Archived(req.job, req.read) /\ Archived(req.job, req.view)
      BY <2>5 DEF Archived
    <2>9. /\ \A d \in Clients : Archived(client'[d].job, client'[d].read)
          /\ \A d \in Clients : Archived(client'[d].job, client'[d].view)
      BY <2>4, <2>8, BecomeKept, GoToKept
    <2> QED
      BY <1>a, <2>1, <2>7, <2>9, RowsKept, SubmittedParts
  <1>7. CASE EditGet(c)
    <2>1. j \in Jobs /\ UNCHANGED job /\ (GoTo(c, "editClose") \/ Reply(c))
      BY <1>7 DEF EditGet, At, StoreTyped, ClientRefs
    <2>2. (\E e \in Executors : Gets(j, e)) \/ UNCHANGED <<owner, mem>>
      BY <1>7 DEF EditGet
    <2> QED
      BY <1>b, <1>c, <2>1, <2>2, GoToKept
  <1>8. ASSUME NEW k \in Jobs, NEW e \in Executors, Create(c, k, e)
        PROVE  SubmittedInLibrary'
    <2> DEFINE req == [Idle EXCEPT !.pc = "init", !.job = k, !.exe = e]
    <2>1. /\ \A i \in Jobs : job'[i] = job[i] \/ job'[i] = NewRow
          /\ \A f \in Executors : (owner'[f] = owner[f] /\ mem'[f] = mem[f]) \/ mem'[f] = NewRow
          /\ Become(c, req)
      BY <1>8 DEF Create, StoreTyped, WorkersTyped, LibraryTyped, StoreTypeOK
    <2>2. Submited(req.read) = {} /\ Submited(req.view) = {}
      BY NothingSubmitted DEF Idle
    <2> HIDE DEF req
    <2>3. Archived(req.job, req.read) /\ Archived(req.job, req.view)
      BY <2>2 DEF Archived
    <2>4. \A i : Archived(i, NewRow)
      BY NothingSubmitted DEF Archived
    <2> QED
      BY <1>a, <2>1, <2>3, <2>4, BecomeKept, RowsKept, SubmittedParts
  <1>9. ASSUME NEW k \in Jobs, ShowPage(c, k)
        PROVE  SubmittedInLibrary'
    <2> DEFINE req == [Idle EXCEPT !.pc = "page", !.job = k, !.view = job[k]]
    <2>1. Become(c, req) /\ UNCHANGED <<job, owner, mem>>
      BY <1>9 DEF ShowPage
    <2>2. Submited(req.read) = {} /\ req.view = job[k] /\ req.job = k
      BY NothingSubmitted DEF Idle
    <2> HIDE DEF req
    <2>3. Archived(req.job, req.read) /\ Archived(req.job, req.view)
      BY <2>2, SubmittedParts DEF Archived
    <2> QED
      BY <1>b, <2>1, <2>3, BecomeKept
  <1>10. ASSUME NEW e \in Executors, AskDispatch(c, e)
         PROVE  SubmittedInLibrary'
    <2> DEFINE req == [client[c] EXCEPT !.pc = "dispatch", !.view = NoRow, !.exe = e]
    <2>1. j \in Jobs /\ Gets(j, e) /\ Become(c, req) /\ UNCHANGED job
      BY <1>10 DEF AskDispatch, At, StoreTyped, ClientRefs
    <2>2. req.read = client[c].read /\ Submited(req.view) = {} /\ req.job = j
      BY <1>a, NothingSubmitted DEF Request
    <2> HIDE DEF req
    <2>3. Archived(req.job, req.read) /\ Archived(req.job, req.view)
      BY <2>2, SubmittedParts DEF Archived
    <2> QED
      BY <1>c, <2>1, <2>3, BecomeKept
  <1>11. CASE AskDisplay(c) \/ AskDelete(c) \/ AskRollback(c)
    <2> DEFINE shown == [client[c] EXCEPT !.pc = "display", !.view = NoRow]
               deleted == [client[c] EXCEPT !.pc = "delete", !.view = NoRow, !.read = job[j]]
               edited == [client[c] EXCEPT !.pc = "edit",
                              !.read = [NoRow EXCEPT !.status = job[j].status]]
    <2>1. j \in Jobs /\ UNCHANGED <<job, owner, mem>>
      BY <1>11 DEF AskDisplay, AskDelete, AskRollback, At, StoreTyped, ClientRefs
    <2>2. Reply(c) \/ Become(c, shown) \/ Become(c, deleted) \/ Become(c, edited)
      BY <1>11 DEF AskDisplay, AskDelete, AskRollback
    <2>3. shown.job = j /\ shown.read = client[c].read /\ Submited(shown.view) = {}
      BY <1>a, NothingSubmitted DEF Request
    <2>4. deleted.job = j /\ deleted.read = job[j] /\ Submited(deleted.view) = {}
      BY <1>a, NothingSubmitted DEF Request
    <2>5. edited.job = j /\ edited.view = client[c].view /\ Submited(edited.read) = {}
      BY <1>a, NothingSubmitted DEF Request, Submited, NoRow
    <2> HIDE DEF shown, deleted, edited
    <2>6. Archived(shown.job, shown.read) /\ Archived(shown.job, shown.view)
      BY <2>3, SubmittedParts DEF Archived
    <2>7. Archived(deleted.job, deleted.read) /\ Archived(deleted.job, deleted.view)
      BY <2>1, <2>4, SubmittedParts DEF Archived
    <2>8. Archived(edited.job, edited.read) /\ Archived(edited.job, edited.view)
      BY <2>5, SubmittedParts DEF Archived
    <2> QED
      BY <1>b, <2>1, <2>2, <2>6, <2>7, <2>8, BecomeKept, GoToKept
  <1> QED
    BY <1>0, <1>1, <1>2, <1>3, <1>4, <1>5, <1>6, <1>7, <1>8, <1>9, <1>10, <1>11 DEF Serve, Ask

-----------------------------------------------------------------------------
LEMMA DispatchKept ==
    ASSUME Typed, SubmittedInLibrary, NEW c \in Clients, Dispatch(c)
    PROVE  SubmittedInLibrary'
  <1> DEFINE x == client[c].exe
  <1>1. /\ client[c].pc = "dispatch"
        /\ Reply(c)
        /\ UNCHANGED <<owner, libraryVars>>
    BY DEF Dispatch, DispatchCopying, DispatchCopyingUnsaved, DispatchRefused,
           DispatchWait, DispatchFinish, At
  <1>2. /\ x \in Executors /\ owner[x] \in Jobs /\ mem[x] \in Row
        /\ LibraryGrows
        /\ \A d \in Clients : Archived(client'[d].job, client'[d].read)
        /\ \A d \in Clients : Archived(client'[d].job, client'[d].view)
    BY <1>1, GoToKept DEF StoreTyped, ClientRefs, WorkersTyped, LibraryTyped, StoreTypeOK,
             LibraryGrows, libraryVars
  <1>3. ASSUME NEW step, NEW status
        PROVE  Archived(owner[x], Switched(mem[x], step, status))
    <2>1. Submited(Switched(mem[x], step, status)) = Submited(mem[x])
      BY <1>2 DEF Submited, Switched, Row
    <2> QED
      BY <1>2, <2>1, SubmittedParts DEF Archived
  <1>4. \/ Updates(x, Switched(mem[x], "COPYING", "PROCESSING"))
        \/ Updates(x, Switched(mem[x], "WAIT_FOR_TAPE", "PENDING"))
        \/ Updates(x, Switched(mem[x], "FINISHED", "COMPLETED"))
        \/ UNCHANGED <<job, mem>>
    BY DEF Dispatch, DispatchCopying, DispatchCopyingUnsaved, DispatchRefused,
           DispatchWait, WaitForTape, DispatchFinish, Finished, Updates
  <1>5. CASE UNCHANGED <<job, mem>>
    BY <1>1, <1>2, <1>5, RowsKept, SubmittedParts
  <1> HIDE DEF x
  <1> QED
    BY <1>1, <1>2, <1>3, <1>4, <1>5, SavesKept

LEMMA MakeTapeKept ==
    ASSUME Typed, SubmittedInLibrary, Registered, NEW w \in Workers, MakeTape(w)
    PROVE  SubmittedInLibrary' /\ LibraryGrows
  <1> DEFINE x == Exe(w)
             t == task[w].tape
  <1>1. pc[w] # "off" /\ UNCHANGED <<owner, client>>
    BY DEF MakeTape, Occupy, Prepare, CopyStarts, CopyEnds, CopySkips, CopyEvent, CopyDone,
           RollbackSources, CreateTape, MarkSourcesAsSubmited, Umount, CountTodo,
           FinishWait, FinishComplete, Release, MarkFailed, storeVars
  <1>2. /\ x \in Executors /\ owner[x] \in Jobs /\ mem[x] \in Row
        /\ t \in Tapes
        /\ \A c \in Clients : Archived(client'[c].job, client'[c].read)
        /\ \A c \in Clients : Archived(client'[c].job, client'[c].view)
    BY <1>1, TaskType, SubmittedParts
  <1>3. ASSUME LibraryGrows, UNCHANGED <<job, mem>>
        PROVE  SubmittedInLibrary'
    BY <1>1, <1>2, <1>3, RowsKept, SubmittedParts
  <1>4. ASSUME UNCHANGED libraryVars
        PROVE  LibraryGrows
    BY <1>4 DEF LibraryGrows, libraryVars
  <1>5. ASSUME UNCHANGED libraryVars, NEW row, Updates(x, row),
               Submited(row) \subseteq Submited(mem[x])
        PROVE  SubmittedInLibrary' /\ LibraryGrows
    <2>1. Archived(owner[x], row)
      BY <1>2, <1>5, SubmittedParts, FewerSubmitted
    <2> QED
      BY <1>1, <1>2, <1>4, <1>5, <2>1, SavesKept
  <1>6. CASE \/ Occupy(w) \/ Prepare(w) \/ CopyDone(w) \/ Umount(w) \/ CountTodo(w) \/ Release(w)
             \/ \E i \in Items : CopySkips(w, i)
    <2>1. UNCHANGED <<libraryVars, job, mem>>
      BY <1>6 DEF Occupy, Prepare, CopySkips, CopyDone, Umount, CountTodo, Release, storeVars
    <2> QED
      BY <1>3, <1>4, <2>1
  <1>7. ASSUME NEW i \in Items, CopyStarts(w, i) \/ CopyEnds(w, i)
        PROVE  SubmittedInLibrary' /\ LibraryGrows
    <2>1. PICK phase \in CopyPhases, status \in CopyStatuses \ {"SUBMITED"} :
                CopyEvent(w, i, phase, status)
      BY <1>7 DEF CopyStarts, CopyEnds, CopyPhases, CopyStatuses
    <2> DEFINE row == [mem[x] EXCEPT !.items[i] = status]
    <2>2. UNCHANGED libraryVars /\ Updates(x, row)
      BY <2>1 DEF CopyEvent
    <2>3. Submited(row) \subseteq Submited(mem[x])
      BY <1>2 DEF Submited, Row
    <2> HIDE DEF row, x
    <2> QED
      BY <1>5, <2>2, <2>3
  <1>8. CASE RollbackSources(w)
    <2> DEFINE row == [mem[x] EXCEPT !.items = [i \in Items |->
                            IF i \in Submited(mem[x]) THEN "SUBMITED" ELSE "PENDING"]]
    <2>1. UNCHANGED libraryVars /\ Updates(x, row)
      BY <1>8 DEF RollbackSources
    <2>2. Submited(row) \subseteq Submited(mem[x])
      BY <1>2 DEF Submited, Row
    <2> HIDE DEF row, x
    <2> QED
      BY <1>5, <2>1, <2>2
  <1>9. CASE CreateTape(w)
    <2>1. UNCHANGED <<job, mem>>
      BY <1>9 DEF CreateTape
    <2>2. tapes' \in {tapes, tapes \cup {t}}
      BY <1>9 DEF CreateTape, libraryVars
    <2>3. \/ UNCHANGED position
          \/ t \notin tapes /\ position' = [position EXCEPT ![t] = Reported(w)]
      BY <1>9 DEF CreateTape, libraryVars
    <2>4. LibraryGrows
      BY <1>2, <2>2, <2>3 DEF LibraryGrows, StoreTyped, WorkersTyped, LibraryTyped
    <2> QED
      BY <1>3, <2>1, <2>4
  <1>10. CASE MarkSourcesAsSubmited(w)
    <2> DEFINE row == [mem[x] EXCEPT !.items = [i \in Items |->
                            IF i \in Marked(w) THEN "SUBMITED" ELSE mem[x].items[i]]]
    <2>1. pc[w] = "mark" /\ UNCHANGED libraryVars /\ Updates(x, row)
      BY <1>10 DEF MarkSourcesAsSubmited, Updates
    <2>2. Submited(row) \subseteq Submited(mem[x]) \cup Marked(w)
      BY <1>2 DEF Submited, Row
    <2>3. \A i \in Marked(w) : <<owner[x], i>> \in position[t] /\ t \in tapes
      BY <2>1 DEF Registered, Reported, Marked, Files
    <2> HIDE DEF row, x
    <2>4. Archived(owner[x], row)
      BY <1>2, <2>2, <2>3, SubmittedParts DEF Archived, InLibrary
    <2> QED
      BY <1>1, <1>2, <1>4, <2>1, <2>4, SavesKept
  <1>11. CASE FinishWait(w) \/ FinishComplete(w)
    <2>1. /\ UNCHANGED libraryVars
          /\ \/ UNCHANGED <<job, mem>>
             \/ Updates(x, Switched(mem[x], "WAIT_FOR_TAPE", "PENDING"))
             \/ Updates(x, Switched(mem[x], "FINISHED", "COMPLETED"))
      BY <1>11 DEF FinishWait, WaitForTape, FinishComplete, Finished, Updates
    <2>2. ASSUME NEW step, NEW status
          PROVE  Submited(Switched(mem[x], step, status)) = Submited(mem[x])
      BY <1>2 DEF Submited, Switched, Row
    <2> HIDE DEF x
    <2> QED
      BY <1>3, <1>4, <1>5, <2>1, <2>2
  <1>12. CASE MarkFailed(w)
    <2> DEFINE row == [mem[x] EXCEPT !.status = "FAILED"]
    <2>1. UNCHANGED libraryVars /\ Updates(x, row)
      BY <1>12 DEF MarkFailed
    <2>2. Submited(row) \subseteq Submited(mem[x])
      BY <1>2 DEF Submited, Row
    <2> HIDE DEF row, x
    <2> QED
      BY <1>5, <2>1, <2>2
  <1> QED
    BY <1>6, <1>7, <1>8, <1>9, <1>10, <1>11, <1>12 DEF MakeTape

-----------------------------------------------------------------------------
(* Workers that are in the middle of a step keep their drives, tapes and    *)
(* copies; executors keep their jobs.                                       *)

LEMMA FilesKept ==
    ASSUME Typed, OwnersKept, NEW w \in Workers, pc[w] # "off",
           task'[w] = task[w], copy'[w] = copy[w], NEW phases
    PROVE  Files(w, phases)' = Files(w, phases)
  <1>1. owner'[Exe(w)] = owner[Exe(w)]
    BY TaskType DEF OwnersKept
  <1> QED
    BY <1>1 DEF Files, Exe

LEMMA RegisteredKept ==
    ASSUME Typed, Registered, LibraryGrows, OwnersKept,
           \A v \in Workers : pc'[v] = "mark" =>
                pc[v] = "mark" /\ task'[v] = task[v] /\ copy'[v] = copy[v]
    PROVE  Registered'
  <1>1. ASSUME NEW v \in Workers, pc'[v] = "mark"
        PROVE  task'[v].tape \in tapes' /\ Reported(v)' \subseteq position'[task'[v].tape]
    <2>1. Reported(v)' = Reported(v)
      BY <1>1, FilesKept DEF Reported
    <2> QED
      BY <1>1, <2>1 DEF Registered, LibraryGrows
  <1> QED
    BY <1>1 DEF Registered

LEMMA StoreOwners ==
    ASSUME Typed, StoreNext
    PROVE  OwnersKept
  BY ServeType, AskType DEF StoreNext

LEMMA DispatchWorkers ==
    ASSUME Typed, NEW c \in Clients, Dispatch(c)
    PROVE  /\ OwnersKept
           /\ UNCHANGED <<copy, readonly, libraryVars, data, crashes>>
           /\ \/ UNCHANGED <<pc, task>>
              \/ \E w \in Workers :
                    /\ pc[w] = "off"
                    /\ pc'[w] = "occupy"
                    /\ \A v \in Workers : v # w => pc'[v] = pc[v] /\ task'[v] = task[v]
                    /\ \A v \in Workers : pc[v] # "off" => task[v].tape # task'[w].tape
                    /\ ReuseTapes \/ task'[w].tape \notin tapes
  <1>1. ASSUME NEW w \in Workers, NEW dev \in Devices, NEW tape \in Tapes,
               DispatchCopying(c, w, dev, tape)
        PROVE  /\ UNCHANGED <<owner, copy, readonly, libraryVars, data, crashes>>
               /\ pc[w] = "off"
               /\ pc'[w] = "occupy"
               /\ \A v \in Workers : v # w => pc'[v] = pc[v] /\ task'[v] = task[v]
               /\ \A v \in Workers : pc[v] # "off" => task[v].tape # task'[w].tape
               /\ ReuseTapes \/ task'[w].tape \notin tapes
    BY <1>1 DEF DispatchCopying, Goes, StoreTyped, WorkersTyped, LibraryTyped
  <1>2. CASE DispatchCopyingUnsaved(c) \/ DispatchRefused(c) \/ DispatchWait(c) \/ DispatchFinish(c)
    BY <1>2 DEF DispatchCopyingUnsaved, DispatchRefused, DispatchWait, DispatchFinish,
                workerVars, OwnersKept
  <1> QED
    BY <1>1, <1>2 DEF Dispatch, OwnersKept

LEMMA OthersKept ==
    ASSUME Typed, NEW w \in Workers, MakeTape(w)
    PROVE  /\ OwnersKept
           /\ pc[w] # "off"
           /\ \A v \in Workers : v # w =>
                /\ pc'[v] = pc[v]
                /\ task'[v] = task[v]
                /\ copy'[v] = copy[v]
                /\ readonly'[v] = readonly[v]
  <1>1. pc[w] # "off" /\ UNCHANGED owner
    BY DEF MakeTape, Occupy, Prepare, CopyStarts, CopyEnds, CopySkips, CopyEvent, CopyDone,
           RollbackSources, CreateTape, MarkSourcesAsSubmited, Umount, CountTodo,
           FinishWait, FinishComplete, Release, MarkFailed, storeVars
  <1>2. \A v \in Workers : v # w => pc'[v] = pc[v] /\ task'[v] = task[v]
    BY DEF MakeTape, Occupy, Prepare, CopyStarts, CopyEnds, CopySkips, CopyEvent,
             CopyDone, RollbackSources, CreateTape, TapeRefused,
             MarkSourcesAsSubmited, Umount, CountTodo, FinishWait,
             FinishComplete, Release, MarkFailed, Off, Goes, GoesWrong,
             StoreTyped, WorkersTyped, LibraryTyped
  <1>3. \A v \in Workers : v # w => copy'[v] = copy[v] /\ readonly'[v] = readonly[v]
    BY DEF MakeTape, Occupy, Prepare, CopyStarts, CopyEnds, CopySkips, CopyEvent,
             CopyDone, RollbackSources, CreateTape, MarkSourcesAsSubmited,
             Umount, CountTodo, FinishWait, FinishComplete, Release, MarkFailed,
             Off, StoreTyped, WorkersTyped, LibraryTyped
  <1> QED
    BY <1>1, <1>2, <1>3 DEF OwnersKept

LEMMA MakeTapeRegistered ==
    ASSUME Typed, SubmittedInLibrary, Registered, NEW w \in Workers, MakeTape(w)
    PROVE  Registered'
  <1>1. CASE pc'[w] = "mark"
    <2>1. CreateTape(w)
      BY <1>1, OthersKept
         DEF MakeTape, Occupy, Prepare, CopyStarts, CopyEnds, CopySkips, CopyEvent,
             CopyDone, RollbackSources, MarkSourcesAsSubmited, Umount, CountTodo,
             FinishWait, FinishComplete, Release, MarkFailed, Off, Goes,
             GoesWrong, StoreTyped, WorkersTyped, LibraryTyped
    <2>2. /\ UNCHANGED <<task, copy>>
          /\ tapes' = tapes \cup {task[w].tape}
          /\ position' = [position EXCEPT ![task[w].tape] = Reported(w)]
      BY <1>1, <2>1 DEF CreateTape, TapeRefused, Goes, GoesWrong, StoreTyped, WorkersTyped,
             LibraryTyped
    <2>3. task[w].tape \in Tapes /\ Reported(w)' = Reported(w)
      BY <2>2, OthersKept, TaskType, FilesKept DEF Reported
    <2>4. ASSUME NEW v \in Workers, v # w, pc'[v] = "mark"
          PROVE  task'[v].tape \in tapes' /\ Reported(v)' \subseteq position'[task'[v].tape]
      <3>1. pc[v] = "mark" /\ task'[v] = task[v] /\ Reported(v)' = Reported(v)
        BY <2>4, OthersKept, FilesKept DEF Reported
      <3> QED
        BY <3>1, MakeTapeKept DEF Registered, LibraryGrows
    <2>5. task'[w].tape \in tapes' /\ Reported(w)' \subseteq position'[task'[w].tape]
      BY <2>2, <2>3 DEF StoreTyped, WorkersTyped, LibraryTyped
    <2> QED
      BY <2>4, <2>5 DEF Registered
  <1>2. CASE pc'[w] # "mark"
    BY <1>2, OthersKept, MakeTapeKept, RegisteredKept
  <1> QED
    BY <1>1, <1>2

LEMMA LibraryInvariant == Spec => []LibraryInv
  <1>1. Init => LibraryInv
    <2>1. ASSUME Init
          PROVE  SubmittedInLibrary
      <3>1. /\ \A j \in Jobs : Submited(job[j]) = {}
            /\ \A e \in Executors : Submited(mem[e]) = {}
            /\ \A c \in Clients : Submited(client[c].read) = {} /\ Submited(client[c].view) = {}
        BY <2>1, NothingSubmitted DEF Init, StoreInit
      <3> QED
        BY <3>1 DEF SubmittedInLibrary
    <2> QED
      BY <2>1 DEF LibraryInv, Registered, Init
  <1>2. ASSUME Typed, LibraryInv, [Next]_vars
        PROVE  LibraryInv'
    <2>1. SubmittedInLibrary /\ Registered
      BY <1>2 DEF LibraryInv
    <2>2. CASE UNCHANGED vars
      <3>1. UNCHANGED <<job, owner, mem, client, pc, task, copy, tapes, position>>
        BY <2>2 DEF vars, storeVars, workerVars, libraryVars
      <3>2. LibraryGrows /\ OwnersKept
        BY <3>1 DEF LibraryGrows, OwnersKept
      <3> QED
        BY <1>2, <2>1, <3>1, <3>2, RowsKept, RegisteredKept, SubmittedParts DEF LibraryInv
    <2>3. CASE StoreNext /\ UNCHANGED <<workerVars, libraryVars, data, crashes>>
      <3>1. LibraryGrows /\ UNCHANGED <<pc, task, copy>>
        BY <2>3 DEF LibraryGrows, libraryVars, workerVars
      <3> QED
        BY <1>2, <2>1, <2>3, <3>1, StoreKept, StoreOwners, RegisteredKept DEF LibraryInv
    <2>4. ASSUME NEW c \in Clients, Dispatch(c)
          PROVE  LibraryInv'
      <3>1. LibraryGrows
        BY <1>2, <2>4, DispatchWorkers DEF LibraryGrows, libraryVars
      <3>2. Registered'
        BY <1>2, <2>1, <2>4, <3>1, DispatchWorkers, RegisteredKept
      <3> QED
        BY <1>2, <2>1, <2>4, <3>2, DispatchKept DEF LibraryInv
    <2>5. ASSUME NEW w \in Workers, MakeTape(w)
          PROVE  LibraryInv'
      BY <1>2, <2>1, <2>5, MakeTapeKept, MakeTapeRegistered DEF LibraryInv
    <2>6. CASE Crash
      <3>1. /\ LibraryGrows
            /\ UNCHANGED job
            /\ \A e \in Executors : mem'[e] = NoRow
            /\ \A c \in Clients : client'[c] = Idle
            /\ \A w \in Workers : pc'[w] = "off"
        BY <2>6 DEF Crash, LibraryGrows, libraryVars
      <3>2. /\ \A j : Archived(j, NoRow)
            /\ Archived(Idle.job, Idle.read)
            /\ Archived(Idle.job, Idle.view)
        BY NothingSubmitted DEF Archived
      <3>3. SubmittedInLibrary'
        BY <2>1, <3>1, <3>2, RowsKept, SubmittedParts
      <3> QED
        BY <3>1, <3>3 DEF LibraryInv, Registered
    <2> QED
      BY <1>2, <2>2, <2>3, <2>4, <2>5, <2>6 DEF Next
  <1> QED
    BY <1>1, <1>2, TypedInvariant, PTL DEF Spec

(* What a job calls submitted, in the table, in memory or on a page that    *)
(* may be sent back, is on a tape of the library: CreateTape comes before   *)
(* markSourcesAsSubmited, and no failing save, restart, rollback, deletion  *)
(* or API dispatch turns that round.                                        *)
THEOREM SubmittedIsInLibrary == Spec => []SubmittedInLibrary
  BY LibraryInvariant, PTL DEF LibraryInv

-----------------------------------------------------------------------------
(* What is in the library is on the tape, as long as users insert new       *)
(* cartridges and the server is not killed between CreateTape and the       *)
(* unmounting that writes the index.                                        *)
FreshTapes == ~ ReuseTapes
NoCrash == MaxCrashes = 0

(* A worker that has not reported yet works on a tape the library does not  *)
(* know, alone; a mounted tape of the library carries all it is said to.    *)
Unreported == {"occupy", "prepare", "copy", "report"}
Carries(w) ==
    task[w].tape \in tapes =>
        ~ readonly[w] /\ position[task[w].tape] \subseteq Files(w, {"good", "unhashed"})

TapeInv ==
    /\ \A v, w \in Workers :
            pc[v] # "off" /\ pc[w] # "off" /\ task[v].tape = task[w].tape => v = w
    /\ \A w \in Workers : pc[w] \in Unreported => task[w].tape \notin tapes
    /\ \A w \in Workers : pc[w] \in Mounted => Carries(w)
    /\ \A t \in Tapes \ tapes : position[t] = {}
    /\ LibraryIsOnTape

(* A step that leaves the library, the indexes and the mounted tapes alone. *)
LEMMA TapesKept ==
    ASSUME Typed, TapeInv, OwnersKept, UNCHANGED <<libraryVars, data>>,
           \A v \in Workers : pc'[v] # "off" => pc[v] # "off" /\ task'[v] = task[v],
           \A v \in Workers : pc'[v] \in Unreported => pc[v] \in Unreported,
           \A v \in Workers : (pc[v] \in Mounted \/ pc'[v] \in Mounted) =>
                /\ pc[v] \in Mounted
                /\ pc'[v] \in Mounted
                /\ copy'[v] = copy[v]
                /\ readonly'[v] = readonly[v]
    PROVE  TapeInv'
  <1>1. /\ UNCHANGED <<tapes, position, data>>
        /\ "off" \notin Mounted /\ "off" \notin Unreported
    BY DEF libraryVars, Mounted, Unreported
  <1>2. \A v, w \in Workers :
            pc'[v] # "off" /\ pc'[w] # "off" /\ task'[v].tape = task'[w].tape => v = w
    BY DEF TapeInv
  <1>3. \A w \in Workers : pc'[w] \in Unreported => task'[w].tape \notin tapes'
    BY <1>1 DEF TapeInv
  <1>4. ASSUME NEW w \in Workers, pc'[w] \in Mounted
        PROVE  /\ pc[w] \in Mounted /\ task'[w] = task[w]
               /\ readonly'[w] = readonly[w]
               /\ Files(w, {"good", "unhashed"})' = Files(w, {"good", "unhashed"})
    BY <1>1, <1>4, FilesKept
  <1>5. \A w \in Workers : pc'[w] \in Mounted => Carries(w)'
    BY <1>1, <1>4 DEF TapeInv, Carries
  <1>6. \A t \in Tapes \ tapes' : position'[t] = {}
    BY <1>1 DEF TapeInv
  <1>7. LibraryIsOnTape'
    <2>1. ASSUME NEW t \in tapes, NEW f \in position[t], f \notin data[t]
          PROVE  \E w \in Workers :
                    /\ pc'[w] \in Mounted
                    /\ task'[w].tape = t
                    /\ ~ readonly'[w]
                    /\ f \in Files(w, {"good", "unhashed"})'
      <3>1. PICK w \in Workers :
                /\ pc[w] \in Mounted
                /\ task[w].tape = t
                /\ ~ readonly[w]
                /\ f \in Files(w, {"good", "unhashed"})
        BY <2>1 DEF TapeInv, LibraryIsOnTape, OnTape
      <3>2. pc'[w] \in Mounted
        BY <3>1
      <3> QED
        BY <1>4, <3>1, <3>2
    <2> QED
      BY <1>1, <2>1 DEF LibraryIsOnTape, OnTape
  <1> QED
    BY <1>2, <1>3, <1>5, <1>6, <1>7 DEF TapeInv

(* A worker goes on with a tape the library does not know. *)
LEMMA BlankKept ==
    ASSUME Typed, TapeInv, OwnersKept, NEW w \in Workers, pc[w] # "off",
           task[w].tape \notin tapes, UNCHANGED <<task, libraryVars>>,
           \A t \in tapes : data'[t] = data[t],
           \A v \in Workers : v # w =>
                pc'[v] = pc[v] /\ copy'[v] = copy[v] /\ readonly'[v] = readonly[v]
    PROVE  TapeInv'
  <1>1. UNCHANGED <<tapes, position>> /\ "off" \notin Mounted
    BY DEF libraryVars, Mounted
  <1>2. \A u, v \in Workers :
            pc'[u] # "off" /\ pc'[v] # "off" /\ task'[u].tape = task'[v].tape => u = v
    BY DEF TapeInv
  <1>3. \A v \in Workers : pc'[v] \in Unreported => task'[v].tape \notin tapes'
    BY <1>1 DEF TapeInv
  <1>4. ASSUME NEW v \in Workers, v # w, pc[v] \in Mounted
        PROVE  Files(v, {"good", "unhashed"})' = Files(v, {"good", "unhashed"})
    BY <1>1, <1>4, FilesKept
  <1>5. ASSUME NEW v \in Workers, pc'[v] \in Mounted
        PROVE  Carries(v)'
    <2>1. CASE v = w
      BY <1>1, <2>1 DEF Carries
    <2>2. CASE v # w
      BY <1>1, <1>4, <1>5, <2>2 DEF TapeInv, Carries
    <2> QED
      BY <2>1, <2>2
  <1>6. \A t \in Tapes \ tapes' : position'[t] = {}
    BY <1>1 DEF TapeInv
  <1>7. LibraryIsOnTape'
    <2>1. ASSUME NEW t \in tapes, NEW f \in position[t], f \notin data[t]
          PROVE  \E v \in Workers :
                    /\ pc'[v] \in Mounted
                    /\ task'[v].tape = t
                    /\ ~ readonly'[v]
                    /\ f \in Files(v, {"good", "unhashed"})'
      <3>1. PICK v \in Workers :
                /\ pc[v] \in Mounted
                /\ task[v].tape = t
                /\ ~ readonly[v]
                /\ f \in Files(v, {"good", "unhashed"})
        BY <2>1 DEF TapeInv, LibraryIsOnTape, OnTape
      <3>2. v # w
        BY <3>1
      <3> QED
        BY <1>4, <3>1, <3>2
    <2> QED
      BY <1>1, <2>1 DEF LibraryIsOnTape, OnTape
  <1> QED
    BY <1>2, <1>3, <1>5, <1>6, <1>7 DEF TapeInv

LEMMA CreateTapeKept ==
    ASSUME Typed, TapeInv, NEW w \in Workers, CreateTape(w)
    PROVE  TapeInv'
  <1> DEFINE t == task[w].tape
  <1>1. /\ pc[w] = "report"
        /\ pc'[w] \in {"mark", "umount"}
        /\ ~ readonly[w]
        /\ UNCHANGED <<owner, task, copy, readonly, data>>
        /\ \A v \in Workers : v # w => pc'[v] = pc[v]
    BY DEF CreateTape, TapeRefused, Goes, GoesWrong, StoreTyped, WorkersTyped,
             LibraryTyped
  <1>2. /\ t \notin tapes /\ t \in Tapes
        /\ position[t] = {}
        /\ \A v \in Workers : v # w /\ pc[v] # "off" => task[v].tape # t
    <2>1. pc[w] \in Unreported /\ pc[w] # "off"
      BY <1>1 DEF Unreported
    <2> QED
      BY <2>1, TaskType DEF TapeInv
  <1>3. /\ tapes' \in {tapes, tapes \cup {t}}
        /\ position' \in {position, [position EXCEPT ![t] = Reported(w)]}
        /\ position' = position \/ t \in tapes'
    BY DEF CreateTape, libraryVars
  <1>4. /\ position'[t] \subseteq Files(w, {"good", "unhashed"})
        /\ \A u \in Tapes : u # t => position'[u] = position[u]
    BY <1>2, <1>3 DEF Reported, Files, StoreTyped, WorkersTyped, LibraryTyped
  <1>5. \A v \in Workers : \A phases : Files(v, phases)' = Files(v, phases)
    BY <1>1 DEF Files, Exe
  <1>6. "off" \notin Mounted /\ {"mark", "umount"} \subseteq Mounted
        /\ "off" \notin Unreported /\ "mark" \notin Unreported /\ "umount" \notin Unreported
    BY DEF Mounted, Unreported
  <1>7. \A u, v \in Workers :
            pc'[u] # "off" /\ pc'[v] # "off" /\ task'[u].tape = task'[v].tape => u = v
    BY <1>1, <1>2 DEF TapeInv
  <1>8. \A v \in Workers : pc'[v] \in Unreported => task'[v].tape \notin tapes'
    BY <1>1, <1>2, <1>3, <1>6 DEF TapeInv
  <1>9. ASSUME NEW v \in Workers, pc'[v] \in Mounted
        PROVE  Carries(v)'
    <2>1. CASE v = w
      BY <1>1, <1>4, <1>5, <2>1 DEF Carries
    <2>2. CASE v # w
      <3>1. pc[v] \in Mounted /\ task[v].tape # t /\ task[v].tape \in Tapes
        BY <1>1, <1>2, <1>6, <1>9, <2>2, TaskType
      <3> QED
        BY <1>1, <1>3, <1>4, <1>5, <3>1 DEF TapeInv, Carries
    <2> QED
      BY <2>1, <2>2
  <1>10. \A u \in Tapes \ tapes' : position'[u] = {}
    BY <1>2, <1>3, <1>4 DEF TapeInv
  <1>11. ASSUME NEW u \in tapes', NEW f \in position'[u], f \notin data'[u]
         PROVE  \E v \in Workers :
                    /\ pc'[v] \in Mounted
                    /\ task'[v].tape = u
                    /\ ~ readonly'[v]
                    /\ f \in Files(v, {"good", "unhashed"})'
    <2>1. CASE u = t
      BY <1>1, <1>4, <1>5, <1>6, <1>11, <2>1
    <2>2. CASE u # t
      <3>1. u \in tapes /\ f \in position[u] /\ f \notin data[u]
        BY <1>1, <1>3, <1>4, <1>11, <2>2 DEF StoreTyped, WorkersTyped, LibraryTyped
      <3>2. PICK v \in Workers :
                /\ pc[v] \in Mounted
                /\ task[v].tape = u
                /\ ~ readonly[v]
                /\ f \in Files(v, {"good", "unhashed"})
        BY <3>1 DEF TapeInv, LibraryIsOnTape, OnTape
      <3> QED
        BY <1>1, <1>5, <2>2, <3>2
    <2> QED
      BY <2>1, <2>2
  <1>12. LibraryIsOnTape'
    BY <1>11 DEF LibraryIsOnTape, OnTape
  <1> QED
    BY <1>7, <1>8, <1>9, <1>10, <1>12 DEF TapeInv

LEMMA UmountKept ==
    ASSUME Typed, TapeInv, NEW w \in Workers, Umount(w)
    PROVE  TapeInv'
  <1> DEFINE t == task[w].tape
  <1>1. /\ pc[w] = "umount"
        /\ pc'[w] = "todo"
        /\ UNCHANGED <<owner, task, copy, readonly, tapes, position>>
        /\ \A v \in Workers : v # w => pc'[v] = pc[v]
    BY DEF Umount, Goes, storeVars, libraryVars, StoreTyped, WorkersTyped, LibraryTyped
  <1>2. /\ t \in Tapes
        /\ Carries(w)
        /\ "todo" \notin Mounted /\ "todo" \notin Unreported
    BY <1>1, TaskType DEF TapeInv, Mounted, Unreported
  <1>3. /\ \A u \in Tapes : u # t => data'[u] = data[u]
        /\ ~ readonly[w] => data'[t] = Files(w, {"good", "unhashed"})
    BY <1>2 DEF Umount, StoreTyped, WorkersTyped, LibraryTyped
  <1>4. \A v \in Workers : \A phases : Files(v, phases)' = Files(v, phases)
    BY <1>1 DEF Files, Exe
  <1>5. \A u, v \in Workers :
            pc'[u] # "off" /\ pc'[v] # "off" /\ task'[u].tape = task'[v].tape => u = v
    BY <1>1 DEF TapeInv
  <1>6. \A v \in Workers : pc'[v] \in Unreported => task'[v].tape \notin tapes'
    BY <1>1, <1>2 DEF TapeInv
  <1>7. \A v \in Workers : pc'[v] \in Mounted => Carries(v)'
    BY <1>1, <1>2, <1>4 DEF TapeInv, Carries
  <1>8. \A u \in Tapes \ tapes' : position'[u] = {}
    BY <1>1 DEF TapeInv
  <1>9. ASSUME NEW u \in tapes', NEW f \in position'[u], f \notin data'[u]
        PROVE  \E v \in Workers :
                    /\ pc'[v] \in Mounted
                    /\ task'[v].tape = u
                    /\ ~ readonly'[v]
                    /\ f \in Files(v, {"good", "unhashed"})'
    <2>1. u # t
      BY <1>1, <1>2, <1>3, <1>9 DEF Carries
    <2>2. u \in tapes /\ f \in position[u] /\ f \notin data[u]
      BY <1>1, <1>3, <1>9, <2>1 DEF StoreTyped, WorkersTyped, LibraryTyped
    <2>3. PICK v \in Workers :
              /\ pc[v] \in Mounted
              /\ task[v].tape = u
              /\ ~ readonly[v]
              /\ f \in Files(v, {"good", "unhashed"})
      BY <2>2 DEF TapeInv, LibraryIsOnTape, OnTape
    <2> QED
      BY <1>1, <1>4, <2>1, <2>3
  <1>10. LibraryIsOnTape'
    BY <1>9 DEF LibraryIsOnTape, OnTape
  <1> QED
    BY <1>5, <1>6, <1>7, <1>8, <1>10 DEF TapeInv

LEMMA MakeTapeTapes ==
    ASSUME Typed, TapeInv, NEW w \in Workers, MakeTape(w)
    PROVE  TapeInv'
  <1>1. CASE CreateTape(w)
    BY <1>1, CreateTapeKept
  <1>2. CASE Umount(w)
    BY <1>2, UmountKept
  <1>3. CASE \/ Occupy(w) \/ Prepare(w) \/ CopyDone(w) \/ RollbackSources(w)
             \/ \E i \in Items : CopyStarts(w, i) \/ CopyEnds(w, i) \/ CopySkips(w, i)
    <2>1. pc[w] \in Unreported
      BY <1>3 DEF Occupy, Prepare, CopyDone, RollbackSources, CopyStarts, CopyEnds, CopySkips, CopyEvent, Unreported
    <2>2. task[w].tape \notin tapes
      BY <2>1 DEF TapeInv
    <2>3. UNCHANGED <<task, libraryVars>>
      BY <1>3 DEF Occupy, Prepare, CopyDone, RollbackSources, CopyStarts, CopyEnds, CopySkips, CopyEvent
    <2>4. \A t \in tapes : data'[t] = data[t]
      BY <1>3, <2>2 DEF Occupy, Prepare, CopyDone, RollbackSources, CopyStarts, CopyEnds, CopySkips,
             CopyEvent, StoreTyped, WorkersTyped, LibraryTyped
    <2> QED
      BY <2>2, <2>3, <2>4, OthersKept, BlankKept
  <1>4. CASE MarkSourcesAsSubmited(w)
    <2>1. /\ UNCHANGED <<task, copy, readonly, libraryVars, data>>
          /\ pc[w] = "mark" /\ pc'[w] = "umount"
      BY <1>4 DEF MarkSourcesAsSubmited, Goes, GoesWrong, StoreTyped, WorkersTyped,
             LibraryTyped
    <2>2. {"mark", "umount"} \subseteq Mounted /\ "umount" \notin Unreported
      BY DEF Mounted, Unreported
    <2> QED
      BY <2>1, <2>2, OthersKept, TapesKept
  <1>5. CASE CountTodo(w) \/ FinishWait(w) \/ FinishComplete(w)
    <2>1. /\ UNCHANGED <<task, copy, readonly, libraryVars, data>>
          /\ pc[w] \in {"todo", "wait", "complete"}
          /\ pc'[w] \in {"wait", "complete", "release"}
      BY <1>5 DEF CountTodo, FinishWait, FinishComplete, Goes, StoreTyped, WorkersTyped,
             LibraryTyped
    <2>2. {"todo", "wait", "complete", "release"} \cap (Mounted \cup Unreported) = {}
      BY DEF Mounted, Unreported
    <2> QED
      BY <2>1, <2>2, OthersKept, TapesKept
  <1>6. CASE Release(w) \/ MarkFailed(w)
    <2>1. /\ UNCHANGED <<libraryVars, data>>
          /\ pc[w] \in {"release", "fail"}
          /\ pc'[w] = "off" \/ (pc'[w] = "fail" /\ task'[w] = task[w])
      BY <1>6 DEF Release, MarkFailed, Off, Goes, StoreTyped, WorkersTyped, LibraryTyped
    <2>2. {"release", "fail", "off"} \cap (Mounted \cup Unreported) = {}
      BY DEF Mounted, Unreported
    <2> QED
      BY <2>1, <2>2, OthersKept, TapesKept
  <1> QED
    BY <1>1, <1>2, <1>3, <1>4, <1>5, <1>6 DEF MakeTape

LEMMA TapeInvariant ==
    ASSUME FreshTapes, NoCrash
    PROVE  Spec => []TapeInv
  <1>1. Init => TapeInv
    BY DEF Init, TapeInv, LibraryIsOnTape, Mounted, Unreported
  <1>2. ASSUME Typed, TapeInv, [Next]_vars
        PROVE  TapeInv'
    <2>1. CASE UNCHANGED vars
      <3>1. UNCHANGED <<owner, pc, task, copy, readonly, libraryVars, data>>
        BY <2>1 DEF vars, storeVars, workerVars
      <3> QED
        BY <1>2, <3>1, TapesKept DEF OwnersKept
    <2>2. CASE StoreNext /\ UNCHANGED <<workerVars, libraryVars, data, crashes>>
      <3>1. OwnersKept /\ UNCHANGED <<pc, task, copy, readonly>>
        BY <1>2, <2>2, StoreOwners DEF workerVars
      <3> QED
        BY <1>2, <2>2, <3>1, TapesKept
    <2>3. ASSUME NEW c \in Clients, Dispatch(c)
          PROVE  TapeInv'
      <3>1. OwnersKept /\ UNCHANGED <<copy, readonly, libraryVars, data>>
        BY <1>2, <2>3, DispatchWorkers
      <3>2. CASE UNCHANGED <<pc, task>>
        BY <1>2, <3>1, <3>2, TapesKept
      <3>3. ASSUME NEW w \in Workers,
                   pc[w] = "off", pc'[w] = "occupy",
                   \A v \in Workers : v # w => pc'[v] = pc[v] /\ task'[v] = task[v],
                   \A v \in Workers : pc[v] # "off" => task[v].tape # task'[w].tape,
                   task'[w].tape \notin tapes
            PROVE  TapeInv'
        <4>1. /\ UNCHANGED <<tapes, position, data>>
              /\ "off" \notin Mounted /\ "occupy" \notin Mounted
          BY <3>1 DEF libraryVars, Mounted
        <4>2. \A u, v \in Workers :
                pc'[u] # "off" /\ pc'[v] # "off" /\ task'[u].tape = task'[v].tape => u = v
          BY <1>2, <3>3 DEF TapeInv
        <4>3. \A v \in Workers : pc'[v] \in Unreported => task'[v].tape \notin tapes'
          BY <1>2, <3>3, <4>1 DEF TapeInv
        <4>4. ASSUME NEW v \in Workers, pc[v] \in Mounted \/ pc'[v] \in Mounted
              PROVE  /\ pc[v] \in Mounted /\ pc'[v] \in Mounted /\ task'[v] = task[v]
                     /\ Files(v, {"good", "unhashed"})' = Files(v, {"good", "unhashed"})
          BY <1>2, <3>1, <3>3, <4>1, <4>4, FilesKept
        <4>5. \A v \in Workers : pc'[v] \in Mounted => Carries(v)'
          BY <1>2, <3>1, <4>1, <4>4 DEF TapeInv, Carries
        <4>6. \A t \in Tapes \ tapes' : position'[t] = {}
          BY <1>2, <4>1 DEF TapeInv
        <4>7. ASSUME NEW t \in tapes, NEW f \in position[t], f \notin data[t]
              PROVE  \E v \in Workers :
                        /\ pc'[v] \in Mounted
                        /\ task'[v].tape = t
                        /\ ~ readonly'[v]
                        /\ f \in Files(v, {"good", "unhashed"})'
          <5>1. PICK v \in Workers :
                    /\ pc[v] \in Mounted
                    /\ task[v].tape = t
                    /\ ~ readonly[v]
                    /\ f \in Files(v, {"good", "unhashed"})
            BY <1>2, <4>7 DEF TapeInv, LibraryIsOnTape, OnTape
          <5> QED
            BY <3>1, <4>4, <5>1
        <4>8. LibraryIsOnTape'
          BY <4>1, <4>7 DEF LibraryIsOnTape, OnTape
        <4> QED
          BY <4>2, <4>3, <4>5, <4>6, <4>8 DEF TapeInv
      <3> QED
        BY <1>2, <2>3, <3>2, <3>3, DispatchWorkers DEF FreshTapes
    <2>4. ASSUME NEW w \in Workers, MakeTape(w)
          PROVE  TapeInv'
      BY <1>2, <2>4, MakeTapeTapes
    <2>5. ~ Crash
      BY <1>2 DEF Crash, NoCrash, StoreTyped, WorkersTyped, LibraryTyped
    <2> QED
      BY <1>2, <2>1, <2>2, <2>3, <2>4, <2>5 DEF Next
  <1> QED
    BY <1>1, <1>2, TypedInvariant, PTL DEF Spec

(* Every position of the library is a file the tape's index lists, or will  *)
(* list when the tape is unmounted, whatever fails in makeTape: a tape that *)
(* dropped to readonly is never registered, nor a file that was not copied. *)
THEOREM LibraryMatchesTapes ==
    ASSUME FreshTapes, NoCrash
    PROVE  Spec => []LibraryIsOnTape
  BY TapeInvariant, PTL DEF TapeInv
=============================================================================
