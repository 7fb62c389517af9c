--------------------------- MODULE RestoreJobProofs ---------------------------
(***************************************************************************)
(* Proofs about RestoreJob, for any jobs, tapes and files, any executors,  *)
(* clients, workers and drives, any number of failing saves and restarts.  *)
(***************************************************************************)
EXTENDS RestoreJob, JobStoreProofs

USE JobStoreAssumption, RestoreAssumption

(* What a worker holds exists and belongs to a job. *)
WorkerRefs ==
    \A w \in Workers : pc[w] # "off" =>
        /\ task[w] \in [exe : Executors, dev : Devices, tape : Cartridges]
        /\ owner[task[w].exe] \in Jobs

WorkersTyped ==
    /\ available \subseteq Devices
    /\ pc \in [Workers -> WorkerPCs]
    /\ task \in [Workers -> Task]
    /\ copy \in [Workers -> [FileEntries -> CopyPhases]]
    /\ failed \in [Workers -> BOOLEAN]
    /\ WorkerRefs

(* TypeOK is inductive together with the references. *)
Typed ==
    /\ StoreTyped
    /\ WorkersTyped
    /\ target \in [Jobs -> SUBSET FileEntries]
    /\ crashes \in 0..MaxCrashes

USE DEF Typed

-----------------------------------------------------------------------------
(* Types *)

LEMMA TaskType ==
    ASSUME Typed, NEW w \in Workers, pc[w] # "off"
    PROVE  /\ Exe(w) \in Executors
           /\ owner[Exe(w)] \in Jobs
           /\ mem[Exe(w)] \in Row
           /\ task[w].dev \in Devices
           /\ task[w].tape \in Cartridges
  <1>1. task[w] \in [exe : Executors, dev : Devices, tape : Cartridges] /\ owner[task[w].exe] \in Jobs
    BY DEF WorkersTyped, WorkerRefs
  <1> QED
    BY <1>1 DEF Exe, StoreTyped, StoreTypeOK

LEMMA EntryType ==
    ASSUME NEW row \in Row, NEW i, NEW status \in CopyStatuses
    PROVE  [row EXCEPT !.items[i] = status] \in Row
  BY DEF Row

LEMMA SettledType ==
    ASSUME NEW row \in Row, NEW tape
    PROVE  /\ Settled(row, tape) \in Row
           /\ Settled(row, tape).step = row.step
           /\ Settled(row, tape).status = row.status
  BY DEF Settled, Row, CopyStatuses

LEMMA NothingCopied == NoCopy \in [FileEntries -> CopyPhases]
  BY DEF NoCopy, CopyPhases

LEMMA WorkersKept ==
    ASSUME Typed, UNCHANGED <<available, pc, task, copy, failed>>, OwnersKept
    PROVE  WorkersTyped'
  BY DEF WorkersTyped, WorkerRefs, OwnersKept

LEMMA WorkerMoves ==
    ASSUME Typed, NEW w \in Workers, pc[w] # "off", NEW to \in WorkerPCs,
           Goes(w, to), UNCHANGED failed \/ failed' = [failed EXCEPT ![w] = TRUE],
           UNCHANGED <<task, owner>>,
           available' \subseteq Devices,
           copy' \in [Workers -> [FileEntries -> CopyPhases]]
    PROVE  WorkersTyped'
  BY DEF Goes, WorkersTyped, WorkerRefs

LEMMA WorkerEnds ==
    ASSUME Typed, NEW w \in Workers, Off(w), UNCHANGED <<copy, owner>>,
           available' \subseteq Devices
    PROVE  WorkersTyped'
  <1>1. "off" \in WorkerPCs /\ NoTask \in Task
    BY DEF WorkerPCs, NoTask, Task
  <1>2. /\ pc' \in [Workers -> WorkerPCs]
        /\ task' \in [Workers -> Task]
        /\ failed' \in [Workers -> BOOLEAN]
    BY <1>1 DEF Off, Goes, WorkersTyped
  <1>3. WorkerRefs'
    BY DEF Off, Goes, WorkersTyped, WorkerRefs
  <1> QED
    BY <1>2, <1>3 DEF WorkersTyped

LEMMA StoreNextTyped ==
    ASSUME Typed, StoreNext, UNCHANGED <<workerVars, target, crashes>>
    PROVE  Typed'
  BY StoreNextType, WorkersKept DEF workerVars

LEMMA DispatchTyped ==
    ASSUME Typed, NEW c \in Clients, Dispatch(c)
    PROVE  Typed'
  <1> DEFINE e == client[c].exe
  <1>0. At(c, "dispatch") => e \in Executors /\ owner[e] \in Jobs /\ mem[e] \in Row
    BY DEF At, StoreTyped, StoreTypeOK, ClientRefs
  <1>1. ASSUME NEW w \in Workers, NEW dev \in Devices, NEW tape \in Cartridges,
               DispatchCopying(c, w, dev, tape)
        PROVE  Typed'
    <2> DEFINE row == Switched(mem[e], "COPYING", "PROCESSING")
    <2>1. e \in Executors /\ owner[e] \in Jobs /\ row \in Row
      BY <1>0, <1>1, SwitchedType DEF DispatchCopying, Steps, Statuses
    <2>2. Updates(e, row) /\ Reply(c) /\ UNCHANGED <<owner, cache>>
      BY <1>1 DEF DispatchCopying, Updates
    <2> HIDE DEF row
    <2>3. StoreTyped'
      BY <2>1, <2>2, DispatchedStays
    <2>4. /\ pc' = [pc EXCEPT ![w] = "occupy"]
          /\ task' = [task EXCEPT ![w] = [exe |-> e, dev |-> dev, tape |-> tape]]
          /\ UNCHANGED <<available, copy, failed, target, crashes, owner>>
      BY <1>1 DEF DispatchCopying, Goes
    <2>5. WorkersTyped'
      <3>1. pc' \in [Workers -> WorkerPCs] /\ task' \in [Workers -> Task]
        BY <2>1, <2>4 DEF WorkerPCs, Task, WorkersTyped
      <3>2. WorkerRefs'
        BY <2>1, <2>4 DEF WorkerRefs, WorkersTyped
      <3> QED
        BY <2>4, <3>1, <3>2 DEF WorkersTyped
    <2> QED
      BY <2>3, <2>4, <2>5
  <1>2. ASSUME NEW step \in Steps, NEW status \in Statuses, At(c, "dispatch"),
               Updates(e, Switched(mem[e], step, status)), Reply(c),
               UNCHANGED cache \/ Uncache(owner[e]),
               UNCHANGED <<owner, workerVars, target, crashes>>
        PROVE  Typed'
    <2>1. StoreTyped'
      BY <1>0, <1>2, SwitchedType, DispatchedStays
    <2> QED
      BY <1>2, <2>1, WorkersKept DEF workerVars, OwnersKept
  <1>3. /\ {"COPYING", "WAIT_FOR_TAPE", "FINISHED"} \subseteq Steps
        /\ {"PROCESSING", "PENDING", "COMPLETED"} \subseteq Statuses
    BY DEF Steps, Statuses
  <1>4. CASE DispatchCopyingUnsaved(c)
    BY <1>2, <1>3, <1>4 DEF DispatchCopyingUnsaved, Updates
  <1>5. CASE DispatchRefused(c)
    <2>1. Reply(c) /\ UNCHANGED <<job, owner, mem, cache, faults, workerVars, target, crashes>>
      BY <1>5 DEF DispatchRefused
    <2>2. StoreTyped'
      BY <2>1, ReplyType DEF OwnersKept, StoreTyped, StoreTypeOK, CacheRefs
    <2> QED
      BY <2>1, <2>2, WorkersKept DEF workerVars, OwnersKept
  <1>6. CASE DispatchWait(c)
    BY <1>2, <1>3, <1>6 DEF DispatchWait, WaitForTape
  <1>7. CASE DispatchFinish(c)
    BY <1>2, <1>3, <1>7 DEF DispatchFinish, Finished, Updates
  <1> QED
    BY <1>1, <1>4, <1>5, <1>6, <1>7 DEF Dispatch

LEMMA CopyEventTyped ==
    ASSUME Typed, NEW w \in Workers, NEW f \in FileEntries, NEW phase \in CopyPhases,
           NEW status \in CopyStatuses, CopyEvent(w, f, phase, status),
           UNCHANGED target \/ Lose(w, f) \/ Gain(w, f)
    PROVE  Typed'
  <1> DEFINE e == Exe(w)
             row == [mem[e] EXCEPT !.items[f] = status]
  <1>1. pc[w] # "off"
    BY DEF CopyEvent
  <1>2. e \in Executors /\ owner[e] \in Jobs /\ row \in Row
    BY <1>1, TaskType, EntryType
  <1>3. /\ Updates(e, row)
        /\ copy' = [copy EXCEPT ![w][f] = phase]
        /\ UNCHANGED <<owner, cache, client, available, pc, task, failed, crashes>>
    BY DEF CopyEvent
  <1>4. target' \in [Jobs -> SUBSET FileEntries]
    BY <1>2 DEF Lose, Gain
  <1> HIDE DEF row, e
  <1>5. StoreTyped'
    BY <1>2, <1>3, UpdatesStays
  <1>6. WorkersTyped'
    BY <1>3 DEF WorkersTyped, WorkerRefs
  <1> QED
    BY <1>3, <1>4, <1>5, <1>6

LEMMA RestoreTapeTyped ==
    ASSUME Typed, NEW w \in Workers, RestoreTape(w)
    PROVE  Typed'
  <1> DEFINE e == Exe(w)
  (* a step that leaves the store alone *)
  <1>1. ASSUME NEW to \in WorkerPCs, pc[w] # "off", Goes(w, to) \/ GoesWrong(w, to),
               GoesWrong(w, to) \/ UNCHANGED failed,
               UNCHANGED <<storeVars, task, target, crashes>>,
               available' \subseteq Devices,
               copy' \in [Workers -> [FileEntries -> CopyPhases]]
        PROVE  Typed'
    BY <1>1, WorkerMoves, StoreStays DEF GoesWrong, storeVars
  (* a step that saves a row *)
  <1>2. ASSUME NEW to \in WorkerPCs, pc[w] # "off", Goes(w, to), NEW row \in Row, Updates(e, row),
               UNCHANGED cache \/ Uncache(owner[e]),
               UNCHANGED <<owner, client, available, task, copy, failed, target, crashes>>
        PROVE  Typed'
    <2>1. e \in Executors /\ owner[e] \in Jobs
      BY <1>2, TaskType
    <2>2. cache' \in [Jobs -> Executors \cup {None, Broken}] /\ CacheRefs'
      BY <1>2, <2>1, UncacheType DEF StoreTyped, StoreTypeOK, CacheRefs
    <2>3. StoreTyped'
      BY <1>2, <2>1, <2>2, UpdatesType DEF StoreTyped, StoreTypeOK, ClientRefs
    <2>4. WorkersTyped'
      BY <1>2, WorkerMoves DEF WorkersTyped
    <2> QED
      BY <1>2, <2>3, <2>4
  <1>3. {"readinfo", "start", "copy", "report", "todo", "wait", "complete", "release", "fail"}
            \subseteq WorkerPCs
    BY DEF WorkerPCs
  <1>4. available \subseteq Devices /\ copy \in [Workers -> [FileEntries -> CopyPhases]]
    BY DEF WorkersTyped
  <1>5. CASE Occupy(w)
    BY <1>1, <1>3, <1>4, <1>5 DEF Occupy, TakesDevice
  <1>6. CASE ReadInfo(w)
    <2>1. copy' \in [Workers -> [FileEntries -> CopyPhases]]
      BY <1>4, <1>6 DEF ReadInfo, CopyPhases
    <2> QED
      BY <1>1, <1>3, <1>4, <1>6, <2>1 DEF ReadInfo
  <1>7. CASE Start(w)
    <2>1. "RUNNING" \in CopyStatuses /\ pc[w] # "off"
      BY <1>7 DEF Start, CopyStatuses
    <2>2. [mem[e] EXCEPT !.items[task[w].tape] = "RUNNING"] \in Row
      BY <2>1, TaskType, EntryType
    <2> QED
      BY <1>2, <1>3, <1>7, <2>1, <2>2 DEF Start
  <1>8. ASSUME NEW f \in FileEntries, CopyStarts(w, f) \/ CopyEnds(w, f) \/ CopySkips(w, f)
        PROVE  Typed'
    <2>1. /\ {"pending", "running", "over"} \subseteq CopyPhases
          /\ {"PENDING", "RUNNING", "STAGED", "FAILED", Verdict(TRUE), Verdict(FALSE)} \subseteq CopyStatuses
      BY DEF CopyPhases, CopyStatuses, Verdict
    <2>2. CASE CopyStarts(w, f)
      BY <2>1, <2>2, CopyEventTyped DEF CopyStarts
    <2>3. CASE CopyEnds(w, f)
      BY <2>1, <2>3, CopyEventTyped DEF CopyEnds
    <2>4. CASE CopySkips(w, f)
      <3>1. copy' \in [Workers -> [FileEntries -> CopyPhases]]
        BY <1>4, <2>1, <2>4 DEF CopySkips
      <3>2. UNCHANGED <<storeVars, available, pc, task, failed, target, crashes>>
        BY <2>4 DEF CopySkips
      <3>3. WorkersTyped'
        BY <3>1, <3>2 DEF WorkersTyped, WorkerRefs, storeVars
      <3> QED
        BY <3>2, <3>3, StoreStays
    <2> QED
      BY <1>8, <2>2, <2>3, <2>4
  <1>9. CASE CopyDone(w)
    <2>1. copy' \in [Workers -> [FileEntries -> CopyPhases]]
      BY <1>4, <1>9, NothingCopied DEF CopyDone
    <2> QED
      BY <1>1, <1>3, <1>4, <1>9, <2>1 DEF CopyDone
  <1>10. CASE Report(w)
    <2>1. pc[w] # "off"
      BY <1>10 DEF Report
    <2>2. Settled(mem[e], task[w].tape) \in Row
      BY <2>1, TaskType, SettledType
    <2> QED
      BY <1>2, <1>3, <1>10, <2>1, <2>2 DEF Report
  <1>11. CASE CountTodo(w)
    BY <1>1, <1>3, <1>4, <1>11 DEF CountTodo
  <1>12. ASSUME pc[w] # "off", Goes(w, "release"),
                \/ WaitForTape(e)
                \/ Finished(e)
                \/ UNCHANGED <<job, mem, cache, faults>>,
                UNCHANGED <<owner, client, available, task, copy, failed, target, crashes>>
         PROVE  Typed'
    <2>1. /\ {"WAIT_FOR_TAPE", "FINISHED"} \subseteq Steps
          /\ {"PENDING", "COMPLETED"} \subseteq Statuses
      BY DEF Steps, Statuses
    <2>2. /\ Switched(mem[e], "WAIT_FOR_TAPE", "PENDING") \in Row
          /\ Switched(mem[e], "FINISHED", "COMPLETED") \in Row
      BY <1>12, <2>1, TaskType, SwitchedType
    <2>3. CASE WaitForTape(e)
      BY <1>2, <1>3, <1>12, <2>2, <2>3 DEF WaitForTape
    <2>4. CASE Finished(e)
      BY <1>2, <1>3, <1>12, <2>2, <2>4 DEF Finished, Updates
    <2>5. CASE UNCHANGED <<job, mem, cache, faults>>
      BY <1>1, <1>3, <1>4, <1>12, <2>5 DEF storeVars
    <2> QED
      BY <1>12, <2>3, <2>4, <2>5
  <1>13. CASE FinishWait(w)
    BY <1>12, <1>13 DEF FinishWait
  <1>14. CASE FinishComplete(w)
    BY <1>12, <1>14 DEF FinishComplete
  <1>12a. CASE Release(w)
    <2>1. /\ pc[w] # "off"
          /\ available' = available \cup {task[w].dev}
          /\ UNCHANGED <<storeVars, copy, target, crashes>>
          /\ Off(w) \/ (Goes(w, "fail") /\ UNCHANGED <<task, failed>>)
      BY <1>12a DEF Release, ReturnsDevice
    <2>2. available' \subseteq Devices
      BY <1>4, <2>1, TaskType
    <2>3. CASE Off(w)
      BY <2>1, <2>2, <2>3, WorkerEnds, StoreStays DEF storeVars
    <2>4. CASE Goes(w, "fail") /\ UNCHANGED <<task, failed>>
      BY <1>1, <1>3, <1>4, <2>1, <2>2, <2>4
    <2> QED
      BY <2>1, <2>3, <2>4
  <1>16. CASE MarkFailed(w)
    <2> DEFINE row == [mem[e] EXCEPT !.status = "FAILED"]
    <2>1. /\ pc[w] # "off"
          /\ Updates(e, row)
          /\ Off(w)
          /\ UNCHANGED <<owner, cache, client, available, copy, target, crashes>>
      BY <1>16 DEF MarkFailed
    <2>2. e \in Executors /\ row \in Row
      BY <2>1, TaskType DEF Row, Statuses
    <2> HIDE DEF row, e
    <2> QED
      BY <1>4, <2>1, <2>2, UpdatesStays, WorkerEnds
  <1> QED
    BY <1>5, <1>6, <1>7, <1>8, <1>9, <1>10, <1>11, <1>13, <1>14, <1>12a, <1>16 DEF RestoreTape

LEMMA CrashTyped ==
    ASSUME Typed, Crash
    PROVE  Typed'
  <1>1. StoreTyped'
    BY RestartedType DEF Crash, Restarted
  <1>2. WorkersTyped'
    BY DEF Crash, WorkersTyped, WorkerRefs, WorkerPCs, NoTask, Task, NoCopy, CopyPhases
  <1> QED
    BY <1>1, <1>2 DEF Crash

LEMMA InitTyped ==
    ASSUME Init
    PROVE  Typed
  <1>1. StoreTyped
    BY StoreInitType DEF Init
  <1>2. WorkersTyped
    BY DEF Init, WorkersTyped, WorkerRefs, WorkerPCs, NoTask, Task, NoCopy, CopyPhases
  <1> QED
    BY <1>1, <1>2 DEF Init

LEMMA TypedInvariant == Spec => []Typed
  <1>1. ASSUME Typed, [Next]_vars
        PROVE  Typed'
    <2>1. CASE UNCHANGED vars
      BY <1>1, <2>1, StoreStays, WorkersKept DEF vars, storeVars, workerVars, OwnersKept
    <2>2. CASE Next
      BY <1>1, <2>2, StoreNextTyped, DispatchTyped, RestoreTapeTyped, CrashTyped DEF Next
    <2> QED
      BY <1>1, <2>1, <2>2
  <1> QED
    BY <1>1, InitTyped, PTL DEF Spec

(* Type correctness: the rows, the requests, the workers and what lies at   *)
(* the targets stay in their types whatever clients, workers, failing saves *)
(* and restarts do.                                                         *)
THEOREM TypeCorrect == Spec => []TypeOK
  <1>1. Typed => TypeOK
    BY DEF StoreTyped, WorkersTyped, TypeOK
  <1> QED
    BY <1>1, TypedInvariant, PTL

-----------------------------------------------------------------------------
(* A tape is in one drive, and the worker that has it is the only one that  *)
(* touches the entries of that tape.                                        *)

Entries(t) == Lists[t] \cup {t}

(* from the mount of the tape to the report about it *)
AtWork == {"start", "copy", "report"}

OneTapeEach ==
    \A v, w \in Workers :
        pc[v] # "off" /\ pc[w] # "off" /\ task[v].tape = task[w].tape => v = w

(* What the worker is busy with is not restored: neither the tape nor any   *)
(* file the copier still has to do.                                         *)
Wants(w) ==
    LET row == mem[Exe(w)]
        tape == task[w].tape
    IN  /\ tape \in TapeEntries
        /\ row.items[tape] # "SUBMITED"
        /\ \A f \in FileEntries : copy[w][f] \in {"queued", "pending", "running"} =>
                f \in Lists[tape] /\ row.items[f] # "SUBMITED"

AtTape == \A w \in Workers : pc[w] \in AtWork => Wants(w)

Tapes == OneTapeEach /\ AtTape

LEMMA EntriesApart ==
    /\ \A t \in TapeEntries : Entries(t) \subseteq Items /\ t \notin FileEntries /\ t \notin Lists[t]
    /\ \A s, t \in TapeEntries : s # t => Entries(s) \cap Entries(t) = {}
  <1>1. ASSUME NEW t \in TapeEntries
        PROVE  t \in Items /\ t \notin FileEntries /\ Lists[t] \subseteq FileEntries
    BY DEF FileEntries
  <1>2. \A s, t \in TapeEntries : s # t => Lists[s] \cap Lists[t] = {}
    OBVIOUS
  <1>3. FileEntries \subseteq Items
    BY DEF FileEntries
  <1> QED
    BY ONLY <1>1, <1>2, <1>3 DEF Entries

(* The report submits what is staged of one tape, and that tape exactly     *)
(* when all its files are submitted.                                        *)
LEMMA SettledMarks ==
    ASSUME NEW row \in Row, NEW tape \in TapeEntries, NEW new, new = Settled(row, tape)
    PROVE  /\ \A i \in Items : i \notin Entries(tape) => new.items[i] = row.items[i]
           /\ \A f \in Lists[tape] :
                new.items[f] = IF row.items[f] \in {"STAGED", "SUBMITED"} THEN "SUBMITED"
                                                                      ELSE row.items[f]
           /\ new.items[tape] = "SUBMITED"
                <=> \A f \in Lists[tape] : new.items[f] = "SUBMITED"
  <1> DEFINE done == {f \in Lists[tape] : row.items[f] \in {"STAGED", "SUBMITED"}}
  <1>1. \A i \in Items : new.items[i] = IF i \in done THEN "SUBMITED"
                                         ELSE IF i # tape THEN row.items[i]
                                         ELSE IF done = Lists[tape] THEN "SUBMITED" ELSE "FAILED"
    BY DEF Settled, Row
  <1>2. tape \in Items /\ tape \notin Lists[tape] /\ Lists[tape] \subseteq Items
    BY EntriesApart DEF Entries
  <1>3. \A f \in Lists[tape] :
            new.items[f] = IF row.items[f] \in {"STAGED", "SUBMITED"} THEN "SUBMITED" ELSE row.items[f]
    BY <1>1, <1>2
  <1>4. new.items[tape] = IF done = Lists[tape] THEN "SUBMITED" ELSE "FAILED"
    BY <1>1, <1>2
  <1>5. \A i \in Items : i \notin Entries(tape) => new.items[i] = row.items[i]
    BY <1>1 DEF Entries
  <1>6. done = Lists[tape] <=> \A f \in Lists[tape] : new.items[f] = "SUBMITED"
    BY <1>3
  <1>7. new.items[tape] = "SUBMITED" <=> \A f \in Lists[tape] : new.items[f] = "SUBMITED"
    BY <1>4, <1>6
  <1> QED
    BY <1>3, <1>5, <1>7

(* A row that says more of the entries of w's tape, and takes back nothing. *)
Marked(w, row) ==
    /\ row.step = mem[Exe(w)].step
    /\ IF pc[w] = "fail" THEN row.status = "FAILED"
                         ELSE pc[w] \in AtWork /\ row.status = mem[Exe(w)].status
    /\ \A i \in Items :
        \/ row.items[i] = mem[Exe(w)].items[i]
        \/ pc[w] \in AtWork /\ i \in Entries(task[w].tape) /\ mem[Exe(w)].items[i] # "SUBMITED"
    /\ pc[w] \in AtWork /\ row.items[task[w].tape] = "SUBMITED" =>
            \A f \in Lists[task[w].tape] : row.items[f] = "SUBMITED"

(* What a worker does to the store: nothing, a dispatch, or such a row. *)
WorkerWrites(w) ==
    /\ pc[w] # "off"
    /\ UNCHANGED <<owner, client, crashes>>
    /\ pc'[w] # "off" => task'[w] = task[w]
    /\ \A v \in Workers : v # w =>
            pc'[v] = pc[v] /\ task'[v] = task[v] /\ copy'[v] = copy[v] /\ failed'[v] = failed[v]
    /\ \/ UNCHANGED <<job, mem, cache, faults>>
       \/ pc[w] = "wait" /\ WaitForTape(Exe(w))
       \/ pc[w] = "complete" /\ Finished(Exe(w))
       \/ /\ \E row \in Row : Marked(w, row) /\ Updates(Exe(w), row)
          /\ UNCHANGED cache

LEMMA RestoreTapeWrites ==
    ASSUME Typed, AtTape, NEW w \in Workers, RestoreTape(w)
    PROVE  WorkerWrites(w)
  <1> DEFINE e == Exe(w)
             tape == task[w].tape
  <1>1. pc[w] # "off"
    BY DEF RestoreTape, Occupy, ReadInfo, Start, CopyStarts, CopyEnds, CopyEvent, CopySkips, CopyDone,
           Report, CountTodo, FinishWait, FinishComplete, Release, MarkFailed
  <1>2. e \in Executors /\ owner[e] \in Jobs /\ mem[e] \in Row
    BY <1>1, TaskType
  <1>3. CASE Occupy(w) \/ ReadInfo(w) \/ CopyDone(w) \/ CountTodo(w) \/ Release(w)
            \/ \E f \in FileEntries : CopySkips(w, f)
    BY <1>1, <1>3 DEF Occupy, ReadInfo, CopyDone, CountTodo, Release, CopySkips, Goes, GoesWrong, Off,
                      storeVars, WorkerWrites, WorkersTyped
  <1>4. CASE FinishWait(w) \/ FinishComplete(w)
    BY <1>1, <1>4 DEF FinishWait, FinishComplete, Goes, WorkerWrites, WorkersTyped
  <1>5. ASSUME NEW row \in Row, Updates(e, row), Marked(w, row), Goes(w, "copy") \/ Goes(w, "todo"),
               UNCHANGED <<owner, cache, client, available, task, copy, failed, target, crashes>>
        PROVE  WorkerWrites(w)
    BY <1>1, <1>5 DEF Goes, WorkerWrites, WorkersTyped
  <1>6. CASE Start(w)
    <2> DEFINE row == [mem[e] EXCEPT !.items[tape] = "RUNNING"]
    <2>1. row \in Row
      BY <1>2, EntryType DEF CopyStatuses
    <2>2. Marked(w, row)
      <3>1. tape \in TapeEntries /\ mem[e].items[tape] # "SUBMITED" /\ pc[w] \in AtWork
        BY <1>6 DEF Start, AtWork, AtTape, Wants
      <3>2. tape \in Items
        BY <3>1, EntriesApart DEF Entries
      <3>3. row.step = mem[e].step /\ row.status = mem[e].status
            /\ \A i \in Items : row.items[i] = IF i = tape THEN "RUNNING" ELSE mem[e].items[i]
        BY <1>2 DEF Row
      <3> HIDE DEF row
      <3> QED
        BY <3>1, <3>2, <3>3 DEF Marked, Entries, AtWork
    <2> QED
      BY <1>5, <1>6, <2>1, <2>2 DEF Start
  <1>7. CASE Report(w)
    <2> DEFINE row == Settled(mem[e], tape)
    <2>1. row \in Row /\ row.step = mem[e].step /\ row.status = mem[e].status
          /\ row = Settled(mem[e], tape)
      BY <1>2, SettledType
    <2>2. tape \in TapeEntries /\ mem[e].items[tape] # "SUBMITED" /\ pc[w] \in AtWork
      BY <1>7 DEF Report, AtWork, AtTape, Wants
    <2> HIDE DEF row
    <2>3. \A i \in Items : row.items[i] = mem[e].items[i]
                           \/ (i \in Entries(tape) /\ mem[e].items[i] # "SUBMITED")
      <3>1. mem[e] \in Row /\ tape \in TapeEntries /\ row = Settled(mem[e], tape)
        BY <1>2, <2>1, <2>2
      <3>2. \A i \in Items : i \notin Entries(tape) => row.items[i] = mem[e].items[i]
        BY ONLY <3>1, SettledMarks
      <3>3. \A f \in Lists[tape] :
                row.items[f] = IF mem[e].items[f] \in {"STAGED", "SUBMITED"} THEN "SUBMITED"
                                                                         ELSE mem[e].items[f]
        BY ONLY <3>1, SettledMarks
      <3> QED
        BY <2>2, <3>2, <3>3 DEF Entries
    <2>4. Marked(w, row)
      <3>1. mem[e] \in Row /\ tape \in TapeEntries /\ row = Settled(mem[e], tape)
        BY <1>2, <2>1, <2>2
      <3>2. row.items[tape] = "SUBMITED" => \A f \in Lists[tape] : row.items[f] = "SUBMITED"
        BY ONLY <3>1, SettledMarks
      <3> QED
        BY <2>1, <2>2, <2>3, <3>2 DEF Marked, AtWork
    <2> QED
      BY <1>5, <1>7, <2>1, <2>4 DEF Report, row
  <1>8. ASSUME NEW f \in FileEntries, CopyStarts(w, f) \/ CopyEnds(w, f)
        PROVE  WorkerWrites(w)
    <2>1. PICK phase \in CopyPhases, status \in CopyStatuses : CopyEvent(w, f, phase, status)
      BY <1>8 DEF CopyStarts, CopyEnds, CopyPhases, CopyStatuses, Verdict
    <2> DEFINE row == [mem[e] EXCEPT !.items[f] = status]
    <2>2. row \in Row
      BY <1>2, EntryType
    <2>3. f \in Lists[tape] /\ mem[e].items[f] # "SUBMITED" /\ pc[w] \in AtWork
      BY <1>8, <2>1 DEF CopyStarts, CopyEnds, CopyEvent, AtWork, AtTape, Wants
    <2>4. Marked(w, row)
      <3>1. tape \in TapeEntries /\ mem[e].items[tape] # "SUBMITED" /\ f # tape /\ tape \in Items
        <4>1. tape \in TapeEntries /\ mem[e].items[tape] # "SUBMITED"
          BY <2>3 DEF AtTape, Wants
        <4>2. tape \notin Lists[tape] /\ tape \in Items
          BY <4>1, EntriesApart DEF Entries
        <4> QED
          BY <2>3, <4>1, <4>2
      <3>2. row.step = mem[e].step /\ row.status = mem[e].status
            /\ \A i \in Items : row.items[i] = IF i = f THEN status ELSE mem[e].items[i]
        BY <1>2 DEF Row
      <3> HIDE DEF row
      <3> QED
        BY <2>3, <3>1, <3>2 DEF Marked, Entries, AtWork
    <2>5. Updates(e, row) /\ UNCHANGED <<owner, cache, client, available, pc, task, failed, crashes>>
      BY <2>1 DEF CopyEvent
    <2>6. \A v \in Workers : v # w => copy'[v] = copy[v]
      BY <2>1 DEF CopyEvent, WorkersTyped
    <2> HIDE DEF row
    <2> QED
      BY <1>1, <2>2, <2>4, <2>5, <2>6 DEF WorkerWrites
  <1>9. CASE MarkFailed(w)
    <2> DEFINE row == [mem[e] EXCEPT !.status = "FAILED"]
    <2>1. row \in Row /\ Marked(w, row)
      BY <1>2, <1>9 DEF MarkFailed, Marked, AtWork, Row, Statuses
    <2>2. Updates(e, row) /\ Off(w) /\ UNCHANGED <<owner, cache, client, copy, crashes>>
      BY <1>9 DEF MarkFailed
    <2> HIDE DEF row
    <2> QED
      BY <1>1, <2>1, <2>2 DEF Off, Goes, WorkerWrites, WorkersTyped
  <1> QED
    BY <1>3, <1>4, <1>6, <1>7, <1>8, <1>9 DEF RestoreTape

-----------------------------------------------------------------------------
(* What a dispatch does: nothing, a change of step, or a worker that starts *)
(* with a cartridge nobody else has.                                        *)
DispatchWrites(c) ==
    LET e == client[c].exe
    IN  /\ e \in Executors
        /\ owner[e] \in Jobs
        /\ Reply(c)
        /\ UNCHANGED <<owner, available, copy, failed, target, crashes>>
        /\ \/ UNCHANGED <<job, mem, cache, faults, pc, task>>
           \/ (WaitForTape(e) \/ Finished(e)) /\ UNCHANGED <<pc, task>>
           \/ /\ MayCopy(mem[e])
              /\ UNCHANGED cache
              /\ \/ /\ FailsToSave(e, Switched(mem[e], "COPYING", "PROCESSING"))
                    /\ UNCHANGED <<pc, task>>
                 \/ /\ Saves(e, Switched(mem[e], "COPYING", "PROCESSING"))
                    /\ \E w \in Workers, dev \in Devices, tape \in Cartridges :
                        /\ pc[w] = "off"
                        /\ pc' = [pc EXCEPT ![w] = "occupy"]
                        /\ task' = [task EXCEPT ![w] = [exe |-> e, dev |-> dev, tape |-> tape]]
                        /\ \A v \in Workers : pc[v] # "off" => task[v].tape # tape

LEMMA DispatchIs ==
    ASSUME Typed, NEW c \in Clients, Dispatch(c)
    PROVE  DispatchWrites(c) /\ SameItems
  <1> DEFINE e == client[c].exe
  <1>0. At(c, "dispatch") => e \in Executors /\ owner[e] \in Jobs
    BY DEF At, StoreTyped, ClientRefs
  <1>1. DispatchWrites(c)
    <2>1. ASSUME NEW w \in Workers, NEW dev \in Devices, NEW tape \in Cartridges,
                 DispatchCopying(c, w, dev, tape)
          PROVE  DispatchWrites(c)
      BY <1>0, <2>1 DEF DispatchCopying, DispatchWrites, Goes
    <2>2. CASE DispatchCopyingUnsaved(c)
      BY <1>0, <2>2 DEF DispatchCopyingUnsaved, DispatchWrites, workerVars
    <2>3. CASE DispatchRefused(c)
      BY <1>0, <2>3 DEF DispatchRefused, DispatchWrites, workerVars
    <2>4. CASE DispatchWait(c) \/ DispatchFinish(c)
      BY <1>0, <2>4 DEF DispatchWait, DispatchFinish, DispatchWrites, workerVars
    <2> QED
      BY <2>1, <2>2, <2>3, <2>4 DEF Dispatch
  <1>2. e \in Executors /\ owner[e] \in Jobs
    BY <1>1 DEF DispatchWrites
  <1>3. CASE UNCHANGED <<job, mem>>
    BY <1>1, <1>3 DEF SameItems
  <1>4. CASE WaitForTape(e) \/ Finished(e)
    BY <1>1, <1>2, <1>4, DispatchItems
  <1>5. CASE Updates(e, Switched(mem[e], "COPYING", "PROCESSING"))
    BY <1>1, <1>2, <1>5, SwitchedItems DEF Steps, Statuses
  <1> QED
    BY <1>1, <1>3, <1>4, <1>5 DEF DispatchWrites, Updates

LEMMA StillWants ==
    ASSUME Tapes, NEW v \in Workers, pc[v] \in AtWork,
           task'[v] = task[v], copy'[v] = copy[v],
           \A i \in Entries(task[v].tape) :
                mem'[Exe(v)].items[i] # "SUBMITED" \/ mem'[Exe(v)].items[i] = mem[Exe(v)].items[i]
    PROVE  Wants(v)'
  BY DEF Tapes, AtTape, Wants, Exe, Entries

(* A step keeps the tapes apart that starts no worker and changes no task   *)
(* but to end it.                                                           *)
LEMMA TapesKept ==
    ASSUME Tapes, \A v \in Workers : pc'[v] # "off" => pc[v] # "off" /\ task'[v] = task[v]
    PROVE  OneTapeEach'
  BY DEF Tapes, OneTapeEach

LEMMA StoreNextTapes ==
    ASSUME Typed, Tapes, StoreNext, UNCHANGED <<workerVars, target, crashes>>
    PROVE  Tapes'
  <1>1. OneTapeEach'
    BY TapesKept DEF workerVars
  <1>2. ASSUME NEW v \in Workers, pc[v] \in AtWork
        PROVE  Wants(v)'
    <2>1. Exe(v) \in Executors /\ owner[Exe(v)] \in Jobs /\ Entries(task[v].tape) \subseteq Items
      BY <1>2, TaskType, EntriesApart DEF AtWork, Tapes, AtTape, Wants
    <2>2. \A i \in Items : AllPending[i] # "SUBMITED"
      BY DEF AllPending
    <2>3. mem'[Exe(v)].items \in {mem[Exe(v)].items, AllPending}
      BY <2>1, RequestItems
    <2> QED
      BY <1>2, <2>1, <2>2, <2>3, StillWants DEF workerVars
  <1> QED
    BY <1>1, <1>2 DEF Tapes, AtTape, workerVars

LEMMA DispatchTapes ==
    ASSUME Typed, Tapes, NEW c \in Clients, Dispatch(c)
    PROVE  Tapes'
  <1>1. DispatchWrites(c) /\ SameItems
    BY DispatchIs
  <1>2. ASSUME NEW v \in Workers, pc'[v] \in AtWork
        PROVE  pc[v] = pc'[v] /\ task'[v] = task[v] /\ copy'[v] = copy[v]
    BY <1>1, <1>2 DEF DispatchWrites, AtWork, WorkersTyped
  <1>3. AtTape'
    <2> SUFFICES ASSUME NEW v \in Workers, pc'[v] \in AtWork
                 PROVE  Wants(v)'
      BY DEF AtTape
    <2>1. Exe(v) \in Executors
      BY <1>2, TaskType DEF AtWork
    <2>2. mem'[Exe(v)].items = mem[Exe(v)].items
      BY <1>1, <2>1 DEF SameItems
    <2> QED
      BY <1>2, <2>2, StillWants
  <1>4. OneTapeEach'
    <2>1. CASE UNCHANGED <<pc, task>>
      BY <2>1, TapesKept
    <2>2. ASSUME NEW w \in Workers, NEW tape, NEW e, NEW dev, pc[w] = "off",
                 pc' = [pc EXCEPT ![w] = "occupy"],
                 task' = [task EXCEPT ![w] = [exe |-> e, dev |-> dev, tape |-> tape]],
                 \A v \in Workers : pc[v] # "off" => task[v].tape # tape
          PROVE  OneTapeEach'
      BY <2>2 DEF Tapes, OneTapeEach, WorkersTyped
    <2> QED
      BY <1>1, <2>1, <2>2 DEF DispatchWrites
  <1> QED
    BY <1>3, <1>4 DEF Tapes

LEMMA RestoreTapeTapes ==
    ASSUME Typed, Tapes, NEW w \in Workers, RestoreTape(w)
    PROVE  Tapes'
  <1> DEFINE e == Exe(w)
             tape == task[w].tape
  <1>1. WorkerWrites(w)
    BY RestoreTapeWrites DEF Tapes
  <1>2. pc[w] # "off" /\ e \in Executors /\ owner[e] \in Jobs /\ mem[e] \in Row /\ tape \in Cartridges
    BY <1>1, TaskType DEF WorkerWrites
  <1>3. OneTapeEach'
    BY <1>1, TapesKept DEF WorkerWrites
  (* the items of the worker's executor change; those of the others do not *)
  <1> DEFINE OwnItems ==
                /\ \A f \in Executors : f # e => mem'[f] = mem[f]
                /\ \A i \in Items :
                    \/ mem'[e].items[i] = mem[e].items[i]
                    \/ pc[w] \in AtWork /\ i \in Entries(tape) /\ mem[e].items[i] # "SUBMITED"
  <1>4. OwnItems
    <2>1. CASE UNCHANGED mem
      BY <2>1
    <2>2. CASE WaitForTape(e) \/ Finished(e)
      <3>1. SameItems
        BY <1>2, <2>2, DispatchItems
      <3>2. \A f \in Executors : f # e => mem'[f] = mem[f]
        BY <2>2 DEF WaitForTape, Finished, Updates, Saves, FailsToSave, StoreTyped, StoreTypeOK
      <3> QED
        BY <1>2, <3>1, <3>2 DEF SameItems
    <2>3. ASSUME NEW row \in Row, Marked(w, row), Updates(e, row)
          PROVE  OwnItems
      BY <1>2, <2>3, UpdatesEffect DEF Marked
    <2> QED
      BY <1>1, <2>1, <2>2, <2>3 DEF WorkerWrites
  <1>5. ASSUME NEW v \in Workers, v # w, pc'[v] \in AtWork
        PROVE  Wants(v)'
    <2>1. pc[v] = pc'[v] /\ task'[v] = task[v] /\ copy'[v] = copy[v]
      BY <1>1, <1>5 DEF WorkerWrites
    <2>2. Exe(v) \in Executors /\ task[v].tape \in TapeEntries
      BY <1>5, <2>1, TaskType DEF Tapes, AtTape, Wants, AtWork
    <2>3. pc[w] \in AtWork => tape \in TapeEntries /\ tape # task[v].tape
      BY <1>2, <1>5, <2>1 DEF Tapes, AtTape, Wants, OneTapeEach, AtWork
    <2>4. \A i \in Entries(task[v].tape) :
            i \in Items /\ (pc[w] \in AtWork => i \notin Entries(tape))
      BY <2>2, <2>3, EntriesApart
    <2>5. \A i \in Entries(task[v].tape) : mem'[Exe(v)].items[i] = mem[Exe(v)].items[i]
      BY <1>4, <2>2, <2>4
    <2> QED
      BY <1>5, <2>1, <2>5, StillWants
  <1>6. ASSUME pc'[w] \in AtWork
        PROVE  Wants(w)'
    <2>1. CASE ReadInfo(w)
      <3>1. /\ Accepts(mem[e], tape)
            /\ copy' = [copy EXCEPT ![w] = [f \in FileEntries |->
                            IF f \in Wanted(mem[e], tape) THEN "queued" ELSE "out"]]
            /\ UNCHANGED <<mem, task>>
        BY <1>6, <2>1 DEF ReadInfo, Goes, GoesWrong, AtWork, WorkersTyped, storeVars
      <3>2. \A f \in FileEntries : copy'[w][f] \in {"queued", "pending", "running"} =>
                                        f \in Wanted(mem[e], tape)
        BY <3>1 DEF WorkersTyped
      <3> QED
        BY <3>1, <3>2 DEF Accepts, Wanted, Submited, Wants, Exe, FileEntries
    <2>2. CASE Start(w)
      <3>1. /\ mem' = [mem EXCEPT ![e] = [mem[e] EXCEPT !.items[tape] = "RUNNING"]]
            /\ UNCHANGED <<task, copy>>
            /\ Wants(w)
        BY <2>2 DEF Start, Updates, Saves, FailsToSave, Tapes, AtTape, AtWork
      <3>2. tape \in Items
        BY <3>1, EntriesApart DEF Wants, Entries
      <3>3. \A i \in Items : mem'[e].items[i] = IF i = tape THEN "RUNNING" ELSE mem[e].items[i]
        BY <1>2, <3>1, <3>2 DEF Row, StoreTyped, StoreTypeOK
      <3> QED
        BY <3>1, <3>2, <3>3 DEF Wants, Exe, FileEntries
    <2>3. ASSUME NEW f \in FileEntries, NEW phase \in CopyPhases, NEW status \in CopyStatuses,
                 status # "SUBMITED", copy[w][f] \in {"queued", "pending", "running"},
                 CopyEvent(w, f, phase, status)
          PROVE  Wants(w)'
      <3>1. /\ mem' = [mem EXCEPT ![e] = [mem[e] EXCEPT !.items[f] = status]]
            /\ copy' = [copy EXCEPT ![w][f] = phase]
            /\ UNCHANGED task
            /\ Wants(w)
        BY <2>3 DEF CopyEvent, Updates, Saves, FailsToSave, Tapes, AtTape, AtWork
      <3>2. \A i \in Items : mem'[e].items[i] = IF i = f THEN status ELSE mem[e].items[i]
        BY <1>2, <3>1 DEF Row, StoreTyped, StoreTypeOK
      <3>3. \A g \in FileEntries : copy'[w][g] = IF g = f THEN phase ELSE copy[w][g]
        BY <3>1 DEF WorkersTyped
      <3>4. tape \in TapeEntries /\ tape \in Items /\ f \in Lists[tape] /\ f # tape
        BY <2>3, <3>1, EntriesApart DEF Wants, Entries
      <3> QED
        BY <2>3, <3>1, <3>2, <3>3, <3>4 DEF Wants, Exe, FileEntries
    <2>4. ASSUME NEW f \in FileEntries, CopyStarts(w, f) \/ CopyEnds(w, f) \/ CopySkips(w, f)
          PROVE  Wants(w)'
      <3>1. CASE CopySkips(w, f)
        BY <3>1 DEF CopySkips, Tapes, AtTape, AtWork, Wants, Exe, WorkersTyped, storeVars
      <3>2. CASE CopyStarts(w, f) \/ CopyEnds(w, f)
        BY <2>3, <3>2 DEF CopyStarts, CopyEnds, Verdict, CopyPhases, CopyStatuses
      <3> QED
        BY <2>4, <3>1, <3>2
    <2>5. CASE CopyDone(w)
      <3>1. copy' = [copy EXCEPT ![w] = NoCopy] /\ UNCHANGED <<mem, task>> /\ Wants(w)
        BY <2>5 DEF CopyDone, Tapes, AtTape, AtWork, storeVars
      <3>2. \A f \in FileEntries : copy'[w][f] = "out"
        BY <3>1 DEF WorkersTyped, NoCopy
      <3> QED
        BY <3>1, <3>2 DEF Wants, Exe
    <2>6. ~ (Occupy(w) \/ Report(w) \/ CountTodo(w) \/ FinishWait(w) \/ FinishComplete(w)
                \/ Release(w) \/ MarkFailed(w))
      BY <1>6 DEF Occupy, Report, CountTodo, FinishWait, FinishComplete, Release, MarkFailed, Off,
                  Goes, GoesWrong, AtWork, WorkersTyped
    <2> QED
      BY <2>1, <2>2, <2>4, <2>5, <2>6 DEF RestoreTape
  <1> QED
    BY <1>3, <1>5, <1>6 DEF Tapes, AtTape

LEMMA TapesInvariant == Spec => [](Typed /\ Tapes)
  <1>1. Init => Tapes
    BY DEF Init, Tapes, OneTapeEach, AtTape, AtWork
  <1>2. ASSUME Typed, Tapes, [Next]_vars
        PROVE  Tapes'
    <2>1. CASE UNCHANGED vars
      BY <1>2, <2>1 DEF vars, storeVars, workerVars, Tapes, OneTapeEach, AtTape, Wants, Exe
    <2>2. CASE Crash
      BY <2>2 DEF Crash, Tapes, OneTapeEach, AtTape, AtWork
    <2> QED
      BY <1>2, <2>1, <2>2, StoreNextTapes, DispatchTapes, RestoreTapeTapes DEF Next
  <1> QED
    BY <1>1, <1>2, TypedInvariant, PTL DEF Spec

-----------------------------------------------------------------------------
(* Restored tapes are whole                                                 *)

Whole(items) ==
    \A t \in TapeEntries : items[t] = "SUBMITED" => \A f \in Lists[t] : items[f] = "SUBMITED"

AllWhole ==
    /\ NobodyRolls
    /\ \A items \in ItemLists : Whole(items)

LEMMA PendingIsWhole == Whole(AllPending)
  BY EntriesApart DEF Whole, AllPending, Entries

LEMMA WholeMoved ==
    ASSUME AllWhole, NobodyRolls', ItemLists' \subseteq ItemLists \cup {AllPending}
    PROVE  AllWhole'
  BY PendingIsWhole DEF AllWhole, Whole

(* A client gets its answer, and rows move about. *)
LEMMA WholeReplied ==
    ASSUME Typed, AllWhole, SameItems, NEW c \in Clients, Reply(c)
    PROVE  AllWhole'
  <1>1. Idle.view.items = AllPending /\ Idle.read.items = AllPending /\ Idle.pc = "idle"
    BY DEF Idle, NoRow
  <1>2. client'[c] = Idle /\ \A d \in Clients : d # c => client'[d] = client[d]
    BY DEF Reply, Become, StoreTyped, StoreTypeOK
  <1>3. NobodyRolls'
    BY <1>1, <1>2 DEF AllWhole, NobodyRolls, At
  <1>4. ItemLists' \subseteq ItemLists \cup {AllPending}
    BY <1>1, <1>2, RowsListed, RowsMoved DEF SameItems
  <1> QED
    BY <1>3, <1>4, WholeMoved

LEMMA WorkersWhole ==
    ASSUME Typed, Tapes, AllWhole, NEW w \in Workers, RestoreTape(w)
    PROVE  AllWhole'
  <1> DEFINE e == Exe(w)
             tape == task[w].tape
  <1>1. WorkerWrites(w)
    BY RestoreTapeWrites DEF Tapes
  <1>2. e \in Executors /\ owner[e] \in Jobs /\ mem[e] \in Row /\ UNCHANGED client
    BY <1>1, TaskType DEF WorkerWrites
  <1>3. ASSUME SameItems
        PROVE  AllWhole'
    <2>1. NobodyRolls'
      BY <1>2 DEF AllWhole, NobodyRolls, At
    <2>2. ItemLists' \subseteq ItemLists \cup {AllPending}
      BY <1>2, <1>3, RowsListed, RowsMoved DEF SameItems
    <2> QED
      BY <2>1, <2>2, WholeMoved
  <1>4. CASE UNCHANGED <<job, mem>>
    BY <1>3, <1>4 DEF SameItems
  <1>5. CASE WaitForTape(e) \/ Finished(e)
    BY <1>2, <1>3, <1>5, DispatchItems
  <1>6. ASSUME NEW row \in Row, Marked(w, row), Updates(e, row)
        PROVE  AllWhole'
    <2>1. Whole(mem[e].items)
      BY <1>2, RowsListed DEF AllWhole
    <2>2. Whole(row.items)
      <3> SUFFICES ASSUME NEW t \in TapeEntries, row.items[t] = "SUBMITED", NEW f \in Lists[t]
                   PROVE  row.items[f] = "SUBMITED"
        BY DEF Whole
      <3>1. t \in Items /\ f \in Items /\ t \in Entries(t) /\ f \in Entries(t)
        BY EntriesApart DEF Entries
      <3>2. CASE pc[w] \in AtWork /\ t = tape
        BY <1>6, <3>2 DEF Marked
      <3>3. CASE ~ (pc[w] \in AtWork /\ t = tape)
        <4>1. pc[w] \in AtWork => t \notin Entries(tape) /\ f \notin Entries(tape)
          BY <3>1, <3>3, EntriesApart DEF Tapes, AtTape, Wants
        <4>2. row.items[t] = mem[e].items[t] /\ row.items[f] = mem[e].items[f]
          BY <1>6, <3>1, <4>1 DEF Marked
        <4> QED
          BY <2>1, <4>2 DEF Whole
      <3> QED
        BY <3>2, <3>3
    <2>3. \A items \in ItemLists' : items \in ItemLists \cup {row.items}
      BY <1>2, <1>6, UpdatesEffect DEF ItemLists
    <2>4. NobodyRolls'
      BY <1>2 DEF AllWhole, NobodyRolls, At
    <2> QED
      BY <2>2, <2>3, <2>4 DEF AllWhole, Whole
  <1> QED
    BY <1>1, <1>4, <1>5, <1>6 DEF WorkerWrites

LEMMA WholeInvariant ==
    ASSUME "rollback" \notin Ops
    PROVE  Spec => [](Typed /\ Tapes /\ AllWhole)
  <1>1. ASSUME Init
        PROVE  AllWhole
    <2>1. \A items \in ItemLists : items = AllPending
      <3>1. /\ NoRow.items = AllPending /\ ReadyRow.items = AllPending
            /\ Idle.view = NoRow /\ Idle.read = NoRow
        BY DEF ReadyRow, NewRow, NoRow, Idle
      <3>2. \A j \in Jobs : job[j].items = AllPending
        BY <1>1, <3>1 DEF Init, StoreInit
      <3> QED
        BY <1>1, <3>1, <3>2 DEF Init, StoreInit, ItemLists
    <2>2. NobodyRolls
      BY <1>1 DEF Init, StoreInit, NobodyRolls, At, Idle
    <2> QED
      BY <2>1, <2>2, PendingIsWhole DEF AllWhole
  <1>2. ASSUME Typed, Tapes, AllWhole, [Next]_vars
        PROVE  AllWhole'
    <2>1. CASE UNCHANGED vars
      BY <1>2, <2>1 DEF vars, storeVars, AllWhole, NobodyRolls, At, ItemLists, Whole
    <2>2. CASE StoreNext
      BY <1>2, <2>2, RequestItems, WholeMoved DEF AllWhole
    <2>3. ASSUME NEW c \in Clients, Dispatch(c)
          PROVE  AllWhole'
      BY <1>2, <2>3, DispatchIs, WholeReplied DEF DispatchWrites
    <2>4. CASE Crash
      <3>1. NobodyRolls'
        BY <1>2, <2>4 DEF Crash, AllWhole, NobodyRolls, At, Idle
      <3>2. ItemLists' \subseteq ItemLists \cup {AllPending}
        BY <2>4, RowsListed, RowsMoved DEF Crash, Idle, NoRow
      <3> QED
        BY <1>2, <3>1, <3>2, WholeMoved
    <2> QED
      BY <1>2, <2>1, <2>2, <2>3, <2>4, WorkersWhole DEF Next
  <1> QED
    BY <1>1, <1>2, TapesInvariant, PTL DEF Spec

(* A tape the job is done with has all its files restored, in the table and *)
(* in every executor's copy, through failing saves, restarts and dispatches *)
(* sent by hand: the report submits a tape only with its last file, no      *)
(* worker takes a file back, and nobody else has the tape meanwhile.        *)
(* Rolling a job back is left out: it makes files pending again from some   *)
(* index on, whatever their tape.                                           *)
THEOREM RestoredTapesAreWhole ==
    ASSUME "rollback" \notin Ops
    PROVE  Spec => []RestoredTapeIsWhole
  <1>1. AllWhole => RestoredTapeIsWhole
    <2> SUFFICES ASSUME AllWhole,
                        NEW row \in {job[j] : j \in Jobs} \cup {mem[e] : e \in Executors},
                        NEW t \in TapeEntries \cap Submited(row), NEW f \in Lists[t]
                 PROVE  f \in Submited(row)
      BY DEF RestoredTapeIsWhole
    <2>1. Whole(row.items)
      BY RowsListed DEF AllWhole
    <2>2. f \in Items
      BY EntriesApart DEF Entries
    <2> QED
      BY <2>1, <2>2 DEF Whole, Submited
  <1> QED
    BY <1>1, WholeInvariant, PTL

-----------------------------------------------------------------------------
(* One writer per job                                                       *)

(* A worker of the executor runs. *)
Busy(e) == \E w \in Workers : pc[w] # "off" /\ Exe(w) = e

(* An executor that may still write the row of its job: nothing is          *)
(* dispatched to a finished one, but its workers go on.                     *)
Writer(e) == owner[e] \in Jobs /\ (mem[e].step # "FINISHED" \/ Busy(e))

OneWriter == \A e, f \in Executors : Writer(e) /\ Writer(f) /\ owner[e] = owner[f] => e = f

(* The row is behind its writer, never ahead of it. *)
Behind == \A e \in Executors : Writer(e) => Submited(job[owner[e]]) \subseteq Submited(mem[e])

Written == Reading /\ Cached /\ OneWriter /\ Behind

NoNewWriter ==
    /\ UNCHANGED owner
    /\ \A e \in Executors : Writer(e)' => Writer(e)

(* One executor changes its copy, takes back nothing, and saves it or not.  *)
WriterSaves(e, row) ==
    /\ Writer(e)
    /\ Updates(e, row)
    /\ Submited(mem[e]) \subseteq Submited(row)

LEMMA WriterDispatches ==
    ASSUME Typed, NEW e \in Executors, owner[e] \in Jobs, WaitForTape(e) \/ Finished(e)
    PROVE  /\ mem[e].step # "FINISHED"
           /\ \E row \in Row : WriterSaves(e, row) /\ row.items = mem[e].items
  <1> DEFINE wait == Switched(mem[e], "WAIT_FOR_TAPE", "PENDING")
             finish == Switched(mem[e], "FINISHED", "COMPLETED")
  <1>1. mem[e] \in Row
    BY DEF StoreTyped, StoreTypeOK
  <1>2. /\ wait \in Row /\ wait.items = mem[e].items
        /\ finish \in Row /\ finish.items = mem[e].items
    BY <1>1, SwitchedRow DEF Steps, Statuses
  <1>3. mem[e].step # "FINISHED" /\ (Updates(e, wait) \/ Updates(e, finish))
    BY DEF WaitForTape, MayWait, Finished, MayFinish, Updates
  <1> HIDE DEF wait, finish
  <1> QED
    BY <1>2, <1>3 DEF WriterSaves, Writer, Submited

LEMMA DispatchWriter ==
    ASSUME Typed, NEW c \in Clients, Dispatch(c)
    PROVE  /\ NoNewWriter
           /\ \/ UNCHANGED <<job, mem, faults>>
              \/ \E row \in Row : WriterSaves(client[c].exe, row) /\ row.items = mem[client[c].exe].items
  <1> DEFINE e == client[c].exe
             copying == Switched(mem[e], "COPYING", "PROCESSING")
             Effect == \/ UNCHANGED <<job, mem, faults>>
                       \/ \E row \in Row : WriterSaves(e, row) /\ row.items = mem[e].items
  <1>1. DispatchWrites(c)
    BY DispatchIs
  <1>2. e \in Executors /\ owner[e] \in Jobs /\ mem[e] \in Row /\ UNCHANGED owner
    BY <1>1 DEF DispatchWrites, StoreTyped, StoreTypeOK
  <1>3. CASE UNCHANGED <<job, mem, faults, pc, task>>
    BY <1>2, <1>3 DEF NoNewWriter, Writer, Busy, Exe
  <1>4. ASSUME UNCHANGED <<pc, task>>, mem[e].step # "FINISHED",
               \A f \in Executors : f # e => mem'[f] = mem[f]
        PROVE  NoNewWriter
    BY <1>2, <1>4 DEF NoNewWriter, Writer, Busy, Exe
  <1>5. CASE UNCHANGED <<pc, task>> /\ (WaitForTape(e) \/ Finished(e))
    <2>1. PICK row \in Row : WriterSaves(e, row) /\ row.items = mem[e].items
      BY <1>2, <1>5, WriterDispatches
    <2>2. \A f \in Executors : f # e => mem'[f] = mem[f]
      BY <1>2, <2>1, UpdatesEffect DEF WriterSaves
    <2> QED
      BY <1>2, <1>4, <1>5, <2>1, <2>2, WriterDispatches
  <1>6. ASSUME MayCopy(mem[e]), Updates(e, copying)
        PROVE  /\ Effect
               /\ mem[e].step # "FINISHED"
               /\ \A f \in Executors : f # e => mem'[f] = mem[f]
    <2>1. copying \in Row /\ copying.items = mem[e].items /\ Submited(copying) = Submited(mem[e])
      BY <1>2, SwitchedRow DEF Steps, Statuses
    <2>2. Updates(e, copying)
      BY <1>6
    <2>3. mem[e].step # "FINISHED"
      BY <1>6 DEF MayCopy
    <2> HIDE DEF copying
    <2> QED
      BY <1>2, <2>1, <2>2, <2>3, UpdatesEffect DEF WriterSaves, Writer
  <1>7. ASSUME NEW w \in Workers, NEW dev, NEW tape, pc[w] = "off", MayCopy(mem[e]), Updates(e, copying),
               pc' = [pc EXCEPT ![w] = "occupy"],
               task' = [task EXCEPT ![w] = [exe |-> e, dev |-> dev, tape |-> tape]]
        PROVE  NoNewWriter
    <2>1. \A v \in Workers : v # w => pc'[v] = pc[v] /\ task'[v] = task[v]
      BY <1>7
    <2>2. task'[w].exe = e
      BY <1>7 DEF WorkersTyped
    <2>3. \A f \in Executors : f # e => (Busy(f)' => Busy(f))
      BY <2>1, <2>2 DEF Busy, Exe
    <2> QED
      BY <1>2, <1>6, <1>7, <2>3 DEF NoNewWriter, Writer
  <1> QED
    BY <1>1, <1>3, <1>4, <1>5, <1>6, <1>7 DEF DispatchWrites, Updates

LEMMA RestoreTapeWriter ==
    ASSUME Typed, Tapes, NEW w \in Workers, RestoreTape(w)
    PROVE  /\ NoNewWriter
           /\ Writer(Exe(w))
           /\ \/ UNCHANGED <<job, mem, faults>>
              \/ \E row \in Row : WriterSaves(Exe(w), row)
  <1> DEFINE e == Exe(w)
             Effect == UNCHANGED <<job, mem, faults>> \/ \E row \in Row : WriterSaves(e, row)
  <1>1. WorkerWrites(w)
    BY RestoreTapeWrites DEF Tapes
  <1>2. /\ e \in Executors /\ owner[e] \in Jobs /\ mem[e] \in Row
        /\ Busy(e)
        /\ Writer(e)
    BY <1>1, TaskType DEF WorkerWrites, Writer, Busy
  <1>3. Effect
    <2>1. ASSUME NEW row \in Row, Marked(w, row), Updates(e, row)
          PROVE  WriterSaves(e, row)
      BY <1>2, <2>1 DEF WriterSaves, Marked, Submited
    <2> QED
      BY <1>1, <1>2, <2>1, WriterDispatches DEF WorkerWrites
  <1>4. \A f \in Executors : f # e => mem'[f] = mem[f]
    BY <1>2, <1>3, UpdatesEffect DEF WriterSaves
  <1>5. \A f \in Executors : Busy(f)' => Busy(f)
    BY <1>1 DEF WorkerWrites, Busy, Exe
  <1>6. NoNewWriter
    BY <1>1, <1>2, <1>4, <1>5 DEF NoNewWriter, Writer, WorkerWrites
  <1> QED
    BY <1>2, <1>3, <1>6

(* What is submitted stays so, when the writer of a job is the only one.    *)
LEMMA WriterKeeps ==
    ASSUME Typed, OneWriter, Behind, NoNewWriter, NEW e \in Executors,
           UNCHANGED <<job, mem>> \/ \E row \in Row : WriterSaves(e, row)
    PROVE  /\ OneWriter'
           /\ Behind'
           /\ \A j \in Jobs : Submited(job[j]) \subseteq Submited(job'[j])
  <1>1. OneWriter'
    BY DEF NoNewWriter, OneWriter
  <1>2. CASE UNCHANGED <<job, mem>>
    BY <1>1, <1>2 DEF NoNewWriter, Behind
  <1>3. ASSUME NEW row \in Row, WriterSaves(e, row)
        PROVE  /\ Behind'
               /\ \A j \in Jobs : Submited(job[j]) \subseteq Submited(job'[j])
    <2>1. /\ mem'[e] = row
          /\ \A f \in Executors : f # e => mem'[f] = mem[f]
          /\ \A j \in Jobs : j # owner[e] => job'[j] = job[j]
          /\ job'[owner[e]] \in {row, job[owner[e]]}
      BY <1>3, UpdatesEffect DEF WriterSaves, Writer
    <2>2. Submited(job[owner[e]]) \subseteq Submited(row)
      BY <1>3 DEF WriterSaves, Behind
    <2>3. \A f \in Executors : f # e /\ Writer(f)' => owner[f] # owner[e]
      BY <1>3 DEF NoNewWriter, OneWriter, WriterSaves
    <2> QED
      BY <2>1, <2>2, <2>3 DEF NoNewWriter, Behind, Writer
  <1> QED
    BY <1>1, <1>2, <1>3

LEMMA LoadsWriter ==
    ASSUME Typed, Cached, OneWriter, Behind, UNCHANGED <<job, workerVars>>,
           Looks \/ \E j \in Jobs, e \in Executors : Loads(j, e)
    PROVE  OneWriter' /\ Behind'
  <1>1. CASE Looks
    BY <1>1 DEF Looks, OneWriter, Behind, Writer, Busy, Exe, workerVars
  <1>2. ASSUME NEW j \in Jobs, NEW e \in Executors, Loads(j, e)
        PROVE  OneWriter' /\ Behind'
    <2>1. /\ owner'[e] = j /\ mem'[e] = job[j] /\ cache[j] = None
          /\ \A f \in Executors : f # e => owner'[f] = owner[f] /\ mem'[f] = mem[f]
      BY <1>2 DEF Loads, StoreTyped, StoreTypeOK
    <2>2. \A f \in Executors : f # e => (Writer(f)' <=> Writer(f))
      BY <2>1 DEF Writer, Busy, Exe, workerVars
    <2>3. ~ Busy(e)'
      <3>1. owner[e] \notin Jobs
        BY <1>2 DEF Loads
      <3>2. \A w \in Workers : pc[w] # "off" => Exe(w) # e
        BY <3>1, TaskType
      <3> QED
        BY <3>2 DEF Busy, Exe, workerVars
    <2>4. \A f \in Executors : f # e /\ owner[f] = j => ~ Writer(e)'
      BY <2>1, <2>3 DEF Cached, Writer
    <2> QED
      BY <2>1, <2>2, <2>4 DEF OneWriter, Behind, Writer
  <1> QED
    BY <1>1, <1>2

LEMMA StepCached ==
    ASSUME Typed, Tapes, NobodyEdits, Reading, Cached, Next
    PROVE  Reading' /\ Cached'
  <1>1. CASE StoreNext
    BY <1>1, RequestsRead, LoadsCached
  <1>2. ASSUME NEW e \in Executors, owner[e] \in Jobs, UNCHANGED owner,
               WaitForTape(e) \/ Finished(e)
        PROVE  Cached'
    BY <1>2, WaitCached, FinishedCached
  <1>3. ASSUME NEW c \in Clients, Dispatch(c)
        PROVE  Reading' /\ Cached'
    <2> DEFINE e == client[c].exe
               copying == Switched(mem[e], "COPYING", "PROCESSING")
    <2>1. DispatchWrites(c)
      BY <1>3, DispatchIs
    <2>2. Reading'
      BY <2>1 DEF DispatchWrites, Reply, Become, Idle, Reading, StoreTyped, StoreTypeOK
    <2>3. e \in Executors /\ owner[e] \in Jobs /\ mem[e] \in Row /\ UNCHANGED owner
      BY <2>1 DEF DispatchWrites, StoreTyped, StoreTypeOK
    <2>4. CASE UNCHANGED <<job, mem, cache>>
      BY <2>2, <2>3, <2>4 DEF Cached
    <2>5. CASE MayCopy(mem[e]) /\ UNCHANGED cache /\ Updates(e, copying)
      <3>1. copying \in Row
        BY <2>3, SwitchedRow DEF Steps, Statuses
      <3>2. Updates(e, copying) /\ mem[e].step # "FINISHED"
        BY <2>5 DEF MayCopy
      <3> HIDE DEF copying
      <3> QED
        BY <2>2, <2>3, <2>5, <3>1, <3>2, UpdatesCached
    <2> QED
      BY <1>2, <2>1, <2>2, <2>3, <2>4, <2>5 DEF DispatchWrites, Updates
  <1>4. ASSUME NEW w \in Workers, RestoreTape(w)
        PROVE  Reading' /\ Cached'
    <2>1. WorkerWrites(w)
      BY <1>4, RestoreTapeWrites DEF Tapes
    <2>2. Exe(w) \in Executors /\ owner[Exe(w)] \in Jobs /\ UNCHANGED <<owner, client>>
      BY <2>1, TaskType DEF WorkerWrites
    <2>3. ASSUME NEW row \in Row, Marked(w, row), Updates(Exe(w), row), UNCHANGED cache
          PROVE  Cached'
      BY <2>2, <2>3, UpdatesCached DEF Marked
    <2>4. CASE UNCHANGED <<job, mem, cache>>
      BY <2>2, <2>4 DEF Cached, Reading
    <2> QED
      BY <1>2, <2>1, <2>2, <2>3, <2>4 DEF WorkerWrites, Reading
  <1>5. CASE Crash
    BY <1>5 DEF Crash, Reading, Cached, Idle
  <1> QED
    BY <1>1, <1>3, <1>4, <1>5 DEF Next

LEMMA StepWritten ==
    ASSUME Typed, Tapes, NobodyEdits, Written, [Next]_vars
    PROVE  /\ Written'
           /\ \A j \in Jobs : Submited(job[j]) \subseteq Submited(job'[j])
  <1> USE DEF Written
  <1>1. CASE UNCHANGED vars
    BY <1>1 DEF vars, storeVars, workerVars, Reading, Cached, OneWriter, Behind, Writer, Busy, Exe
  <1>2. CASE StoreNext /\ UNCHANGED <<workerVars, target, crashes>>
    <2>1. UNCHANGED job /\ (Looks \/ \E j \in Jobs, e \in Executors : Loads(j, e))
      BY <1>2, RequestsRead
    <2>2. Next
      BY <1>2 DEF Next
    <2> QED
      BY <1>2, <2>1, <2>2, LoadsWriter, StepCached
  <1>3. ASSUME NEW c \in Clients, Dispatch(c)
        PROVE  /\ Written'
               /\ \A j \in Jobs : Submited(job[j]) \subseteq Submited(job'[j])
    <2>1. client[c].exe \in Executors /\ Next
      BY <1>3, DispatchIs DEF DispatchWrites, Next
    <2> QED
      BY <1>3, <2>1, DispatchWriter, WriterKeeps, StepCached
  <1>4. ASSUME NEW w \in Workers, RestoreTape(w)
        PROVE  /\ Written'
               /\ \A j \in Jobs : Submited(job[j]) \subseteq Submited(job'[j])
    <2>1. Exe(w) \in Executors /\ Next
      BY <1>4, RestoreTapeWrites, TaskType DEF WorkerWrites, Next, Tapes
    <2> QED
      BY <1>4, <2>1, RestoreTapeWriter, WriterKeeps, StepCached
  <1>5. CASE Crash
    <2>1. OneWriter' /\ Behind' /\ UNCHANGED job
      BY <1>5 DEF Crash, OneWriter, Behind, Writer
    <2>2. Next
      BY <1>5 DEF Next
    <2> QED
      BY <2>1, <2>2, StepCached
  <1> QED
    BY <1>1, <1>2, <1>3, <1>4, <1>5 DEF Next

LEMMA WrittenInvariant ==
    ASSUME NobodyEdits
    PROVE  Spec => [](Typed /\ Tapes /\ Written)
  <1>1. Init => Written
    BY DEF Init, StoreInit, Written, Reading, Idle, Cached, OneWriter, Behind, Writer
  <1> QED
    BY <1>1, StepWritten, TapesInvariant, PTL DEF Spec

(* What is restored stays restored, through failing saves, restarts and     *)
(* dispatches sent by hand: the executors of a job that may still save its  *)
(* row are one, it takes no file back, and its copy is never behind the     *)
(* row.  So far as clients create, delete and roll back no job.             *)
THEOREM NothingIsUnrestored ==
    ASSUME NobodyEdits
    PROVE  Spec => RestoredStays
  <1>1. ASSUME Typed, Tapes, Written, [Next]_vars
        PROVE  [\A j \in Jobs : Submited(job[j]) \subseteq Submited(job'[j])]_vars
    BY <1>1, StepWritten
  <1> QED
    BY <1>1, WrittenInvariant, PTL DEF Spec, RestoredStays

-----------------------------------------------------------------------------
(* What a worker's step does to one file: to what the executor's copy of    *)
(* the row says of it, to how far the copier is, and to the target.         *)

Copied == {"pending", "running"}
(* the copier has been given its files *)
Given == {"start", "copy"}

FileRests(w, f) ==
    /\ mem'[Exe(w)].items[f] = mem[Exe(w)].items[f]
    /\ f \in target'[owner[Exe(w)]] <=> f \in target[owner[Exe(w)]]
    /\ ~ (pc[w] = "report" /\ f \in Lists[task[w].tape] /\ mem[Exe(w)].items[f] = "STAGED")
    /\ pc'[w] \in Given /\ copy'[w][f] \in Copied => pc[w] \in Given /\ copy'[w][f] = copy[w][f]
    /\ pc[w] = "copy" /\ pc'[w] # "report" =>
            pc'[w] = "copy" /\ (copy[w][f] = "over" => copy'[w][f] = "over")

(* The row is saved with what the executor's copy says, or that fails.      *)
Tells(e) ==
    \/ job'[owner[e]].items = mem'[e].items /\ UNCHANGED faults
    \/ UNCHANGED job /\ faults < MaxFaults /\ faults' = faults + 1

FileCopied(w, f) ==
    /\ pc[w] = "copy" /\ pc'[w] = "copy"
    /\ Tells(Exe(w))
    /\ f \in Lists[task[w].tape]
    /\ mem[Exe(w)].items[f] # "SUBMITED"
    /\ \/ /\ copy[w][f] = "queued" /\ copy'[w][f] = "pending"
          /\ mem'[Exe(w)].items[f] = "PENDING"
          /\ f \in target'[owner[Exe(w)]] <=> f \in target[owner[Exe(w)]]
       \/ /\ copy[w][f] = "pending" /\ copy'[w][f] = "running"
          /\ mem'[Exe(w)].items[f] = "RUNNING"
          /\ f \notin target'[owner[Exe(w)]]
       \/ /\ copy[w][f] = "running" /\ copy'[w][f] = "over"
          /\ mem'[Exe(w)].items[f] \in {"STAGED", "FAILED"}
          /\ mem'[Exe(w)].items[f] = "STAGED" => f \in target'[owner[Exe(w)]]
          /\ f \in target[owner[Exe(w)]] => f \in target'[owner[Exe(w)]]

FileReported(w, f) ==
    /\ pc[w] = "report" /\ pc'[w] = "todo"
    /\ f \in Lists[task[w].tape]
    /\ mem[Exe(w)].items[f] = "STAGED" /\ mem'[Exe(w)].items[f] = "SUBMITED"
    /\ f \in target'[owner[Exe(w)]] <=> f \in target[owner[Exe(w)]]

FileStep(w, f) == FileRests(w, f) \/ FileCopied(w, f) \/ FileReported(w, f)

(* ... and to the rows. *)
RowStep(e) ==
    /\ \A g \in Executors : g # e => mem'[g] = mem[g]
    /\ \A k \in Jobs : k # owner[e] => job'[k] = job[k] /\ target'[k] = target[k]
    /\ UNCHANGED <<job, mem, target, faults>> \/ Tells(e)

LEMMA RowStepSaves ==
    ASSUME StoreTyped, NEW e \in Executors, owner[e] \in Jobs, NEW row \in Row, Updates(e, row),
           \A k \in Jobs : k # owner[e] => target'[k] = target[k]
    PROVE  RowStep(e) /\ Tells(e) /\ mem'[e] = row
  BY UpdatesEffect DEF RowStep, Tells

LEMMA WorkerFiles ==
    ASSUME Typed, Tapes, NEW w \in Workers, RestoreTape(w)
    PROVE  RowStep(Exe(w)) /\ \A f \in FileEntries : FileStep(w, f)
  <1> DEFINE e == Exe(w)
             tape == task[w].tape
             Goal == RowStep(e) /\ \A f \in FileEntries : FileStep(w, f)
  <1>1. pc[w] # "off"
    BY RestoreTapeWrites DEF WorkerWrites, Tapes
  <1>2. e \in Executors /\ owner[e] \in Jobs /\ mem[e] \in Row /\ FileEntries \subseteq Items
    BY <1>1, TaskType DEF FileEntries
  <1>3. CASE Occupy(w) \/ CountTodo(w) \/ Release(w)
    BY <1>3 DEF Occupy, CountTodo, Release, Goes, GoesWrong, Off, storeVars, WorkersTyped,
                RowStep, FileStep, FileRests, Given
  <1>4. CASE ReadInfo(w)
    <2>1. pc'[w] # "copy" /\ pc[w] = "readinfo" /\ UNCHANGED <<storeVars, target>>
      BY <1>4 DEF ReadInfo, Goes, GoesWrong, WorkersTyped
    <2>2. pc'[w] \in Given => \A f \in FileEntries : copy'[w][f] \notin Copied
      BY <1>4 DEF ReadInfo, Goes, GoesWrong, WorkersTyped, Given, Copied
    <2> QED
      BY <2>1, <2>2 DEF RowStep, FileStep, FileRests, storeVars
  <1>5. CASE CopyDone(w)
    <2>1. pc'[w] = "report" /\ pc[w] = "copy" /\ UNCHANGED <<storeVars, target>>
      BY <1>5 DEF CopyDone, Goes, GoesWrong, WorkersTyped
    <2> QED
      BY <2>1 DEF RowStep, FileStep, FileRests, storeVars, Given
  <1>6. ASSUME NEW f \in FileEntries, CopySkips(w, f)
        PROVE  Goal
    <2>1. /\ pc'[w] = "copy" /\ pc[w] = "copy" /\ UNCHANGED <<storeVars, target>>
          /\ \A g \in FileEntries : copy'[w][g] = IF g = f THEN "over" ELSE copy[w][g]
      BY <1>6 DEF CopySkips, WorkersTyped
    <2> QED
      BY <2>1 DEF RowStep, FileStep, FileRests, storeVars, Copied, Given
  <1>7. ASSUME NEW row \in Row, Updates(e, row), UNCHANGED <<copy, target>>,
               \A f \in FileEntries : row.items[f] = mem[e].items[f],
               pc[w] \notin {"copy", "report"},
               pc'[w] \in Given => pc[w] \in Given
        PROVE  Goal
    <2>1. RowStep(e) /\ mem'[e] = row
      BY <1>2, <1>7, RowStepSaves
    <2> QED
      BY <1>2, <1>7, <2>1 DEF FileStep, FileRests
  <1>8. CASE FinishWait(w) \/ FinishComplete(w)
    <2>1. pc[w] \in {"wait", "complete"} /\ pc'[w] = "release" /\ UNCHANGED <<copy, target>>
      BY <1>8 DEF FinishWait, FinishComplete, Goes, WorkersTyped
    <2>2. CASE WaitForTape(e) \/ Finished(e)
      BY <1>2, <1>7, <2>1, <2>2, WriterDispatches DEF WriterSaves, Given
    <2>3. CASE UNCHANGED <<job, mem, faults>>
      BY <2>1, <2>3 DEF RowStep, FileStep, FileRests, Given
    <2> QED
      BY <1>8, <2>2, <2>3 DEF FinishWait, FinishComplete
  <1>9. CASE MarkFailed(w)
    <2> DEFINE row == [mem[e] EXCEPT !.status = "FAILED"]
    <2>1. row \in Row /\ row.items = mem[e].items
      BY <1>2 DEF Row, Statuses
    <2>2. Updates(e, row) /\ UNCHANGED <<copy, target>> /\ pc[w] = "fail" /\ pc'[w] = "off"
      BY <1>9 DEF MarkFailed, Off, Goes, WorkersTyped
    <2> HIDE DEF row
    <2> QED
      BY <1>7, <2>1, <2>2 DEF Given
  <1>10. CASE Start(w)
    <2> DEFINE row == [mem[e] EXCEPT !.items[tape] = "RUNNING"]
    <2>1. tape \in TapeEntries /\ tape \notin FileEntries
      BY <1>10, EntriesApart DEF Start, AtWork, Tapes, AtTape, Wants
    <2>2. row \in Row /\ \A f \in FileEntries : row.items[f] = mem[e].items[f]
      BY <1>2, <2>1, EntryType DEF Row, CopyStatuses
    <2>3. Updates(e, row) /\ UNCHANGED <<copy, target>> /\ pc[w] = "start"
      BY <1>10 DEF Start
    <2> HIDE DEF row
    <2> QED
      BY <1>7, <2>2, <2>3 DEF Given
  <1>11. CASE Report(w)
    <2> DEFINE row == Settled(mem[e], tape)
    <2>1. tape \in TapeEntries /\ pc[w] = "report" /\ pc'[w] = "todo"
          /\ Updates(e, row) /\ UNCHANGED target
      BY <1>11 DEF Report, AtWork, Tapes, AtTape, Wants, Goes, WorkersTyped
    <2>2. row \in Row /\ row = Settled(mem[e], tape)
      BY <1>2, SettledType
    <2> HIDE DEF row
    <2>3. mem[e] \in Row /\ tape \in TapeEntries /\ row = Settled(mem[e], tape)
      BY <1>2, <2>1, <2>2
    <2>4. \A i \in Items : i \notin Entries(tape) => row.items[i] = mem[e].items[i]
      BY ONLY <2>3, SettledMarks
    <2>5. \A f \in Lists[tape] :
              row.items[f] = IF mem[e].items[f] \in {"STAGED", "SUBMITED"} THEN "SUBMITED"
                                                                       ELSE mem[e].items[f]
      BY ONLY <2>3, SettledMarks
    <2>6. RowStep(e) /\ mem'[e] = row
      BY <1>2, <2>1, <2>2, RowStepSaves
    <2>7. ASSUME NEW f \in FileEntries
          PROVE  FileStep(w, f)
      <3>1. f \in Items /\ f # tape
        BY <1>2, <2>3 DEF FileEntries
      <3>2. CASE f \in Lists[tape] /\ mem[e].items[f] = "STAGED"
        BY <2>1, <2>5, <2>6, <3>2 DEF FileStep, FileReported
      <3>3. CASE ~ (f \in Lists[tape] /\ mem[e].items[f] = "STAGED")
        <4>1. row.items[f] = mem[e].items[f]
          BY <2>4, <2>5, <3>1, <3>3 DEF Entries
        <4> QED
          BY <2>1, <2>6, <3>3, <4>1 DEF FileStep, FileRests, Given
      <3> QED
        BY <3>2, <3>3
    <2> QED
      BY <2>6, <2>7
  <1>12. ASSUME NEW f \in FileEntries, NEW phase \in CopyPhases, NEW status \in CopyStatuses,
                CopyEvent(w, f, phase, status), UNCHANGED target \/ Lose(w, f) \/ Gain(w, f),
                copy[w][f] \in {"queued", "pending", "running"}
         PROVE  /\ RowStep(e) /\ Tells(e)
                /\ \A g \in FileEntries : g # f => FileStep(w, g)
                /\ pc[w] = "copy" /\ pc'[w] = "copy" /\ f \in Lists[tape] /\ mem[e].items[f] # "SUBMITED"
                /\ copy'[w][f] = phase /\ mem'[e].items[f] = status
    <2> DEFINE row == [mem[e] EXCEPT !.items[f] = status]
    <2>1. /\ Updates(e, row) /\ pc[w] = "copy" /\ pc'[w] = "copy"
          /\ \A g \in FileEntries : copy'[w][g] = IF g = f THEN phase ELSE copy[w][g]
      BY <1>12 DEF CopyEvent, WorkersTyped
    <2>2. /\ row \in Row
          /\ \A g \in Items : row.items[g] = IF g = f THEN status ELSE mem[e].items[g]
      BY <1>2, EntryType DEF Row
    <2>3. /\ \A k \in Jobs : k # owner[e] => target'[k] = target[k]
          /\ \A g \in FileEntries : g # f => (g \in target'[owner[e]] <=> g \in target[owner[e]])
      BY <1>2, <1>12 DEF Lose, Gain
    <2>4. f \in Lists[tape] /\ mem[e].items[f] # "SUBMITED"
      BY <1>12, <2>1 DEF Tapes, AtTape, AtWork, Wants
    <2> HIDE DEF row
    <2>5. RowStep(e) /\ Tells(e) /\ mem'[e] = row
      BY <1>2, <2>1, <2>2, <2>3, RowStepSaves
    <2>6. \A g \in FileEntries : g # f => FileStep(w, g)
      BY <1>2, <2>1, <2>2, <2>3, <2>5 DEF FileStep, FileRests, Given
    <2> QED
      BY <1>2, <2>1, <2>2, <2>4, <2>5, <2>6
  <1>12a. ASSUME NEW f \in FileEntries, NEW phase \in CopyPhases, NEW status \in CopyStatuses,
                CopyEvent(w, f, phase, status), UNCHANGED target \/ Lose(w, f) \/ Gain(w, f),
                \/ copy[w][f] = "queued" /\ phase = "pending" /\ status = "PENDING" /\ UNCHANGED target
                \/ copy[w][f] = "pending" /\ phase = "running" /\ status = "RUNNING" /\ f \notin target'[owner[e]]
                \/ /\ copy[w][f] = "running" /\ phase = "over"
                   /\ \/ status = "STAGED" /\ f \in target'[owner[e]]
                      \/ status = "FAILED" /\ UNCHANGED target
         PROVE  Goal
    <2>1. copy[w][f] \in {"queued", "pending", "running"}
      BY <1>12a
    <2>2. /\ RowStep(e) /\ Tells(e)
          /\ \A g \in FileEntries : g # f => FileStep(w, g)
          /\ pc[w] = "copy" /\ pc'[w] = "copy" /\ f \in Lists[tape] /\ mem[e].items[f] # "SUBMITED"
          /\ copy'[w][f] = phase /\ mem'[e].items[f] = status
      BY <1>12, <1>12a, <2>1
    <2>3. FileCopied(w, f)
      BY <1>12a, <2>2 DEF FileCopied
    <2> QED
      BY <2>2, <2>3 DEF FileStep
  <1>13. ASSUME NEW f \in FileEntries, CopyStarts(w, f)
         PROVE  Goal
    <2>1. CASE copy[w][f] = "queued" /\ CopyEvent(w, f, "pending", "PENDING") /\ UNCHANGED target
      BY <1>12a, <2>1 DEF CopyPhases, CopyStatuses
    <2>2. CASE copy[w][f] = "pending" /\ CopyEvent(w, f, "running", "RUNNING") /\ Lose(w, f)
      <3>1. f \notin target'[owner[e]]
        BY <1>2, <2>2 DEF Lose
      <3> QED
        BY <1>12a, <2>2, <3>1 DEF CopyPhases, CopyStatuses
    <2> QED
      BY <1>13, <2>1, <2>2 DEF CopyStarts
  <1>14. ASSUME NEW f \in FileEntries, CopyEnds(w, f)
         PROVE  Goal
    <2>1. CASE CopyEvent(w, f, "over", "STAGED") /\ Gain(w, f)
      <3>1. f \in target'[owner[e]]
        BY <1>2, <2>1 DEF Gain
      <3> QED
        BY <1>14, <1>12a, <2>1, <3>1 DEF CopyEnds, CopyPhases, CopyStatuses
    <2>2. CASE CopyEvent(w, f, "over", "FAILED") /\ UNCHANGED target
      BY <1>14, <1>12a, <2>2 DEF CopyEnds, CopyPhases, CopyStatuses
    <2> QED
      BY <1>14, <2>1, <2>2 DEF CopyEnds, Verdict
  <1> QED
    BY <1>3, <1>4, <1>5, <1>6, <1>8, <1>9, <1>10, <1>11, <1>13, <1>14 DEF RestoreTape

LEMMA DispatchFiles ==
    ASSUME Typed, NEW c \in Clients, Dispatch(c), NEW e, e = client[c].exe
    PROVE  /\ e \in Executors /\ owner[e] \in Jobs
           /\ RowStep(e) /\ UNCHANGED <<target, copy, crashes>>
           /\ UNCHANGED <<job, mem, target, faults>> \/ Writer(e)
           /\ \A g \in Executors : mem'[g].items = mem[g].items
           /\ \A w \in Workers : pc'[w] \in AtWork \/ pc[w] \in AtWork =>
                    pc'[w] = pc[w] /\ task'[w] = task[w]
  <1>1. DispatchWrites(c) /\ SameItems
    BY DispatchIs
  <1>2. e \in Executors /\ owner[e] \in Jobs /\ UNCHANGED <<target, copy, crashes>>
    BY <1>1 DEF DispatchWrites
  <1>3. \A w \in Workers : pc'[w] \in AtWork \/ pc[w] \in AtWork =>
                    pc'[w] = pc[w] /\ task'[w] = task[w]
    <2>1. CASE UNCHANGED <<pc, task>>
      BY <2>1
    <2>2. ASSUME NEW w \in Workers, NEW t, pc[w] = "off",
                 pc' = [pc EXCEPT ![w] = "occupy"], task' = [task EXCEPT ![w] = t]
          PROVE  \A v \in Workers : pc'[v] \in AtWork \/ pc[v] \in AtWork =>
                    pc'[v] = pc[v] /\ task'[v] = task[v]
      BY <2>2 DEF AtWork, WorkersTyped
    <2> QED
      BY <1>1, <2>1, <2>2 DEF DispatchWrites
  <1>4. RowStep(e) /\ (UNCHANGED <<job, mem, target, faults>> \/ Writer(e))
    <2>1. CASE UNCHANGED <<job, mem, faults>>
      BY <1>2, <2>1 DEF RowStep
    <2>2. CASE \E row \in Row : WriterSaves(e, row) /\ row.items = mem[e].items
      BY <1>2, <2>2, RowStepSaves DEF WriterSaves
    <2> QED
      BY <2>1, <2>2, DispatchWriter
  <1> QED
    BY <1>1, <1>2, <1>3, <1>4 DEF SameItems

-----------------------------------------------------------------------------
(* What rows claim lies at the target                                       *)

Staged(row) == {f \in FileEntries : row.items[f] = "STAGED"}
Claimed(row) == {f \in FileEntries : row.items[f] \in {"STAGED", "SUBMITED"}}

(* ... what the writer of a job has staged or submitted, ... *)
ClaimsLie == \A e \in Executors : Writer(e) => Claimed(mem[e]) \subseteq target[owner[e]]

(* ... and what is staged in a row that the next executor may be made from. *)
Unowned(j) == \A e \in Executors : owner[e] # j
StagedLies(j) == Staged(job[j]) \subseteq target[j]
LoadsLie == \A j \in Jobs : crashes < MaxCrashes \/ Unowned(j) => StagedLies(j)

(* The executor's copy follows the copier. *)
Following ==
    \A w \in Workers, f \in FileEntries : pc[w] \in Given =>
        /\ copy[w][f] = "pending" => mem[Exe(w)].items[f] = "PENDING"
        /\ copy[w][f] = "running" => mem[Exe(w)].items[f] = "RUNNING"

Lying == ClaimsLie /\ Following /\ RestoredIsVerified

(* Another worker of the same executor sees its own files rest. *)
LEMMA OthersRest ==
    ASSUME Typed, Tapes, NEW w \in Workers, RestoreTape(w), NEW v \in Workers, v # w,
           pc[v] \in AtWork, NEW f \in Lists[task[v].tape]
    PROVE  f \in FileEntries /\ FileRests(w, f)
  <1>1. task[v].tape \in TapeEntries /\ f \in FileEntries
    BY DEF Tapes, AtTape, Wants
  <1>2. FileStep(w, f)
    BY <1>1, WorkerFiles
  <1>3. pc[w] \in AtWork => f \notin Lists[task[w].tape]
    <2>1. pc[w] \in AtWork => task[w].tape \in TapeEntries /\ task[w].tape # task[v].tape
      BY DEF Tapes, AtTape, Wants, OneTapeEach, AtWork
    <2> QED
      BY <1>1, <2>1
  <1> QED
    BY <1>1, <1>2, <1>3 DEF FileStep, FileCopied, FileReported, AtWork

LEMMA WorkerFollows ==
    ASSUME Typed, Tapes, Following, NEW w \in Workers, RestoreTape(w)
    PROVE  Following'
  <1>1. WorkerWrites(w) /\ RowStep(Exe(w)) /\ \A f \in FileEntries : FileStep(w, f)
    BY RestoreTapeWrites, WorkerFiles DEF Tapes
  <1> SUFFICES ASSUME NEW v \in Workers, NEW f \in FileEntries, pc'[v] \in Given
               PROVE  /\ copy'[v][f] = "pending" => mem'[Exe(v)'].items[f] = "PENDING"
                      /\ copy'[v][f] = "running" => mem'[Exe(v)'].items[f] = "RUNNING"
    BY DEF Following
  <1>2. Exe(v)' = Exe(v)
    BY <1>1 DEF WorkerWrites, Exe, Given
  <1>3. CASE v = w
    BY <1>1, <1>2, <1>3 DEF FileStep, FileRests, FileCopied, FileReported, Following, Copied, Given
  <1>4. CASE v # w
    <2>1. pc[v] = pc'[v] /\ copy'[v] = copy[v] /\ Exe(v) \in Executors
      BY <1>1, <1>4, TaskType DEF WorkerWrites, Given
    <2>2. CASE copy[v][f] \in Copied
      <3>1. f \in Lists[task[v].tape]
        BY <2>1, <2>2 DEF Tapes, AtTape, Wants, AtWork, Given, Copied
      <3>2. FileRests(w, f)
        BY <1>4, <2>1, <3>1, OthersRest DEF AtWork, Given
      <3>3. mem'[Exe(v)].items[f] = mem[Exe(v)].items[f]
        BY <1>1, <2>1, <3>2 DEF FileRests, RowStep
      <3> QED
        BY <1>2, <2>1, <3>3 DEF Following
    <2> QED
      BY <2>1, <2>2 DEF Copied
  <1> QED
    BY <1>3, <1>4

LEMMA RowsLie ==
    ASSUME Typed, Written, ClaimsLie, RestoredIsVerified, NoNewWriter,
           NEW e \in Executors, owner[e] \in Jobs, RowStep(e),
           UNCHANGED <<job, mem, target, faults>> \/ Writer(e),
           Writer(e) => Claimed(mem'[e]) \subseteq target'[owner[e]],
           \A f \in FileEntries : mem[e].items[f] = "SUBMITED" /\ f \in target[owner[e]] =>
                f \in target'[owner[e]]
    PROVE  ClaimsLie' /\ RestoredIsVerified'
  <1>1. ClaimsLie'
    BY DEF ClaimsLie, NoNewWriter, RowStep, Written, OneWriter, Writer
  <1>2. ASSUME NEW j \in Jobs, NEW f \in FileEntries, job'[j].items[f] = "SUBMITED", f \in Items
        PROVE  f \in target'[j]
    <2>1. CASE job'[j] = job[j] /\ target'[j] = target[j]
      BY <1>2, <2>1 DEF RestoredIsVerified, Submited, FileEntries
    <2>2. CASE j = owner[e] /\ Writer(e) /\ job'[j].items = mem'[e].items
      BY <1>2, <2>2 DEF Claimed
    <2>3. CASE j = owner[e] /\ Writer(e) /\ UNCHANGED job
      <3>1. f \in Submited(job[j]) /\ f \in target[j]
        BY <1>2, <2>3 DEF RestoredIsVerified, Submited, FileEntries
      <3>2. f \in Submited(mem[e])
        BY <2>3, <3>1 DEF Written, Behind
      <3> QED
        BY <1>2, <2>3, <3>1, <3>2 DEF Submited
    <2> QED
      BY <2>1, <2>2, <2>3 DEF RowStep, Tells
  <1>3. RestoredIsVerified'
    BY <1>2 DEF RestoredIsVerified, Submited, FileEntries
  <1> QED
    BY <1>1, <1>3

LEMMA WorkerLies ==
    ASSUME Typed, Tapes, Written, Lying, NEW w \in Workers, RestoreTape(w)
    PROVE  Lying' /\ Claimed(mem'[Exe(w)]) \subseteq target'[owner[Exe(w)]]
  <1> DEFINE e == Exe(w)
  <1>1. RowStep(e) /\ \A f \in FileEntries : FileStep(w, f)
    BY WorkerFiles
  <1>2. e \in Executors /\ owner[e] \in Jobs /\ Writer(e) /\ NoNewWriter
    BY RestoreTapeWriter, RestoreTapeWrites, TaskType DEF WorkerWrites, Tapes
  <1>3. Claimed(mem'[e]) \subseteq target'[owner[e]]
    BY <1>1, <1>2 DEF Lying, ClaimsLie, Claimed, FileStep, FileRests, FileCopied, FileReported
  <1>4. \A f \in FileEntries : mem[e].items[f] = "SUBMITED" /\ f \in target[owner[e]] =>
                f \in target'[owner[e]]
    BY <1>1 DEF FileStep, FileRests, FileCopied, FileReported
  <1> QED
    BY <1>1, <1>2, <1>3, <1>4, RowsLie, WorkerFollows DEF Lying

LEMMA DispatchLies ==
    ASSUME Typed, Written, Lying, NEW c \in Clients, Dispatch(c)
    PROVE  Lying'
  <1> DEFINE e == client[c].exe
  <1>1. /\ e \in Executors /\ owner[e] \in Jobs
        /\ RowStep(e) /\ UNCHANGED <<target, copy, crashes>>
        /\ UNCHANGED <<job, mem, target, faults>> \/ Writer(e)
        /\ \A g \in Executors : mem'[g].items = mem[g].items
        /\ \A w \in Workers : pc'[w] \in AtWork \/ pc[w] \in AtWork =>
                 pc'[w] = pc[w] /\ task'[w] = task[w]
        /\ NoNewWriter
    BY DispatchFiles, DispatchWriter
  <1>2. Claimed(mem'[e]) = Claimed(mem[e])
    BY <1>1 DEF Claimed
  <1>3. ClaimsLie' /\ RestoredIsVerified'
    BY <1>1, <1>2, RowsLie DEF Lying, ClaimsLie
  <1>4. Following'
    <2> SUFFICES ASSUME NEW v \in Workers, NEW f \in FileEntries, pc'[v] \in Given
                 PROVE  /\ copy'[v][f] = "pending" => mem'[Exe(v)'].items[f] = "PENDING"
                        /\ copy'[v][f] = "running" => mem'[Exe(v)'].items[f] = "RUNNING"
      BY DEF Following
    <2>1. pc[v] = pc'[v] /\ task'[v] = task[v] /\ pc[v] # "off"
      BY <1>1 DEF AtWork, Given
    <2>2. Exe(v) \in Executors /\ Exe(v)' = Exe(v)
      BY <2>1, TaskType DEF Exe
    <2> QED
      BY <1>1, <2>1, <2>2 DEF Lying, Following
  <1> QED
    BY <1>3, <1>4 DEF Lying

LEMMA LoadsFiles ==
    ASSUME Typed, Written, Lying, LoadsLie, NobodyEdits, StoreNext,
           UNCHANGED <<workerVars, target, crashes>>
    PROVE  Lying' /\ LoadsLie'
  <1>1. UNCHANGED job /\ (Looks \/ \E j \in Jobs, e \in Executors : Loads(j, e))
    BY RequestsRead DEF Written
  <1>2. CASE Looks
    BY <1>1, <1>2 DEF Looks, Lying, ClaimsLie, Writer, Busy, Following, Exe, RestoredIsVerified,
                      LoadsLie, StagedLies, Unowned, workerVars
  <1>3. ASSUME NEW j \in Jobs, NEW e \in Executors, Loads(j, e)
        PROVE  Lying' /\ LoadsLie'
    <2>1. /\ owner'[e] = j /\ mem'[e] = job[j] /\ cache[j] = None /\ owner[e] = None
          /\ \A f \in Executors : f # e => owner'[f] = owner[f] /\ mem'[f] = mem[f]
      BY <1>3 DEF Loads, StoreTyped, StoreTypeOK
    <2>2. \A w \in Workers : pc[w] # "off" => Exe(w) \in Executors /\ Exe(w) # e
      BY <2>1, TaskType
    <2>3. \A f \in Executors : f # e => (Writer(f)' <=> Writer(f))
      BY <2>1 DEF Writer, Busy, Exe, workerVars
    <2>4. ~ Busy(e)'
      BY <2>2 DEF Busy, Exe, workerVars
    <2>5. Writer(e)' => Unowned(j)
      BY <2>1, <2>4 DEF Writer, Unowned, Written, Cached
    <2>6. Writer(e)' => Claimed(job[j]) \subseteq target[j]
      <3>1. Submited(job[j]) \ TapeEntries \subseteq target[j]
        BY DEF Lying, RestoredIsVerified
      <3>2. Writer(e)' => Staged(job[j]) \subseteq target[j]
        BY <2>5 DEF LoadsLie, StagedLies
      <3> QED
        BY <3>1, <3>2 DEF Claimed, Staged, Submited, FileEntries
    <2>7. ClaimsLie'
      BY <2>1, <2>3, <2>6 DEF Lying, ClaimsLie, Writer
    <2>8. Following'
      BY <2>1, <2>2 DEF Lying, Following, Exe, workerVars, Given
    <2>9. RestoredIsVerified'
      BY <1>1 DEF Lying, RestoredIsVerified
    <2>10. LoadsLie'
      <3>1. \A k \in Jobs : Unowned(k)' => Unowned(k)
        BY <2>1 DEF Unowned
      <3> QED
        BY <1>1, <3>1 DEF LoadsLie, StagedLies
    <2> QED
      BY <2>7, <2>8, <2>9, <2>10 DEF Lying
  <1> QED
    BY <1>1, <1>2, <1>3

LEMMA CrashFiles ==
    ASSUME Typed, Lying, LoadsLie, Crash
    PROVE  Lying' /\ \A j \in Jobs : StagedLies(j)'
  <1>1. ClaimsLie' /\ Following' /\ RestoredIsVerified'
    BY DEF Crash, Lying, ClaimsLie, Writer, Following, Given, RestoredIsVerified
  <1> QED
    BY <1>1 DEF Crash, Lying, LoadsLie, StagedLies

-----------------------------------------------------------------------------
(* With at most one failing save, a row never keeps a STAGED that is not at *)
(* the target: opening a file is announced and then done, and only one of   *)
(* the two is missed.                                                       *)

Told ==
    \A w \in Workers, f \in FileEntries : pc[w] \in Given /\ copy[w][f] \in Copied =>
        \/ job[owner[Exe(w)]].items[f] # "STAGED"
        \/ copy[w][f] = "pending" /\ faults = MaxFaults

OneFault == Told /\ \A j \in Jobs : StagedLies(j)

(* A copy under way goes on while another row, or its own, is saved.        *)
LEMMA StillTold ==
    ASSUME Typed, Written, Following, Told,
           NEW e \in Executors, owner[e] \in Jobs, RowStep(e),
           UNCHANGED <<job, mem, target, faults>> \/ Writer(e), UNCHANGED owner,
           NEW v \in Workers, NEW f \in FileEntries, pc[v] \in Given, copy[v][f] \in Copied,
           pc'[v] = pc[v], task'[v] = task[v], copy'[v][f] = copy[v][f],
           Exe(v) = e => mem'[e].items[f] = mem[e].items[f]
    PROVE  \/ job'[owner'[Exe(v)']].items[f] # "STAGED"
           \/ copy'[v][f] = "pending" /\ faults' = MaxFaults
  <1>1. /\ Exe(v) \in Executors /\ owner[Exe(v)] \in Jobs /\ Exe(v)' = Exe(v)
        /\ Writer(Exe(v))
    BY TaskType DEF Given, Exe, Writer, Busy
  <1>2. faults = MaxFaults => faults' = faults
    BY DEF RowStep, Tells, StoreTyped, StoreTypeOK
  <1>3. \/ job[owner[Exe(v)]].items[f] # "STAGED"
        \/ copy[v][f] = "pending" /\ faults = MaxFaults
    BY DEF Told
  <1>4. CASE job'[owner[Exe(v)]] = job[owner[Exe(v)]]
    BY <1>1, <1>2, <1>3, <1>4
  <1>5. CASE job'[owner[Exe(v)]] # job[owner[Exe(v)]]
    <2>1. owner[Exe(v)] = owner[e] /\ job'[owner[e]].items = mem'[e].items /\ Writer(e)
      BY <1>1, <1>5 DEF RowStep, Tells
    <2>2. Exe(v) = e
      BY <1>1, <2>1 DEF Written, OneWriter
    <2>3. mem[e].items[f] # "STAGED"
      BY <2>2 DEF Following, Copied
    <2> QED
      BY <1>1, <2>1, <2>2, <2>3
  <1> QED
    BY <1>4, <1>5

LEMMA StoreOneFault ==
    ASSUME Typed, OneFault, Written, NobodyEdits, StoreNext,
           UNCHANGED <<workerVars, target, crashes>>
    PROVE  OneFault'
  <1>1. UNCHANGED job /\ OwnersKept
    BY RequestsRead, StoreNextType DEF Written
  <1>2. faults = MaxFaults => faults' = faults
    BY NoFaultLeft
  <1> QED
    BY <1>1, <1>2, TaskType DEF OneFault, Told, StagedLies, Exe, OwnersKept, workerVars, Given

LEMMA DispatchOneFault ==
    ASSUME Typed, Written, Lying, OneFault, NEW c \in Clients, Dispatch(c)
    PROVE  OneFault'
  <1> DEFINE e == client[c].exe
  <1>1. /\ e \in Executors /\ owner[e] \in Jobs
        /\ RowStep(e) /\ UNCHANGED <<target, copy, crashes>>
        /\ UNCHANGED <<job, mem, target, faults>> \/ Writer(e)
        /\ \A g \in Executors : mem'[g].items = mem[g].items
        /\ \A w \in Workers : pc'[w] \in AtWork \/ pc[w] \in AtWork =>
                 pc'[w] = pc[w] /\ task'[w] = task[w]
        /\ UNCHANGED owner
    BY DispatchFiles, DispatchWriter DEF NoNewWriter
  <1>2. Told'
    <2> SUFFICES ASSUME NEW v \in Workers, NEW f \in FileEntries, pc'[v] \in Given,
                        copy'[v][f] \in Copied
                 PROVE  \/ job'[owner'[Exe(v)']].items[f] # "STAGED"
                        \/ copy'[v][f] = "pending" /\ faults' = MaxFaults
      BY DEF Told
    <2>1. pc[v] = pc'[v] /\ task'[v] = task[v]
      BY <1>1 DEF AtWork, Given
    <2> HIDE DEF e
    <2> QED
      BY <1>1, <2>1, StillTold DEF Lying, OneFault
  <1>3. \A j \in Jobs : StagedLies(j)'
    <2>1. Writer(e) => Staged(mem'[e]) \subseteq target'[owner[e]]
      BY <1>1 DEF Lying, ClaimsLie, Claimed, Staged
    <2>2. ASSUME NEW j \in Jobs
          PROVE  job'[j] = job[j] \/ (j = owner[e] /\ Writer(e) /\ job'[j].items = mem'[e].items)
      BY <1>1 DEF RowStep, Tells
    <2> QED
      BY <1>1, <2>1, <2>2 DEF OneFault, StagedLies, Staged
  <1> QED
    BY <1>2, <1>3 DEF OneFault

LEMMA WorkerOneFault ==
    ASSUME MaxFaults <= 1, Typed, Tapes, Written, Lying, OneFault, NEW w \in Workers, RestoreTape(w)
    PROVE  OneFault'
  <1> DEFINE e == Exe(w)
  <1>1. RowStep(e) /\ \A f \in FileEntries : FileStep(w, f)
    BY WorkerFiles
  <1>2. WorkerWrites(w) /\ NoNewWriter /\ Writer(e)
    BY RestoreTapeWrites, RestoreTapeWriter DEF Tapes
  <1>3. e \in Executors /\ owner[e] \in Jobs /\ UNCHANGED owner
    BY <1>2, TaskType DEF WorkerWrites
  <1>4. faults \in 0..MaxFaults /\ MaxFaults \in {0, 1}
    BY DEF StoreTyped, StoreTypeOK
  <1>5. Told'
    <2> SUFFICES ASSUME NEW v \in Workers, NEW f \in FileEntries, pc'[v] \in Given,
                        copy'[v][f] \in Copied
                 PROVE  \/ job'[owner'[Exe(v)']].items[f] # "STAGED"
                        \/ copy'[v][f] = "pending" /\ faults' = MaxFaults
      BY DEF Told
    <2>1. task'[v] = task[v]
      BY <1>2 DEF WorkerWrites, Given
    <2>2. CASE v # w
      <3>1. pc[v] = pc'[v] /\ copy'[v] = copy[v]
        BY <1>2, <2>2 DEF WorkerWrites
      <3>2. f \in Lists[task[v].tape]
        BY <3>1 DEF Tapes, AtTape, Wants, AtWork, Given, Copied
      <3>3. FileRests(w, f)
        BY <2>2, <3>1, <3>2, OthersRest DEF AtWork, Given
      <3> QED
        BY <1>1, <1>2, <1>3, <2>1, <3>1, <3>3, StillTold DEF Lying, OneFault, FileRests
    <2>3. CASE v = w /\ FileRests(w, f)
      <3>1. pc[w] \in Given /\ copy'[w][f] = copy[w][f]
        BY <2>3 DEF FileRests
      <3>2. CASE pc'[w] = pc[w]
        BY <1>1, <1>2, <1>3, <2>1, <2>3, <3>1, <3>2, StillTold DEF Lying, OneFault, FileRests
      <3>3. CASE pc'[w] # pc[w]
        <4>1. mem'[e].items[f] = mem[e].items[f] /\ mem[e].items[f] # "STAGED"
          BY <2>3, <3>1 DEF FileRests, Lying, Following, Copied
        <4>2. \/ job[owner[e]].items[f] # "STAGED"
              \/ copy[w][f] = "pending" /\ faults = MaxFaults
          BY <2>3, <3>1 DEF OneFault, Told
        <4>3. Exe(v)' = e
          BY <2>1, <2>3 DEF Exe
        <4> QED
          BY <1>1, <1>3, <1>4, <2>3, <3>1, <4>1, <4>2, <4>3 DEF RowStep, Tells
      <3> QED
        BY <3>2, <3>3
    <2>4. CASE v = w /\ FileCopied(w, f)
      <3>1. Exe(v)' = e
        BY <2>1, <2>4 DEF Exe
      <3>2. job'[owner[e]].items = mem'[e].items \/ (UNCHANGED job /\ faults = 0 /\ faults' = MaxFaults)
        BY <1>4, <2>4 DEF FileCopied, Tells
      <3>3. CASE copy[w][f] = "queued"
        BY <1>3, <2>4, <3>1, <3>2, <3>3 DEF FileCopied
      <3>4. CASE copy[w][f] = "pending"
        <4>1. faults # MaxFaults => job[owner[e]].items[f] # "STAGED"
          BY <2>4, <3>4 DEF OneFault, Told, Copied, Given, FileCopied
        <4>2. UNCHANGED job => faults # MaxFaults \/ job'[owner[e]].items = mem'[e].items
          BY <1>4, <2>4 DEF FileCopied, Tells
        <4> QED
          BY <1>3, <2>4, <3>1, <3>2, <3>4, <4>1, <4>2 DEF FileCopied
      <3> QED
        BY <2>4, <3>3, <3>4 DEF FileCopied, Copied
    <2> QED
      BY <1>1, <2>2, <2>3, <2>4 DEF FileStep, FileReported, Given
  <1>6. \A j \in Jobs : StagedLies(j)'
    <2> SUFFICES ASSUME NEW j \in Jobs, NEW f \in FileEntries, job'[j].items[f] = "STAGED"
                 PROVE  f \in target'[j]
      BY DEF StagedLies, Staged
    <2>1. CASE job'[j].items = mem'[e].items /\ j = owner[e]
      BY <2>1, WorkerLies DEF Claimed
    <2>2. CASE job'[j] = job[j] /\ j # owner[e]
      BY <1>1, <2>2 DEF OneFault, StagedLies, Staged, RowStep
    <2>3. CASE job'[j] = job[j] /\ j = owner[e] /\ job'[j].items # mem'[e].items
      <3>1. f \in target[j]
        BY <2>3 DEF OneFault, StagedLies, Staged
      <3>2. CASE FileCopied(w, f)
        <4>1. faults < MaxFaults
          BY <2>3, <3>2 DEF FileCopied, Tells
        <4>2. copy[w][f] # "pending"
          BY <1>4, <2>3, <3>2, <4>1 DEF OneFault, Told, FileCopied, Copied, Given
        <4> QED
          BY <2>3, <3>1, <3>2, <4>2 DEF FileCopied
      <3> QED
        BY <1>1, <2>3, <3>1, <3>2 DEF FileStep, FileRests, FileReported
    <2> QED
      BY <1>1, <2>1, <2>2, <2>3 DEF RowStep, Tells
  <1> QED
    BY <1>5, <1>6 DEF OneFault

LEMMA AllReady ==
    ASSUME Init
    PROVE  \A j \in Jobs, f \in FileEntries : job[j].items[f] = "PENDING"
  <1>1. NoRow.items = AllPending /\ ReadyRow.items = AllPending
    BY DEF ReadyRow, NewRow, NoRow
  <1>2. \A j \in Jobs : job[j].items = AllPending
    BY <1>1 DEF Init, StoreInit
  <1> QED
    BY <1>2 DEF AllPending, FileEntries

LEMMA OneFaultInvariant ==
    ASSUME NobodyEdits, MaxFaults <= 1
    PROVE  Spec => [](Lying /\ OneFault)
  <1>1. ASSUME Init
        PROVE  Lying /\ OneFault
    <2>1. \A j \in Jobs, f \in FileEntries : job[j].items[f] = "PENDING"
      BY <1>1, AllReady
    <2> QED
      BY <1>1, <2>1 DEF Init, StoreInit, Lying, OneFault, ClaimsLie, Writer, Following, Given, Told,
                        RestoredIsVerified, StagedLies, Staged, Submited, FileEntries
  <1>2. ASSUME Typed, Tapes, Written, Lying, OneFault, [Next]_vars
        PROVE  Lying' /\ OneFault'
    <2>1. LoadsLie
      BY <1>2 DEF LoadsLie, OneFault
    <2>2. CASE UNCHANGED vars
      BY <1>2, <2>2 DEF vars, storeVars, workerVars, Lying, OneFault, ClaimsLie, Writer, Busy, Exe,
                        Following, Told, RestoredIsVerified, StagedLies
    <2>3. CASE StoreNext /\ UNCHANGED <<workerVars, target, crashes>>
      BY <1>2, <2>1, <2>3, LoadsFiles, StoreOneFault
    <2>4. ASSUME NEW c \in Clients, Dispatch(c)
          PROVE  Lying' /\ OneFault'
      BY <1>2, <2>4, DispatchLies, DispatchOneFault
    <2>5. ASSUME NEW w \in Workers, RestoreTape(w)
          PROVE  Lying' /\ OneFault'
      BY <1>2, <2>5, WorkerLies, WorkerOneFault
    <2>6. CASE Crash
      <3>1. Told'
        BY <2>6 DEF Crash, Told, Given
      <3> QED
        BY <1>2, <2>1, <2>6, <3>1, CrashFiles DEF OneFault
    <2> QED
      BY <1>2, <2>2, <2>3, <2>4, <2>5, <2>6 DEF Next
  <1> QED
    BY <1>1, <1>2, WrittenInvariant, PTL DEF Spec

-----------------------------------------------------------------------------
(* With at most one restart, only the rows of the first life are loaded     *)
(* with something staged; and as long as the server has not died, a row     *)
(* says STAGED only of a file its executor has staged or submitted.         *)

Mirrored ==
    crashes = 0 => \A e \in Executors : Writer(e) => Staged(job[owner[e]]) \subseteq Claimed(mem[e])

(* The worker that has copied a staged file has not reported it yet. *)
Attends(w, e, f) ==
    /\ Exe(w) = e
    /\ f \in Lists[task[w].tape]
    /\ pc[w] = "report" \/ (pc[w] = "copy" /\ copy[w][f] = "over")

Attended ==
    crashes = 0 => \A e \in Executors : Writer(e) =>
                        \A f \in Staged(mem[e]) : \E w \in Workers : Attends(w, e, f)

Unstaged == crashes = 0 => \A j \in Jobs : Unowned(j) => Staged(job[j]) = {}

OneCrash == LoadsLie /\ Mirrored /\ Attended /\ Unstaged

LEMMA StoreOneCrash ==
    ASSUME Typed, Written, Lying, OneCrash, NobodyEdits, StoreNext,
           UNCHANGED <<workerVars, target, crashes>>
    PROVE  OneCrash'
  <1>1. UNCHANGED job /\ (Looks \/ \E j \in Jobs, e \in Executors : Loads(j, e))
    BY RequestsRead DEF Written
  <1>2. LoadsLie'
    BY LoadsFiles DEF OneCrash
  <1>3. CASE Looks
    <2>1. UNCHANGED <<job, owner, mem, pc, task, copy, crashes>>
      BY <1>1, <1>3 DEF Looks, workerVars
    <2>2. Mirrored' /\ Unstaged'
      BY <2>1 DEF OneCrash, Mirrored, Unstaged, Unowned, Writer, Busy, Exe, Staged, Claimed
    <2>3. Attended'
      BY <2>1 DEF OneCrash, Attended, Attends, Writer, Busy, Exe, Staged
    <2> QED
      BY <1>2, <2>2, <2>3 DEF OneCrash
  <1>4. ASSUME NEW j \in Jobs, NEW e \in Executors, Loads(j, e)
        PROVE  OneCrash'
    <2>1. /\ owner'[e] = j /\ mem'[e] = job[j] /\ cache[j] = None /\ owner[e] = None
          /\ \A f \in Executors : f # e => owner'[f] = owner[f] /\ mem'[f] = mem[f]
      BY <1>4 DEF Loads, StoreTyped, StoreTypeOK
    <2>2. \A f \in Executors : f # e => (Writer(f)' <=> Writer(f))
      BY <2>1 DEF Writer, Busy, Exe, workerVars
    <2>3. ~ Busy(e)'
      BY <2>1, TaskType DEF Busy, Exe, workerVars
    <2>4. Writer(e)' => Unowned(j)
      BY <2>1, <2>3 DEF Writer, Unowned, Written, Cached
    <2>5. \A k \in Jobs : Unowned(k)' => Unowned(k)
      BY <2>1 DEF Unowned
    <2>6. Unstaged'
      BY <1>1, <2>5 DEF OneCrash, Unstaged
    <2>7. Mirrored'
      BY <1>1, <2>1, <2>2 DEF OneCrash, Mirrored, Staged, Claimed, Writer
    <2>8. Attended'
      <3>1. crashes = 0 /\ Writer(e)' => Staged(mem'[e]) = {}
        BY <2>1, <2>4 DEF OneCrash, Unstaged
      <3>2. \A f \in Executors, g \in FileEntries, w \in Workers : Attends(w, f, g) => Attends(w, f, g)'
        BY DEF Attends, Exe, workerVars
      <3> QED
        BY <2>1, <2>2, <3>1, <3>2 DEF OneCrash, Attended, Staged
    <2> QED
      BY <1>2, <2>6, <2>7, <2>8 DEF OneCrash
  <1> QED
    BY <1>1, <1>3, <1>4

LEMMA DispatchOneCrash ==
    ASSUME Typed, Written, Lying, OneCrash, NEW c \in Clients, Dispatch(c)
    PROVE  OneCrash'
  <1> DEFINE e == client[c].exe
  <1>1. /\ e \in Executors /\ owner[e] \in Jobs
        /\ RowStep(e) /\ UNCHANGED <<target, copy, crashes>>
        /\ UNCHANGED <<job, mem, target, faults>> \/ Writer(e)
        /\ \A g \in Executors : mem'[g].items = mem[g].items
        /\ \A w \in Workers : pc'[w] \in AtWork \/ pc[w] \in AtWork =>
                 pc'[w] = pc[w] /\ task'[w] = task[w]
        /\ NoNewWriter /\ UNCHANGED owner
    BY DispatchFiles, DispatchWriter DEF NoNewWriter
  <1> HIDE DEF e
  <1>2. \A j \in Jobs : job'[j] = job[j] \/ (j = owner[e] /\ Writer(e) /\ job'[j].items = mem[e].items)
    BY <1>1 DEF RowStep, Tells
  <1>3. \A g \in Executors : Staged(mem'[g]) = Staged(mem[g]) /\ Claimed(mem'[g]) = Claimed(mem[g])
    BY <1>1 DEF Staged, Claimed
  <1>4. \A j \in Jobs : Staged(job'[j]) = Staged(job[j])
                       \/ (j = owner[e] /\ Writer(e) /\ Staged(job'[j]) = Staged(mem[e]))
    BY <1>2 DEF Staged
  <1>5. \A g \in Executors : Staged(mem[g]) \subseteq Claimed(mem[g])
    BY DEF Staged, Claimed
  <1>6. LoadsLie'
    BY <1>1, <1>4, <1>5 DEF OneCrash, LoadsLie, StagedLies, Unowned, Lying, ClaimsLie
  <1>7. Mirrored'
    <2> SUFFICES ASSUME crashes = 0, NEW g \in Executors, Writer(g)
                 PROVE  Staged(job'[owner[g]]) \subseteq Claimed(mem[g])
      BY <1>1, <1>3 DEF Mirrored, NoNewWriter
    <2>1. owner[g] = owner[e] /\ Writer(e) => g = e
      BY <1>1 DEF Written, OneWriter
    <2>2. owner[g] \in Jobs
      BY DEF Writer
    <2> QED
      BY <1>4, <1>5, <2>1, <2>2 DEF OneCrash, Mirrored
  <1>8. Attended'
    <2>1. \A g \in Executors, f \in FileEntries, w \in Workers : Attends(w, g, f) => Attends(w, g, f)'
      BY <1>1 DEF Attends, Exe, AtWork
    <2> QED
      BY <1>1, <1>3, <2>1 DEF OneCrash, Attended, NoNewWriter, Staged
  <1>9. Unstaged'
    BY <1>1, <1>4 DEF OneCrash, Unstaged, Unowned
  <1> QED
    BY <1>6, <1>7, <1>8, <1>9 DEF OneCrash

(* A file that a worker is to copy is not staged by another of its executor. *)
LEMMA CopiedIsUnclaimed ==
    ASSUME Typed, Tapes, Lying, Attended, crashes = 0, NEW w \in Workers, Writer(Exe(w)),
           NEW f \in FileEntries, FileCopied(w, f)
    PROVE  f \notin Claimed(mem[Exe(w)])
  <1> SUFFICES ASSUME mem[Exe(w)].items[f] = "STAGED"
               PROVE  FALSE
    BY DEF FileCopied, Claimed
  <1>1. pc[w] = "copy" /\ f \in Lists[task[w].tape] /\ copy[w][f] = "queued" /\ Exe(w) \in Executors
    BY TaskType DEF FileCopied, Lying, Following, Given
  <1>2. PICK v \in Workers : Attends(v, Exe(w), f)
    BY <1>1 DEF Attended, Staged
  <1>3. v # w
    BY <1>1, <1>2 DEF Attends
  <1>4. pc[v] \in AtWork /\ f \in Lists[task[v].tape]
    BY <1>2 DEF Attends, AtWork
  <1>5. task[v].tape \in TapeEntries /\ task[w].tape \in TapeEntries /\ task[v].tape # task[w].tape
    BY <1>1, <1>3, <1>4 DEF Tapes, AtTape, Wants, AtWork, OneTapeEach
  <1> QED
    BY <1>1, <1>4, <1>5

LEMMA WorkerOneCrash ==
    ASSUME MaxCrashes <= 1, Typed, Tapes, Written, Lying, OneCrash, NEW w \in Workers, RestoreTape(w)
    PROVE  OneCrash'
  <1> DEFINE e == Exe(w)
  <1>1. RowStep(e) /\ \A f \in FileEntries : FileStep(w, f)
    BY WorkerFiles
  <1>2. WorkerWrites(w) /\ NoNewWriter /\ Writer(e)
    BY RestoreTapeWrites, RestoreTapeWriter DEF Tapes
  <1>3. e \in Executors /\ owner[e] \in Jobs /\ UNCHANGED <<owner, crashes>>
    BY <1>2, TaskType DEF WorkerWrites
  <1>4. \A g \in Executors : g # e /\ Writer(g) =>
            owner[g] # owner[e] /\ mem'[g] = mem[g] /\ job'[owner[g]] = job[owner[g]]
    BY <1>1, <1>2, <1>3 DEF Written, OneWriter, RowStep, Writer
  <1>5. Claimed(mem'[e]) \subseteq target'[owner[e]]
    BY WorkerLies
  <1>6. Staged(mem'[e]) \subseteq Claimed(mem'[e])
    BY DEF Staged, Claimed
  <1>7. CASE crashes # 0
    <2>1. LoadsLie'
      <3> SUFFICES ASSUME NEW j \in Jobs, Unowned(j)
                   PROVE  StagedLies(j)'
        BY <1>3, <1>7 DEF LoadsLie, Unowned
      <3>1. j # owner[e]
        BY <1>3 DEF Unowned
      <3> QED
        BY <1>1, <3>1 DEF RowStep, StagedLies, OneCrash, LoadsLie
    <2> QED
      BY <1>3, <1>7, <2>1 DEF OneCrash, Mirrored, Attended, Unstaged
  <1>8. CASE crashes = 0
    (* what the row claims to be staged is still claimed, so it still lies there *)
    <2>1. Staged(job[owner[e]]) \subseteq Claimed(mem'[e])
      <3> SUFFICES ASSUME NEW f \in FileEntries, job[owner[e]].items[f] = "STAGED"
                   PROVE  mem'[e].items[f] \in {"STAGED", "SUBMITED"}
        BY DEF Staged, Claimed
      <3>1. f \in Claimed(mem[e])
        BY <1>2, <1>3, <1>8 DEF OneCrash, Mirrored, Staged
      <3>2. ~ FileCopied(w, f)
        BY <1>2, <1>8, <3>1, CopiedIsUnclaimed DEF OneCrash
      <3> QED
        BY <1>1, <3>1, <3>2 DEF FileStep, FileRests, FileReported, Claimed
    <2>2. Staged(job'[owner[e]]) \subseteq Claimed(mem'[e])
      <3>1. CASE job'[owner[e]].items = mem'[e].items
        BY <3>1 DEF Staged, Claimed
      <3>2. CASE UNCHANGED job
        BY <2>1, <3>2
      <3> QED
        BY <1>1, <3>1, <3>2 DEF RowStep, Tells
    <2>3. Mirrored'
      BY <1>2, <1>3, <1>4, <1>8, <2>2 DEF OneCrash, Mirrored, NoNewWriter
    <2>4. LoadsLie'
      <3> SUFFICES ASSUME NEW j \in Jobs, crashes < MaxCrashes \/ Unowned(j)
                   PROVE  StagedLies(j)'
        BY <1>3 DEF LoadsLie, Unowned
      <3>1. CASE j # owner[e]
        BY <1>1, <3>1 DEF RowStep, StagedLies, OneCrash, LoadsLie
      <3>2. CASE j = owner[e]
        BY <1>5, <2>2, <3>2 DEF StagedLies
      <3> QED
        BY <3>1, <3>2
    <2>5. Unstaged'
      BY <1>1, <1>3 DEF RowStep, OneCrash, Unstaged, Unowned
    <2>6. Attended'
      <3> SUFFICES ASSUME NEW g \in Executors, Writer(g), NEW f \in FileEntries,
                          mem'[g].items[f] = "STAGED"
                   PROVE  \E v \in Workers : Attends(v, g, f)'
        BY <1>2 DEF Attended, Staged, NoNewWriter
      <3>1. ASSUME NEW v \in Workers, v # w, Attends(v, g, f)
            PROVE  Attends(v, g, f)'
        BY <1>2, <3>1 DEF WorkerWrites, Attends, Exe
      <3>2. CASE g # e
        <4>1. f \in Staged(mem[g])
          BY <1>4, <3>2 DEF Staged
        <4>2. PICK v \in Workers : Attends(v, g, f)
          BY <1>8, <4>1 DEF OneCrash, Attended
        <4>3. v # w
          BY <3>2, <4>2 DEF Attends
        <4> QED
          BY <3>1, <4>2, <4>3
      <3>3. CASE g = e /\ FileRests(w, f)
        <4>1. f \in Staged(mem[e])
          BY <3>3 DEF FileRests, Staged
        <4>2. PICK v \in Workers : Attends(v, e, f)
          BY <1>2, <1>3, <1>8, <4>1 DEF OneCrash, Attended
        <4>3. CASE v = w
          <5>1. pc[w] = "copy" /\ copy[w][f] = "over" /\ f \in Lists[task[w].tape]
            BY <3>3, <4>1, <4>2, <4>3 DEF Attends, FileRests, Staged
          <5>2. pc'[w] = "report" \/ (pc'[w] = "copy" /\ copy'[w][f] = "over")
            BY <3>3, <5>1 DEF FileRests
          <5>3. task'[w] = task[w] /\ Exe(w)' = e
            BY <1>2, <5>2 DEF WorkerWrites, Exe
          <5> QED
            BY <3>3, <5>1, <5>2, <5>3 DEF Attends
        <4> QED
          BY <3>1, <3>3, <4>2, <4>3
      <3>4. CASE g = e /\ FileCopied(w, f)
        <4>1. pc'[w] = "copy" /\ copy'[w][f] = "over" /\ f \in Lists[task[w].tape]
          BY <3>4 DEF FileCopied
        <4>2. task'[w] = task[w] /\ Exe(w)' = e
          BY <1>2, <4>1 DEF WorkerWrites, Exe
        <4> QED
          BY <3>4, <4>1, <4>2 DEF Attends
      <3> QED
        BY <1>1, <3>2, <3>3, <3>4 DEF FileStep, FileReported
    <2> QED
      BY <2>3, <2>4, <2>5, <2>6 DEF OneCrash
  <1> QED
    BY <1>7, <1>8

LEMMA OneCrashInvariant ==
    ASSUME NobodyEdits, MaxCrashes <= 1
    PROVE  Spec => [](Lying /\ OneCrash)
  <1>1. ASSUME Init
        PROVE  Lying /\ OneCrash
    <2>1. \A j \in Jobs, f \in FileEntries : job[j].items[f] = "PENDING"
      BY <1>1, AllReady
    <2> QED
      BY <1>1, <2>1 DEF Init, StoreInit, Lying, OneCrash, ClaimsLie, Writer, Following, Given,
                        RestoredIsVerified, LoadsLie, StagedLies, Staged, Submited, FileEntries,
                        Mirrored, Attended, Unstaged
  <1>2. ASSUME Typed, Tapes, Written, Lying, OneCrash, [Next]_vars
        PROVE  Lying' /\ OneCrash'
    <2>1. CASE UNCHANGED vars
      BY <1>2, <2>1 DEF vars, storeVars, workerVars, Lying, OneCrash, ClaimsLie, Writer, Busy, Exe,
                        Following, RestoredIsVerified, LoadsLie, StagedLies, Mirrored, Attended,
                        Attends, Unstaged, Unowned
    <2>2. CASE StoreNext /\ UNCHANGED <<workerVars, target, crashes>>
      BY <1>2, <2>2, LoadsFiles, StoreOneCrash DEF OneCrash
    <2>3. ASSUME NEW c \in Clients, Dispatch(c)
          PROVE  Lying' /\ OneCrash'
      BY <1>2, <2>3, DispatchLies, DispatchOneCrash
    <2>4. ASSUME NEW w \in Workers, RestoreTape(w)
          PROVE  Lying' /\ OneCrash'
      BY <1>2, <2>4, WorkerLies, WorkerOneCrash
    <2>5. CASE Crash
      <3>1. Lying' /\ LoadsLie'
        BY <1>2, <2>5, CrashFiles DEF OneCrash, LoadsLie
      <3>2. crashes' # 0
        BY <1>2, <2>5 DEF Crash
      <3> QED
        BY <3>1, <3>2 DEF OneCrash, Mirrored, Attended, Unstaged
    <2> QED
      BY <1>2, <2>1, <2>2, <2>3, <2>4, <2>5 DEF Next
  <1> QED
    BY <1>1, <1>2, WrittenInvariant, PTL DEF Spec

(* What a job calls restored lies at its target with the library's hash and *)
(* size, when at most one save fails, or when the server restarts at most   *)
(* once, however often the other happens, and whatever is dispatched by     *)
(* hand.  With one failing save no row ever says STAGED of a file that was  *)
(* opened again; with one restart every staged file of the first life has   *)
(* its worker, and what was staged then is loaded only as it was.           *)
THEOREM RestoredFilesAreVerified ==
    ASSUME NobodyEdits, MaxFaults <= 1 \/ MaxCrashes <= 1
    PROVE  Spec => []RestoredIsVerified
  <1>1. CASE MaxFaults <= 1
    BY <1>1, OneFaultInvariant, PTL DEF Lying
  <1>2. CASE MaxCrashes <= 1
    BY <1>2, OneCrashInvariant, PTL DEF Lying
  <1> QED
    BY <1>1, <1>2

-----------------------------------------------------------------------------
(* The lock of an executor.  A worker between its dispatch and the dispatch *)
(* of the next step finds its executor in step COPYING, from where none     *)
(* starts; the tapes it has counted as restored stay so.                    *)
Locked ==
    /\ \A v, w \in Workers : pc[v] \in Making /\ pc[w] \in Making /\ Exe(v) = Exe(w) => v = w
    /\ \A w \in Workers : pc[w] \in Making => mem[Exe(w)].step = "COPYING"
    /\ \A w \in Workers : pc[w] = "complete" => AllDone(mem[Exe(w)])

LEMMA LockKept ==
    ASSUME Locked,
           \A v \in Workers : pc'[v] \in Making =>
                /\ pc[v] \in Making
                /\ task'[v] = task[v]
                /\ mem'[Exe(v)].step = mem[Exe(v)].step
                /\ pc'[v] = "complete" => pc[v] = "complete"
                /\ pc'[v] = "complete" => mem'[Exe(v)].items = mem[Exe(v)].items
    PROVE  Locked'
  <1>1. "complete" \in Making
    BY DEF Making, WorkerPCs
  <1>2. \A v \in Workers : pc'[v] \in Making => Exe(v)' = Exe(v)
    BY DEF Exe
  <1>3. \A v, w \in Workers :
            pc'[v] \in Making /\ pc'[w] \in Making /\ Exe(v)' = Exe(w)' => v = w
    BY <1>2 DEF Locked
  <1>4. \A v \in Workers : pc'[v] \in Making => mem'[Exe(v)'].step = "COPYING"
    BY <1>2 DEF Locked
  <1>5. ASSUME NEW v \in Workers, pc'[v] = "complete"
        PROVE  AllDone(mem[Exe(v)])'
    <2>1. AllDone(mem[Exe(v)]) /\ Exe(v)' = Exe(v) /\ mem'[Exe(v)].items = mem[Exe(v)].items
      BY <1>1, <1>2, <1>5 DEF Locked
    <2> QED
      BY <2>1 DEF AllDone, Submited
  <1> QED
    BY <1>3, <1>4, <1>5 DEF Locked

LEMMA StoreLocked ==
    ASSUME Typed, Locked, Fresh, StoreNext, UNCHANGED workerVars
    PROVE  Locked' /\ Fresh'
  <1>1. \A v \in Workers : pc[v] \in Making => mem'[Exe(v)] = mem[Exe(v)]
    <2>1. \A v \in Workers : pc[v] \in Making =>
            Exe(v) \in Executors /\ owner[Exe(v)] \in Jobs /\ mem[Exe(v)].step = "COPYING"
      BY TaskType DEF Locked, Making
    <2> QED
      BY <2>1, StoreFresh DEF BusyKept
  <1> QED
    BY <1>1, LockKept, StoreFresh DEF workerVars

LEMMA DispatchLocked ==
    ASSUME PagesOnly, Typed, Locked, Fresh, NEW c \in Clients, Dispatch(c)
    PROVE  Locked' /\ Fresh'
  <1> DEFINE x == client[c].exe
  <1>0. DispatchWrites(c)
    BY DispatchIs
  <1>1. client'[c].pc \notin Initialising /\ \A d \in Clients : d # c => client'[d] = client[d]
    BY <1>0 DEF DispatchWrites, Reply, Become, Idle, Initialising, StoreTyped, StoreTypeOK
  <1>2. x \in Executors /\ owner[x] \in Jobs /\ mem[x] \in Row
    BY <1>0 DEF DispatchWrites, StoreTyped, StoreTypeOK
  <1>3. CASE UNCHANGED <<mem, pc, task>>
    BY <1>1, <1>3, LockKept, FreshKept
  <1>4. ~ DispatchWait(c) /\ ~ DispatchFinish(c)
    BY DEF PagesOnly, DispatchWait, DispatchFinish
  <1>5. ASSUME MayCopy(mem[x]), mem' = [mem EXCEPT ![x] = Switched(mem[x], "COPYING", "PROCESSING")]
        PROVE  /\ Fresh'
               /\ mem'[x].step = "COPYING"
               /\ \A e \in Executors : e # x => mem'[e] = mem[e]
               /\ \A v \in Workers : pc[v] \in Making => Exe(v) \in Executors /\ Exe(v) # x
    <2>1. /\ mem'[x].step = "COPYING"
          /\ \A e \in Executors : e # x => mem'[e] = mem[e]
      BY <1>2, <1>5 DEF Switched, Row, StoreTyped, StoreTypeOK
    <2>2. mem[x].step = "WAIT_FOR_TAPE"
      BY <1>5 DEF MayCopy
    <2>3. \A v \in Workers : pc[v] \in Making => Exe(v) \in Executors /\ Exe(v) # x
      BY <2>2, TaskType DEF Locked, Making
    <2> QED
      BY <1>1, <2>1, <2>2, <2>3, FreshKept
  <1>6. CASE DispatchCopyingUnsaved(c)
    <2>1. /\ MayCopy(mem[x])
          /\ mem' = [mem EXCEPT ![x] = Switched(mem[x], "COPYING", "PROCESSING")]
          /\ UNCHANGED workerVars
      BY <1>6 DEF DispatchCopyingUnsaved, FailsToSave
    <2> QED
      BY <1>5, <2>1, LockKept DEF workerVars
  <1>7. ASSUME NEW w \in Workers, NEW dev \in Devices, NEW tape \in Cartridges,
               DispatchCopying(c, w, dev, tape)
        PROVE  Locked' /\ Fresh'
    <2>1. /\ MayCopy(mem[x])
          /\ mem' = [mem EXCEPT ![x] = Switched(mem[x], "COPYING", "PROCESSING")]
      BY <1>7 DEF DispatchCopying, Saves
    <2>2. /\ pc'[w] = "occupy"
          /\ Exe(w)' = x
          /\ \A v \in Workers : v # w => pc'[v] = pc[v] /\ Exe(v)' = Exe(v)
      BY <1>7 DEF DispatchCopying, Goes, Exe, WorkersTyped
    <2>3. \A u, v \in Workers : pc'[u] \in Making /\ pc'[v] \in Making /\ Exe(u)' = Exe(v)' => u = v
      BY <1>5, <2>1, <2>2 DEF Locked
    <2>4. \A v \in Workers : pc'[v] \in Making => mem'[Exe(v)'].step = "COPYING"
      BY <1>5, <2>1, <2>2 DEF Locked
    <2>5. ASSUME NEW v \in Workers, pc'[v] = "complete"
          PROVE  AllDone(mem'[Exe(v)'])
      <3>1. v # w /\ pc[v] = "complete" /\ pc[v] \in Making /\ Exe(v)' = Exe(v)
        BY <2>2, <2>5 DEF Making, WorkerPCs
      <3> QED
        BY <1>5, <2>1, <3>1 DEF Locked
    <2>6. \A v \in Workers : pc'[v] = "complete" => AllDone(mem[Exe(v)])'
      BY <2>5 DEF AllDone, Submited
    <2> QED
      BY <1>5, <2>1, <2>3, <2>4, <2>6 DEF Locked
  <1>8. CASE DispatchRefused(c)
    BY <1>3, <1>8 DEF DispatchRefused, workerVars
  <1> QED
    BY <1>4, <1>6, <1>7, <1>8 DEF Dispatch

(* Where a worker goes: never back under the lock, to completion only when  *)
(* all tapes are restored, and after its dispatch to the release.           *)
LEMMA WorkerGoes ==
    ASSUME Typed, NEW w \in Workers, RestoreTape(w)
    PROVE  /\ pc'[w] \in Making => pc[w] \in Making
           /\ pc'[w] = "complete" => UNCHANGED mem /\ pc[w] = "todo" /\ AllDone(mem[Exe(w)])
           /\ pc[w] \in {"wait", "complete"} => pc'[w] = "release"
  <1> USE DEF Goes, GoesWrong, WorkersTyped
  <1>1. CASE Occupy(w) \/ ReadInfo(w) \/ Start(w) \/ CopyDone(w) \/ Report(w)
    BY <1>1 DEF Occupy, ReadInfo, Start, CopyDone, Report, Making, WorkerPCs
  <1>2. ASSUME NEW f \in FileEntries, CopyStarts(w, f) \/ CopyEnds(w, f) \/ CopySkips(w, f)
        PROVE  pc[w] = "copy" /\ UNCHANGED pc
    BY <1>2 DEF CopyStarts, CopyEnds, CopySkips, CopyEvent
  <1>3. CASE CountTodo(w)
    BY <1>3 DEF CountTodo, Making, WorkerPCs, storeVars
  <1>4. CASE FinishWait(w) \/ FinishComplete(w) \/ Release(w) \/ MarkFailed(w)
    BY <1>4 DEF FinishWait, FinishComplete, Release, MarkFailed, Off, Making, WorkerPCs
  <1> QED
    BY <1>1, <1>2, <1>3, <1>4 DEF RestoreTape

LEMMA RestoreTapeLocked ==
    ASSUME Typed, Tapes, Locked, Fresh, NEW w \in Workers, RestoreTape(w)
    PROVE  Locked' /\ Fresh'
  <1> DEFINE x == Exe(w)
  <1>1. WorkerWrites(w)
    BY RestoreTapeWrites DEF Tapes
  <1>2. x \in Executors /\ owner[x] \in Jobs /\ mem[x] \in Row /\ pc[w] # "off" /\ UNCHANGED client
    BY <1>1, TaskType DEF WorkerWrites
  <1>3. \A v \in Workers : v # w => pc'[v] = pc[v] /\ task'[v] = task[v]
    BY <1>1 DEF WorkerWrites
  <1>4. \A v \in Workers : pc[v] \in Making /\ pc[w] \in Making /\ v # w =>
            Exe(v) \in Executors /\ Exe(v) # x
    BY TaskType DEF Locked, Making
  <1>5. pc'[w] \in Making => pc[w] \in Making /\ task'[w] = task[w]
    BY <1>1, WorkerGoes DEF WorkerWrites, Making
  <1>6. CASE pc'[w] = "complete"
    <2>1. UNCHANGED mem /\ pc[w] = "todo" /\ AllDone(mem[x])
      BY <1>6, WorkerGoes
    <2>2. \A v \in Workers : Exe(v)' = Exe(v) /\ (pc'[v] \in Making => pc[v] \in Making)
      BY <1>3, <1>5, <1>6 DEF Exe, Making, WorkerPCs
    <2>3. ASSUME NEW v \in Workers, pc'[v] = "complete"
          PROVE  AllDone(mem[Exe(v)])
      BY <1>3, <2>1, <2>3 DEF Locked
    <2>4. \A v \in Workers : pc'[v] = "complete" => AllDone(mem[Exe(v)])'
      BY <2>1, <2>2, <2>3 DEF AllDone, Submited
    <2>5. Locked'
      BY <2>1, <2>2, <2>4 DEF Locked
    <2> QED
      BY <1>2, <2>1, <2>5, FreshKept
  <1>7. CASE pc'[w] # "complete" /\ UNCHANGED mem
    BY <1>2, <1>3, <1>5, <1>7, LockKept, FreshKept
  <1>8. ASSUME pc'[w] # "complete", NEW row \in Row, Marked(w, row), Updates(x, row)
        PROVE  Locked' /\ Fresh'
    <2>1. /\ mem'[x] = row /\ row.step = mem[x].step
          /\ \A e \in Executors : e # x => mem'[e] = mem[e]
      BY <1>2, <1>8, UpdatesEffect DEF Marked
    <2>2. Fresh'
      BY <1>2, <2>1, FreshKept
    <2>3. ASSUME pc[w] \notin Making
          PROVE  \A i \in Items : row.items[i] = mem[x].items[i]
      BY <1>8, <2>3 DEF Marked, AtWork, Making, WorkerPCs
    <2>4. ASSUME pc[w] \notin Making
          PROVE  row.items = mem[x].items
      <3>1. row.items \in [Items -> CopyStatuses] /\ mem[x].items \in [Items -> CopyStatuses]
        BY <1>2 DEF Row
      <3>2. \A i \in Items : row.items[i] = mem[x].items[i]
        BY <2>3, <2>4
      <3> QED
        BY ONLY <3>1, <3>2
    <2>5. \A v \in Workers : pc'[v] \in Making => Exe(v) \in Executors
      BY <1>2, <1>3, TaskType DEF Making
    <2> QED
      BY <1>3, <1>4, <1>5, <1>8, <2>1, <2>2, <2>4, <2>5, LockKept
  <1>9. CASE pc'[w] # "complete" /\ pc[w] \in {"wait", "complete"}
                /\ (WaitForTape(x) \/ Finished(x))
    <2>1. pc[w] \in Making /\ pc'[w] \notin Making
      <3>1. pc'[w] = "release"
        BY <1>9, WorkerGoes
      <3> QED
        BY <1>9, <3>1 DEF Making, WorkerPCs
    <2>2. \A e \in Executors : e # x => mem'[e] = mem[e]
      BY <1>2, <1>9 DEF WaitForTape, Finished, Updates, Saves, FailsToSave, StoreTyped, StoreTypeOK
    <2>3. mem[x].step = "COPYING"
      BY <2>1 DEF Locked
    <2>4. Fresh'
      BY <1>2, <2>2, <2>3, FreshKept
    <2> QED
      BY <1>3, <1>4, <2>1, <2>2, <2>4, LockKept
  <1> QED
    BY <1>1, <1>6, <1>7, <1>8, <1>9 DEF WorkerWrites

LEMMA LockInvariant ==
    ASSUME PagesOnly
    PROVE  Spec => [](Typed /\ Tapes /\ Locked /\ Fresh)
  <1>1. Init => Locked /\ Fresh
    BY DEF Init, StoreInit, Idle, Locked, Fresh, Initialising, At, Making
  <1>2. ASSUME Typed, Tapes, Locked, Fresh, [Next]_vars
        PROVE  Locked' /\ Fresh'
    <2>1. CASE UNCHANGED vars
      <3>1. UNCHANGED <<mem, client, pc, task>>
        BY <2>1 DEF vars, storeVars, workerVars
      <3> QED
        BY <1>2, <3>1, LockKept, FreshKept
    <2>2. CASE StoreNext /\ UNCHANGED <<workerVars, target, crashes>>
      BY <1>2, <2>2, StoreLocked
    <2>3. CASE Crash
      BY <2>3 DEF Crash, Idle, Locked, Fresh, Initialising, At, Making
    <2> QED
      BY <1>2, <2>1, <2>2, <2>3, DispatchLocked, RestoreTapeLocked DEF Next
  <1> QED
    BY <1>1, <1>2, TapesInvariant, PTL DEF Spec

(* A worker that completes a job has found and keeps every tape of it       *)
(* restored, and with the tapes every file: between the count of the tapes  *)
(* and the dispatch of Finished nobody takes back what was counted, and a   *)
(* restored tape is whole.  So far as clients send the dispatches of the    *)
(* pages, and roll no job back.                                             *)
THEOREM CompletionIsSound ==
    ASSUME PagesOnly, "rollback" \notin Ops
    PROVE  Spec => CompletedIsRestored
  <1> DEFINE Sound == \A w \in Workers :
         pc[w] = "complete" /\ pc'[w] = "release" =>
            /\ mem'[Exe(w)].status = "COMPLETED"
            /\ Submited(mem'[Exe(w)]) = Items
  <1>1. ASSUME Typed, Tapes, Locked, AllWhole, [Next]_vars
        PROVE  [Sound]_vars
    <2> SUFFICES ASSUME NEW w \in Workers, pc[w] = "complete", pc'[w] = "release"
                 PROVE  /\ mem'[Exe(w)].status = "COMPLETED"
                        /\ Submited(mem'[Exe(w)]) = Items
      OBVIOUS
    <2>1. FinishComplete(w)
      <3>1. Next
        BY <1>1 DEF vars, workerVars
      <3>2. ~ StoreNext \/ ~ UNCHANGED <<workerVars, target, crashes>>
        BY DEF workerVars
      <3>3. ~ Crash /\ \A c \in Clients : ~ Dispatch(c)
        BY <1>1, DispatchIs DEF Crash, DispatchWrites, WorkersTyped
      <3>4. PICK v \in Workers : RestoreTape(v)
        BY <3>1, <3>2, <3>3 DEF Next
      <3>5. v = w
        BY <1>1, <3>4, RestoreTapeWrites DEF WorkerWrites, Tapes
      <3> QED
        BY <3>4, <3>5 DEF RestoreTape, Occupy, ReadInfo, Start, CopyStarts, CopyEnds, CopyEvent,
           CopySkips, CopyDone, Report, CountTodo, FinishWait, Release, MarkFailed
    <2>2. /\ AllDone(mem[Exe(w)])
          /\ MayFinish(mem[Exe(w)])
          /\ Exe(w) \in Executors
          /\ mem[Exe(w)] \in Row
      BY <1>1, TaskType DEF Locked, MayFinish, Making, WorkerPCs
    <2>3. mem' = [mem EXCEPT ![Exe(w)] = Switched(mem[Exe(w)], "FINISHED", "COMPLETED")]
      BY <2>1, <2>2 DEF FinishComplete, Finished, Saves, FailsToSave
    <2>4. mem'[Exe(w)].status = "COMPLETED" /\ mem'[Exe(w)].items = mem[Exe(w)].items
      BY <1>1, <2>2, <2>3 DEF Switched, Row, StoreTyped, StoreTypeOK
    <2>5. Whole(mem[Exe(w)].items)
      BY <1>1, <2>2, RowsListed DEF AllWhole
    <2>6. \A i \in Items : mem[Exe(w)].items[i] = "SUBMITED"
      <3>1. \A t \in TapeEntries : mem[Exe(w)].items[t] = "SUBMITED"
        BY <2>2 DEF AllDone, Submited
      <3>2. \A f \in FileEntries : \E t \in TapeEntries : f \in Lists[t]
        OBVIOUS
      <3> QED
        BY <2>5, <3>1, <3>2 DEF Whole, FileEntries
    <2> QED
      BY <2>4, <2>6 DEF Submited
  <1> QED
    BY <1>1, LockInvariant, WholeInvariant, PTL DEF Spec, CompletedIsRestored

-----------------------------------------------------------------------------
(* Drives *)

(* A step that takes and returns no drive, and after which the same workers *)
(* hold the same ones.                                                      *)
LEMMA HoldersKept ==
    ASSUME DevicesAccounted, UNCHANGED available,
           \A v \in Workers :
                /\ pc'[v] \in Holding <=> pc[v] \in Holding
                /\ pc[v] \in Holding => task'[v] = task[v]
    PROVE  DevicesAccounted'
  <1>1. \A v \in Workers : pc'[v] \in Holding => pc[v] \in Holding /\ task'[v] = task[v]
    OBVIOUS
  <1>2. \A v \in Workers : pc'[v] \in Holding => task'[v].dev \in Devices \ available'
    BY <1>1 DEF DevicesAccounted
  <1>3. \A u, v \in Workers :
            pc'[u] \in Holding /\ pc'[v] \in Holding /\ task'[u].dev = task'[v].dev => u = v
    BY <1>1 DEF DevicesAccounted
  <1>4. ASSUME NEW d \in Devices \ available'
        PROVE  \E v \in Workers : pc'[v] \in Holding /\ task'[v].dev = d
    <2>1. PICK v \in Workers : pc[v] \in Holding /\ task[v].dev = d
      BY DEF DevicesAccounted
    <2> QED
      BY <2>1
  <1> QED
    BY <1>2, <1>3, <1>4 DEF DevicesAccounted

LEMMA StepDevices ==
    ASSUME Typed, Tapes, DevicesAccounted, NEW w \in Workers, RestoreTape(w)
    PROVE  DevicesAccounted'
  <1> USE DEF Goes, GoesWrong, WorkersTyped
  <1>0. \A v \in Workers : v # w => pc'[v] = pc[v] /\ task'[v] = task[v]
    BY RestoreTapeWrites DEF WorkerWrites, Tapes
  <1>1. CASE Occupy(w)
    <2>1. CASE task[w].dev \in available
      <3>1. /\ available' = available \ {task[w].dev}
            /\ pc'[w] = "readinfo"
            /\ UNCHANGED task
            /\ pc[w] = "occupy"
        BY <1>1, <2>1 DEF Occupy, TakesDevice
      <3>2. pc'[w] \in Holding /\ pc[w] \notin Holding /\ task[w].dev \in Devices
        BY <3>1, TaskType DEF Holding, WorkerPCs
      <3> QED
        BY <1>0, <2>1, <3>1, <3>2 DEF DevicesAccounted
    <2>2. CASE task[w].dev \notin available
      <3>1. pc[w] \notin Holding /\ pc'[w] \notin Holding /\ UNCHANGED available
        BY <1>1, <2>2 DEF Occupy, Holding
      <3> QED
        BY <1>0, <3>1, HoldersKept
    <2> QED
      BY <2>1, <2>2
  <1>2. CASE Release(w)
    <2>1. /\ pc[w] = "release"
          /\ available' = available \cup {task[w].dev}
          /\ pc'[w] \in {"fail", "off"}
      BY <1>2 DEF Release, ReturnsDevice, Off
    <2>2. pc[w] \in Holding /\ pc'[w] \notin Holding
      BY <2>1 DEF Holding, WorkerPCs
    <2>3. \A v \in Workers : pc'[v] \in Holding => v # w /\ pc[v] \in Holding /\ task'[v] = task[v]
      BY <1>0, <2>2
    <2>4. \A v \in Workers : pc'[v] \in Holding => task'[v].dev \in Devices \ available'
      BY <2>1, <2>2, <2>3 DEF DevicesAccounted
    <2>5. \A u, v \in Workers :
            pc'[u] \in Holding /\ pc'[v] \in Holding /\ task'[u].dev = task'[v].dev => u = v
      BY <2>3 DEF DevicesAccounted
    <2>6. ASSUME NEW d \in Devices \ available'
          PROVE  \E v \in Workers : pc'[v] \in Holding /\ task'[v].dev = d
      <3>1. PICK v \in Workers : pc[v] \in Holding /\ task[v].dev = d
        BY <2>1 DEF DevicesAccounted
      <3>2. v # w
        BY <2>1, <2>6, <3>1
      <3> QED
        BY <1>0, <3>1, <3>2
    <2> QED
      BY <2>4, <2>5, <2>6 DEF DevicesAccounted
  <1>3. CASE MarkFailed(w)
    <2>1. pc[w] \notin Holding /\ pc'[w] \notin Holding /\ UNCHANGED available
      BY <1>3 DEF MarkFailed, Off, Holding
    <2> QED
      BY <1>0, <2>1, HoldersKept
  <1>4. CASE ~ (Occupy(w) \/ Release(w) \/ MarkFailed(w))
    <2>1. /\ UNCHANGED <<available, task>>
          /\ pc[w] \in Holding /\ pc'[w] \in Holding
      BY <1>4 DEF RestoreTape, ReadInfo, Start, CopyStarts, CopyEnds, CopySkips, CopyEvent, CopyDone,
             Report, CountTodo, FinishWait, FinishComplete, Holding, WorkerPCs
    <2> QED
      BY <1>0, <2>1, HoldersKept
  <1> QED
    BY <1>1, <1>2, <1>3, <1>4

(* A drive is either available or in the hands of exactly one worker, on    *)
(* every path through restoreTape and after every restart: no attempt ends  *)
(* with a drive it does not give back, and none takes another's.            *)
THEOREM DrivesAreExclusive == Spec => []DevicesAccounted
  <1>1. Init => DevicesAccounted
    BY DEF Init, DevicesAccounted, Holding
  <1>2. ASSUME Typed, Tapes, DevicesAccounted, [Next]_vars
        PROVE  DevicesAccounted'
    <2>1. CASE UNCHANGED vars
      BY <1>2, <2>1, HoldersKept DEF vars, workerVars
    <2>2. CASE StoreNext /\ UNCHANGED <<workerVars, target, crashes>>
      BY <1>2, <2>2, HoldersKept DEF workerVars
    <2>3. ASSUME NEW c \in Clients, Dispatch(c)
          PROVE  DevicesAccounted'
      <3>1. DispatchWrites(c)
        BY <1>2, <2>3, DispatchIs
      <3>2. UNCHANGED available
        BY <3>1 DEF DispatchWrites
      <3>3. CASE UNCHANGED <<pc, task>>
        BY <1>2, <3>2, <3>3, HoldersKept
      <3>4. ASSUME NEW w \in Workers, NEW entry, pc[w] = "off",
                   pc' = [pc EXCEPT ![w] = "occupy"],
                   task' = [task EXCEPT ![w] = entry]
            PROVE  DevicesAccounted'
        BY <1>2, <3>2, <3>4, HoldersKept DEF Holding, WorkersTyped
      <3> QED
        BY <3>1, <3>3, <3>4 DEF DispatchWrites
    <2>4. CASE Crash
      BY <2>4 DEF Crash, DevicesAccounted, Holding
    <2> QED
      BY <1>2, <2>1, <2>2, <2>3, <2>4, StepDevices DEF Next
  <1> QED
    BY <1>1, <1>2, TapesInvariant, PTL DEF Spec

-----------------------------------------------------------------------------
(* The contract                                                             *)

Attempts == AllWhole /\ Reading /\ Cached /\ Full /\ RowsBehind

(* Under the lock, what a worker does to the rows moves one on. *)
LEMMA WorkerMovesRow ==
    ASSUME Typed, Tapes, Locked, AllWhole, NEW w \in Workers, RestoreTape(w)
    PROVE  /\ Exe(w) \in Executors /\ owner[Exe(w)] \in Jobs
           /\ Moves(Exe(w))
           /\ UNCHANGED client
  <1> DEFINE e == Exe(w)
             wait == Switched(mem[e], "WAIT_FOR_TAPE", "PENDING")
             finish == Switched(mem[e], "FINISHED", "COMPLETED")
  <1>1. WorkerWrites(w)
    BY RestoreTapeWrites DEF Tapes
  <1>2. e \in Executors /\ owner[e] \in Jobs /\ mem[e] \in Row /\ UNCHANGED <<owner, client>>
    BY <1>1, TaskType DEF WorkerWrites
  <1>3. CASE UNCHANGED <<job, mem, cache>>
    BY <1>2, <1>3 DEF Moves
  <1>4. CASE pc[w] = "wait" /\ WaitForTape(e)
    <2>1. mem[e].step = "COPYING"
      BY <1>4 DEF Locked, Making, WorkerPCs
    <2>2. wait \in Row /\ RowMoves(mem[e], wait) /\ Updates(e, wait) /\ UNCHANGED cache
      BY <1>2, <1>4, <2>1, SwitchedRow DEF RowMoves, WaitForTape, Steps, Statuses
    <2> HIDE DEF wait
    <2> QED
      BY <1>2, <2>2 DEF Moves
  <1>5. CASE pc[w] = "complete" /\ Finished(e)
    <2>1. mem[e].step = "COPYING" /\ AllDone(mem[e])
      BY <1>5 DEF Locked, Making, WorkerPCs
    <2>2. Submited(mem[e]) = Items
      <3>1. Whole(mem[e].items)
        BY <1>2, RowsListed DEF AllWhole
      <3>2. \A t \in TapeEntries : mem[e].items[t] = "SUBMITED"
        BY <2>1 DEF AllDone, Submited
      <3>3. \A i \in Items : mem[e].items[i] = "SUBMITED"
        BY <3>1, <3>2 DEF Whole, FileEntries
      <3> QED
        BY <3>3 DEF Submited
    <2>3. finish \in Row /\ RowMoves(mem[e], finish) /\ Updates(e, finish)
      BY <1>2, <1>5, <2>1, <2>2, SwitchedRow DEF RowMoves, Finished, Updates, Steps, Statuses
    <2> HIDE DEF finish
    <2> QED
      BY <1>2, <1>5, <2>3 DEF Moves
  <1>6. ASSUME NEW row \in Row, Marked(w, row), Updates(e, row), UNCHANGED cache
        PROVE  Moves(e)
    <2>1. row.step = mem[e].step /\ Submited(mem[e]) \subseteq Submited(row)
      BY <1>6 DEF Marked, Submited
    <2>2. RowMoves(mem[e], row)
      <3>1. CASE pc[w] = "fail"
        <4>1. row.status = "FAILED" /\ \A i \in Items : row.items[i] = mem[e].items[i]
          BY <1>6, <3>1 DEF Marked, AtWork
        <4> QED
          BY <2>1, <4>1 DEF RowMoves, Submited
      <3>2. CASE pc[w] # "fail"
        <4>1. pc[w] \in AtWork /\ row.status = mem[e].status
          BY <1>6, <3>2 DEF Marked
        <4>2. mem[e].step = "COPYING"
          BY <4>1 DEF Locked, AtWork, Making, WorkerPCs
        <4> QED
          BY <2>1, <4>1, <4>2 DEF RowMoves
      <3> QED
        BY <3>1, <3>2
    <2> QED
      BY <1>2, <1>6, <2>2 DEF Moves
  <1> QED
    BY <1>1, <1>2, <1>3, <1>4, <1>5, <1>6 DEF WorkerWrites

LEMMA DispatchMovesRow ==
    ASSUME PagesOnly, Typed, NEW c \in Clients, Dispatch(c)
    PROVE  /\ client[c].exe \in Executors /\ owner[client[c].exe] \in Jobs
           /\ Moves(client[c].exe)
           /\ Reply(c)
  <1> DEFINE e == client[c].exe
             copying == Switched(mem[e], "COPYING", "PROCESSING")
  <1>1. DispatchWrites(c)
    BY DispatchIs
  <1>2. /\ e \in Executors /\ owner[e] \in Jobs /\ mem[e] \in Row
        /\ Reply(c) /\ UNCHANGED owner
    BY <1>1 DEF DispatchWrites, StoreTyped, StoreTypeOK
  <1>3. CASE DispatchRefused(c)
    BY <1>2, <1>3 DEF DispatchRefused, Moves
  <1>4. ASSUME MayCopy(mem[e]), Updates(e, copying), UNCHANGED cache
        PROVE  Moves(e)
    <2>1. copying \in Row /\ RowMoves(mem[e], copying) /\ Updates(e, copying)
      BY <1>2, <1>4, SwitchedRow DEF MayCopy, RowMoves, Steps, Statuses
    <2> HIDE DEF copying
    <2> QED
      BY <1>2, <1>4, <2>1 DEF Moves
  <1>5. CASE DispatchCopyingUnsaved(c)
    <2>1. MayCopy(mem[e]) /\ FailsToSave(e, copying) /\ UNCHANGED cache
      BY <1>5 DEF DispatchCopyingUnsaved
    <2>2. Moves(e)
      BY <1>4, <2>1 DEF Updates
    <2> QED
      BY <1>2, <2>2
  <1>6. ASSUME NEW w \in Workers, NEW dev \in Devices, NEW tape \in Cartridges,
               DispatchCopying(c, w, dev, tape)
        PROVE  Moves(e)
    BY <1>4, <1>6 DEF DispatchCopying, Updates
  <1>7. ~ DispatchWait(c) /\ ~ DispatchFinish(c)
    BY DEF PagesOnly, DispatchWait, DispatchFinish
  <1> QED
    BY <1>2, <1>3, <1>5, <1>6, <1>7 DEF Dispatch

(* What a step of the system does to the rows, and that it keeps Attempts.  *)
LEMMA StepAttempts ==
    ASSUME PagesOnly, NobodyEdits, Typed, Tapes, Locked, AllWhole, AllWhole', Attempts, [Next]_vars
    PROVE  /\ Attempts'
           /\ \/ UNCHANGED job /\ (UNCHANGED <<owner, mem>> \/ Looks
                    \/ \E j \in Jobs, e \in Executors : Loads(j, e))
              \/ UNCHANGED job /\ (\A e \in Executors : owner'[e] = None)
              \/ \E e \in Executors : owner[e] \in Jobs /\ Moves(e)
  <1> USE DEF Attempts
  <1>1. CASE UNCHANGED vars
    BY <1>1 DEF vars, storeVars, Reading, Cached, Full, RowsBehind, Submited
  <1>2. CASE StoreNext
    <2>1. Reading' /\ UNCHANGED job /\ (Looks \/ \E j \in Jobs, e \in Executors : Loads(j, e))
      BY <1>2, RequestsRead
    <2>2. Cached' /\ Full' /\ RowsBehind'
      BY <2>1, LoadsCached, LoadsGrow
    <2> QED
      BY <2>1, <2>2
  <1>3. ASSUME NEW c \in Clients, Dispatch(c)
        PROVE  /\ Attempts'
               /\ \E e \in Executors : owner[e] \in Jobs /\ Moves(e)
    <2>1. /\ client[c].exe \in Executors /\ owner[client[c].exe] \in Jobs
          /\ Moves(client[c].exe)
          /\ Reply(c)
      BY <1>3, DispatchMovesRow
    <2>2. Reading'
      BY <2>1 DEF Reply, Become, Idle, Reading, StoreTyped, StoreTypeOK
    <2> QED
      BY <2>1, <2>2, MovesKeep
  <1>4. ASSUME NEW w \in Workers, RestoreTape(w)
        PROVE  /\ Attempts'
               /\ \E e \in Executors : owner[e] \in Jobs /\ Moves(e)
    <2>1. /\ Exe(w) \in Executors /\ owner[Exe(w)] \in Jobs
          /\ Moves(Exe(w))
          /\ UNCHANGED client
      BY <1>4, WorkerMovesRow
    <2>2. Reading'
      BY <2>1 DEF Reading
    <2> QED
      BY <2>1, <2>2, MovesKeep
  <1>5. CASE Crash
    <2>1. /\ UNCHANGED job
          /\ \A e \in Executors : owner'[e] = None /\ mem'[e] = NoRow
          /\ \A c \in Clients : client'[c] = Idle
      BY <1>5 DEF Crash
    <2>2. Reading' /\ Cached' /\ RowsBehind'
      BY <2>1 DEF Reading, Cached, RowsBehind, Idle
    <2>3. Full'
      BY <2>1 DEF Full, NoRow, Submited
    <2> QED
      BY <2>1, <2>2, <2>3
  <1> QED
    BY <1>1, <1>2, <1>3, <1>4, <1>5 DEF Next

LEMMA StepSync ==
    ASSUME PagesOnly, NobodyEdits, MaxFaults = 0, Typed, Tapes, Locked, AllWhole, AllWhole', Attempts,
           InSync, AllSane, [Next]_vars
    PROVE  InSync' /\ AllSane' /\ JobMoves
  <1>1. CASE UNCHANGED job /\ UNCHANGED <<owner, mem>>
    BY <1>1 DEF InSync, AllSane, Sane, JobMoves
  <1>2. CASE UNCHANGED job /\ (Looks \/ \E j \in Jobs, e \in Executors : Loads(j, e))
    BY <1>2, LoadsSync DEF JobMoves
  <1>3. CASE UNCHANGED job /\ \A e \in Executors : owner'[e] = None
    BY <1>3 DEF InSync, AllSane, Sane, JobMoves
  <1>4. ASSUME NEW e \in Executors, owner[e] \in Jobs, Moves(e)
        PROVE  InSync' /\ AllSane' /\ JobMoves
    BY <1>4, MovesSync DEF Attempts
  <1> QED
    BY <1>1, <1>2, <1>3, <1>4, StepAttempts

LEMMA ContractInit ==
    ASSUME NobodyEdits, Init
    PROVE  Contract!Init
  <1>1. \A j \in Jobs : job[j].status = "PENDING" /\ Submited(job[j]) = {}
    BY FirstRows DEF Init
  <1> QED
    BY <1>1 DEF Contract!Init

LEMMA ContractStep ==
    ASSUME Typed, Typed', AllSane, JobMoves
    PROVE  Contract!Next \/ UNCHANGED Contract!vars
  <1> DEFINE phase == [j \in Jobs |->
                CASE job[j].status = "PROCESSING" -> "working"
                  [] job[j].status = "FAILED" -> "failed"
                  [] job[j].status = "COMPLETED" -> "completed"
                  [] OTHER -> "waiting"]
             done == [j \in Jobs |-> Submited(job[j]) \ TapeEntries]
  <1>2. CASE UNCHANGED job
    BY <1>2 DEF Contract!vars, Submited
  <1>3. ASSUME NEW j \in Jobs, NEW row \in Row, job' = [job EXCEPT ![j] = row],
               \/ RowMoves(job[j], row)
               \/ row.status = "FAILED" /\ Submited(row) = Submited(job[j])
        PROVE  Contract!Next
    <2> DEFINE files == Submited(row) \ TapeEntries
    <2>1. job \in [Jobs -> Row] /\ job[j] \in Row /\ Sane(job[j])
      BY DEF AllSane, StoreTyped, StoreTypeOK
    <2>2. job'[j] = row /\ \A k \in Jobs : k # j => job'[k] = job[k]
      BY <1>3, <2>1
    <2>3. phase' = [phase EXCEPT ![j] = Phase(row)] /\ done' = [done EXCEPT ![j] = files]
      <3>1. phase' = [phase EXCEPT ![j] = Phase(row)]
        BY <2>2 DEF Phase
      <3>2. done' = [k \in Jobs |-> Submited(job'[k]) \ TapeEntries]
        BY DEF Submited
      <3>3. Submited(job'[j]) \ TapeEntries = files
        BY <2>2
      <3>4. \A k \in Jobs : k # j => Submited(job'[k]) \ TapeEntries = Submited(job[k]) \ TapeEntries
        BY <2>2
      <3> HIDE DEF files
      <3> QED
        BY <3>1, <3>2, <3>3, <3>4
    <2>4. /\ phase[j] = Phase(job[j]) /\ phase = [phase EXCEPT ![j] = phase[j]]
          /\ done[j] = Submited(job[j]) \ TapeEntries /\ done = [done EXCEPT ![j] = done[j]]
      BY DEF Phase
    <2>5. files \in SUBSET FileEntries
      BY DEF Submited, FileEntries
    <2>6. /\ phase[j] \in {"waiting", "failed"} /\ phase' = [phase EXCEPT ![j] = "working"]
          /\ UNCHANGED done
          => Contract!Next
      BY DEF Contract!Next, Contract!Start, Contract!Enters
    <2>7. /\ phase[j] \in {"working", "failed"} /\ UNCHANGED phase
          /\ \E more \in SUBSET FileEntries : done' = [done EXCEPT ![j] = done[j] \cup more]
          => Contract!Next
      BY DEF Contract!Next, Contract!Progress
    <2>8. /\ phase[j] \in {"working", "failed"} /\ phase' = [phase EXCEPT ![j] = "waiting"]
          /\ UNCHANGED done
          => Contract!Next
      BY DEF Contract!Next, Contract!Pause, Contract!Enters
    <2>9. /\ phase[j] \in {"working", "failed"} /\ phase' = [phase EXCEPT ![j] = "completed"]
          /\ done[j] = FileEntries /\ UNCHANGED done
          => Contract!Next
      BY DEF Contract!Next, Contract!Complete, Contract!Enters
    <2>10. phase' = [phase EXCEPT ![j] = "failed"] /\ UNCHANGED done => Contract!Next
      BY DEF Contract!Next, Contract!Fail, Contract!Enters
    <2> HIDE DEF phase, done
    <2>11. Submited(row) = Submited(job[j]) => UNCHANGED done
      BY <2>3, <2>4
    <2>12. Phase(row) = Phase(job[j]) => UNCHANGED phase
      BY <2>3, <2>4
    <2>13. Submited(job[j]) \subseteq Submited(row) =>
                \E more \in SUBSET FileEntries : done' = [done EXCEPT ![j] = done[j] \cup more]
      <3>1. Submited(job[j]) \subseteq Submited(row) => done[j] \cup files = files
        BY <2>4
      <3> HIDE DEF files
      <3> QED
        BY <2>3, <2>5, <3>1
    <2>14. Submited(job[j]) = Items => done[j] = FileEntries
      BY <2>4 DEF FileEntries
    <2> HIDE DEF files
    <2> QED
      BY <1>3, <2>1, <2>3, <2>4, <2>6, <2>7, <2>8, <2>9, <2>10, <2>11, <2>12, <2>13, <2>14, ShownMoves
  <1> QED
    BY <1>2, <1>3 DEF JobMoves

(* With saves that do not fail, what the row of a restore job shows over    *)
(* time is a behaviour of the contract, through restarts and however many   *)
(* attempts: it completes only with every file restored, makes progress     *)
(* only while it is worked on or has failed, and no attempt undoes another. *)
(* So far as clients send what the pages send, and neither create, delete   *)
(* nor roll back jobs.                                                      *)
THEOREM AttemptsKeepTheContract ==
    ASSUME PagesOnly, NobodyEdits, MaxFaults = 0
    PROVE  Spec => KeepsContract
  <1>0. "rollback" \notin Ops
    BY DEF NobodyEdits
  <1>1. ASSUME Init, AllWhole
        PROVE  Attempts /\ InSync /\ AllSane
    <2>1. /\ \A e \in Executors : owner[e] = None /\ mem[e] = NoRow
          /\ \A c \in Clients : client[c] = Idle
          /\ \A j \in Jobs : job[j].step = "WAIT_FOR_TAPE" /\ job[j].status = "PENDING"
      BY <1>1, FirstRows DEF Init
    <2>2. NoRow.step = "NONE"
      BY DEF NoRow
    <2>3. Attempts
      BY <1>1, <2>1, <2>2 DEF Attempts, Reading, Cached, Full, RowsBehind, Idle
    <2>4. InSync /\ AllSane
      BY <2>1 DEF InSync, AllSane, Sane
    <2> QED
      BY <2>3, <2>4
  <1>2. Typed /\ Tapes /\ Locked /\ AllWhole /\ AllWhole' /\ Attempts /\ InSync /\ AllSane /\ [Next]_vars
            => Attempts' /\ InSync' /\ AllSane'
    BY StepAttempts, StepSync
  <1>3. Typed /\ Typed' /\ Tapes /\ Locked /\ AllWhole /\ AllWhole' /\ Attempts /\ InSync /\ AllSane /\ [Next]_vars
            => [Contract!Next]_(Contract!vars)
    BY StepSync, ContractStep
  <1>4. Init => Contract!Init
    BY ContractInit
  <1> QED
    BY <1>0, <1>1, <1>2, <1>3, <1>4, LockInvariant, WholeInvariant, PTL
       DEF Spec, KeepsContract, Contract!Spec
=============================================================================
