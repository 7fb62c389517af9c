------------------------------ MODULE JobStore ------------------------------
(***************************************************************************)
(* The jobs table, the cache of job executors and the clients of the job   *)
(* API (executor/executor.go, executor/job.go, apis/job_*.go).             *)
(*                                                                         *)
(* A job is a row of the database.  An executor is an object of the        *)
(* server's memory that holds its own copy of one row, changes that copy   *)
(* and saves the whole of it.  The cache keeps at most one executor per    *)
(* job, but executors that left the cache go on living as long as a        *)
(* request or a worker uses them, so two copies of one job may exist.      *)
(* Every request is several steps; requests interleave freely.             *)
(***************************************************************************)
EXTENDS Naturals, FiniteSets

CONSTANTS
    Jobs,           \* job ids
    Items,          \* 1..n: the entries of a job's state, in the order the UI lists them
    Executors,      \* executor objects, never reused: bounds the loads
    Clients,        \* requests in flight: bounds concurrent clients
    Ops,            \* the requests clients send
    MaxFaults,      \* bounds failing database calls
    None,           \* no job, no executor
    Broken          \* a cache entry whose getter has failed

AllOps == {"create", "copy", "rollback", "delete", "display", "wait", "finish"}

ASSUME JobStoreAssumption ==
    /\ Items \subseteq Nat
    /\ Ops \subseteq AllOps
    /\ MaxFaults \in Nat
    /\ None \notin Jobs \cup Executors
    /\ Broken \notin Executors \cup {None}

VARIABLES
    job,            \* the jobs table: job id -> row
    owner,          \* executor -> the job it was made for, or None
    mem,            \* executor -> its own copy of the row
    cache,          \* CacheOnce: job id -> executor, None or Broken
    client,         \* client -> the request it is in
    faults          \* database calls that failed so far

storeVars == <<job, owner, mem, cache, client, faults>>

-----------------------------------------------------------------------------
(* Rows.  Status "ABSENT" stands for no row; step "NONE" for a State column *)
(* that is null.                                                            *)

Statuses == {"ABSENT", "PENDING", "PROCESSING", "COMPLETED", "FAILED", "DELETED"}
Steps == {"NONE", "PENDING", "WAIT_FOR_TAPE", "COPYING", "FINISHED"}
CopyStatuses == {"PENDING", "RUNNING", "STAGED", "SUBMITED", "FAILED"}
Row == [status : Statuses, step : Steps, items : [Items -> CopyStatuses]]

AllPending == [i \in Items |-> "PENDING"]
NoRow == [status |-> "ABSENT", step |-> "NONE", items |-> AllPending]
NewRow == [NoRow EXCEPT !.status = "PENDING"]
ReadyRow == [NewRow EXCEPT !.step = "WAIT_FOR_TAPE"]

Submited(row) == {i \in Items : row.items[i] = "SUBMITED"}

(* status < JobStatusVisible *)
Listed(row) == row.status \notin {"ABSENT", "DELETED"}

-----------------------------------------------------------------------------
(* Requests.  view is the row the user's page shows, read the row the       *)
(* handler has read, exe the executor it has got.                           *)

ClientPCs == {"idle", "init", "initWait", "initClose", "page", "dispatch",
              "display", "delete", "edit", "editGet", "editClose"}
Request == [pc : ClientPCs, job : Jobs \cup {None}, view : Row, read : Row,
            exe : Executors \cup {None}]
Idle == [pc |-> "idle", job |-> None, view |-> NoRow, read |-> NoRow, exe |-> None]

At(c, pc) == client[c].pc = pc
Become(c, req) == client' = [client EXCEPT ![c] = req]
GoTo(c, pc) == Become(c, [client[c] EXCEPT !.pc = pc])
Reply(c) == Become(c, Idle)

-----------------------------------------------------------------------------
(* updateJob: change the executor's copy under its lock and save it whole.  *)
(* When the save fails the changed copy stays in memory.                    *)

Fault == faults < MaxFaults /\ faults' = faults + 1

Saves(e, row) ==
    /\ mem' = [mem EXCEPT ![e] = row]
    /\ job' = [job EXCEPT ![owner[e]] = row]
    /\ UNCHANGED faults

FailsToSave(e, row) ==
    /\ mem' = [mem EXCEPT ![e] = row]
    /\ Fault
    /\ UNCHANGED job

Updates(e, row) == Saves(e, row) \/ FailsToSave(e, row)

(* (a mutant: the arguments the wrong way round) *)
MutSwitched(row, step, status) == [row EXCEPT !.step = status, !.status = step]
Switched(row, step, status) == [row EXCEPT !.step = step, !.status = status]
-----------------------------------------------------------------------------
(* GetJobExecutor through CacheOnce.Get.                                    *)

(* (a mutant: a new executor although the cache may hold one) *)
MutGets(j, e) ==
    /\ owner[e] = None
    /\ job[j].step # "NONE"
    /\ owner' = [owner EXCEPT ![e] = j]
    /\ mem' = [mem EXCEPT ![e] = job[j]]
    /\ cache' = [cache EXCEPT ![j] = e]
    /\ UNCHANGED faults

(* the cached executor, or a new one holding a copy of the row as it is now *)
Gets(j, e) ==
    \/ cache[j] = e /\ UNCHANGED <<owner, mem, cache, faults>>
    \/ /\ cache[j] = None
       /\ owner[e] = None
       /\ job[j].step # "NONE"
       /\ owner' = [owner EXCEPT ![e] = j]
       /\ mem' = [mem EXCEPT ![e] = job[j]]
       /\ cache' = [cache EXCEPT ![j] = e]
       /\ UNCHANGED faults

(* the getter fails (database, log file, unknown state type): only this     *)
(* caller sees the error, the empty entry stays cached and every later      *)
(* caller gets a nil executor from it                                       *)
GetFails(j) ==
    \/ cache[j] = Broken /\ UNCHANGED <<cache, faults>>
    \/ /\ cache[j] = None
       /\ cache' = [cache EXCEPT ![j] = Broken]
       /\ IF job[j].step = "NONE" THEN UNCHANGED faults ELSE Fault

Uncache(j) == cache' = [cache EXCEPT ![j] = None]

-----------------------------------------------------------------------------
(* CreateJob: save the row, make an executor that is not cached, initialise *)
(* it, close it.                                                            *)

Create(c, j, e) ==
    /\ "create" \in Ops
    /\ At(c, "idle")
    /\ job[j] = NoRow
    /\ owner[e] = None
    /\ job' = [job EXCEPT ![j] = NewRow]
    /\ owner' = [owner EXCEPT ![e] = j]
    /\ mem' = [mem EXCEPT ![e] = NewRow]
    /\ Become(c, [Idle EXCEPT !.pc = "init", !.job = j, !.exe = e])
    /\ UNCHANGED <<cache, faults>>

(* applyParam fills the state with every item pending, or fails before it   *)
(* has changed anything (walk, duplicate path): the row stays without state *)
ApplyParam(c) ==
    /\ At(c, "init")
    /\ LET e == client[c].exe
           row == [mem[e] EXCEPT !.step = "PENDING", !.items = AllPending]
       IN  \/ Saves(e, row) /\ GoTo(c, "initWait")
           \/ FailsToSave(e, row) /\ Reply(c)
           \/ Reply(c) /\ UNCHANGED <<mem, job, faults>>
    /\ UNCHANGED <<owner, cache>>

(* the dispatch of WaitForTape that ends Initialize *)
InitWait(c) ==
    /\ At(c, "initWait")
    /\ LET e == client[c].exe
           row == Switched(mem[e], "WAIT_FOR_TAPE", "PENDING")
       IN  \/ Saves(e, row) /\ GoTo(c, "initClose")
           \/ FailsToSave(e, row) /\ Reply(c)
    /\ UNCHANGED <<owner, cache>>

InitClose(c) ==
    /\ At(c, "initClose")
    /\ Uncache(client[c].job)
    /\ Reply(c)
    /\ UNCHANGED <<job, owner, mem, faults>>

-----------------------------------------------------------------------------
(* The jobs page: it shows a row with a state and keeps it while the user   *)
(* thinks.                                                                  *)

ShowPage(c, j) ==
    /\ At(c, "idle")
    /\ Listed(job[j])
    /\ job[j].step # "NONE"
    /\ Become(c, [Idle EXCEPT !.pc = "page", !.job = j, !.view = job[j]])
    /\ UNCHANGED <<job, owner, mem, cache, faults>>

LeavePage(c) ==
    /\ At(c, "page")
    /\ Reply(c)
    /\ UNCHANGED <<job, owner, mem, cache, faults>>

(* JobDispatch gets the executor.  The page offers it only to a job waiting *)
(* for a tape; the two other parameters exist in the API alone.             *)
AskDispatch(c, e) ==
    /\ At(c, "page")
    /\ \/ "copy" \in Ops /\ client[c].view.step = "WAIT_FOR_TAPE"
       \/ {"wait", "finish"} \cap Ops # {}
    /\ Gets(client[c].job, e)
    /\ Become(c, [client[c] EXCEPT !.pc = "dispatch", !.view = NoRow, !.exe = e])
    /\ UNCHANGED job

AskDispatchFails(c) ==
    /\ At(c, "page")
    /\ \/ "copy" \in Ops /\ client[c].view.step = "WAIT_FOR_TAPE"
       \/ {"wait", "finish"} \cap Ops # {}
    /\ GetFails(client[c].job)
    /\ Reply(c)
    /\ UNCHANGED <<job, owner, mem>>

-----------------------------------------------------------------------------
(* JobDisplay: reads the row, then gets the executor of a processing job.   *)

AskDisplay(c) ==
    /\ "display" \in Ops
    /\ At(c, "page")
    /\ IF job[client[c].job].status = "PROCESSING"
       THEN Become(c, [client[c] EXCEPT !.pc = "display", !.view = NoRow])
       ELSE Reply(c)
    /\ UNCHANGED <<job, owner, mem, cache, faults>>

Display(c) ==
    /\ At(c, "display")
    /\ \/ \E e \in Executors : Gets(client[c].job, e)
       \/ GetFails(client[c].job) /\ UNCHANGED <<owner, mem>>
    /\ Reply(c)
    /\ UNCHANGED job

-----------------------------------------------------------------------------
(* DeleteJobs: reads the row, then saves the row it has read as deleted.    *)

AskDelete(c) ==
    /\ "delete" \in Ops
    /\ At(c, "page")
    /\ Become(c, [client[c] EXCEPT !.pc = "delete", !.view = NoRow, !.read = job[client[c].job]])
    /\ UNCHANGED <<job, owner, mem, cache, faults>>

SaveDeleted(c) ==
    /\ At(c, "delete")
    /\ \/ /\ job' = [job EXCEPT ![client[c].job] = [client[c].read EXCEPT !.status = "DELETED"]]
          /\ UNCHANGED faults
       \/ Fault /\ UNCHANGED job
    /\ Reply(c)
    /\ UNCHANGED <<owner, mem, cache>>

-----------------------------------------------------------------------------
(* JobEditState, as the rollback dialog calls it: the state of the page     *)
(* with every item from some index on pending again.                        *)

RolledBack(row, from) ==
    [row EXCEPT !.items = [i \in Items |-> IF i >= from THEN "PENDING" ELSE row.items[i]]]

AskRollback(c) ==
    /\ "rollback" \in Ops
    /\ At(c, "page")
    /\ client[c].view.status # "PROCESSING"
    /\ LET row == job[client[c].job]
       IN  IF row.status = "PROCESSING" THEN Reply(c)
           ELSE Become(c, [client[c] EXCEPT !.pc = "edit", !.read = [NoRow EXCEPT !.status = row.status]])
    /\ UNCHANGED <<job, owner, mem, cache, faults>>

(* SaveJob of the row read, its state replaced: of the row only the status is kept *)
SaveRollback(c) ==
    /\ At(c, "edit")
    /\ \/ \E from \in Items :
            LET state == RolledBack(client[c].view, from)
                row == [state EXCEPT !.status = client[c].read.status]
            IN  /\ job' = [job EXCEPT ![client[c].job] = row]
                /\ Become(c, [Idle EXCEPT !.pc = "editGet", !.job = client[c].job])
                /\ UNCHANGED faults
       \/ Fault /\ Reply(c) /\ UNCHANGED job
    /\ UNCHANGED <<owner, mem, cache>>

EditGet(c) ==
    /\ At(c, "editGet")
    /\ \/ /\ \E e \in Executors : Gets(client[c].job, e)
          /\ GoTo(c, "editClose")
       \/ GetFails(client[c].job) /\ Reply(c) /\ UNCHANGED <<owner, mem>>
    /\ UNCHANGED job

EditClose(c) ==
    /\ At(c, "editClose")
    /\ Uncache(client[c].job)
    /\ Reply(c)
    /\ UNCHANGED <<job, owner, mem, faults>>

-----------------------------------------------------------------------------
StoreInit ==
    /\ job \in [Jobs -> IF "create" \in Ops THEN {NoRow, ReadyRow} ELSE {ReadyRow}]
    /\ owner = [e \in Executors |-> None]
    /\ mem = [e \in Executors |-> NoRow]
    /\ cache = [j \in Jobs |-> None]
    /\ client = [c \in Clients |-> Idle]
    /\ faults = 0

(* the steps of a request that do not start or stop a worker *)
Serve(c) ==
    \/ ApplyParam(c) \/ InitWait(c) \/ InitClose(c)
    \/ Display(c) \/ SaveDeleted(c)
    \/ SaveRollback(c) \/ EditGet(c) \/ EditClose(c)

Ask(c) ==
    \/ \E j \in Jobs, e \in Executors : Create(c, j, e)
    \/ \E j \in Jobs : ShowPage(c, j)
    \/ LeavePage(c)
    \/ \E e \in Executors : AskDispatch(c, e)
    \/ AskDispatchFails(c)
    \/ AskDisplay(c) \/ AskDelete(c) \/ AskRollback(c)

StoreNext == \E c \in Clients : Serve(c) \/ Ask(c)

StoreTypeOK ==
    /\ job \in [Jobs -> Row]
    /\ owner \in [Executors -> Jobs \cup {None}]
    /\ mem \in [Executors -> Row]
    /\ cache \in [Jobs -> Executors \cup {None, Broken}]
    /\ client \in [Clients -> Request]
    /\ faults \in 0..MaxFaults
=============================================================================
