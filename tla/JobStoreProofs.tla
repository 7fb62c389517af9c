---------------------------- MODULE JobStoreProofs ----------------------------
(***************************************************************************)
(* Lemmas about the jobs table, the executors, the cache and the requests, *)
(* which the proofs about archive and restore jobs share: what the steps   *)
(* of a request can and cannot change.                                     *)
(***************************************************************************)
EXTENDS JobSteps, TLAPS

USE JobStoreAssumption

(* References between the parts of the state: what a request holds exists   *)
(* and belongs to its job.                                                  *)
CacheRefs == \A j \in Jobs : cache[j] \in Executors => owner[cache[j]] = j

ClientRefs ==
    \A c \in Clients :
        /\ client[c].pc # "idle" => client[c].job \in Jobs
        /\ client[c].pc \in {"init", "initWait", "dispatch"} =>
                client[c].exe \in Executors /\ owner[client[c].exe] = client[c].job

(* StoreTypeOK is inductive together with the references. *)
StoreTyped == StoreTypeOK /\ CacheRefs /\ ClientRefs

(* No executor changes its job while the server runs. *)
OwnersKept == \A f \in Executors : owner[f] \in Jobs => owner'[f] = owner[f]

-----------------------------------------------------------------------------
(* Lemmas about rows and requests *)

LEMMA RowType ==
    /\ NoRow \in Row
    /\ NewRow \in Row
    /\ ReadyRow \in Row
    /\ AllPending \in [Items -> CopyStatuses]
  BY DEF NoRow, NewRow, ReadyRow, AllPending, Row, Statuses, Steps, CopyStatuses

LEMMA SwitchedType ==
    ASSUME NEW row \in Row, NEW step \in Steps, NEW status \in Statuses
    PROVE  Switched(row, step, status) \in Row
  BY DEF Switched, Row

LEMMA ItemType ==
    ASSUME NEW row \in Row, NEW i \in Items, NEW status \in CopyStatuses
    PROVE  [row EXCEPT !.items[i] = status] \in Row
  BY DEF Row

LEMMA IdleType == Idle \in Request
  BY RowType DEF Idle, Request, ClientPCs

LEMMA UpdatesType ==
    ASSUME StoreTyped, NEW e \in Executors, NEW row \in Row, Updates(e, row)
    PROVE  /\ job' \in [Jobs -> Row]
           /\ mem' \in [Executors -> Row]
           /\ faults' \in 0..MaxFaults
  <1>1. CASE Saves(e, row)
    BY <1>1 DEF Saves, StoreTyped, StoreTypeOK
  <1>2. CASE FailsToSave(e, row)
    BY <1>2 DEF FailsToSave, Fault, StoreTyped, StoreTypeOK
  <1> QED
    BY <1>1, <1>2 DEF Updates

LEMMA GetsType ==
    ASSUME StoreTyped, NEW j \in Jobs, NEW e \in Executors, Gets(j, e)
    PROVE  /\ owner' \in [Executors -> Jobs \cup {None}]
           /\ mem' \in [Executors -> Row]
           /\ cache' \in [Jobs -> Executors \cup {None, Broken}]
           /\ faults' \in 0..MaxFaults
           /\ owner'[e] = j
           /\ OwnersKept
           /\ CacheRefs'
  <1>1. CASE cache[j] = e /\ UNCHANGED <<owner, mem, cache, faults>>
    <2>1. owner[e] = j
      BY <1>1 DEF StoreTyped, CacheRefs
    <2> QED
      BY <1>1, <2>1 DEF StoreTyped, StoreTypeOK, CacheRefs, OwnersKept
  <1>2. CASE /\ cache[j] = None
             /\ owner[e] = None
             /\ owner' = [owner EXCEPT ![e] = j]
             /\ mem' = [mem EXCEPT ![e] = job[j]]
             /\ cache' = [cache EXCEPT ![j] = e]
             /\ UNCHANGED faults
    <2>1. /\ owner' \in [Executors -> Jobs \cup {None}]
          /\ mem' \in [Executors -> Row]
          /\ cache' \in [Jobs -> Executors \cup {None, Broken}]
          /\ faults' \in 0..MaxFaults
      BY <1>2 DEF StoreTyped, StoreTypeOK
    <2>2. owner'[e] = j /\ \A f \in Executors : f # e => owner'[f] = owner[f]
      BY <1>2 DEF StoreTyped, StoreTypeOK
    <2>3. cache'[j] = e /\ \A k \in Jobs : k # j => cache'[k] = cache[k]
      BY <1>2 DEF StoreTyped, StoreTypeOK
    <2>4. OwnersKept
      BY <1>2, <2>2 DEF OwnersKept
    <2>5. CacheRefs'
      BY <2>2, <2>3, <2>4 DEF StoreTyped, CacheRefs, OwnersKept
    <2> QED
      BY <2>1, <2>2, <2>4, <2>5
  <1> QED
    BY <1>1, <1>2 DEF Gets

LEMMA GetFailsType ==
    ASSUME StoreTyped, NEW j \in Jobs, GetFails(j), UNCHANGED owner
    PROVE  /\ cache' \in [Jobs -> Executors \cup {None, Broken}]
           /\ faults' \in 0..MaxFaults
           /\ CacheRefs'
  <1>1. faults' \in 0..MaxFaults
    BY DEF GetFails, Fault, StoreTyped, StoreTypeOK
  <1>2. cache' = cache \/ cache' = [cache EXCEPT ![j] = Broken]
    BY DEF GetFails
  <1> QED
    BY <1>1, <1>2 DEF StoreTyped, StoreTypeOK, CacheRefs

LEMMA UncacheType ==
    ASSUME StoreTyped, NEW j \in Jobs, Uncache(j), UNCHANGED owner
    PROVE  cache' \in [Jobs -> Executors \cup {None, Broken}] /\ CacheRefs'
  BY DEF Uncache, StoreTyped, StoreTypeOK, CacheRefs

(* A client moves on, and executors keep their jobs. *)
LEMMA BecomeType ==
    ASSUME StoreTyped, NEW c \in Clients, NEW req \in Request, Become(c, req),
           OwnersKept,
           req.pc # "idle" => req.job \in Jobs,
           req.pc \in {"init", "initWait", "dispatch"} =>
                req.exe \in Executors /\ owner'[req.exe] = req.job
    PROVE  client' \in [Clients -> Request] /\ ClientRefs'
  <1>1. client' \in [Clients -> Request]
    BY DEF Become, StoreTyped, StoreTypeOK
  <1>2. client'[c] = req /\ \A d \in Clients : d # c => client'[d] = client[d]
    BY DEF Become, StoreTyped, StoreTypeOK
  <1>3. ASSUME NEW d \in Clients, d # c
        PROVE  /\ client'[d].pc # "idle" => client'[d].job \in Jobs
               /\ client'[d].pc \in {"init", "initWait", "dispatch"} =>
                    client'[d].exe \in Executors /\ owner'[client'[d].exe] = client'[d].job
    BY <1>2, <1>3 DEF StoreTyped, ClientRefs, OwnersKept
  <1> QED
    BY <1>1, <1>2, <1>3 DEF ClientRefs

LEMMA ReplyType ==
    ASSUME StoreTyped, NEW c \in Clients, Reply(c),
           OwnersKept
    PROVE  client' \in [Clients -> Request] /\ ClientRefs'
  <1>1. Become(c, Idle) /\ Idle.pc = "idle"
    BY DEF Reply, Idle
  <1> QED
    BY <1>1, IdleType, BecomeType

-----------------------------------------------------------------------------
(* The steps of requests *)

LEMMA ServeType ==
    ASSUME StoreTyped, NEW c \in Clients, Serve(c)
    PROVE  StoreTyped' /\ OwnersKept
  <1> DEFINE e == client[c].exe
             j == client[c].job
  <1>0. client[c] \in Request
    BY DEF StoreTyped, StoreTypeOK
  <1>1. CASE ApplyParam(c)
    <2> DEFINE row == [mem[e] EXCEPT !.step = "PENDING", !.items = AllPending]
    <2>1. e \in Executors /\ owner[e] = j /\ j \in Jobs
      BY <1>1 DEF ApplyParam, At, StoreTyped, ClientRefs
    <2>2. row \in Row
      BY <2>1, RowType DEF Row, Steps, StoreTyped, StoreTypeOK
    <2>3. OwnersKept
      BY <1>1 DEF ApplyParam, OwnersKept
    <2>4. CASE Saves(e, row) /\ GoTo(c, "initWait")
      <3> DEFINE req == [client[c] EXCEPT !.pc = "initWait"]
      <3>1. Become(c, req)
        BY <2>4 DEF GoTo
      <3>2. req \in Request /\ req.job = j /\ req.exe = e /\ req.pc = "initWait"
        BY <1>0 DEF Request, ClientPCs
      <3>3. owner'[e] = j
        BY <2>1, <2>3 DEF OwnersKept
      <3> HIDE DEF req
      <3>4. client' \in [Clients -> Request] /\ ClientRefs'
        BY <2>1, <2>3, <3>1, <3>2, <3>3, BecomeType
      <3>5. Updates(e, row)
        BY <2>4 DEF Updates
      <3> QED
        BY <1>1, <2>1, <2>2, <2>3, <3>4, <3>5, UpdatesType
           DEF ApplyParam, StoreTyped, StoreTypeOK, CacheRefs
    <2>5. CASE FailsToSave(e, row) /\ Reply(c)
      <3>5. Updates(e, row)
        BY <2>5 DEF Updates
      <3> QED
        BY <1>1, <2>1, <2>2, <2>3, <2>5, <3>5, UpdatesType, ReplyType
           DEF ApplyParam, StoreTyped, StoreTypeOK, CacheRefs
    <2>6. CASE Reply(c) /\ UNCHANGED <<mem, job, faults>>
      BY <1>1, <2>3, <2>6, ReplyType
         DEF ApplyParam, StoreTyped, StoreTypeOK, CacheRefs
    <2> QED
      BY <1>1, <2>4, <2>5, <2>6 DEF ApplyParam
  <1>2. CASE InitWait(c)
    <2> DEFINE row == Switched(mem[e], "WAIT_FOR_TAPE", "PENDING")
    <2>1. e \in Executors /\ owner[e] = j /\ j \in Jobs
      BY <1>2 DEF InitWait, At, StoreTyped, ClientRefs
    <2>2. row \in Row
      BY <2>1, SwitchedType DEF Steps, Statuses, StoreTyped, StoreTypeOK
    <2>3. OwnersKept
      BY <1>2 DEF InitWait, OwnersKept
    <2>4. Updates(e, row) /\ (GoTo(c, "initClose") \/ Reply(c))
      BY <1>2 DEF InitWait, Updates
    <2>5. client' \in [Clients -> Request] /\ ClientRefs'
      <3> DEFINE req == [client[c] EXCEPT !.pc = "initClose"]
      <3>1. GoTo(c, "initClose") => Become(c, req)
        BY DEF GoTo
      <3>2. req \in Request /\ req.job = j /\ req.pc = "initClose"
        BY <1>0 DEF Request, ClientPCs
      <3> HIDE DEF req
      <3> QED
        BY <2>1, <2>3, <2>4, <3>1, <3>2, BecomeType, ReplyType
    <2> QED
      BY <1>2, <2>1, <2>2, <2>3, <2>4, <2>5, UpdatesType
         DEF InitWait, StoreTyped, StoreTypeOK, CacheRefs
  <1>3. CASE InitClose(c)
    <2>1. j \in Jobs /\ OwnersKept /\ Uncache(j) /\ UNCHANGED owner
      BY <1>3 DEF InitClose, At, StoreTyped, ClientRefs, OwnersKept
    <2> QED
      BY <1>3, <2>1, UncacheType, ReplyType
         DEF InitClose, StoreTyped, StoreTypeOK
  <1>4. CASE Display(c)
    <2>1. j \in Jobs
      BY <1>4 DEF Display, At, StoreTyped, ClientRefs
    <2>2. CASE \E f \in Executors : Gets(j, f)
      BY <1>4, <2>1, <2>2, GetsType, ReplyType
         DEF Display, StoreTyped, StoreTypeOK
    <2>3. CASE GetFails(j) /\ UNCHANGED <<owner, mem>>
      <3>1. OwnersKept
        BY <2>3 DEF OwnersKept
      <3> QED
        BY <1>4, <2>1, <2>3, <3>1, GetFailsType, ReplyType
           DEF Display, StoreTyped, StoreTypeOK
    <2> QED
      BY <1>4, <2>2, <2>3 DEF Display
  <1>5. CASE SaveDeleted(c)
    <2>1. j \in Jobs /\ OwnersKept
      BY <1>5 DEF SaveDeleted, At, StoreTyped, ClientRefs, OwnersKept
    <2>2. [client[c].read EXCEPT !.status = "DELETED"] \in Row
      BY <1>0 DEF Request, Row, Statuses
    <2>3. job' \in [Jobs -> Row] /\ faults' \in 0..MaxFaults
      BY <1>5, <2>2 DEF SaveDeleted, Fault, StoreTyped, StoreTypeOK
    <2> QED
      BY <1>5, <2>1, <2>3, ReplyType
         DEF SaveDeleted, StoreTyped, StoreTypeOK, CacheRefs
  <1>6. CASE SaveRollback(c)
    <2>1. j \in Jobs /\ OwnersKept
      BY <1>6 DEF SaveRollback, At, StoreTyped, ClientRefs, OwnersKept
    <2>2. ASSUME NEW from \in Items
          PROVE  [RolledBack(client[c].view, from) EXCEPT !.status = client[c].read.status] \in Row
      BY <1>0 DEF RolledBack, Request, Row, CopyStatuses
    <2>3. job' \in [Jobs -> Row] /\ faults' \in 0..MaxFaults
      <3>1. CASE \E from \in Items :
                    /\ job' = [job EXCEPT ![j] = [RolledBack(client[c].view, from)
                                                    EXCEPT !.status = client[c].read.status]]
                    /\ UNCHANGED faults
        <4> DEFINE row(from) == [RolledBack(client[c].view, from)
                                    EXCEPT !.status = client[c].read.status]
        <4>1. PICK from \in Items : job' = [job EXCEPT ![j] = row(from)]
          BY <3>1
        <4>2. row(from) \in Row
          BY <2>2
        <4> HIDE DEF row
        <4> QED
          BY <3>1, <4>1, <4>2 DEF StoreTyped, StoreTypeOK
      <3>2. CASE Fault /\ UNCHANGED job
        BY <3>2 DEF Fault, StoreTyped, StoreTypeOK
      <3> QED
        BY <1>6, <3>1, <3>2 DEF SaveRollback
    <2>4. client' \in [Clients -> Request] /\ ClientRefs'
      <3> DEFINE req == [Idle EXCEPT !.pc = "editGet", !.job = j]
      <3>1. Become(c, req) \/ Reply(c)
        BY <1>6 DEF SaveRollback
      <3>2. req \in Request /\ req.job = j /\ req.pc = "editGet"
        BY <2>1, IdleType DEF Request, ClientPCs
      <3> HIDE DEF req
      <3> QED
        BY <2>1, <3>1, <3>2, BecomeType, ReplyType
    <2> QED
      BY <1>6, <2>1, <2>3, <2>4
         DEF SaveRollback, StoreTyped, StoreTypeOK, CacheRefs
  <1>7. CASE EditGet(c)
    <2>1. j \in Jobs
      BY <1>7 DEF EditGet, At, StoreTyped, ClientRefs
    <2>2. CASE (\E f \in Executors : Gets(j, f)) /\ GoTo(c, "editClose")
      <3> DEFINE req == [client[c] EXCEPT !.pc = "editClose"]
      <3>1. Become(c, req)
        BY <2>2 DEF GoTo
      <3>2. req \in Request /\ req.job = j /\ req.pc = "editClose"
        BY <1>0 DEF Request, ClientPCs
      <3> HIDE DEF req
      <3> QED
        BY <1>7, <2>1, <2>2, <3>1, <3>2, GetsType, BecomeType
           DEF EditGet, StoreTyped, StoreTypeOK
    <2>3. CASE GetFails(j) /\ Reply(c) /\ UNCHANGED <<owner, mem>>
      <3>1. OwnersKept
        BY <2>3 DEF OwnersKept
      <3> QED
        BY <1>7, <2>1, <2>3, <3>1, GetFailsType, ReplyType
           DEF EditGet, StoreTyped, StoreTypeOK
    <2> QED
      BY <1>7, <2>2, <2>3 DEF EditGet
  <1>8. CASE EditClose(c)
    <2>1. j \in Jobs /\ OwnersKept /\ Uncache(j) /\ UNCHANGED owner
      BY <1>8 DEF EditClose, At, StoreTyped, ClientRefs, OwnersKept
    <2> QED
      BY <1>8, <2>1, UncacheType, ReplyType
         DEF EditClose, StoreTyped, StoreTypeOK
  <1> QED
    BY <1>1, <1>2, <1>3, <1>4, <1>5, <1>6, <1>7, <1>8 DEF Serve

LEMMA AskType ==
    ASSUME StoreTyped, NEW c \in Clients, Ask(c)
    PROVE  StoreTyped' /\ OwnersKept
  <1> DEFINE j == client[c].job
  <1>0. client[c] \in Request /\ (client[c].pc = "page" => j \in Jobs)
    BY DEF StoreTyped, StoreTypeOK, ClientRefs
  <1>1. ASSUME NEW k \in Jobs, NEW e \in Executors, Create(c, k, e)
        PROVE  StoreTyped' /\ OwnersKept
    <2> DEFINE req == [Idle EXCEPT !.pc = "init", !.job = k, !.exe = e]
    <2>1. /\ job' \in [Jobs -> Row]
          /\ mem' \in [Executors -> Row]
          /\ owner' \in [Executors -> Jobs \cup {None}]
          /\ UNCHANGED <<cache, faults>>
      BY <1>1, RowType DEF Create, StoreTyped, StoreTypeOK
    <2>2. owner'[e] = k /\ owner[e] = None /\ \A f \in Executors : f # e => owner'[f] = owner[f]
      BY <1>1 DEF Create, StoreTyped, StoreTypeOK
    <2>3. OwnersKept
      BY <2>2 DEF OwnersKept
    <2>4. CacheRefs'
      BY <2>1, <2>3 DEF CacheRefs, OwnersKept, StoreTyped
    <2>5. Become(c, req)
      BY <1>1 DEF Create
    <2>6. req \in Request /\ req.job = k /\ req.exe = e /\ req.pc = "init"
      BY IdleType DEF Request, ClientPCs
    <2> HIDE DEF req
    <2>7. client' \in [Clients -> Request] /\ ClientRefs'
      BY <2>2, <2>3, <2>5, <2>6, BecomeType
    <2> QED
      BY <2>1, <2>3, <2>4, <2>7 DEF StoreTyped, StoreTypeOK
  <1>2. ASSUME NEW k \in Jobs, ShowPage(c, k)
        PROVE  StoreTyped' /\ OwnersKept
    <2> DEFINE req == [Idle EXCEPT !.pc = "page", !.job = k, !.view = job[k]]
    <2>1. OwnersKept /\ UNCHANGED <<job, owner, mem, cache, faults>>
      BY <1>2 DEF ShowPage, OwnersKept
    <2>2. Become(c, req)
      BY <1>2 DEF ShowPage
    <2>3. req \in Request /\ req.job = k /\ req.pc = "page"
      BY IdleType DEF Request, ClientPCs, StoreTyped, StoreTypeOK
    <2> HIDE DEF req
    <2> QED
      BY <2>1, <2>2, <2>3, BecomeType
         DEF StoreTyped, StoreTypeOK, CacheRefs
  <1>3. CASE LeavePage(c)
    <2>1. OwnersKept
      BY <1>3 DEF LeavePage, OwnersKept
    <2> QED
      BY <1>3, <2>1, ReplyType
         DEF LeavePage, StoreTyped, StoreTypeOK, CacheRefs
  <1>4. ASSUME NEW e \in Executors, AskDispatch(c, e)
        PROVE  StoreTyped' /\ OwnersKept
    <2> DEFINE req == [client[c] EXCEPT !.pc = "dispatch", !.view = NoRow, !.exe = e]
    <2>1. j \in Jobs /\ Gets(j, e) /\ Become(c, req) /\ UNCHANGED job
      BY <1>0, <1>4 DEF AskDispatch, At
    <2>2. req \in Request /\ req.job = j /\ req.exe = e /\ req.pc = "dispatch"
      BY <1>0, RowType DEF Request, ClientPCs
    <2> HIDE DEF req
    <2> QED
      BY <2>1, <2>2, GetsType, BecomeType DEF StoreTyped, StoreTypeOK
  <1>5. CASE AskDispatchFails(c)
    <2>1. j \in Jobs /\ GetFails(j) /\ Reply(c) /\ UNCHANGED <<job, owner, mem>>
      BY <1>0, <1>5 DEF AskDispatchFails, At
    <2>2. OwnersKept
      BY <2>1 DEF OwnersKept
    <2> QED
      BY <2>1, <2>2, GetFailsType, ReplyType DEF StoreTyped, StoreTypeOK
  <1>6. CASE AskDisplay(c)
    <2> DEFINE req == [client[c] EXCEPT !.pc = "display", !.view = NoRow]
    <2>1. j \in Jobs /\ OwnersKept /\ UNCHANGED <<job, owner, mem, cache, faults>>
      BY <1>0, <1>6 DEF AskDisplay, At, OwnersKept
    <2>2. Become(c, req) \/ Reply(c)
      BY <1>6 DEF AskDisplay
    <2>3. req \in Request /\ req.job = j /\ req.pc = "display"
      BY <1>0, RowType DEF Request, ClientPCs
    <2> HIDE DEF req
    <2> QED
      BY <2>1, <2>2, <2>3, BecomeType, ReplyType
         DEF StoreTyped, StoreTypeOK, CacheRefs
  <1>7. CASE AskDelete(c)
    <2> DEFINE req == [client[c] EXCEPT !.pc = "delete", !.view = NoRow, !.read = job[j]]
    <2>1. j \in Jobs /\ OwnersKept /\ UNCHANGED <<job, owner, mem, cache, faults>>
      BY <1>0, <1>7 DEF AskDelete, At, OwnersKept
    <2>2. Become(c, req)
      BY <1>7 DEF AskDelete
    <2>3. req \in Request /\ req.job = j /\ req.pc = "delete"
      BY <1>0, <2>1, RowType DEF Request, ClientPCs, StoreTyped, StoreTypeOK
    <2> HIDE DEF req
    <2> QED
      BY <2>1, <2>2, <2>3, BecomeType
         DEF StoreTyped, StoreTypeOK, CacheRefs
  <1>8. CASE AskRollback(c)
    <2> DEFINE read == [NoRow EXCEPT !.status = job[j].status]
               req == [client[c] EXCEPT !.pc = "edit", !.read = read]
    <2>1. j \in Jobs /\ OwnersKept /\ UNCHANGED <<job, owner, mem, cache, faults>>
      BY <1>0, <1>8 DEF AskRollback, At, OwnersKept
    <2>2. Become(c, req) \/ Reply(c)
      BY <1>8 DEF AskRollback
    <2>3. read \in Row
      BY <2>1, RowType DEF Row, StoreTyped, StoreTypeOK
    <2> HIDE DEF read
    <2>4. req \in Request /\ req.job = j /\ req.pc = "edit"
      BY <1>0, <2>3 DEF Request, ClientPCs
    <2> HIDE DEF req
    <2> QED
      BY <2>1, <2>2, <2>4, BecomeType, ReplyType
         DEF StoreTyped, StoreTypeOK, CacheRefs
  <1> QED
    BY <1>1, <1>2, <1>3, <1>4, <1>5, <1>6, <1>7, <1>8 DEF Ask

-----------------------------------------------------------------------------
LEMMA StoreNextType ==
    ASSUME StoreTyped, StoreNext
    PROVE  StoreTyped' /\ OwnersKept
  BY ServeType, AskType DEF StoreNext

LEMMA StoreStays ==
    ASSUME StoreTyped, UNCHANGED storeVars
    PROVE  StoreTyped'
  BY DEF StoreTyped, StoreTypeOK, CacheRefs, ClientRefs, storeVars

LEMMA UpdatesStays ==
    ASSUME StoreTyped, NEW e \in Executors, NEW row \in Row, Updates(e, row),
           UNCHANGED <<owner, cache, client>>
    PROVE  StoreTyped'
  BY UpdatesType DEF StoreTyped, StoreTypeOK, CacheRefs, ClientRefs

(* An executor saves, its client gets the answer, the cache may lose its entry. *)
LEMMA DispatchedStays ==
    ASSUME StoreTyped, NEW e \in Executors, owner[e] \in Jobs, NEW row \in Row, Updates(e, row),
           NEW c \in Clients, Reply(c), UNCHANGED owner,
           UNCHANGED cache \/ Uncache(owner[e])
    PROVE  StoreTyped'
  <1>1. OwnersKept
    BY DEF OwnersKept
  <1>2. cache' \in [Jobs -> Executors \cup {None, Broken}] /\ CacheRefs'
    BY UncacheType DEF StoreTyped, StoreTypeOK, CacheRefs
  <1> QED
    BY <1>1, <1>2, UpdatesType, ReplyType DEF StoreTyped, StoreTypeOK

LEMMA StoreInitType ==
    ASSUME StoreInit
    PROVE  StoreTyped
  BY RowType, IdleType DEF StoreInit, StoreTyped, StoreTypeOK, CacheRefs, ClientRefs, Idle

(* A restart loses the executors, the cache and the requests. *)
Restarted ==
    /\ owner' = [e \in Executors |-> None]
    /\ mem' = [e \in Executors |-> NoRow]
    /\ cache' = [j \in Jobs |-> None]
    /\ client' = [c \in Clients |-> Idle]
    /\ UNCHANGED <<job, faults>>

LEMMA RestartedType ==
    ASSUME StoreTyped, Restarted
    PROVE  StoreTyped'
  BY RowType, IdleType DEF Restarted, StoreTyped, StoreTypeOK, CacheRefs, ClientRefs, Idle

-----------------------------------------------------------------------------
(* Jobs that are created *)

(* An executor that CreateJob is still initialising has one client, and has *)
(* not come as far as waiting for a tape.                                   *)
Initialising == {"init", "initWait"}
Fresh ==
    /\ \A c \in Clients : At(c, "init") => mem[client[c].exe].step = "NONE"
    /\ \A c \in Clients : At(c, "initWait") => mem[client[c].exe].step = "PENDING"
    /\ \A c, d \in Clients :
            /\ client[c].pc \in Initialising
            /\ client[d].pc \in Initialising
            /\ client[c].exe = client[d].exe
            => c = d

(* Requests leave executors alone that are initialised. *)
BusyKept ==
    \A e \in Executors :
        owner[e] \in Jobs /\ mem[e].step \notin {"NONE", "PENDING"} => mem'[e] = mem[e]

LEMMA FreshKept ==
    ASSUME StoreTyped, Fresh,
           \A d \in Clients : client'[d].pc \in Initialising => client'[d] = client[d],
           \A e \in Executors : owner[e] \in Jobs /\ mem[e].step \in {"NONE", "PENDING"} =>
                mem'[e].step = mem[e].step
    PROVE  Fresh'
  <1>1. ASSUME NEW d \in Clients, client'[d].pc \in Initialising
        PROVE  /\ client'[d] = client[d]
               /\ client[d].exe \in Executors
               /\ owner[client[d].exe] \in Jobs
    BY <1>1 DEF StoreTyped, ClientRefs, Initialising
  <1>2. \A d \in Clients : client'[d].pc = "init" => mem'[client'[d].exe].step = "NONE"
    BY <1>1 DEF Fresh, At, Initialising
  <1>3. \A d \in Clients : client'[d].pc = "initWait" => mem'[client'[d].exe].step = "PENDING"
    BY <1>1 DEF Fresh, At, Initialising
  <1>4. \A c, d \in Clients :
            /\ client'[c].pc \in Initialising
            /\ client'[d].pc \in Initialising
            /\ client'[c].exe = client'[d].exe
            => c = d
    BY <1>1 DEF Fresh
  <1> QED
    BY <1>2, <1>3, <1>4 DEF Fresh, At

LEMMA StoreFresh ==
    ASSUME StoreTyped, Fresh, StoreNext
    PROVE  Fresh' /\ BusyKept
  <1>0. PICK c \in Clients : Serve(c) \/ Ask(c)
    BY DEF StoreNext
  <1> DEFINE x == client[c].exe
             row == [mem[x] EXCEPT !.step = "PENDING", !.items = AllPending]
             next == Switched(mem[x], "WAIT_FOR_TAPE", "PENDING")
  <1>d. ASSUME NEW req, Become(c, req), req.pc \notin Initialising
        PROVE  \A d \in Clients : client'[d].pc \in Initialising => client'[d] = client[d]
    BY <1>d DEF Become, StoreTyped, StoreTypeOK
  <1>e. client[c] \in Request
    BY DEF StoreTyped, StoreTypeOK
  <1>c. \A d \in Clients : client[d].pc \in Initialising =>
            client[d].exe \in Executors /\ owner[client[d].exe] \in Jobs
    BY DEF StoreTyped, ClientRefs, Initialising
  <1>1. CASE ApplyParam(c)
    <2>1. x \in Executors /\ owner[x] \in Jobs /\ client[c].pc = "init" /\ mem[x].step = "NONE"
      BY <1>1, <1>c DEF ApplyParam, At, Initialising, Fresh
    <2>2. CASE GoTo(c, "initWait") /\ mem' = [mem EXCEPT ![x] = row]
      <3>1. /\ mem'[x].step = "PENDING"
            /\ \A e \in Executors : e # x => mem'[e] = mem[e]
        BY <2>1, <2>2 DEF StoreTyped, StoreTypeOK, Row
      <3>2. /\ client'[c].pc = "initWait"
            /\ client'[c].exe = x
            /\ \A d \in Clients : d # c => client'[d] = client[d]
        BY <2>2 DEF GoTo, Become, StoreTyped, StoreTypeOK, Request
      <3>3. \A d \in Clients : d # c /\ client[d].pc \in Initialising => client[d].exe # x
        BY <2>1 DEF Fresh, Initialising
      <3>4. Fresh'
        BY <2>1, <3>1, <3>2, <3>3, <1>c DEF Fresh, At, Initialising
      <3> QED
        BY <2>1, <3>1, <3>4 DEF BusyKept
    <2>3. CASE Reply(c) /\ mem' \in {mem, [mem EXCEPT ![x] = row]}
      <3>1. \A e \in Executors : e # x => mem'[e] = mem[e]
        BY <2>1, <2>3 DEF StoreTyped, StoreTypeOK
      <3>2. client'[c].pc = "idle" /\ \A d \in Clients : d # c => client'[d] = client[d]
        BY <2>3 DEF Reply, Idle, Become, StoreTyped, StoreTypeOK
      <3>3. \A d \in Clients : d # c /\ client[d].pc \in Initialising => client[d].exe # x
        BY <2>1 DEF Fresh, Initialising
      <3>4. Fresh'
        BY <2>1, <3>1, <3>2, <3>3, <1>c DEF Fresh, At, Initialising
      <3> QED
        BY <2>1, <3>1, <3>4 DEF BusyKept
    <2> QED
      BY <1>1, <2>2, <2>3 DEF ApplyParam, Saves, FailsToSave
  <1>2. CASE InitWait(c)
    <2>1. x \in Executors /\ owner[x] \in Jobs /\ client[c].pc = "initWait" /\ mem[x].step = "PENDING"
      BY <1>2, <1>c DEF InitWait, At, Initialising, Fresh
    <2>2. mem' = [mem EXCEPT ![x] = next] /\ (GoTo(c, "initClose") \/ Reply(c))
      BY <1>2 DEF InitWait, Saves, FailsToSave
    <2>3. \A e \in Executors : e # x => mem'[e] = mem[e]
      BY <2>1, <2>2 DEF StoreTyped, StoreTypeOK
    <2>4. client'[c].pc \notin Initialising /\ \A d \in Clients : d # c => client'[d] = client[d]
      BY <2>2 DEF GoTo, Reply, Idle, Become, Initialising, StoreTyped, StoreTypeOK, Request
    <2>5. \A d \in Clients : d # c /\ client[d].pc \in Initialising => client[d].exe # x
      BY <2>1 DEF Fresh, Initialising
    <2>6. Fresh'
      BY <2>1, <2>3, <2>4, <2>5, <1>c DEF Fresh, At, Initialising
    <2> QED
      BY <2>1, <2>3, <2>6 DEF BusyKept
  <1>3. ASSUME NEW j \in Jobs, NEW e \in Executors, Create(c, j, e)
        PROVE  Fresh' /\ BusyKept
    <2>1. /\ owner[e] = None
          /\ mem'[e].step = "NONE"
          /\ \A f \in Executors : f # e => mem'[f] = mem[f]
      BY <1>3 DEF Create, NewRow, NoRow, StoreTyped, StoreTypeOK
    <2>2. /\ client'[c].pc = "init"
          /\ client'[c].exe = e
          /\ \A d \in Clients : d # c => client'[d] = client[d]
      BY <1>3 DEF Create, Become, Idle, StoreTyped, StoreTypeOK
    <2>3. Fresh'
      BY <2>1, <2>2, <1>c DEF Fresh, At, Initialising
    <2> QED
      BY <2>1, <2>3 DEF BusyKept
  <1>4. ASSUME \A d \in Clients : client'[d].pc \in Initialising => client'[d] = client[d],
               \A e \in Executors : owner[e] \in Jobs => mem'[e] = mem[e]
        PROVE  Fresh' /\ BusyKept
    BY <1>4, FreshKept DEF BusyKept
  <1>5. ASSUME NEW j \in Jobs, NEW e \in Executors, Gets(j, e)
        PROVE  \A f \in Executors : owner[f] \in Jobs => mem'[f] = mem[f]
    BY <1>5 DEF Gets, StoreTyped, StoreTypeOK
  <1>6. ASSUME Reply(c)
        PROVE  \A d \in Clients : client'[d].pc \in Initialising => client'[d] = client[d]
    BY <1>6 DEF Reply, Become, Idle, Initialising, StoreTyped, StoreTypeOK
  <1>6a. ASSUME Reply(c), UNCHANGED mem
         PROVE  Fresh' /\ BusyKept
    BY <1>4, <1>6, <1>6a
  <1>7. CASE InitClose(c) \/ SaveDeleted(c) \/ EditClose(c) \/ LeavePage(c) \/ AskDispatchFails(c)
    BY <1>6a, <1>7 DEF InitClose, SaveDeleted, EditClose, LeavePage, AskDispatchFails
  <1>8. CASE Display(c)
    <2>1. client[c].job \in Jobs
      BY <1>8 DEF Display, At, StoreTyped, ClientRefs
    <2> QED
      BY <1>4, <1>5, <1>6, <1>8, <2>1 DEF Display
  <1>9. CASE SaveRollback(c) \/ EditGet(c)
    <2>1. client[c].job \in Jobs
      BY <1>9 DEF SaveRollback, EditGet, At, StoreTyped, ClientRefs
    <2>2. \A d \in Clients : client'[d].pc \in Initialising => client'[d] = client[d]
      <3> DEFINE saved == [Idle EXCEPT !.pc = "editGet", !.job = client[c].job]
                 got == [client[c] EXCEPT !.pc = "editClose"]
      <3>1. Reply(c) \/ Become(c, saved) \/ Become(c, got)
        BY <1>9 DEF SaveRollback, EditGet, GoTo
      <3>2. saved.pc = "editGet" /\ got.pc = "editClose"
        BY <1>e DEF Idle, Request
      <3> HIDE DEF saved, got
      <3> QED
        BY <1>6, <1>d, <3>1, <3>2 DEF Initialising
    <2> QED
      BY <1>4, <1>5, <1>9, <2>1, <2>2 DEF SaveRollback, EditGet
  <1>10. ASSUME NEW j \in Jobs, ShowPage(c, j)
         PROVE  Fresh' /\ BusyKept
    BY <1>4, <1>10 DEF ShowPage, Become, Idle, Initialising, StoreTyped, StoreTypeOK
  <1>11. ASSUME NEW e \in Executors, AskDispatch(c, e)
         PROVE  Fresh' /\ BusyKept
    <2>1. client[c].job \in Jobs /\ Gets(client[c].job, e)
      BY <1>11 DEF AskDispatch, At, StoreTyped, ClientRefs
    <2>2. \A d \in Clients : client'[d].pc \in Initialising => client'[d] = client[d]
      <3> DEFINE req == [client[c] EXCEPT !.pc = "dispatch", !.view = NoRow, !.exe = e]
      <3>1. Become(c, req)
        BY <1>11 DEF AskDispatch
      <3>2. req.pc = "dispatch"
        BY <1>e DEF Request
      <3> HIDE DEF req
      <3> QED
        BY <1>d, <3>1, <3>2 DEF Initialising
    <2> QED
      BY <1>4, <1>5, <2>1, <2>2
  <1>12. CASE AskDisplay(c) \/ AskDelete(c) \/ AskRollback(c)
    <2>1. \A d \in Clients : client'[d].pc \in Initialising => client'[d] = client[d]
      <3> DEFINE shown == [client[c] EXCEPT !.pc = "display", !.view = NoRow]
                 deleted == [client[c] EXCEPT !.pc = "delete", !.view = NoRow,
                                              !.read = job[client[c].job]]
                 edited == [client[c] EXCEPT !.pc = "edit",
                                !.read = [NoRow EXCEPT !.status = job[client[c].job].status]]
      <3>1. Reply(c) \/ Become(c, shown) \/ Become(c, deleted) \/ Become(c, edited)
        BY <1>12 DEF AskDisplay, AskDelete, AskRollback
      <3>2. shown.pc = "display" /\ deleted.pc = "delete" /\ edited.pc = "edit"
        BY <1>e DEF Request
      <3> HIDE DEF shown, deleted, edited
      <3> QED
        BY <1>6, <1>d, <3>1, <3>2 DEF Initialising
    <2> QED
      BY <1>4, <1>12, <2>1 DEF AskDisplay, AskDelete, AskRollback
  <1> QED
    BY <1>0, <1>1, <1>2, <1>3, <1>7, <1>8, <1>9, <1>10, <1>11, <1>12 DEF Serve, Ask

-----------------------------------------------------------------------------
(* What an update does to the rows and to the executors' copies of them. *)
LEMMA UpdatesEffect ==
    ASSUME StoreTyped, NEW e \in Executors, owner[e] \in Jobs, NEW row \in Row, Updates(e, row)
    PROVE  /\ mem'[e] = row
           /\ \A f \in Executors : f # e => mem'[f] = mem[f]
           /\ \A j \in Jobs : j # owner[e] => job'[j] = job[j]
           /\ \/ job'[owner[e]] = row /\ UNCHANGED faults
              \/ UNCHANGED job /\ faults < MaxFaults /\ faults' = faults + 1
  <1>1. CASE Saves(e, row)
    BY <1>1 DEF Saves, StoreTyped, StoreTypeOK
  <1>2. CASE FailsToSave(e, row)
    BY <1>2 DEF FailsToSave, Fault, StoreTyped, StoreTypeOK
  <1> QED
    BY <1>1, <1>2 DEF Updates

-----------------------------------------------------------------------------
(* Where the items of a row come from *)

(* The items of every row there is: in the table, in the executors, on the  *)
(* pages and in the handlers.                                               *)
ItemLists ==
    {job[j].items : j \in Jobs} \cup {mem[e].items : e \in Executors}
        \cup {client[c].view.items : c \in Clients} \cup {client[c].read.items : c \in Clients}

(* Nobody is about to roll a job back. *)
NobodyRolls == "rollback" \notin Ops /\ \A c \in Clients : ~ At(c, "edit")

LEMMA RowsMoved ==
    ASSUME \A j \in Jobs : job'[j].items \in ItemLists \cup {AllPending},
           \A e \in Executors : mem'[e].items \in ItemLists \cup {AllPending},
           \A c \in Clients : client'[c].view.items \in ItemLists \cup {AllPending},
           \A c \in Clients : client'[c].read.items \in ItemLists \cup {AllPending}
    PROVE  ItemLists' \subseteq ItemLists \cup {AllPending}
  <1> SUFFICES ASSUME NEW its \in ItemLists'
               PROVE  its \in ItemLists \cup {AllPending}
    OBVIOUS
  <1>1. \/ \E j \in Jobs : its = job'[j].items
        \/ \E e \in Executors : its = mem'[e].items
        \/ \E c \in Clients : its = client'[c].view.items
        \/ \E c \in Clients : its = client'[c].read.items
    BY DEF ItemLists
  <1> QED
    BY <1>1

LEMMA RowsListed ==
    /\ \A j \in Jobs : job[j].items \in ItemLists
    /\ \A e \in Executors : mem[e].items \in ItemLists
    /\ \A c \in Clients : client[c].view.items \in ItemLists
    /\ \A c \in Clients : client[c].read.items \in ItemLists
  BY DEF ItemLists

(* Requests submit nothing: to an executor that exists they leave its items *)
(* or make all of them pending, and without rollbacks every row they write  *)
(* has the items of another row, or all pending.                            *)
LEMMA RequestItems ==
    ASSUME StoreTyped, StoreNext
    PROVE  /\ \A e \in Executors : owner[e] \in Jobs => mem'[e].items \in {mem[e].items, AllPending}
           /\ NobodyRolls => NobodyRolls' /\ ItemLists' \subseteq ItemLists \cup {AllPending}
  <1>0. PICK c \in Clients : Serve(c) \/ Ask(c)
    BY DEF StoreNext
  <1> DEFINE x == client[c].exe
             Known(its) == its \in ItemLists \cup {AllPending}
             KeepsMem == \A e \in Executors : owner[e] \in Jobs => mem'[e].items \in {mem[e].items, AllPending}
             KnownMem == \A e \in Executors : Known(mem'[e].items)
             KnownJobs == \A j \in Jobs : Known(job'[j].items)
             Goal == /\ KeepsMem
                     /\ NobodyRolls => NobodyRolls' /\ ItemLists' \subseteq ItemLists \cup {AllPending}
  <1>1. /\ client[c] \in Request
        /\ client[c].pc # "idle" => client[c].job \in Jobs
        /\ client[c].pc \in {"init", "initWait"} => x \in Executors /\ owner[x] \in Jobs
    BY DEF StoreTyped, StoreTypeOK, ClientRefs
  <1>2. ASSUME NEW req, Become(c, req), Known(req.view.items), Known(req.read.items),
               req.pc # "edit", KeepsMem, KnownMem, KnownJobs
        PROVE  Goal
    <2>1. client'[c] = req /\ \A d \in Clients : d # c => client'[d] = client[d]
      BY <1>2 DEF Become, StoreTyped, StoreTypeOK
    <2>2. NobodyRolls => NobodyRolls'
      BY <1>2, <2>1 DEF NobodyRolls, At
    <2>3. ItemLists' \subseteq ItemLists \cup {AllPending}
      BY <1>2, <2>1, RowsListed, RowsMoved
    <2> QED
      BY <1>2, <2>2, <2>3
  <1>3. Idle.view.items = AllPending /\ Idle.read.items = AllPending /\ NoRow.items = AllPending /\ Idle.pc = "idle"
    BY DEF Idle, NoRow
  <1>4. Reply(c) /\ KeepsMem /\ KnownMem /\ KnownJobs => Goal
    BY <1>2, <1>3 DEF Reply
  <1>5. ASSUME UNCHANGED mem
        PROVE  KeepsMem /\ KnownMem
    BY <1>5, RowsListed
  <1>6. ASSUME UNCHANGED job
        PROVE  KnownJobs
    BY <1>6, RowsListed
  <1>7. ASSUME NEW to, GoTo(c, to), to # "edit", KeepsMem, KnownMem, KnownJobs
        PROVE  Goal
    <2> DEFINE req == [client[c] EXCEPT !.pc = to]
    <2>1. Become(c, req)
      BY <1>7 DEF GoTo
    <2>2. req.view = client[c].view /\ req.read = client[c].read /\ req.pc = to
      BY <1>1 DEF Request
    <2> HIDE DEF req
    <2> QED
      BY <1>2, <1>7, <2>1, <2>2, RowsListed
  <1>8. ASSUME NEW j \in Jobs, NEW e \in Executors, Gets(j, e)
        PROVE  KeepsMem /\ KnownMem
    BY <1>8, RowsListed DEF Gets, StoreTyped, StoreTypeOK
  <1>9. ASSUME NEW row \in Row, x \in Executors, owner[x] \in Jobs, Updates(x, row),
               row.items \in {mem[x].items, AllPending}
        PROVE  KeepsMem /\ KnownMem /\ KnownJobs
    BY <1>9, UpdatesEffect, RowsListed
  <1>10. CASE ApplyParam(c)
    <2> DEFINE row == [mem[x] EXCEPT !.step = "PENDING", !.items = AllPending]
    <2>1. x \in Executors /\ owner[x] \in Jobs
      BY <1>1, <1>10 DEF ApplyParam, At
    <2>2. row \in Row /\ row.items = AllPending
      BY <2>1, RowType DEF Row, Steps, StoreTyped, StoreTypeOK
    <2>3. \/ Updates(x, row) /\ (GoTo(c, "initWait") \/ Reply(c))
          \/ Reply(c) /\ UNCHANGED <<mem, job>>
      BY <1>10 DEF ApplyParam, Updates
    <2> HIDE DEF row
    <2> QED
      BY <1>4, <1>5, <1>6, <1>7, <1>9, <2>1, <2>2, <2>3
  <1>11. CASE InitWait(c)
    <2> DEFINE row == Switched(mem[x], "WAIT_FOR_TAPE", "PENDING")
    <2>1. x \in Executors /\ owner[x] \in Jobs /\ mem[x] \in Row
      BY <1>1, <1>11 DEF InitWait, At, StoreTyped, StoreTypeOK
    <2>2. row \in Row
      BY <2>1, SwitchedType DEF Steps, Statuses
    <2>3. row.items = mem[x].items
      BY <2>1 DEF Switched, Row
    <2>4. Updates(x, row) /\ (GoTo(c, "initClose") \/ Reply(c))
      BY <1>11 DEF InitWait, Updates
    <2> HIDE DEF row
    <2> QED
      BY <1>4, <1>7, <1>9, <2>1, <2>2, <2>3, <2>4
  <1>12. CASE InitClose(c) \/ EditClose(c) \/ LeavePage(c) \/ AskDispatchFails(c)
    BY <1>4, <1>5, <1>6, <1>12 DEF InitClose, EditClose, LeavePage, AskDispatchFails
  <1>13. CASE Display(c)
    <2>1. client[c].job \in Jobs /\ Reply(c) /\ UNCHANGED job
      BY <1>1, <1>13 DEF Display, At
    <2>2. (\E e \in Executors : Gets(client[c].job, e)) \/ UNCHANGED mem
      BY <1>13 DEF Display
    <2> QED
      BY <1>4, <1>5, <1>6, <1>8, <2>1, <2>2
  <1>14. CASE EditGet(c)
    <2>1. client[c].job \in Jobs /\ (GoTo(c, "editClose") \/ Reply(c)) /\ UNCHANGED job
      BY <1>1, <1>14 DEF EditGet, At
    <2>2. (\E e \in Executors : Gets(client[c].job, e)) \/ UNCHANGED mem
      BY <1>14 DEF EditGet
    <2> QED
      BY <1>4, <1>5, <1>6, <1>7, <1>8, <2>1, <2>2
  <1>15. CASE SaveDeleted(c)
    <2> DEFINE row == [client[c].read EXCEPT !.status = "DELETED"]
    <2>1. UNCHANGED mem /\ Reply(c) /\ (UNCHANGED job \/ job' = [job EXCEPT ![client[c].job] = row])
      BY <1>15 DEF SaveDeleted
    <2>2. row.items = client[c].read.items
      BY <1>1 DEF Request, Row
    <2> HIDE DEF row
    <2>3. KnownJobs
      BY <2>1, <2>2, RowsListed DEF StoreTyped, StoreTypeOK
    <2> QED
      BY <1>4, <1>5, <2>1, <2>3
  <1>16. CASE SaveRollback(c)
    <2>1. ~ NobodyRolls /\ UNCHANGED mem
      BY <1>16 DEF SaveRollback, NobodyRolls
    <2> QED
      BY <1>5, <2>1
  <1>17. ASSUME NEW j \in Jobs, NEW e \in Executors, Create(c, j, e)
         PROVE  Goal
    <2> DEFINE req == [Idle EXCEPT !.pc = "init", !.job = j, !.exe = e]
    <2>1. Become(c, req) /\ owner[e] = None
          /\ job' = [job EXCEPT ![j] = NewRow] /\ mem' = [mem EXCEPT ![e] = NewRow]
      BY <1>17 DEF Create
    <2>2. req.view = Idle.view /\ req.read = Idle.read /\ req.pc = "init" /\ NewRow.items = AllPending
      BY DEF Idle, NewRow, NoRow
    <2> HIDE DEF req
    <2>3. KeepsMem /\ KnownMem /\ KnownJobs
      BY <2>1, <2>2, RowsListed DEF StoreTyped, StoreTypeOK
    <2> QED
      BY <1>2, <1>3, <2>1, <2>2, <2>3
  <1>18. ASSUME NEW j \in Jobs, ShowPage(c, j)
         PROVE  Goal
    <2> DEFINE req == [Idle EXCEPT !.pc = "page", !.job = j, !.view = job[j]]
    <2>1. Become(c, req) /\ UNCHANGED <<job, mem>>
      BY <1>18 DEF ShowPage
    <2>2. req.view = job[j] /\ req.read = Idle.read /\ req.pc = "page"
      BY DEF Idle
    <2> HIDE DEF req
    <2> QED
      BY <1>2, <1>3, <1>5, <1>6, <2>1, <2>2, RowsListed
  <1>19. ASSUME NEW e \in Executors, AskDispatch(c, e)
         PROVE  Goal
    <2> DEFINE req == [client[c] EXCEPT !.pc = "dispatch", !.view = NoRow, !.exe = e]
    <2>1. Become(c, req) /\ UNCHANGED job /\ Gets(client[c].job, e)
      BY <1>19 DEF AskDispatch
    <2>2. req.view = NoRow /\ req.read = client[c].read /\ req.pc = "dispatch"
      BY <1>1 DEF Request
    <2>3. client[c].job \in Jobs
      BY <1>1, <1>19 DEF AskDispatch, At
    <2> HIDE DEF req
    <2> QED
      BY <1>2, <1>3, <1>6, <1>8, <2>1, <2>2, <2>3, RowsListed
  <1>20. CASE AskDisplay(c)
    <2> DEFINE req == [client[c] EXCEPT !.pc = "display", !.view = NoRow]
    <2>1. (Become(c, req) \/ Reply(c)) /\ UNCHANGED <<job, mem>>
      BY <1>20 DEF AskDisplay
    <2>2. req.view = NoRow /\ req.read = client[c].read /\ req.pc = "display"
      BY <1>1 DEF Request
    <2> HIDE DEF req
    <2> QED
      BY <1>2, <1>3, <1>4, <1>5, <1>6, <2>1, <2>2, RowsListed
  <1>21. CASE AskDelete(c)
    <2> DEFINE req == [client[c] EXCEPT !.pc = "delete", !.view = NoRow, !.read = job[client[c].job]]
    <2>1. Become(c, req) /\ UNCHANGED <<job, mem>> /\ client[c].job \in Jobs
      BY <1>1, <1>21 DEF AskDelete, At
    <2>2. req.view = NoRow /\ req.read = job[client[c].job] /\ req.pc = "delete"
      BY <1>1 DEF Request
    <2> HIDE DEF req
    <2> QED
      BY <1>2, <1>3, <1>5, <1>6, <2>1, <2>2, RowsListed
  <1>22. CASE AskRollback(c)
    <2>1. ~ NobodyRolls /\ UNCHANGED mem
      BY <1>22 DEF AskRollback, NobodyRolls
    <2> QED
      BY <1>5, <2>1
  <1> QED
    BY <1>0, <1>10, <1>11, <1>12, <1>13, <1>14, <1>15, <1>16, <1>17, <1>18, <1>19, <1>20, <1>21,
       <1>22 DEF Serve, Ask

-----------------------------------------------------------------------------
(* Jobs that nobody edits *)

(* Clients create, delete and roll back no job: they look, and dispatch. *)
NobodyEdits == {"create", "rollback", "delete"} \cap Ops = {}

Reading == \A c \in Clients : client[c].pc \in {"idle", "page", "dispatch", "display"}

(* A request makes the executor of a job, from the row as it is. *)
Loads(j, e) ==
    /\ cache[j] = None
    /\ owner[e] = None
    /\ owner' = [owner EXCEPT ![e] = j]
    /\ mem' = [mem EXCEPT ![e] = job[j]]
    /\ cache' = [cache EXCEPT ![j] = e]

(* A request leaves the executors alone; its getter may fail. *)
Looks ==
    /\ UNCHANGED <<owner, mem>>
    /\ \A j \in Jobs : cache'[j] = cache[j] \/ (cache[j] = None /\ cache'[j] = Broken)

LEMMA GetsOrFails ==
    ASSUME StoreTyped, NEW j \in Jobs,
           (\E e \in Executors : Gets(j, e)) \/ (GetFails(j) /\ UNCHANGED <<owner, mem>>)
    PROVE  Looks \/ \E e \in Executors : Loads(j, e)
  <1>1. ASSUME NEW e \in Executors, Gets(j, e)
        PROVE  Looks \/ Loads(j, e)
    BY <1>1 DEF Gets, Looks, Loads
  <1>2. CASE GetFails(j) /\ UNCHANGED <<owner, mem>>
    BY <1>2 DEF GetFails, Looks, StoreTyped, StoreTypeOK
  <1> QED
    BY <1>1, <1>2

(* Whatever a request of such a client does, no row changes, and executors  *)
(* only by loading.                                                         *)
LEMMA RequestsRead ==
    ASSUME StoreTyped, NobodyEdits, Reading, StoreNext
    PROVE  /\ Reading'
           /\ UNCHANGED job
           /\ Looks \/ \E j \in Jobs, e \in Executors : Loads(j, e)
  <1>0. PICK c \in Clients : Serve(c) \/ Ask(c)
    BY DEF StoreNext
  <1>1. client[c] \in Request /\ (client[c].pc # "idle" => client[c].job \in Jobs)
    BY DEF StoreTyped, StoreTypeOK, ClientRefs
  <1>2. ASSUME NEW req, Become(c, req), req.pc \in {"idle", "page", "dispatch", "display"}
        PROVE  Reading'
    BY <1>2 DEF Become, Reading, StoreTyped, StoreTypeOK
  <1>3. Reply(c) => Reading'
    BY <1>2 DEF Reply, Idle
  <1>4. \/ Display(c) \/ LeavePage(c) \/ AskDispatchFails(c) \/ AskDisplay(c)
        \/ \E j \in Jobs : ShowPage(c, j)
        \/ \E e \in Executors : AskDispatch(c, e)
    BY <1>0 DEF Serve, Ask, NobodyEdits, Reading, At, Create, AskDelete, AskRollback,
                ApplyParam, InitWait, InitClose, SaveDeleted, SaveRollback, EditGet, EditClose
  <1>5. CASE Display(c)
    <2>1. Reply(c) /\ UNCHANGED job
      BY <1>5 DEF Display
    <2>2. \/ \E e \in Executors : Gets(client[c].job, e)
          \/ GetFails(client[c].job) /\ UNCHANGED <<owner, mem>>
      BY <1>5 DEF Display
    <2>3. client[c].job \in Jobs
      BY <1>1, <1>5 DEF Display, At
    <2> QED
      BY <1>3, <2>1, <2>2, <2>3, GetsOrFails
  <1>6. CASE LeavePage(c)
    BY <1>3, <1>6 DEF LeavePage, Looks
  <1>7. CASE AskDispatchFails(c)
    <2>1. Reply(c) /\ UNCHANGED <<job, owner, mem>> /\ GetFails(client[c].job)
      BY <1>7 DEF AskDispatchFails
    <2>2. client[c].job \in Jobs
      BY <1>1, <1>7 DEF AskDispatchFails, At
    <2> QED
      BY <1>3, <2>1, <2>2, GetsOrFails
  <1>8. CASE AskDisplay(c)
    <2> DEFINE req == [client[c] EXCEPT !.pc = "display", !.view = NoRow]
    <2>1. (Become(c, req) \/ Reply(c)) /\ UNCHANGED <<job, owner, mem, cache, faults>>
      BY <1>8 DEF AskDisplay
    <2>2. req.pc = "display"
      BY <1>1 DEF Request
    <2> HIDE DEF req
    <2> QED
      BY <1>2, <1>3, <2>1, <2>2 DEF Looks
  <1>9. ASSUME NEW j \in Jobs, ShowPage(c, j)
        PROVE  Reading' /\ UNCHANGED job /\ Looks
    BY <1>2, <1>9 DEF ShowPage, Idle, Looks
  <1>10. ASSUME NEW e \in Executors, AskDispatch(c, e)
         PROVE  /\ Reading'
                /\ UNCHANGED job
                /\ Looks \/ \E j \in Jobs, f \in Executors : Loads(j, f)
    <2> DEFINE req == [client[c] EXCEPT !.pc = "dispatch", !.view = NoRow, !.exe = e]
    <2>1. Become(c, req) /\ Gets(client[c].job, e) /\ UNCHANGED job
      BY <1>10 DEF AskDispatch
    <2>2. req.pc = "dispatch"
      BY <1>1 DEF Request
    <2>3. client[c].job \in Jobs
      BY <1>1, <1>10 DEF AskDispatch, At
    <2> HIDE DEF req
    <2> QED
      BY <1>2, <2>1, <2>2, <2>3, GetsOrFails
  <1> QED
    BY <1>4, <1>5, <1>6, <1>7, <1>8, <1>9, <1>10

(* The executor of a job stays the cached one until it is finished, and     *)
(* then the row is finished too, so nobody works on what is loaded later.   *)
Cached ==
    \A e \in Executors : owner[e] \in Jobs =>
        /\ \/ cache[owner[e]] = e
           \/ mem[e].step = "FINISHED" /\ job[owner[e]].step = "FINISHED"
        /\ job[owner[e]].step = "FINISHED" => mem[e].step = "FINISHED"

LEMMA Alone ==
    ASSUME Cached, NEW e \in Executors, NEW f \in Executors, e # f,
           owner[e] \in Jobs, owner[e] = owner[f]
    PROVE  /\ mem[e].step = "FINISHED"
           /\ mem[f].step = "FINISHED"
           /\ job[owner[e]].step = "FINISHED"
  BY DEF Cached

LEMMA LoadsCached ==
    ASSUME StoreTyped, Cached, UNCHANGED job,
           Looks \/ \E j \in Jobs, e \in Executors : Loads(j, e)
    PROVE  Cached'
  <1>1. CASE Looks
    BY <1>1 DEF Looks, Cached, StoreTyped, StoreTypeOK
  <1>2. ASSUME NEW j \in Jobs, NEW e \in Executors, Loads(j, e)
        PROVE  Cached'
    <2>1. /\ owner'[e] = j /\ mem'[e] = job[j] /\ cache'[j] = e
          /\ \A f \in Executors : f # e => owner'[f] = owner[f] /\ mem'[f] = mem[f]
          /\ \A k \in Jobs : k # j => cache'[k] = cache[k]
      BY <1>2 DEF Loads, StoreTyped, StoreTypeOK
    <2>2. cache[j] = None /\ None \notin Executors
      BY <1>2 DEF Loads
    <2> QED
      BY <2>1, <2>2 DEF Cached
  <1> QED
    BY <1>1, <1>2

LEMMA UpdatesCached ==
    ASSUME StoreTyped, Cached, NEW e \in Executors, owner[e] \in Jobs, NEW row \in Row,
           Updates(e, row), mem[e].step = "FINISHED" => row.step = "FINISHED",
           UNCHANGED <<owner, cache>>
    PROVE  Cached'
  <1>1. \A f \in Executors : f # e /\ owner[f] = owner[e] =>
            mem[f].step = "FINISHED" /\ mem[e].step = "FINISHED" /\ job[owner[e]].step = "FINISHED"
    BY Alone
  <1> QED
    BY <1>1, UpdatesEffect DEF Cached

LEMMA WaitCached ==
    ASSUME StoreTyped, Cached, NEW e \in Executors, owner[e] \in Jobs, WaitForTape(e),
           UNCHANGED owner
    PROVE  Cached'
  <1> DEFINE row == Switched(mem[e], "WAIT_FOR_TAPE", "PENDING")
  <1>1. row \in Row
    BY SwitchedType DEF StoreTyped, StoreTypeOK, Steps, Statuses
  <1>2. mem[e].step # "FINISHED" /\ Updates(e, row) /\ UNCHANGED cache
    BY DEF WaitForTape, MayWait
  <1> HIDE DEF row
  <1> QED
    BY <1>1, <1>2, UpdatesCached

LEMMA FinishedCached ==
    ASSUME StoreTyped, Cached, NEW e \in Executors, owner[e] \in Jobs, Finished(e),
           UNCHANGED owner
    PROVE  Cached'
  <1> DEFINE row == Switched(mem[e], "FINISHED", "COMPLETED")
  <1>1. row \in Row /\ row.step = "FINISHED"
    <2>1. mem[e] \in Row
      BY DEF StoreTyped, StoreTypeOK
    <2>2. row \in Row
      BY <2>1, SwitchedType DEF Steps, Statuses
    <2> QED
      BY <2>1, <2>2 DEF Switched, Row
  <1>2. \/ Saves(e, row) /\ Uncache(owner[e])
        \/ FailsToSave(e, row) /\ UNCHANGED cache
    BY DEF Finished
  <1> HIDE DEF row
  <1>3. CASE Saves(e, row) /\ Uncache(owner[e])
    <2>1. /\ mem'[e] = row /\ job'[owner[e]] = row
          /\ \A f \in Executors : f # e => mem'[f] = mem[f]
          /\ \A j \in Jobs : j # owner[e] => job'[j] = job[j] /\ cache'[j] = cache[j]
      BY <1>3 DEF Saves, Uncache, StoreTyped, StoreTypeOK
    <2>2. \A f \in Executors : f # e /\ owner[f] = owner[e] => mem[f].step = "FINISHED"
      BY Alone
    <2> QED
      BY <1>1, <2>1, <2>2 DEF Cached
  <1>4. CASE FailsToSave(e, row) /\ UNCHANGED cache
    BY <1>1, <1>4, UpdatesCached DEF Updates
  <1> QED
    BY <1>2, <1>3, <1>4

-----------------------------------------------------------------------------
(* Dispatches *)

(* A dispatch changes the step and the status of a row, and no item. *)
SameItems ==
    /\ \A e \in Executors : mem'[e].items = mem[e].items
    /\ \A j \in Jobs : job'[j].items = job[j].items \/ \E e \in Executors : job'[j].items = mem[e].items

LEMMA SwitchedItems ==
    ASSUME StoreTyped, NEW e \in Executors, owner[e] \in Jobs, NEW step \in Steps,
           NEW status \in Statuses, Updates(e, Switched(mem[e], step, status))
    PROVE  SameItems
  <1> DEFINE row == Switched(mem[e], step, status)
  <1>1. mem[e] \in Row
    BY DEF StoreTyped, StoreTypeOK
  <1>2. row \in Row
    BY <1>1, SwitchedType
  <1>3. row.items = mem[e].items
    BY <1>1 DEF Switched, Row
  <1>4. Updates(e, row)
    OBVIOUS
  <1> HIDE DEF row
  <1> QED
    BY <1>2, <1>3, <1>4, UpdatesEffect DEF SameItems

LEMMA DispatchItems ==
    ASSUME StoreTyped, NEW e \in Executors, owner[e] \in Jobs, WaitForTape(e) \/ Finished(e)
    PROVE  SameItems
  BY SwitchedItems DEF WaitForTape, Finished, Updates, Steps, Statuses

(* The saves that may fail are used up. *)
LEMMA NoFaultLeft ==
    ASSUME StoreTyped, StoreNext, faults = MaxFaults
    PROVE  UNCHANGED faults
  <1>0. PICK c \in Clients : Serve(c) \/ Ask(c)
    BY DEF StoreNext
  <1>1. ~ Fault
    BY DEF Fault
  <1>2. ASSUME NEW j, GetFails(j)
        PROVE  UNCHANGED faults
    BY <1>1, <1>2 DEF GetFails
  <1>3. ASSUME NEW j, NEW e, Gets(j, e)
        PROVE  UNCHANGED faults
    BY <1>3 DEF Gets
  <1>4. ASSUME NEW row, NEW e, Saves(e, row) \/ FailsToSave(e, row)
        PROVE  UNCHANGED faults
    BY <1>1, <1>4 DEF Saves, FailsToSave
  <1>5. CASE Serve(c)
    BY <1>1, <1>2, <1>3, <1>4, <1>5 DEF Serve, ApplyParam, InitWait, InitClose, Display, SaveDeleted,
        SaveRollback, EditGet, EditClose
  <1>6. CASE Ask(c)
    BY <1>2, <1>3, <1>6 DEF Ask, Create, ShowPage, LeavePage, AskDispatch, AskDispatchFails,
        AskDisplay, AskDelete, AskRollback
  <1> QED
    BY <1>0, <1>5, <1>6

-----------------------------------------------------------------------------
(* Clients send what the pages send; the other dispatches of the API unlock *)
(* an executor while its worker runs.                                       *)
PagesOnly == {"wait", "finish"} \cap Ops = {}

-----------------------------------------------------------------------------
(* Rows that only move on                                                   *)

(* What is finished is complete. *)
Full ==
    /\ \A e \in Executors : mem[e].step = "FINISHED" => Submited(mem[e]) = Items
    /\ \A j \in Jobs : job[j].step = "FINISHED" => Submited(job[j]) = Items

(* The row is behind every executor of the job, never ahead of it: of those *)
(* out of the cache because they are finished.                              *)
RowsBehind == \A e \in Executors : owner[e] \in Jobs => Submited(job[owner[e]]) \subseteq Submited(mem[e])

(* An executor that takes nothing back, and finishes only what is complete, *)
(* saves its copy or fails to.                                              *)
LEMMA UpdatesGrow ==
    ASSUME StoreTyped, Cached, Full, RowsBehind, NEW e \in Executors, owner[e] \in Jobs,
           NEW row \in Row, Updates(e, row), UNCHANGED owner,
           Submited(mem[e]) \subseteq Submited(row),
           row.step = "FINISHED" => Submited(row) = Items
    PROVE  /\ Full' /\ RowsBehind'
           /\ \A j \in Jobs : Submited(job[j]) \subseteq Submited(job'[j])
  <1>1. /\ mem'[e] = row
        /\ \A f \in Executors : f # e => mem'[f] = mem[f]
        /\ \A j \in Jobs : j # owner[e] => job'[j] = job[j]
        /\ job'[owner[e]] \in {row, job[owner[e]]}
    BY UpdatesEffect
  <1>2. /\ \A f \in Executors : Submited(mem[f])' = Submited(mem'[f])
        /\ \A j \in Jobs : Submited(job[j])' = Submited(job'[j])
    BY DEF Submited
  <1>3. Submited(job[owner[e]]) \subseteq Submited(row)
    BY DEF RowsBehind
  <1>4. \A f \in Executors : f # e /\ owner[f] = owner[e] => Submited(mem[f]) = Items
    BY Alone DEF Full
  <1>5. \A r : Submited(r) \subseteq Items
    BY DEF Submited
  <1>6. Full'
    BY <1>1, <1>2 DEF Full
  <1>7. RowsBehind'
    BY <1>1, <1>2, <1>3, <1>4, <1>5 DEF RowsBehind
  <1> QED
    BY <1>1, <1>3, <1>6, <1>7

LEMMA LoadsGrow ==
    ASSUME StoreTyped, Full, RowsBehind, UNCHANGED job,
           Looks \/ \E j \in Jobs, e \in Executors : Loads(j, e)
    PROVE  Full' /\ RowsBehind'
  <1>1. CASE Looks
    BY <1>1 DEF Looks, Full, RowsBehind, Submited
  <1>2. ASSUME NEW j \in Jobs, NEW e \in Executors, Loads(j, e)
        PROVE  Full' /\ RowsBehind'
    <2>1. /\ owner'[e] = j /\ mem'[e] = job[j]
          /\ \A f \in Executors : f # e => owner'[f] = owner[f] /\ mem'[f] = mem[f]
      BY <1>2 DEF Loads, StoreTyped, StoreTypeOK
    <2>2. /\ \A f \in Executors : Submited(mem[f])' = Submited(mem'[f])
          /\ \A k \in Jobs : Submited(job[k])' = Submited(job[k])
          /\ \A f \in Executors : owner'[f] \in Jobs => Submited(job[owner[f]])' = Submited(job[owner'[f]])
      BY DEF Submited
    <2>3. Full'
      BY <2>1, <2>2 DEF Full
    <2>4. RowsBehind'
      BY <2>1, <2>2 DEF RowsBehind
    <2> QED
      BY <2>3, <2>4
  <1> QED
    BY <1>1, <1>2

-----------------------------------------------------------------------------
(* Saves that do not fail                                                   *)

(* The row is the copy of the executor that still works on it. *)
InSync ==
    \A e \in Executors : owner[e] \in Jobs =>
        IF mem[e].step = "FINISHED" THEN job[owner[e]].step = "FINISHED"
                                    ELSE job[owner[e]] = mem[e]

(* What status and step say of each other: a failure is reported late, over *)
(* whatever the row has moved on to.                                        *)
Sane(row) ==
    \/ row.step = "WAIT_FOR_TAPE" /\ row.status \in {"PENDING", "FAILED"}
    \/ row.step = "COPYING" /\ row.status \in {"PROCESSING", "FAILED"}
    \/ row.step = "FINISHED" /\ row.status \in {"COMPLETED", "FAILED"}

AllSane ==
    /\ \A j \in Jobs : Sane(job[j])
    /\ \A e \in Executors : owner[e] \in Jobs => Sane(mem[e])

(* How the row of a job moves when its executor saves. *)
RowMoves(old, new) ==
    \/ /\ old.step = "WAIT_FOR_TAPE"
       /\ new = Switched(old, "COPYING", "PROCESSING")
    \/ /\ old.step = "COPYING"
       /\ new.step = old.step /\ new.status = old.status
       /\ Submited(old) \subseteq Submited(new)
    \/ /\ old.step = "COPYING"
       /\ new = Switched(old, "WAIT_FOR_TAPE", "PENDING")
    \/ /\ old.step = "COPYING"
       /\ Submited(old) = Items
       /\ new = Switched(old, "FINISHED", "COMPLETED")
    \/ /\ new.step = old.step
       /\ new.status = "FAILED"
       /\ Submited(new) = Submited(old)

LEMMA NoFault ==
    ASSUME StoreTyped, MaxFaults = 0, NEW e, NEW row, Updates(e, row)
    PROVE  Saves(e, row)
  BY DEF Updates, FailsToSave, Fault, StoreTyped, StoreTypeOK

LEMMA SwitchedRow ==
    ASSUME NEW row \in Row, NEW step \in Steps, NEW status \in Statuses
    PROVE  /\ Switched(row, step, status) \in Row
           /\ Switched(row, step, status).items = row.items
           /\ Switched(row, step, status).step = step
           /\ Switched(row, step, status).status = status
           /\ Submited(Switched(row, step, status)) = Submited(row)
  BY DEF Switched, Row, Submited

LEMMA MovesSane ==
    ASSUME NEW old \in Row, NEW new \in Row, Sane(old), RowMoves(old, new)
    PROVE  Sane(new)
  BY SwitchedRow DEF Sane, RowMoves, Steps, Statuses

LEMMA SavesSync ==
    ASSUME StoreTyped, MaxFaults = 0, Cached, InSync, AllSane, Full, NEW e \in Executors, owner[e] \in Jobs,
           NEW row \in Row, Updates(e, row), UNCHANGED owner, RowMoves(mem[e], row)
    PROVE  /\ InSync' /\ AllSane'
           /\ \A j \in Jobs : j # owner[e] => job'[j] = job[j]
           /\ job'[owner[e]] = row
           /\ \/ RowMoves(job[owner[e]], row)
              \/ row.status = "FAILED" /\ Submited(row) = Submited(job[owner[e]])
  <1>1. /\ mem'[e] = row
        /\ job'[owner[e]] = row
        /\ \A f \in Executors : f # e => mem'[f] = mem[f]
        /\ \A j \in Jobs : j # owner[e] => job'[j] = job[j]
    BY NoFault DEF Saves, StoreTyped, StoreTypeOK
  <1>2. mem[e] \in Row /\ Sane(mem[e])
    BY DEF AllSane, StoreTyped, StoreTypeOK
  <1>3. Sane(row)
    BY <1>2, MovesSane
  <1>4. mem[e].step = "FINISHED" => /\ row.step = "FINISHED" /\ row.status = "FAILED"
                                    /\ Submited(row) = Submited(mem[e])
    BY DEF RowMoves
  <1>5. \A f \in Executors : f # e /\ owner[f] = owner[e] =>
            mem[f].step = "FINISHED" /\ mem[e].step = "FINISHED"
    BY Alone
  <1>6. InSync'
    BY <1>1, <1>4, <1>5 DEF InSync
  <1>7. AllSane'
    BY <1>1, <1>3 DEF AllSane, Sane
  <1>8. CASE mem[e].step = "FINISHED"
    <2>1. job[owner[e]].step = "FINISHED"
      BY <1>8 DEF InSync
    <2>2. Submited(job[owner[e]]) = Items /\ Submited(mem[e]) = Items
      BY <1>8, <2>1 DEF Full
    <2> QED
      BY <1>1, <1>4, <1>6, <1>7, <1>8, <2>2
  <1>9. CASE mem[e].step # "FINISHED"
    <2>1. job[owner[e]] = mem[e]
      BY <1>9 DEF InSync
    <2> QED
      BY <1>1, <1>6, <1>7, <2>1
  <1> QED
    BY <1>8, <1>9

LEMMA LoadsSync ==
    ASSUME StoreTyped, InSync, AllSane, UNCHANGED job,
           Looks \/ \E j \in Jobs, e \in Executors : Loads(j, e)
    PROVE  InSync' /\ AllSane'
  <1>1. CASE Looks
    BY <1>1 DEF Looks, InSync, AllSane, Sane
  <1>2. ASSUME NEW j \in Jobs, NEW e \in Executors, Loads(j, e)
        PROVE  InSync' /\ AllSane'
    <2>1. /\ owner'[e] = j /\ mem'[e] = job[j]
          /\ \A f \in Executors : f # e => owner'[f] = owner[f] /\ mem'[f] = mem[f]
      BY <1>2 DEF Loads, StoreTyped, StoreTypeOK
    <2>2. InSync'
      BY <2>1 DEF InSync
    <2> QED
      BY <2>1, <2>2 DEF AllSane, Sane
  <1> QED
    BY <1>1, <1>2

-----------------------------------------------------------------------------
(* What a job shows over time                                               *)

(* A step of a dispatch or a worker leaves the rows alone, or moves one on. *)
Moves(e) ==
    /\ UNCHANGED owner
    /\ \/ UNCHANGED <<job, mem, cache>>
       \/ \E row \in Row :
            /\ RowMoves(mem[e], row)
            /\ Updates(e, row)
            /\ UNCHANGED cache \/ Finished(e)

LEMMA MovesGrow ==
    ASSUME NEW old \in Row, NEW new \in Row, RowMoves(old, new),
           old.step = "FINISHED" => Submited(old) = Items
    PROVE  /\ Submited(old) \subseteq Submited(new)
           /\ new.step = "FINISHED" => Submited(new) = Items
           /\ old.step = "FINISHED" => new.step = "FINISHED"
  BY SwitchedRow DEF RowMoves, Steps, Statuses

LEMMA MovesKeep ==
    ASSUME StoreTyped, Cached, Full, RowsBehind, NEW e \in Executors, owner[e] \in Jobs, Moves(e)
    PROVE  /\ Cached' /\ Full' /\ RowsBehind'
           /\ \A j \in Jobs : Submited(job[j]) \subseteq Submited(job'[j])
  <1>1. CASE UNCHANGED <<job, mem, cache>>
    BY <1>1 DEF Moves, Cached, Full, RowsBehind, Submited
  <1>2. ASSUME NEW row \in Row, RowMoves(mem[e], row), Updates(e, row), UNCHANGED owner,
               UNCHANGED cache \/ Finished(e)
        PROVE  /\ Cached' /\ Full' /\ RowsBehind'
               /\ \A j \in Jobs : Submited(job[j]) \subseteq Submited(job'[j])
    <2>1. mem[e] \in Row /\ (mem[e].step = "FINISHED" => Submited(mem[e]) = Items)
      BY DEF Full, StoreTyped, StoreTypeOK
    <2>2. /\ Submited(mem[e]) \subseteq Submited(row)
          /\ row.step = "FINISHED" => Submited(row) = Items
          /\ mem[e].step = "FINISHED" => row.step = "FINISHED"
      BY <1>2, <2>1, MovesGrow
    <2>3. Cached'
      BY <1>2, <2>2, UpdatesCached, FinishedCached
    <2> QED
      BY <1>2, <2>2, <2>3, UpdatesGrow
  <1> QED
    BY <1>1, <1>2 DEF Moves

(* How the rows of all jobs move when saves do not fail. *)
JobMoves ==
    \/ UNCHANGED job
    \/ \E j \in Jobs, row \in Row :
        /\ job' = [job EXCEPT ![j] = row]
        /\ \/ RowMoves(job[j], row)
           \/ row.status = "FAILED" /\ Submited(row) = Submited(job[j])

LEMMA MovesSync ==
    ASSUME StoreTyped, MaxFaults = 0, Cached, InSync, AllSane, Full, NEW e \in Executors,
           owner[e] \in Jobs, Moves(e)
    PROVE  InSync' /\ AllSane' /\ JobMoves
  <1>1. CASE UNCHANGED <<job, mem, cache>>
    BY <1>1 DEF Moves, InSync, AllSane, Sane, JobMoves
  <1>2. ASSUME NEW row \in Row, RowMoves(mem[e], row), Updates(e, row), UNCHANGED owner
        PROVE  InSync' /\ AllSane' /\ JobMoves
    <2>1. job' = [job EXCEPT ![owner[e]] = row]
      BY <1>2, NoFault DEF Saves
    <2> QED
      BY <1>2, <2>1, SavesSync DEF JobMoves
  <1> QED
    BY <1>1, <1>2 DEF Moves

(* The rows the server starts on when nobody creates jobs. *)
LEMMA FirstRows ==
    ASSUME NobodyEdits, StoreInit
    PROVE  /\ \A j \in Jobs : /\ job[j].step = "WAIT_FOR_TAPE"
                              /\ job[j].status = "PENDING"
                              /\ Submited(job[j]) = {}
           /\ \A e \in Executors : owner[e] = None /\ mem[e] = NoRow
           /\ \A c \in Clients : client[c] = Idle
  <1>1. ReadyRow.step = "WAIT_FOR_TAPE" /\ ReadyRow.status = "PENDING" /\ ReadyRow.items = AllPending
    BY DEF ReadyRow, NewRow, NoRow
  <1>2. Submited(ReadyRow) = {}
    BY <1>1 DEF Submited, AllPending
  <1>3. \A j \in Jobs : job[j] = ReadyRow
    BY DEF NobodyEdits, StoreInit
  <1> QED
    BY <1>1, <1>2, <1>3 DEF StoreInit

(* The phase a row shows. *)
Phase(row) ==
    CASE row.status = "PROCESSING" -> "working"
      [] row.status = "FAILED" -> "failed"
      [] row.status = "COMPLETED" -> "completed"
      [] OTHER -> "waiting"

LEMMA PhaseOf ==
    ASSUME NEW row, row.status \in {"PENDING", "PROCESSING", "COMPLETED", "FAILED"}
    PROVE  /\ row.status = "PENDING" <=> Phase(row) = "waiting"
           /\ row.status = "PROCESSING" <=> Phase(row) = "working"
           /\ row.status = "COMPLETED" <=> Phase(row) = "completed"
           /\ row.status = "FAILED" <=> Phase(row) = "failed"
  BY DEF Phase

(* How a job that moves shows it: it starts, makes progress, pauses,        *)
(* completes with everything done, or fails.                                *)
LEMMA ShownMoves ==
    ASSUME NEW old \in Row, NEW new \in Row, Sane(old),
           RowMoves(old, new) \/ (new.status = "FAILED" /\ Submited(new) = Submited(old))
    PROVE  \/ /\ Phase(old) \in {"waiting", "failed"} /\ Phase(new) = "working"
              /\ Submited(new) = Submited(old)
           \/ /\ Phase(old) \in {"working", "failed"} /\ Phase(new) = Phase(old)
              /\ Submited(old) \subseteq Submited(new)
           \/ /\ Phase(old) \in {"working", "failed"} /\ Phase(new) = "waiting"
              /\ Submited(new) = Submited(old)
           \/ /\ Phase(old) \in {"working", "failed"} /\ Phase(new) = "completed"
              /\ Submited(new) = Submited(old) /\ Submited(old) = Items
           \/ /\ Phase(new) = "failed"
              /\ Submited(new) = Submited(old)
  <1> DEFINE Shown ==
           \/ /\ Phase(old) \in {"waiting", "failed"} /\ Phase(new) = "working"
              /\ Submited(new) = Submited(old)
           \/ /\ Phase(old) \in {"working", "failed"} /\ Phase(new) = Phase(old)
              /\ Submited(old) \subseteq Submited(new)
           \/ /\ Phase(old) \in {"working", "failed"} /\ Phase(new) = "waiting"
              /\ Submited(new) = Submited(old)
           \/ /\ Phase(old) \in {"working", "failed"} /\ Phase(new) = "completed"
              /\ Submited(new) = Submited(old) /\ Submited(old) = Items
           \/ /\ Phase(new) = "failed"
              /\ Submited(new) = Submited(old)
  <1>1. CASE new.status = "FAILED" /\ Submited(new) = Submited(old)
    BY <1>1, PhaseOf
  <1>2. CASE old.step = "WAIT_FOR_TAPE" /\ new = Switched(old, "COPYING", "PROCESSING")
    <2>1. new.status = "PROCESSING" /\ Submited(new) = Submited(old)
      BY <1>2, SwitchedRow DEF Steps, Statuses
    <2>2. old.status \in {"PENDING", "FAILED"}
      BY <1>2 DEF Sane
    <2> QED
      BY <2>1, <2>2, PhaseOf
  <1>3. CASE /\ old.step = "COPYING"
             /\ new.status = old.status
             /\ Submited(old) \subseteq Submited(new)
    <2>1. old.status \in {"PROCESSING", "FAILED"}
      BY <1>3 DEF Sane
    <2>2. Phase(old) \in {"working", "failed"} /\ Phase(new) = Phase(old)
      BY <1>3, <2>1, PhaseOf
    <2> QED
      BY <1>3, <2>2
  <1>4. CASE old.step = "COPYING" /\ new = Switched(old, "WAIT_FOR_TAPE", "PENDING")
    <2>1. new.status = "PENDING" /\ Submited(new) = Submited(old)
      BY <1>4, SwitchedRow DEF Steps, Statuses
    <2>2. old.status \in {"PROCESSING", "FAILED"}
      BY <1>4 DEF Sane
    <2> QED
      BY <2>1, <2>2, PhaseOf
  <1>5. CASE /\ old.step = "COPYING" /\ Submited(old) = Items
             /\ new = Switched(old, "FINISHED", "COMPLETED")
    <2>1. new.status = "COMPLETED" /\ Submited(new) = Submited(old)
      BY <1>5, SwitchedRow DEF Steps, Statuses
    <2>2. old.status \in {"PROCESSING", "FAILED"}
      BY <1>5 DEF Sane
    <2> QED
      BY <1>5, <2>1, <2>2, PhaseOf
  <1>6. Shown
    BY <1>1, <1>2, <1>3, <1>4, <1>5 DEF RowMoves
  <1> QED
    BY <1>6
=============================================================================
