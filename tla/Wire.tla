-------------------------------- MODULE Wire --------------------------------
(***************************************************************************)
(* The messages between the page and the server, as the generated code of  *)
(* frontend/src/entity reads and writes them.  A message type is the       *)
(* sequence of its fields in the order internalBinaryWrite writes them.    *)
(* What is abstracted is the data: a number is a number, a string or bytes *)
(* a string, and the tag with its wire type an entry.                      *)
(***************************************************************************)
EXTENDS Naturals, Sequences, SequencesExt, FiniteSets

Varint == [wire |-> "varint", type |-> <<>>]        \* int64, bool and enums
Chunk == [wire |-> "chunk", type |-> <<>>]          \* string and bytes
Embedded(T) == [wire |-> "message", type |-> T]

(* The four ways the generated code treats a field: a plain one has a       *)
(* default, which is not written; an optional or embedded one may be        *)
(* absent; a repeated one; a case of a oneof, which lives in the slot its   *)
(* cases share.                                                             *)
Field(form, no, name, slot, kind) ==
    [form |-> form, no |-> no, name |-> name, slot |-> slot, kind |-> kind]
One(no, name, kind) == Field("one", no, name, name, kind)
Maybe(no, name, kind) == Field("maybe", no, name, name, kind)
Many(no, name, kind) == Field("many", no, name, name, kind)
Case(slot, no, name, T) == Field("case", no, name, slot, Embedded(T))

-----------------------------------------------------------------------------
(* Files of the library (file.ts) *)
File ==
    <<One(1, "id", Varint), One(2, "parentId", Varint), One(3, "name", Chunk),
      One(17, "mode", Varint), One(18, "modTime", Varint), One(19, "size", Varint),
      One(20, "hash", Chunk)>>
EditedFile == <<Maybe(2, "parentId", Varint), Maybe(3, "name", Chunk)>>
-----------------------------------------------------------------------------
(* Positions (position.ts) *)
Position ==
    <<One(1, "id", Varint), One(2, "fileId", Varint), One(3, "tapeId", Varint),
      One(4, "path", Chunk), One(17, "mode", Varint), One(18, "modTime", Varint),
      One(19, "writeTime", Varint), One(20, "size", Varint), One(21, "hash", Chunk)>>
-----------------------------------------------------------------------------
(* Sources (source.ts) *)
SourceFile ==
    <<One(1, "path", Chunk), One(2, "parentPath", Chunk), One(3, "name", Chunk),
      One(17, "mode", Varint), One(18, "modTime", Varint), One(19, "size", Varint)>>
Source == <<One(1, "base", Chunk), Many(2, "path", Chunk)>>
SourceState ==
    <<Maybe(1, "source", Embedded(Source)), One(2, "size", Varint), One(3, "status", Varint),
      Maybe(4, "message", Chunk)>>
-----------------------------------------------------------------------------
(* Tapes (tape.ts) *)
Tape ==
    <<One(1, "id", Varint), One(2, "barcode", Chunk), One(3, "name", Chunk),
      One(4, "encryption", Chunk), One(17, "createTime", Varint),
      Maybe(18, "destroyTime", Varint), One(19, "capacityBytes", Varint),
      One(20, "writenBytes", Varint)>>
TapeFilter == <<Maybe(33, "limit", Varint), Maybe(34, "offset", Varint)>>
-----------------------------------------------------------------------------
(* Archive jobs (job_archive.ts) *)
JobArchiveParam == <<Many(1, "sources", Embedded(Source))>>
JobArchiveWaitForTapeParam == <<>>
JobArchiveCopyingParam ==
    <<One(1, "device", Chunk), One(2, "barcode", Chunk), One(3, "name", Chunk)>>
JobArchiveFinishedParam == <<>>
JobArchiveDispatchParam ==
    <<Case("param", 1, "waitForTape", JobArchiveWaitForTapeParam),
      Case("param", 2, "copying", JobArchiveCopyingParam),
      Case("param", 255, "finished", JobArchiveFinishedParam)>>
JobArchiveState == <<One(1, "step", Varint), Many(2, "sources", Embedded(SourceState))>>
JobArchiveDisplay ==
    <<One(1, "copiedBytes", Varint), One(2, "copiedFiles", Varint),
      One(3, "totalBytes", Varint), One(4, "totalFiles", Varint), Maybe(5, "speed", Varint),
      One(6, "startTime", Varint)>>
-----------------------------------------------------------------------------
(* Restore jobs (job_restore.ts) *)
JobRestoreParam == <<Many(1, "fileIds", Varint)>>
JobRestoreWaitForTapeParam == <<>>
JobRestoreCopyingParam == <<One(1, "device", Chunk)>>
JobRestoreFinishedParam == <<>>
JobRestoreDispatchParam ==
    <<Case("param", 1, "waitForTape", JobRestoreWaitForTapeParam),
      Case("param", 2, "copying", JobRestoreCopyingParam),
      Case("param", 255, "finished", JobRestoreFinishedParam)>>
RestoreFile ==
    <<One(1, "fileId", Varint), One(2, "tapeId", Varint), One(3, "positionId", Varint),
      One(17, "status", Varint), One(18, "size", Varint), One(19, "hash", Chunk),
      One(33, "tapePath", Chunk), One(34, "targetPath", Chunk)>>
RestoreTape ==
    <<One(1, "tapeId", Varint), One(2, "barcode", Chunk), One(17, "status", Varint),
      Many(18, "files", Embedded(RestoreFile))>>
JobRestoreState == <<One(1, "step", Varint), Many(2, "tapes", Embedded(RestoreTape))>>
JobRestoreDisplay ==
    <<One(1, "copiedBytes", Varint), One(2, "copiedFiles", Varint),
      One(3, "totalBytes", Varint), One(4, "totalFiles", Varint), Maybe(5, "speed", Varint),
      One(6, "startTime", Varint)>>
-----------------------------------------------------------------------------
(* Jobs (job.ts) *)
JobState ==
    <<Case("state", 1, "archive", JobArchiveState),
      Case("state", 2, "restore", JobRestoreState)>>
Job ==
    <<One(1, "id", Varint), One(2, "status", Varint), One(3, "priority", Varint),
      One(4, "createTimeNs", Varint), One(5, "updateTimeNs", Varint),
      Maybe(17, "state", Embedded(JobState))>>
JobParam ==
    <<Case("param", 1, "archive", JobArchiveParam),
      Case("param", 2, "restore", JobRestoreParam)>>
JobDispatchParam ==
    <<Case("param", 1, "archive", JobArchiveDispatchParam),
      Case("param", 2, "restore", JobRestoreDispatchParam)>>
CreatableJob == <<One(3, "priority", Varint), Maybe(17, "param", Embedded(JobParam))>>
JobFilter ==
    <<Maybe(1, "status", Varint), Maybe(33, "limit", Varint), Maybe(34, "offset", Varint)>>
JobRecentlyUpdateFilter ==
    <<Maybe(1, "updateSinceNs", Varint), Maybe(33, "limit", Varint)>>
JobDisplay ==
    <<Case("display", 1, "archive", JobArchiveDisplay),
      Case("display", 2, "restore", JobRestoreDisplay)>>
-----------------------------------------------------------------------------
(* Requests and replies (service.ts) *)
FileGetRequest == <<One(1, "id", Varint), Maybe(17, "needSize", Varint)>>
FileGetReply ==
    <<Maybe(1, "file", Embedded(File)), Many(2, "positions", Embedded(Position)),
      Many(17, "children", Embedded(File))>>
FileEditRequest == <<One(1, "id", Varint), Maybe(2, "file", Embedded(EditedFile))>>
FileEditReply == <<Maybe(1, "file", Embedded(File))>>
FileMkdirRequest == <<One(1, "parentId", Varint), One(2, "path", Chunk)>>
FileMkdirReply == <<Maybe(1, "file", Embedded(File))>>
FileDeleteRequest == <<Many(1, "ids", Varint)>>
FileDeleteReply == <<>>
FileListParentsRequest == <<One(1, "id", Varint)>>
FileListParentsReply == <<Many(1, "parents", Embedded(File))>>
TapeMGetRequest == <<Many(1, "ids", Varint)>>
TapeListRequest ==
    <<Case("param", 1, "mget", TapeMGetRequest), Case("param", 2, "list", TapeFilter)>>
TapeListReply == <<Many(1, "tapes", Embedded(Tape))>>
TapeDeleteRequest == <<Many(1, "ids", Varint)>>
TapeDeleteReply == <<>>
TapeGetPositionsRequest == <<One(1, "id", Varint), One(2, "directory", Chunk)>>
TapeGetPositionsReply == <<Many(1, "positions", Embedded(Position))>>
JobMGetRequest == <<Many(1, "ids", Varint)>>
JobListRequest ==
    <<Case("param", 1, "mget", JobMGetRequest), Case("param", 2, "list", JobFilter),
      Case("param", 3, "recentlyUpdate", JobRecentlyUpdateFilter)>>
JobListReply == <<Many(1, "jobs", Embedded(Job))>>
JobCreateRequest == <<Maybe(1, "job", Embedded(CreatableJob))>>
JobCreateReply == <<Maybe(1, "job", Embedded(Job))>>
JobEditStateRequest ==
    <<One(1, "id", Varint), Maybe(2, "status", Varint),
      Maybe(3, "state", Embedded(JobState))>>
JobEditStateReply == <<>>
JobDeleteRequest == <<Many(1, "ids", Varint)>>
JobDeleteReply == <<>>
JobDispatchRequest ==
    <<One(1, "id", Varint), Maybe(2, "param", Embedded(JobDispatchParam))>>
JobDispatchReply == <<>>
JobDisplayRequest == <<One(1, "id", Varint)>>
JobDisplayReply == <<Maybe(1, "display", Embedded(JobDisplay))>>
JobGetLogRequest == <<One(1, "jobId", Varint), Maybe(2, "offset", Varint)>>
JobGetLogReply == <<One(1, "logs", Chunk), One(2, "offset", Varint)>>
SourceListRequest == <<One(1, "path", Chunk)>>
SourceListReply ==
    <<Maybe(1, "file", Embedded(SourceFile)), Many(2, "chain", Embedded(SourceFile)),
      Many(17, "children", Embedded(SourceFile))>>
SourceGetSizeRequest == <<One(1, "path", Chunk)>>
SourceGetSizeReply == <<One(1, "size", Varint)>>
DeviceListRequest == <<>>
DeviceListReply == <<Many(1, "devices", Chunk)>>
LibraryExportRequest == <<Many(1, "types", Varint)>>
LibraryExportReply == <<One(1, "json", Chunk)>>
LibraryTrimRequest == <<One(1, "trimPosition", Varint), One(2, "trimFile", Varint)>>
LibraryTrimReply == <<>>
-----------------------------------------------------------------------------
(* A message is a record with one value for each slot of its type and the   *)
(* entries it has read but does not know (UnknownFieldHandler).  A slot     *)
(* that may be empty is a sequence: what Maybe holds, or <<name, message>>  *)
(* of a oneof.                                                              *)
Slots(T) == {T[i].slot : i \in DOMAIN T}
Zero(kind) == IF kind.wire = "varint" THEN 0 ELSE ""

create(T) ==
    [s \in Slots(T) \cup {"unknown"} |->
        IF \E i \in DOMAIN T : T[i].slot = s /\ T[i].form = "one"
        THEN Zero((CHOOSE f \in ToSet(T) : f.slot = s).kind)
        ELSE <<>>]

Entry(no, wire, body) == [no |-> no, wire |-> wire, body |-> body]

RECURSIVE internalBinaryWrite(_, _)

(* What one field adds to the bytes; an embedded message that is present is *)
(* written even when it is empty, as is an optional scalar that is 0.       *)
Written(f, m) ==
    LET v == m[f.slot]
        Put(x) == Entry(f.no, f.kind.wire,
                        IF f.kind.wire = "message" THEN internalBinaryWrite(f.kind.type, x) ELSE x)
    IN  CASE f.form = "one"  -> IF v = Zero(f.kind) THEN <<>> ELSE <<Put(v)>>
          [] f.form = "case" -> IF v # <<>> /\ v[1] = f.name THEN <<Put(v[2])>> ELSE <<>>
          [] f.form = "many" /\ f.kind.wire = "varint" -> IF v = <<>> THEN <<>> ELSE <<Entry(f.no, "packed", v)>>
          [] OTHER -> [i \in DOMAIN v |-> Put(v[i])]

(* A mutant of internalBinaryWrite, never used by the model: it drops the    *)
(* fields it does not know.                                                 *)
MutWrite(T, m) == FlattenSeq([i \in DOMAIN T |-> Written(T[i], m)])

internalBinaryWrite(T, m) ==
    FlattenSeq([i \in DOMAIN T |-> Written(T[i], m)]) \o m.unknown

RECURSIVE internalBinaryRead(_, _, _)

(* The message after one entry: an embedded message is read into the one    *)
(* that is there, a case of a oneof into what is there of the same case.    *)
Taken(T, m, e) ==
    IF \A i \in DOMAIN T : T[i].no # e.no
    THEN [m EXCEPT !.unknown = Append(@, e)]
    ELSE LET f == CHOOSE g \in ToSet(T) : g.no = e.no
             v == m[f.slot]
             Into(there) == IF f.kind.wire # "message" THEN e.body
                            ELSE internalBinaryRead(f.kind.type, e.body,
                                     IF there = <<>> THEN create(f.kind.type) ELSE there[1])
         IN  [m EXCEPT ![f.slot] =
                 CASE f.form = "one"   -> Into(<<>>)
                   [] f.form = "maybe" -> <<Into(v)>>
                   [] f.form = "case"  -> <<f.name, Into(IF v # <<>> /\ v[1] = f.name THEN <<v[2]>> ELSE <<>>)>>
                   [] f.form = "many"  -> IF e.wire = "packed" THEN v \o e.body ELSE Append(v, Into(<<>>))]

internalBinaryRead(T, bytes, target) ==
    FoldLeft(LAMBDA m, e : Taken(T, m, e), target, bytes)
-----------------------------------------------------------------------------
(* The calls, in the order of the table by which the client finds them. *)
Method(name, I, O) == [name |-> name, I |-> I, O |-> O]

Service == <<
    Method("FileGet", FileGetRequest, FileGetReply),
    Method("FileEdit", FileEditRequest, FileEditReply),
    Method("FileMkdir", FileMkdirRequest, FileMkdirReply),
    Method("FileDelete", FileDeleteRequest, FileDeleteReply),
    Method("FileListParents", FileListParentsRequest, FileListParentsReply),
    Method("TapeList", TapeListRequest, TapeListReply),
    Method("TapeDelete", TapeDeleteRequest, TapeDeleteReply),
    Method("TapeGetPositions", TapeGetPositionsRequest, TapeGetPositionsReply),
    Method("JobList", JobListRequest, JobListReply),
    Method("JobCreate", JobCreateRequest, JobCreateReply),
    Method("JobEditState", JobEditStateRequest, JobEditStateReply),
    Method("JobDelete", JobDeleteRequest, JobDeleteReply),
    Method("JobDispatch", JobDispatchRequest, JobDispatchReply),
    Method("JobDisplay", JobDisplayRequest, JobDisplayReply),
    Method("JobGetLog", JobGetLogRequest, JobGetLogReply),
    Method("SourceList", SourceListRequest, SourceListReply),
    Method("SourceGetSize", SourceGetSizeRequest, SourceGetSizeReply),
    Method("DeviceList", DeviceListRequest, DeviceListReply),
    Method("LibraryExport", LibraryExportRequest, LibraryExportReply),
    Method("LibraryTrim", LibraryTrimRequest, LibraryTrimReply)>>

(* The client: each of its methods takes one entry of that table. *)
ServiceClient == [
    fileGet |-> Service[1], fileEdit |-> Service[2], fileMkdir |-> Service[3],
    fileDelete |-> Service[4], fileListParents |-> Service[5], tapeList |-> Service[6],
    tapeDelete |-> Service[7], tapeGetPositions |-> Service[8], jobList |-> Service[9],
    jobCreate |-> Service[10], jobEditState |-> Service[11], jobDelete |-> Service[12],
    jobDispatch |-> Service[13], jobDisplay |-> Service[14], jobGetLog |-> Service[15],
    sourceList |-> Service[16], sourceGetSize |-> Service[17], deviceList |-> Service[18],
    libraryExport |-> Service[19], libraryTrim |-> Service[20]]
=============================================================================
