# Verification of YATM

YATM (Yet Another Tape Manager) archives files to LTO tapes and restores them.
A Go server keeps a database of jobs and a library of files, positions and
tapes, serves an API to a web page, and runs one goroutine per tape that is
written or read. This directory holds TLA+ models of that server, the TLC
configurations that check them, and TLAPS proofs.

Paths below are relative to `src/`.

## The system

| part | state it keeps | operations | talks to |
|---|---|---|---|
| job table, executors, job API (`executor/executor.go`, `executor/job.go`, `tools/cache.go`, `apis/job_*.go`) | rows of the jobs table; executors, each with its own copy of one row; a cache of executors | create, list, get, display, dispatch, edit state, delete | clients of the API; archive and restore executors |
| archive jobs (`executor/job_archive_*.go`, `executor/device.go`) | step and source statuses of a row; the set of free drives; per goroutine the report of the copier | dispatch (Copying, WaitForTape, Finished), makeTape and its four deferred calls | scripts (mkfs, mount, umount, encrypt), copier (`acp`), library |
| restore jobs (`executor/job_restore_*.go`) | step, tapes and files of a row | dispatch, restoreTape, the plan of tapes | scripts, copier, library |
| job events (`executor/job_events.go`, `/events` in `cmd/httpd/main.go`) | subscribers and their channels | Subscribe, Publish, unsubscribe | SaveJob; SSE handlers |
| library files (`library/file.go`, `apis/file_*.go`) | the table of files, a tree by their parents | FileEdit (move, rename), FileMkdir, FileDelete | the pages of files; trimming |
| library trim, tapes, positions (`library/library.go`, `tape.go`, `position.go`) | tapes; positions, each with the file it belongs to | CreateTape, TrimFiles, DeleteTapes, LibraryTrim | archive jobs; the pages of tapes; the table of files |
| collections, import and export (`library/collection*.go`, `library.go`) | collections of tapes | rows in and out | commands; the pages of collections and, for import, of jobs |
| shutdown (`tools/working.go`, `tools/context.go`, end of `main`) | wait group, shutdown context | Working, Done, Wait | job goroutines |
| sources (`entity/source.go`) | none | Compare, path conversion | archive jobs |
| progress, keys, logs (`executor/progress.go`, `key.go`, `log.go`) | a window of speeds; files | | executors |
| drive tools (`sgtape`, `tapechanger`, `cmd/lto-info`, `scripts`) | the hardware | | makeTape, restoreTape |
| messages (`frontend/src/entity`) | none | create, internalBinaryWrite, internalBinaryRead, one method for each call | pages and the API |
| pages (`frontend/src/pages`, `components`) | what they last fetched, and what they are waiting for | open, edit, refresh, poll, roll back, drop, create a job | the API, `/events` |

How they interact. A request of a page names a job; the server looks up the
executor of that job in the cache, or loads the row and makes one. The
executor checks and changes *its copy* of the row under *its* lock and saves
the whole of it. A dispatch of Copying starts a goroutine, `makeTape`, which
takes the drive, formats and mounts the tape, lets the copier run (whose events
are saved one by one as statuses of sources), and then, in deferred calls that
run in the reverse of the order they are written in: registers the tape in the
library and marks what was copied as SUBMITED (or takes everything back when
the tape dropped to readonly), unmounts, counts what is left and dispatches
WaitForTape or Finished, and gives the drive back. If `makeTape` returned an
error the goroutine then marks the row FAILED.

What is hard about it:

* *Interleaving.* Requests run concurrently with each other and with the
  goroutines. The only exclusion is the step of an executor's copy; executors
  leave the cache (`Close`) while requests or goroutines still use them, so a
  job may have two executors, two copies, two locks.
* *Partial failure.* Every save can fail, and almost every result of a save is
  ignored or comes after memory was changed.
* *Deferred calls.* An error path runs the same deferred steps as success, in
  an order that decides which of library, row and tape can disagree.
* *Crash.* Nothing at start-up repairs a row left PROCESSING; the index of a
  tape is only on it after umount.
* *Stale pages.* The rollback dialog sends back the whole state of the page;
  answers arrive in any order and are put together with the state of the render
  the request was made in, which may be long gone; a card refreshes the page,
  after its own request, with the state of the render its button was pressed in.
* *Requests that are no transaction.* A file request reads rows, decides and
  writes in steps between which others run; only `moveFile` is a transaction.

PROJECT.json lists the hazards line by line with the property that would catch
each one.

### What makes each part correct

* Job table and executors: a job is worked on by one goroutine at a time; a job
  does not stay PROCESSING; statuses never go back from what was achieved without a rollback.
* Archive jobs: a drive is used by one goroutine and always comes back; what a
  job calls submitted is in the library; what the library lists is on the tape;
  a job completes only when every source is submitted.
* Restore jobs: a file is called restored only when its hash and size matched;
  a job completes only when every tape is done; the plan reads each file from
  exactly one tape and asks for no tape without need.
* Events: a subscriber that keeps up is told of every change of status.
* Library: organising files loses none of them from the table or, but for the
  cases the code lets happen, from the tree; trimming removes only what has no
  position, never the position of a tape that is there, and ends.
* Messages: what is read is what was meant, also between a page and a newer
  server.
* Pages: what a page shows is, or comes to be, what the server has; nothing a
  late answer brings undoes that.
* Shutdown: the process does not exit while a goroutine still writes to a tape.

## Modules

| module | what it is |
|---|---|
| `JobStore` | the jobs table, the executors, the cache and the requests of clients |
| `JobSteps` | extends `JobStore` by the steps of a dispatch and the set of free drives, which archive and restore jobs share |
| `JobContract` | the abstract specification: what a job promises to someone who sees its row only |
| `ArchiveJob` | extends `JobSteps` by the dispatch, the `makeTape` goroutines, tapes, library and crashes |
| `RestoreJob` | extends `JobSteps` by the dispatch, the `restoreTape` goroutines, the files at their targets and crashes |
| `RestorePlan` | the greedy choice of tapes of a restore job, one step per round of the loop |
| `JobEventBus` | the bus of job changes, its read-write lock and the handlers of `/events` |
| `JobEvents` | extends `JobEventBus` by `SaveJob`, its only publisher |
| `Shutdown` | signal, wait group, listener and end of the process against dispatches |
| `FileTree` | operators on the table of files: merge, mkdir, the way up, what lies below |
| `FileLibrary` | extends `FileTree` by the handlers of FileEdit, FileMkdir and FileDelete |
| `LibraryTrim` | extends `FileLibrary` by tapes, positions, TrimFiles and LibraryTrim |
| `Wire` | every message and method of the generated code, and how it is written and read |
| `Calls` | extends `Wire` by the calls of a page, one after another, and the rollback dialog |
| `FilePage`, `JobsPage`, `TapesPage`, `Waitlist`, `LogConsole` | the pages of files, jobs and tapes, the list of the backup and restore pages, the log dialog |
| `App` | composes `Calls` and the pages: a behaviour is that of the part its route names |
| `MCArchiveJob`, `MCRestoreJob`, `MCJobEventBus`, `MCFileLibrary`, `MCApp` | instances for TLC: values of constants, symmetry |
| `JobStoreProofs` | lemmas that archive and restore jobs share: what a request and a dispatch can and cannot change |
| `ArchiveJobProofs` | type correctness, exclusion of drives, executor and job as locks, soundness of completion, what is submitted stays so, the contract; job table against library, library against tapes |
| `RestoreJobProofs` | type correctness, exclusion of drives, whole tapes, what is restored is verified and stays so, soundness of completion, the contract |
| `RestorePlanProofs` | the plan is sound, complete, greedy and near the fewest tapes |
| `JobEventBusProofs` | no send on a closed channel, nothing missed, nothing told twice |
| `ShutdownProofs` | the wait of the server |
| `FileLibraryProofs` | plain files stay in the table and in the tree, names stay unique, positions stay while their tape does |
| `PageProofs` | the log is shown in order, the path leads to the listing, no change of a job is lost, one interval polls, the waiting list is the user's |

Operators whose names begin with `Mut` are used by no model: each is a variant
of the definition next to it as a plausible bug would have it, and PROJECT.json
says which property notices it.

### JobStore

`job` is the table. A row is a status, a step and one copy status for each
entry (`Items`) of the job's state; what else a row holds (priority, times,
paths) no decision depends on. `ABSENT` is a job id without a row, step `NONE` a row whose
state column is still null. `owner` and `mem` are the executor objects of the
server's memory: which job they were made for and their own copy of its row.
`cache` is `CacheOnce`; `Broken` is the entry a failed getter leaves
(`tools/cache.go:66-83`: the entry is stored whatever the getter returned, so
only the first caller sees the error). `client` is a request in flight, with
what it has read so far; its `pc` is the point between two calls of the
handler at which another request or a goroutine can run. `faults` counts
failing database calls.

One action per step of a handler: `Create`, `ApplyParam`, `InitWait`,
`InitClose` (JobCreate and Initialize), `ShowPage` and `LeavePage` (the page of
a user, which keeps an old row), `AskDispatch` (JobDispatch up to the
executor), `AskDisplay`/`Display`, `AskDelete`/`SaveDeleted`,
`AskRollback`/`SaveRollback`/`EditGet`/`EditClose` (JobEditState, as the
rollback dialog calls it). `Updates` is `updateJob`: it changes the copy and
saves it, or changes the copy and fails to save.

### ArchiveJob

One action per step of `makeTape`: `Occupy`, `Prepare` (key, encrypt, mkfs,
mount; fails at any of them), `CopyStarts`, `CopyEnds`, `CopySkips` (events of
the copier), `CopyDone`, then the deferred calls `RollbackSources` or
`CreateTape` and `MarkSourcesAsSubmited`, `Umount`, `CountTodo` with
`FinishWait` or `FinishComplete` (`makeTapeFinished`), `Release`, and
`MarkFailed` of the goroutine around it. `Crash` ends the server and starts it
again: table, library and written indexes stay.

Abstractions: an item is one source file, and the report's paths are matched
exactly to the sources (that matching, `markSourcesAsSubmited`, is planned as a
model of its own). `TrimFiles`, called after CreateTape, is taken to return.
The scripts end. A failing umount is taken to be repeated by hand, as the log
message is all the code gives. A cartridge that is in a drive is not inserted
into another.

`data` is what the written index of a tape lists; it is written at unmount
because `scripts/mount` mounts with `sync_type=unmount`.

### JobContract

A job waits, works, fails and works again; items get done and stay done; it
completes only with every item done. The contract allows a late failure of an
earlier attempt to overwrite the phase of the next one, because the code does
so: the step is free as soon as `makeTapeFinished` has dispatched WaitForTape,
and `job_archive_exe.go:72` writes FAILED after that. `ArchiveJob` refines it
by the mapping `Contract` (phase from the status, done from the SUBMITED
sources), `RestoreJob` by its own (done from the SUBMITED files).

### RestoreJob

The state of a restore job is a list of tapes with a list of files each; an
entry of the row (`Items`) is a tape or a file, and `Lists` says which files a
tape lists. That every file is listed by exactly one tape and no tape is
without files (`RestoreAssumption`) is what `RestorePlan` is proved to produce.
One action per step of `restoreTape`: `Occupy`, `ReadInfo` (reading the
barcode, finding the tape in the job, key, mount; fails at any of them, and
always for a tape of another job or one that is restored already), `Start`
(the tape is marked RUNNING), `CopyStarts`, `CopyEnds`, `CopySkips`,
`CopyDone`, and the deferred calls `Report` (`Settled`: staged files are
submitted, the tape with them if none is missing), `CountTodo` with `FinishWait`
or `FinishComplete`, `Release`, and `MarkFailed` of the goroutine. `target`
holds the files that lie at their target with the hash and size the library
has: writing one again takes it out until the copy has been verified
(`Verdict`). The unmount between `Report` and `CountTodo` changes no state.

### RestorePlan

`applyParam` after the positions have been read: `mapping` is `tapeMapping`
without the tapes the library does not know, `plan` the tapes of the state.
`Pick` is one round of the loop: the tape with most files (of two, that with
the smaller id, as the loop over sorted ids has it) is appended, unless it
gives nothing, and its files are taken from the others. Every library is an
initial state: any files on any tapes, any tapes deleted. `getRestoreFiles`,
the walk over directories that finds the files, is not modelled.

### JobEventBus and JobEvents

`subscribers`, `channel` and `closed` are the map of the bus and its channels;
`waiting` and `sending` are the two sides of its `sync.RWMutex`: handlers that
wait for the write lock to subscribe or leave, and publishers in the middle of
their loop under the read lock. `Offer` is one round of that loop, a
`select` with a default. `due`, `got` and `slow` record what was
published while a page was subscribed, what it has shown, and whether it was ever too slow.
`JobEvents` adds `SaveJob` as the code has it.

### Shutdown

`Accept`, `Count` and `Go` are the dispatch of a tape up to the go statement
(`tools.Working` is called before it), `Return` is `tools.Done`; `Signal`,
`StartWaiting`, `Wait`, `CloseListener` and `Exit` are the end of `main`. `early`
records the workers started before the wait was over. A worker that starts
after it is not waited for: the listener is open until `srv.Shutdown`, and
`main` ends as soon as `ListenAndServe` returns. `EarlyWorkEnds` states what
the code does guarantee, of the workers started before.

### FileTree, FileLibrary

`files` is the table: id to parent, name, directory or not, and the signature
of a plain file. Names are numbers, and a name is unique below a parent
(`idx_parent_name`, `library/file.go:34,36`). `FileTree` has what one
transaction makes of a table: `moveFile` (a directory that meets one of its name
is merged child by child and deleted; the one it meets may be one it lies in, or
itself), `mkdir`, `ListParents` (32 steps up), `Generations` (the empty
directories of the trash). The recursion of `moveFile` is a stack of calls, run
step by step (`MoveStep`): a call looks for the name its row gets, or moves the
children it has listed. The number of steps is bounded by a square of the size
of the table (`MaxSteps`), more than any merge needs; what goes on longer is a
cycle of parents, on which the code runs until its stack is full. `request` is the handler of each client, with the rows it has read;
one action per query of the database: `EditGet`, `EditName`, `EditPath`,
`EditInto`, `EditMove`; `MkdirGet`, `Mkdir`; `DeleteGet`, `DeleteLook`,
`DeletePurge`, `DeleteTrash`, `DeletePut`. A row that is saved after it has
been deleted comes back, as `Save` of the database layer has it. `Tick` is the
second in which a trash directory gets its name.

A panic of a handler is an error (the server recovers it). The directory of
the trash itself is not moved or renamed, a page offers directories as
targets, and queries do not fail. A name with a slash in a rename leads to
`EditPath`: the file keeps its old name in the new directory
(`apis/file_edit.go:34-46` drops the `filename` it has split off).

A file is `Reachable` when the way up from it comes to the root. What the code
lets leave the tree without deleting it is named case by case (`ToNowhere`,
`BelowItself`, `WithAncestor`, `PurgesTooMuch`, and `TrimsParent`: a trim of a
plain file that a request has made the parent of another, as
`apis/file_edit.go` takes any id).

### LibraryTrim

Adds `tapes` and `positions`; a position has the tape, a path, a signature and
the file it belongs to, 0 until TrimFiles finds or makes one. `TrimRead`,
`TrimMatch`, `TrimLink`, `TrimTapes`, `TrimMkdir`, `TrimCreate`, `TrimAgain`
are one round of the loop of TrimFiles, query by query; `TrimScan`, `TrimDrop`,
`TrimScanFiles`, `TrimDropFiles` are LibraryTrim. A tape holds one file, the
directory `Unforged/<barcode>` is one directory, and all positions fit into a
batch; so two positions of one file on one tape, whose deletion
`library.go:181-202` decides, do not arise.

`ArchiveJob` has CreateTape as one step of `makeTape` and takes the TrimFiles
that follows it to return: `TrimEnds` says when that is right. It is not when
a tape has been deleted before its positions were linked; then the round
repeats for ever (`file.go:498-503`), and the goroutine that called it keeps
its drive.

### Wire, Calls

A message type is a sequence of fields, each in one of the four forms in which
the generated code treats it: `One` (a default that is not written), `Maybe`
(optional or embedded), `Many` (repeated, numbers packed), `Case` (of a
oneof). A value is a record with one entry per slot and the unknown fields it
has read. `internalBinaryWrite` and `internalBinaryRead` are the generated
functions of the same names, once for all types instead of once for each; what
a varint or a UTF-8 string is made of is left out. `Service` and
`ServiceClient` are the two tables by which a method finds its request and
reply.

`Calls` asks any method with any of the samples (at every depth one field
only, or all but one, with each case of a oneof, with zeros, with or without a
field the page does not know), has it served, answered and received, and lets
the user roll back a job he was shown (`RollBack`), which is the page's only
read-modify-write of a message. The dialog resets the sources of the page's own
list before it sends them, so `listed` has the jobs as they were received (`was`)
and as they have been altered (`now`): when the request is refused (`Refuse`), a
second rollback starts from the altered ones.

### The pages

A page is the state of its hooks and the requests under way; a request carries
what the code's closure carries, the state of the render it was made in. An
action is what runs between two awaits. React 18 renders what is set after an
await in a later task, and before that task another answer may be handled with
the state of the old render. `JobsPage` and `Waitlist`, where an answer is put
together with the state of the page, keep the state as it was set apart from the
state as it is rendered (`queued` and `render`, `setting` and `waiting`); in the
others an answer that is put together with state carries its own, and what it
sets is rendered at once. What an event of the user sets (a drop, a key, a
click) is taken to be rendered before anything else runs, as React does with
such events.

* `FilePage`: `listing`, `folderChain` and `storedID` of two browsers, `opens`
  the calls of `openFolder`, each with its two answers, `edits` the requests of
  an edit that are yet to be sent, one after another. Someone else moves files.
* `JobsPage`: `table` is the job table as `ListJob` and
  `ListRecentlyUpdateJob` see it; `queued` and `render` are the state of the
  page (its jobs, and the latest time it asks from) as set and as rendered;
  `stream`, `fallback`, `timers` the event source, the 3 s timer and the
  intervals. A refresh carries the state it began from (`from`): for the stream
  and the intervals that of the last render (`Refresh`), for a card that of the
  render its button was pressed in (`Press`), however long its request takes
  (`CardAsks`). It sets the time when the list is here (`ReceiveJobs`) and the
  jobs only after their displays (`ReceiveDisplays`), so a render between the two
  has a time and jobs that do not belong together. `inOrder` and `first` are
  history. The limit of 20 rows is `Limit`. Update times are distinct.
* `LogConsole`: each change of the state leaves an effect and starts another;
  an interval that is set after its effect was left (`strays`) is never
  cleared. `written` is the length of the log file; a log is the sequence of
  its bytes.
* `TapesPage`: `tapeCalls` carry the path of the click.
* `Waitlist`: `waiting` the list as it is rendered, `setting` the list that was
  set last, `loops` for each drop the directories it has yet to ask for. An
  answer (`SizeArrives`) makes a list of the rendered one, and `ShowSizes`
  renders it. So of two answers before one render the second loses the first,
  and the directory stays without a size, nobody asking for it again: the code
  does that, and the model too. `wanted` is history: what the user dropped and
  did not remove.

`App` is the routes of `app.tsx`: pages share nothing but the client.

## Runs

Bounds are sets of model values: executors and workers are never reused or
reused only after they ended, so their number bounds the attempts.

| run | question | bounds |
|---|---|---|
| `archive_faults` | do drives add up, and is what anybody calls submitted in the library, through every request the pages send to a job, restarts, known tapes, dispatches sent by hand and a failing call anywhere (a poisoned cache entry included)? | 1 job of 1 source, 2 executors, 1 client, 2 workers, 1 drive, 1 tape that may be reused, 1 fault, 2 crashes |
| `archive_live` | with calls that do not fail, is a job made by one goroutine at a time, does the library list what is on the tapes, does the row keep the contract, every attempt end and every drive come back? | 1 job of 1 source, 2 executors, 2 clients, 2 workers, 1 drive, 2 tapes |
| `archive_stuck` | *violation:* a failing save in `makeTapeFinished` leaves the row PROCESSING | 1 source, 1 executor, 1 worker, 1 fault |
| `restore_crash` | is only what was verified called restored, a tape done only with all its files, and what was restored never taken back, through a restart, a failing call and dispatches sent by hand? | 1 tape of 2 files, 2 executors, 1 client, 2 workers, 2 drives, 1 fault, 1 crash |
| `restore_live` | is a job complete only when it is whole, does the row keep the contract and every attempt end? | 2 tapes of one file, 1 executor, 1 client, 2 workers, 2 drives |
| `restore_plan` | is the plan sound, complete, greedy and near the fewest tapes? | 4 files on 3 tapes in every way, any tapes deleted |
| `events_bus` | is no event sent on a closed channel, missed by a page that had room or shown twice, and does nobody wait for ever? | 2 pages, 2 publishers, 3 events, channels of 2 |
| `events_silent` | *violation:* no page is told of a change of status | 1 page, 2 changes |
| `shutdown_waits` | does the server end after a signal, and not before the work it waited for? | 2 handlers, 3 workers |
| `library` | are plain files and positions kept, does nothing but what the code lets happen take a file out of the tree, and does TrimFiles end, when file requests, reports, deletions of tapes and trims run side by side? | 2 users, 3 requests of 8 kinds, a tree with trash and one with a name met again below, 2 tapes of one barcode |
| `library_merge` | *violation:* a move to where an ancestor has the name takes files out of the tree | 1 user, 3 requests, 2 names |
| `pages` | do messages keep their meaning, a rollback what the page does not know, and lists, paths, logs and sizes what the server has, in whatever order answers come? | every method with samples of every field number in use and every case; 2 requests of a page at once, 2 jobs with replies of 1, a log of 2 bytes, 4 places, 3 sources dropped in 2 drops, 1 act of the user and 1 of another on the files; 2 changes of jobs, to pending or deleted, made in a browser without event streams (`ChangesWhenPolled`) |

Why they are enough: every property relates at most two workers, two executors
or two items, and each run has as many as its question needs; one fault
reaches every failing call, and `archive_faults` has one fault and two restarts
so that a second attempt after a restart can itself be cut off. One job is
enough because rows of different jobs meet only at the drives and the cached
entry of each job is its own; the drives are covered by two workers of one job
and, for any number of jobs, by the proof. A job of more than one
source is in the theorems. What two executors of one job do
with two workers at once is too large for these runs beside the requests that
bring it about, and is covered by the theorems. Four files on three tapes are
the least with which the greedy plan may ask for a tape more than needed. A channel of two
runs full with the third event; the code's capacity of 64 changes when, not what. In `library` three requests are
enough for two to meet a third that trims, or for a tape to be registered,
deleted and trimmed while another is registered; its trees are those on which a
merge, a purge of the trash and a cycle can happen. On a page two requests under
way are the least that can be answered out of order, and a reply of one row with
two jobs is the least that has to leave a change for the next request. Jobs change where
only the interval and the cards refresh: a stream makes the page ask at other
times, not otherwise, and the theorem has changes at any time. Symmetry
is declared in the runs without liveness. Deadlock is not checked: users stop
when the instance's executors or tapes are used up, pages have gone, the loop
and the server end.

`RestoredIsVerified` holds with one failing save and one restart, as
`restore_crash` has them, and with any number of either one (proved, see
below); with two of each it does not. A first attempt leaves a verified file STAGED in the row and is cut off; a
second opens the file at its target again, the saves of PENDING and RUNNING
fail, and it is cut off too; a third whose copier fails to start submits the
STAGED of the first in its report (`job_restore_tape.go:239`), while the file at
the target is incomplete. The code neither verifies a STAGED file again nor
clears it at a restart.

`SubmittedInLibrary` is about the requests to a job: create, dispatch, display,
roll back, delete. Two requests to the library are left out of that run because
they break the property by what they are for: DeleteTapes takes tapes with their
positions out of the library, and Import replaces it; neither tells the jobs.
(`library` has DeleteTapes, beside everything that works on positions.)

`JobsUpToDate` says in which ways alone the page of jobs loses a change, for it
does lose some. A refresh puts its rows into the jobs it began from. If
something else was set since the render those are of, it undoes that, while the
time the page asks from has moved on, so the change is not shown until the job
changes again or the page is opened again. That happens when two refreshes meet,
and also to a card's refresh that runs alone: while the button's own request was
under way, another refresh has ended. It happens too when `jobDisplay` fails
after the latest time was set. `inOrder` is true while no write has been over
anything newer than what its refresh began from, and no such failure happened.
Refreshes may meet, begin from old renders and fail as long as that holds.
Without `inOrder` the invariant is false.

`ListIsTheUsers` is what stale answers must not do to the waiting list: whatever
list they are set on, the sources on it are those the user dropped and did not
remove, in that order, each once; so is what a job is created with. It says
nothing of files below: a directory may be dropped beside one of its own
children, and the server then refuses the job
(`executor/job_archive_init.go:51-55`).

Fairness. `ArchiveJob` and `RestoreJob`: weak fairness for every worker only. A
goroutine is scheduled, the scripts it waits for and the copier end. Users owe
nothing. `JobEventBus`: weak fairness for handlers that wait for the lock and
for publishers in their loop; a page owes nothing, it need not read. The bound
on events makes publishers run out, so that the preference `sync.RWMutex` gives
writers is modelled but not what makes `PagesComeAndGo` hold. `Shutdown`: weak
fairness for handlers, workers and the goroutines of `main`; nobody need send a
signal or a request. `LibraryTrim`: weak fairness for each handler that has
begun; no query waits for another request. `FilePage` and `JobsPage`: the
browser's timers fire, and a request is answered or fails; the interval of
`JobsPage` fires (strong fairness) even if the two calls of the instance are
taken by others again and again, for a browser has no such bound. The user owes
nothing, and `ListingsFresh` is about the time after the last edit
(the bounds on acts and on the moves of others make it come).

What the violations mean. `makeTapeFinished` (`job_archive_tape.go:306-312`)
ignores what `dispatch` returns. When the save in it fails, the copy in memory
has moved on, the row has not, `makeTape` has no error to report and so
`job_archive_exe.go:71` ("Transition to FAILED so the job doesn't stay
PROCESSING forever") is not reached. `SaveJob` (`executor/job.go:53-57`) takes
the old status from the job its caller has already changed and compares it with
the same field: it never publishes, and a page of `/events` gets the
first comment (`: connected`) and nothing more.

`moveFile` (`library/file.go:137-175`) merges a directory into one of its name
without asking whether that one is an ancestor: with a file in `a/a/a`, moving
the inner `a/a` to the root merges it into the outer `a`, moves the innermost
`a` into the outer one, where it meets the row being merged, and deletes both;
the file keeps a parent that is gone, and no page can open it.

Met while modelling, without a run of its own: TrimFiles never ends once a tape
was deleted before its positions were linked (`TrimEnds` excepts it), and ends
with an error for every tape whose barcode and path a deleted tape had
(`file.go:515`). `FileEdit` does not look at the parent it is given. The page of
jobs closes a stream that works after 3 s (`jobs.tsx:137-145`; the comment
says it is for one that does not connect). The log dialog leaves intervals
behind. `JobEditState` checks the status
at line 19 and saves at line 32, and a dispatch in between is accepted and then
has its row replaced under the goroutine (`SubmittedInLibrary` and
`CompletedIsArchived` survive it, `SubmittedStays` is stated without rollbacks);
and WaitForTape sent by hand in the middle of a tape unlocks the step, after
which `SubmittedStays`, `CompletedIsArchived` and `CompletedIsRestored` are
false (no page sends it).

## Proofs

All theorems hold for every value of the constants that satisfies the named
assumptions of the modules (`JobStoreAssumption`, `ArchiveAssumption`,
`RestoreAssumption`, `PlanAssumption`, `BusAssumption`, `LibraryAssumption`,
`TrimAssumption`, `WaitlistAssumption`, ...); further assumptions are named
below.

Two assumptions about what clients send come back. `PagesOnly`: they send the
dispatches the pages send, not WaitForTape and Finished by hand. (With those the
properties are false: a WaitForTape in the middle of a tape unlocks the step.)
`NobodyEdits`: they look at jobs and dispatch them, but create, delete and roll
back none; the jobs are there from the start. (A rollback takes back what was
done, by design; a deletion leaves an executor that saves the row anew.)

### Archive jobs

* `TypeCorrect` (`[]TypeOK`) and `DrivesAreExclusive` (`[]DevicesAccounted`).
  The invariant `Typed` is `TypeOK` and what makes it inductive: which fields
  of a request or of a task are set at which point, and that an executor in use
  was made for a job.
* `ExecutorIsALock` (`[]OneWorkerPerExecutor`) and `CompletionIsSound`
  (`CompletedIsArchived`), assuming `PagesOnly`. The invariant `Locked` ties a
  worker between its dispatch and its `makeTapeFinished` to step COPYING in its
  executor's copy; `Fresh` says that an executor under creation has not been
  handed to anybody.
* `JobIsALock` (`[]OneWorkerPerJob`), `NothingIsUnsubmitted` (`SubmittedStays`),
  assuming `PagesOnly` and `NobodyEdits`. What makes a job's executors one is
  the cache alone, and the cache forgets a job whose executor closes. The
  invariant `Attempts` says why that does no harm: an executor outside the
  cache has finished (`Cached`), a finished copy has every source submitted
  (`Full`), and no copy calls less submitted than its row does (`RowsBehind`).
  So a second executor is made only of a row that is complete, and none that
  saves takes anything back.
* `AttemptsKeepTheContract` (`KeepsContract`), assuming also `MaxFaults = 0`:
  the row implements `JobContract`, step by step. `InSync` (the row is the
  copy of the executor that still works on it) and `Sane` (a status
  goes with its step) let each change of a row (`RowMoves`) be named as a step
  of the contract. With a failing save the refinement is false: the next save
  writes two changes at once.
* `SubmittedIsInLibrary` (`[]SubmittedInLibrary`), without assumptions.
  `SubmittedInLibrary` follows a row wherever it is copied: table, executors,
  what a handler has read, what a page shows and may send back. `Registered` adds
  that a worker about to mark sources has them in the library.
* `LibraryMatchesTapes` (`[]LibraryIsOnTape`), assuming `FreshTapes` (a user
  never inserts a tape the library knows) and `NoCrash`. Both are needed: mkfs
  formats a known tape, and a crash between CreateTape and Umount loses the
  index. `TapeInv` says which worker has which tape in hand and that nobody
  else's registered tape is in a drive.

### Restore jobs

* `TypeCorrect` (`[]TypeOK`) and `DrivesAreExclusive` (`[]DevicesAccounted`),
  without assumptions on clients. The invariant `Tapes`, on which the rest is
  built: no two workers have one tape, and from the mount to the report neither
  the tape nor a file still to be copied is restored in the executor's copy
  (`Wants`), so that an executor unlocked by hand may have two workers and they
  still do not touch each other's entries.
* `RestoredTapesAreWhole` (`[]RestoredTapeIsWhole`), assuming no rollback (one
  makes files pending from some index on and leaves the tape SUBMITED). The
  property follows a row wherever it is copied (`AllWhole`).
* `NothingIsUnrestored` (`RestoredStays`), assuming `NobodyEdits` only: the
  dispatches sent by hand are allowed. The executors of a job that may still
  save its row are one (`OneWriter`: not finished, or with a worker left), and
  its copy is not behind the row (`Behind`).
* `RestoredFilesAreVerified` (`[]RestoredIsVerified`), assuming `NobodyEdits`
  and `MaxFaults <= 1 \/ MaxCrashes <= 1`, which is as far as it is true (see
  above). The two cases are two invariants. With one failing save no row
  keeps a STAGED of a file that is not at its target: opening a file is
  announced and then done, each is saved, and only one of them is missed
  (`OneFault`). With one restart only rows of the first life are loaded with
  something staged, and there every staged file had its worker, which had not
  opened it again (`OneCrash`).
* `CompletionIsSound` (`CompletedIsRestored`), assuming `PagesOnly` and no
  rollback, from `Locked` as for archive jobs and `RestoredTapesAreWhole`.
* `AttemptsKeepTheContract` (`KeepsContract`), assuming what its namesake
  assumes, and along the same lemmas of `JobStoreProofs`.

### Events, shutdown and the plan of tapes

* `RestorePlanIsSound`, `RestorePlanIsComplete`, `RestorePlanIsGreedy`. The
  invariant `PlanInv` is the three properties with what the loop keeps true of
  what it has not looked at: what is still in the mapping lies on its tape and
  is planned nowhere (`Pending`), planned and pending together are all that is
  wanted, and no pending tape gives more than the last planned one (`Shrinking`).
* `GreedyIsNearlyMinimal`, and from it `RestorePlanIsNearlyMinimal`
  (`[]PlanIsNearlyMinimal`, assuming four files or fewer as the invariant's
  factor 25/12 does): with m files wanted the plan has at most
  1 + 1/2 + ... + 1/m times as many tapes as any set of tapes that holds all of
  them. The proof pays for each planned tape: it costs 1, spread evenly over the
  files taken from it, and these are charged to the tapes of the other set that
  hold them. When k files of such a tape are still pending the greedy choice
  takes at least k, so a file of it costs at most 1/k (`WeightsPay`), and the
  tape pays no more than the harmonic sum. Times the common multiple of 1..m all
  this is in whole numbers. `NearInv` is the sum over what has been planned so
  far; `Sums` and `HarmonicExists` are the lemmas about the sums, which are
  functions on the numbers up to m, so that no induction over lists is needed.
* `NoSendOnClosed` (`[]OpenChannelsOnly`). The invariant `BusInv` ties a closed
  channel to a page that has gone and left the map, and the channels a
  publisher has yet to offer to the map it read under the read lock.
* `KeepingUpMissesNothing` (`[]NothingMissed`) and `NothingIsToldTwice`
  (`[]NothingTwice`). The invariant `Told` gives each event a number and a
  publisher of its own, and says that a page which is yet to be offered an
  event has it neither in its channel nor on its screen.
* `WorkWaitedForEnds` (`[]EarlyWorkEnds`). The invariant `WaitInv`: the counter
  is the number of running workers and of dispatches between `tools.Working`
  and the go statement, so it is not zero while either is there.

### Library

The theorems are about `LibrarySpec`, in which file requests, reports of archive
jobs, deletions of tapes and trims run side by side, a query at a time, on any
library.

* `FilesStayInTable` (`FilesAreKept`): a plain file leaves the table only in a
  trim, and only one the trim found without a position.
* `PositionsStayInTable` (`PositionsAreKept`): a position leaves only when its tape is
  gone.
* `LibraryKeeps` is the invariant they rest on, `LibraryInv` and `TapesStay`. A
  step that deletes decides on rows read some queries ago, so what it read must
  still tell what is there now. The invariant says which part of it does: an id
  stands for a directory or for a plain file for ever, in the table and in every
  row a handler holds (`TreeTyped`, `KindsStay`), since the database gives no
  id twice; an id of a tape that was given is not given again (`TapesStay`), so a
  trim that found a tape gone may trust it.
* Both need that `moveFile`, which replaces rows and deletes directories in a
  merge of any depth, neither loses a plain file nor turns one into a directory.
  `MoveKeeps` shows it by induction over its steps: the states after n steps are
  all of one kind (`MoveStepKeeps`), by the least number for which they are not
  (`LeastNat`, `UpTo`, `Iteration`).
* `NamesStayUnique` (`[]TreeUnique`): a name is that of one row below a parent,
  in the middle of a merge too: `moveFile` puts a row only where the name is free.
* `NothingElseLeavesTheTree` (`NothingElseDetaches`): what a user could come to
  from the root he can still come to, unless the step is one the property
  excuses. It is proved of directories and plain files alike (`StaysReached`),
  and rests on `LibraryInv` and `TreeUnique` alone; the rest is about one call of
  `moveFile` on a table t0, for every depth of merge:
  - *The tree.* `Ancestors` is the least set that has the row and is closed under
    parents (`AncestorsAre`), so what is reached can be proved by induction down
    the tree (`ReachedLeast`); no row that is reached lies in itself (`ReachedOnce`).
    A change of parents keeps what is reached if what it moves, it moves with
    all below it to what is reached and lies outside (`SettledStays`).
  - *Twins.* A merge of a0 into o0 puts together exactly the pairs of rows that
    have the same names all the way down from the two (`Twin`). That neither
    lies in the other unless they are one (`Meets`), which is what the excuses
    `BelowItself` and `WithAncestor` leave, makes the two sides disjoint
    (`MeetsApart`) and a twin the only one (`TwinsOne`).
  - *The stack.* Between the steps of `moveFile`, every row is where it was in t0
    or below the twin of its parent, and no parent of what was reached is missing
    (`MergeTable`); each call of the stack lies below those that it is called
    from and knows all children its directory still has (`Stack`, `Frame`), which
    is why the directory is empty when it is deleted. `MergeGoesOn` shows that
    each step keeps both or fails, and then nothing is written; `MergedStays`
    ends the proof by `SettledStays`. When the directory meets itself all twins
    are the rows themselves, and the merge moves nothing (`ChildMoves`): it
    deletes directories that are empty by then, or fails.
  - *The rest.* A move of what nobody came to changes only such rows
    (`LostMoves`), and new rows, deletions of what nothing lies in, and the
    trash have a lemma each (`NewStays`, `LessStays`, `TrashQuiet`).

### Pages

The theorems on the pages are about `LogSpec`, `TapesSpec`, `JobsSpec` and the
waiting list's `WaitSpec`; a step of `App` is a step of one of its parts while the others rest, so what they
say holds of the application.

* `LogIsShownInOrder` (`[]LogIsPrefix`). The invariant says of each request
  under way that it carries a log and an offset that belong together, and an
  answer one that is not longer than the file: so it does not matter in which
  order they come.
* `PathLeadsToTheListing` (`[]ChainIsAPath`). The invariant says that each
  request carries a path from the root and asks for a place that lies on it or
  right below its end, which a request made from what is listed does only
  because the path shown ends where that was listed.
* `ChangesAreNotLost` (`[]JobsUpToDate`). Any number of refreshes may be under
  way, each from a render of its own. The invariant `JobsInv` says of each
  (`Sound`) that its reply is right for the time it asked from: a row of it is
  the table's row or older than it, a row that is not in it is no later than
  that time or later than all of the reply (`EarliestFirst`: the reply has the
  changes that are longest ago). So the time the page then asks from passes over
  no row, if the results are put on the state the refresh began from
  (`ResultsAreGood`). And it says of the state (`Settled`) that
  either nobody owes rows and the page shows what it should; or one call owes
  them and has them; or some call owes rows and the state it began from is no
  more, so that all it can still do is write over something newer, or fail: then
  `inOrder` ends.
* `OneInterval` (`[]OneTimer`): an interval runs only with the stream closed,
  and the 3 s timer starts one only if nothing else has.
* `AnswersKeepTheList` (`[]ListIsTheUsers`). The invariant `WaitInv` adds the
  types. A size changes the name of no entry (`IdsOfNext`), so the list that was
  set and the list that is rendered have the same names whatever answers
  overwrite each other; and removing entries and taking names can be done in
  either order (`SelectedIds`, by the least position at which it would be
  otherwise).

### Only model-checked

* Everything under fairness (`ProcessingEnds`, `DeviceComesBack`, `PublishEnds`,
  `PagesComeAndGo`, `SignalEndsServer`, `TrimEnds`, `ListingsFresh`,
  `PageKeepsAsking`): liveness and ENABLED are out of the prover's reach.
* `MeaningArrives`, `RollbackKeepsTheRest`: what a message of any type becomes is
  an induction over messages within messages, and `Wire` writes them with
  RECURSIVE operators, which the prover cannot take.

The other way round, `TypeOK` and `DevicesAccounted` of restore jobs are proved and
in no run: the drives are those of `archive_faults`, with the same actions.

## Plan

1. `JobStore`, `JobSteps`, `ArchiveJob`, `JobContract` with the proofs above
   (done).
2. `RestoreJob`, refining `JobContract`, and `RestorePlan` with its proofs
   (done).
3. `JobEventBus`, `JobEvents` and `Shutdown` (done).
4. The library: `FileTree`, `FileLibrary`, `LibraryTrim` (done).
5. The page: `Wire`, `Calls`, the pages and `App`, with proofs of `LogConsole`,
   `TapesPage` and `JobsPage` (done).
6. Proofs of what the runs check of archive and restore jobs, of the
   refinement of `JobContract`, of the bus and of the shutdown (done).
7. Proofs of the library, merges of directories included, of the waiting list
   and of how near the plan is to the fewest tapes (done).
8. Next: `JobIsALock` and `NothingIsUnsubmitted` with jobs that are created
   while others run; `getRestoreFiles` over `FileTree`; import and export; the merge of
   `markSourcesAsSubmited`.

## Not modelled

* `getRestoreFiles` (which files a restore asks for) and the matching of a
  report's paths with the sources of a job (`entity/source.go`): comparison of
  paths character by character. The models take matching as exact.
* Import and export. Import is a handler of the running server
  (`apis/files.go:53-67`) that the page of jobs offers
  (`frontend/src/pages/jobs.tsx:222-233`): it deletes the tables of the library
  and inserts those of a dump, with no transaction around both, so it may fail
  half-way or meet a report or a trim. It replaces the library outright, and
  everything said here of the library is of the time between two imports.
* Collections, on the server and on the page: each operation is one statement
  on rows nothing else depends on.
* Progress, keys and the log file itself, configuration, database set-up,
  browsing of the source disk and uploads: files and arithmetic for display.
* SCSI and LTFS command I/O (`sgtape`, `tapechanger`, `cmd/lto-info`,
  `scripts`): modelled only from how `makeTape` and `restoreTape` call it.
* Rendering, formatting and wording of the page; sizes (`needSize`) and
  details of a file; the Go code generated for the messages, which is taken to
  read and write as the TypeScript code does.
