------------------------------ MODULE Waitlist ------------------------------
(***************************************************************************)
(* The list of what is to be backed up or restored                         *)
(* (useBackupTargetBrowser in frontend/src/pages/backup.tsx,               *)
(* useRestoreTargetBrowser in restore.tsx).  Entries are dropped on it,    *)
(* removed from it, and sent with a new job; the size of a directory is    *)
(* asked for when it is dropped, one directory after another.  All of them *)
(* make a list of that of the last render, so of two that come before the  *)
(* next render the first is lost.                                          *)
(***************************************************************************)
EXTENDS Integers, Sequences, FiniteSets, SequencesExt

CONSTANTS
    Sources,        \* what the left browser offers
    Directories,    \* those of them that come without a size
    Drops,          \* times the user drops something, each with its own loop
    MaxJobs         \* bounds the jobs created

ASSUME WaitlistAssumption == Directories \subseteq Sources /\ MaxJobs \in Nat

VARIABLES
    waiting,        \* the list as it is rendered: <<[id, size]>>
    setting,        \* the list that was set last, which the next render will show
    loops,          \* drop -> the list it was made on, and what it has yet to ask for
    dropped,        \* the drops that have happened
    wanted,         \* history: what the user has dropped and not removed since, in order
    sentJobs        \* what the jobs were created with

waitVars == <<waiting, setting, loops, dropped, wanted, sentJobs>>

Unknown == "unknown"
Known == "known"
NoLoop == [list |-> <<>>, left |-> <<>>]
Dropped(id) == [id |-> id, size |-> IF id \in Directories THEN Unknown ELSE Known]
Ids(list) == {list[i].id : i \in DOMAIN list}

(* The entries of a list that are in a set, in their order (filter). *)
Selected(list, set) ==
    LET kept[n \in 0..Len(list)] ==
            IF n = 0 THEN <<>>
            ELSE IF list[n] \in set THEN Append(kept[n - 1], list[n]) ELSE kept[n - 1]
    IN  kept[Len(list)]

(* The directories a loop asks for. *)
Unsized(ids) == Selected(ids, Directories)

Sized(list, id) == [i \in DOMAIN list |-> IF list[i].id = id THEN [list[i] EXCEPT !.size = Known] ELSE list[i]]
-----------------------------------------------------------------------------
WaitInit ==
    /\ waiting = <<>> /\ setting = <<>>
    /\ loops = [d \in Drops |-> NoLoop]
    /\ dropped = {}
    /\ wanted = <<>>
    /\ sentJobs = {}

(* React renders what an event of the user sets before anything else runs. *)
SetByUser(list) == setting' = list /\ waiting' = list

(* What is on the list already cannot be dragged. *)
AddFiles(d, ids) ==
    /\ d \notin dropped
    /\ ids # <<>> /\ IsInjective(ids)
    /\ \A i \in DOMAIN ids : ids[i] \in Sources \ Ids(waiting)
    /\ dropped' = dropped \cup {d}
    /\ SetByUser(waiting \o [i \in DOMAIN ids |-> Dropped(ids[i])])
    /\ loops' = [loops EXCEPT ![d] = IF Unsized(ids) = <<>> THEN NoLoop
                                     ELSE [list |-> waiting, left |-> Unsized(ids)]]
    /\ wanted' = wanted \o ids
    /\ UNCHANGED sentJobs

RemoveFiles(ids) ==
    /\ ids \cap Ids(waiting) # {}
    /\ SetByUser(Selected(waiting, [id : Sources \ ids, size : {Unknown, Known}]))
    /\ wanted' = Selected(wanted, Sources \ ids)
    /\ UNCHANGED <<loops, dropped, sentJobs>>

Asked(d) ==
    /\ loops[d].left # <<>>
    /\ loops' = [loops EXCEPT ![d] = IF Len(@.left) = 1 THEN NoLoop ELSE [@ EXCEPT !.left = Tail(@)]]

(* The answer to the first request of a loop is set on the list of the last  *)
(* render (onFileSizeUpdatedRef), and rendered later.  MutSizeArrives, never *)
(* used by the model, sets it on the list of the render the drop was in.     *)
MutSizeArrives(d) ==
    /\ Asked(d)
    /\ setting' = Sized(loops[d].list, Head(loops[d].left))
    /\ UNCHANGED <<waiting, dropped, wanted, sentJobs>>
SizeArrives(d) ==
    /\ Asked(d)
    /\ setting' = Sized(waiting, Head(loops[d].left))
    /\ UNCHANGED <<waiting, dropped, wanted, sentJobs>>

(* A request fails: the loop ends, the rest is never asked for. *)
SizeFails(d) ==
    /\ loops[d].left # <<>>
    /\ loops' = [loops EXCEPT ![d] = NoLoop]
    /\ UNCHANGED <<waiting, setting, dropped, wanted, sentJobs>>

ShowSizes ==
    /\ waiting' = setting
    /\ UNCHANGED <<setting, loops, dropped, wanted, sentJobs>>

(* The job is created with the list of the render, sizes or not; the list    *)
(* stays, so the same can be sent again.                                     *)
CreateJob ==
    /\ Cardinality(sentJobs) < MaxJobs
    /\ sentJobs' = sentJobs \cup {[i \in DOMAIN waiting |-> waiting[i].id]}
    /\ UNCHANGED <<waiting, setting, loops, dropped, wanted>>

WaitNext ==
    \/ \E d \in Drops : \/ \E ids \in BoundedSeq(Sources, 2) : AddFiles(d, ids)
                        \/ SizeArrives(d) \/ SizeFails(d)
    \/ \E ids \in SUBSET Sources : RemoveFiles(ids)
    \/ ShowSizes \/ CreateJob

WaitSpec == WaitInit /\ [][WaitNext]_waitVars
-----------------------------------------------------------------------------
(* Sizes that come late, of directories that were removed or dropped again   *)
(* meanwhile, neither bring an entry back nor take one away: what is shown,  *)
(* will be shown next, and so is sent with a job, is what the user dropped   *)
(* and did not remove, in that order and each source once.                   *)
ListIsTheUsers ==
    /\ IsInjective(wanted)
    /\ [i \in DOMAIN waiting |-> waiting[i].id] = wanted
    /\ [i \in DOMAIN setting |-> setting[i].id] = wanted
=============================================================================
