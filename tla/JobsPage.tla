------------------------------ MODULE JobsPage ------------------------------
(***************************************************************************)
(* The page of jobs (JobsBrowser in frontend/src/pages/jobs.tsx): it lists *)
(* the jobs once, then asks for those updated since the latest it knows,   *)
(* whenever the event stream says so, a card asks for it, or an interval   *)
(* fires.  Nothing keeps two refreshes apart, and each works on the state  *)
(* of the render it was made in, which for a card is the one its button    *)
(* was pressed in, or first shown in, however long its request has taken.  *)
(***************************************************************************)
EXTENDS Integers, FiniteSets, FiniteSetsExt, Functions

CONSTANTS
    PageJobs,       \* the jobs of the server, in the order they were created
    JobCalls,       \* refreshes that may be under way at once
    Limit,          \* rows of a reply (20 in the code)
    Statuses,       \* what a change may leave a job in
    MaxChanges      \* bounds the changes of the job table

ASSUME JobsAssumption ==
    /\ PageJobs \subseteq Nat /\ IsFiniteSet(PageJobs)
    /\ Limit \in Nat \ {0} /\ MaxChanges \in Nat
    /\ Statuses \subseteq {"pending", "processing", "deleted"}

VARIABLES
    table,          \* the job table: job -> [time, status]
    clock,          \* time of its last change; no two changes share one
    page,           \* "new", "mounted" or "left"
    queued,         \* the state of the page, [jobs, latest], as it has been set
    render,         \* and as it was last rendered
    stream,         \* the event source: "connecting", "open" or "closed"
    usePolling, fallback, \* whether polling has begun, and the 3 s timer is pending
    timers,         \* intervals that run
    jobCalls,       \* call -> refresh, or request of a card that will call one
    inOrder, first  \* history: every refresh wrote on what it began from (see ReceiveJobs),
                    \* and the latest time of the first list

streamVars == <<stream, usePolling, fallback, timers>>
stateVars == <<queued, render>>
jobsVars == <<table, clock, page, stateVars, streamVars, jobCalls, inOrder, first>>

NoRefresh == [pc |-> "free"]
Blank == [jobs |-> <<>>, latest |-> 0]
Visible(row) == row.status # "deleted"      \* JOB_STATUS_VISIBLE
RowsOf(ids) == [j \in ids |-> table[j]]

(* Of the ids, as many as a reply has room for, the least ranks first. *)
Page(ids, rank) == {j \in ids : Cardinality({i \in ids : rank[i] < rank[j]}) < Limit}

(* ListJob gives the newest jobs, ListRecentlyUpdateJob the changes that are *)
(* longest ago (executor/job.go).  MutRecentlyUpdate, never used by the      *)
(* model, gives the latest instead.                                          *)
ListJob == RowsOf(Page({j \in DOMAIN table : Visible(table[j])}, [j \in DOMAIN table |-> -j]))
Since(time) == {j \in DOMAIN table : table[j].time > time}
MutRecentlyUpdate(since) == RowsOf(Page(Since(since), [j \in DOMAIN table |-> -table[j].time]))
ListRecentlyUpdateJob(since) == RowsOf(Page(Since(since), [j \in DOMAIN table |-> table[j].time]))
-----------------------------------------------------------------------------
JobsInit ==
    /\ table = [j \in PageJobs |-> [time |-> 0, status |-> "processing"]]
    /\ clock = 0
    /\ page = "new"
    /\ queued = Blank /\ render = Blank
    /\ stream = "connecting" /\ usePolling = FALSE /\ fallback = FALSE /\ timers = 0
    /\ jobCalls = [c \in JobCalls |-> NoRefresh]
    /\ inOrder = TRUE /\ first = 0

(* A job changes; every save gives it the time (executor/job.go). *)
ChangeJob(j, status) ==
    /\ clock < MaxChanges
    /\ table[j].status # "deleted"
    /\ clock' = clock + 1
    /\ table' = [table EXCEPT ![j] = [time |-> clock + 1, status |-> status]]
    /\ UNCHANGED <<page, stateVars, streamVars, jobCalls, inOrder, first>>

(* refresh begins, with the state of the last render (refreshRef). *)
Refresh(c, full) ==
    /\ jobCalls[c] = NoRefresh
    /\ jobCalls' = [jobCalls EXCEPT ![c] = [pc |-> "asked", full |-> full, from |-> render]]

Mount(c) ==
    /\ page = "new"
    /\ page' = "mounted"
    /\ Refresh(c, TRUE)
    /\ \/ fallback' = TRUE /\ UNCHANGED <<stream, usePolling, timers>>
       \/ /\ stream' = "closed"     \* no EventSource in this browser
          /\ timers' = 1
          /\ UNCHANGED <<usePolling, fallback>>
    /\ UNCHANGED <<table, clock, stateVars, inOrder, first>>

(* A message of the stream, or the interval. *)
Asks(c) ==
    /\ page = "mounted"
    /\ Refresh(c, FALSE)
    /\ UNCHANGED <<table, clock, page, stateVars, streamVars, inOrder, first>>

Message(c) == stream = "open" /\ Asks(c)
Poll(c) == timers > 0 /\ Asks(c)

(* A button of a card is pressed, and sends its request: the refresh that    *)
(* will follow it is that of the render the button is of.  The deletion of a *)
(* card keeps that of the card's first render, as if it were pressed then.   *)
Press(c) ==
    /\ page = "mounted" /\ render.jobs # <<>>
    /\ jobCalls[c] = NoRefresh
    /\ jobCalls' = [jobCalls EXCEPT ![c] = [pc |-> "pressed", from |-> render]]
    /\ UNCHANGED <<table, clock, page, stateVars, streamVars, inOrder, first>>

(* The request of the card has been answered: its refresh begins. *)
CardAsks(c) ==
    /\ jobCalls[c].pc = "pressed"
    /\ jobCalls' = [jobCalls EXCEPT ![c] = [pc |-> "asked", full |-> FALSE, from |-> @.from]]
    /\ UNCHANGED <<table, clock, page, stateVars, streamVars, inOrder, first>>

(* What has been set shows, in a task of its own. *)
Render ==
    /\ render' = queued
    /\ UNCHANGED <<table, clock, page, queued, streamVars, jobCalls, inOrder, first>>

StreamOnly == UNCHANGED <<table, clock, page, stateVars, jobCalls, inOrder, first>>

Connect ==
    /\ page = "mounted" /\ stream = "connecting"
    /\ stream' = "open"
    /\ UNCHANGED <<usePolling, fallback, timers>> /\ StreamOnly

Onerror ==
    /\ page = "mounted" /\ stream # "closed"
    /\ stream' = "closed"
    /\ usePolling' = TRUE
    /\ timers' = timers + 1
    /\ UNCHANGED fallback /\ StreamOnly

(* After 3 s polling begins, whether or not the stream has connected.        *)
(* MutPollsAfterAll, never used by the model, leaves a connected stream be.  *)
MutPollsAfterAll == stream # "open" /\ ~usePolling
PollsAfterAll == ~usePolling

Fallback ==
    /\ fallback
    /\ fallback' = FALSE
    /\ IF PollsAfterAll
       THEN stream' = "closed" /\ usePolling' = TRUE /\ timers' = timers + 1
       ELSE UNCHANGED <<stream, usePolling, timers>>
    /\ StreamOnly
-----------------------------------------------------------------------------
ServeJobs(c) ==
    /\ jobCalls[c].pc = "asked"
    /\ jobCalls' = [jobCalls EXCEPT ![c] =
          [pc |-> "served", full |-> @.full, from |-> @.from,
           reply |-> IF @.full THEN ListJob ELSE ListRecentlyUpdateJob(@.from.latest)]]
    /\ UNCHANGED <<table, clock, page, stateVars, streamVars, inOrder, first>>

(* Rows of the reply replace or join those of the render. *)
Results(call) ==
    LET known == call.from.jobs
        all == [j \in DOMAIN known \cup DOMAIN call.reply |->
                    IF j \in DOMAIN call.reply THEN call.reply[j] ELSE known[j]]
    IN  IF call.reply = <<>> THEN (IF call.full THEN <<>> ELSE known)
        ELSE Restrict(all, {j \in DOMAIN all : Visible(all[j])})
LatestOf(reply) == Max({reply[j].time : j \in DOMAIN reply} \cup {0})

(* The list is here: the latest time is set at once, the jobs only when no   *)
(* job is processing; otherwise the displays are fetched first.  It is in    *)
(* order if nothing else has been set since the render the refresh began on. *)
ReceiveJobs(c) ==
    /\ jobCalls[c].pc = "served"
    /\ LET call == jobCalls[c]
           results == Results(call)
           updated == call.full \/ call.reply # <<>>
           displays == \E j \in DOMAIN results : results[j].status = "processing"
           next == [call.from EXCEPT !.latest = IF call.reply # <<>> THEN LatestOf(call.reply) ELSE @]
       IN  /\ queued' = [jobs |-> IF updated /\ ~displays THEN results ELSE queued.jobs,
                         latest |-> IF call.reply # <<>> THEN next.latest ELSE queued.latest]
           /\ first' = IF call.full THEN LatestOf(call.reply) ELSE first
           /\ jobCalls' = [jobCalls EXCEPT ![c] =
                IF displays THEN [pc |-> "display", from |-> next, results |-> results, updated |-> updated]
                ELSE NoRefresh]
           /\ inOrder' = (inOrder /\ (updated => queued = call.from))
    /\ UNCHANGED <<table, clock, page, render, streamVars>>

ReceiveDisplays(c) ==
    /\ jobCalls[c].pc = "display"
    /\ queued' = [queued EXCEPT !.jobs = jobCalls[c].results]
    /\ inOrder' = (inOrder /\ queued = jobCalls[c].from)
    /\ jobCalls' = [jobCalls EXCEPT ![c] = NoRefresh]
    /\ UNCHANGED <<table, clock, page, render, streamVars, first>>

(* Its time is set, its rows are not. *)
Owes(call) == call.pc = "display" /\ call.updated

(* An error of a request ends its refresh, what was set before stays. *)
FailJobs(c) ==
    /\ jobCalls[c] # NoRefresh
    /\ jobCalls' = [jobCalls EXCEPT ![c] = NoRefresh]
    /\ inOrder' = (inOrder /\ ~Owes(jobCalls[c]))
    /\ UNCHANGED <<table, clock, page, stateVars, streamVars, first>>

(* The user leaves: the timers and the stream are cleared, the page's state  *)
(* is no more, and what requests still under way bring changes nothing.      *)
LeaveJobs ==
    /\ page = "mounted"
    /\ page' = "left"
    /\ fallback' = FALSE
    /\ stream' = "closed"
    /\ timers' = IF timers > 0 THEN timers - 1 ELSE 0
    /\ queued' = Blank /\ render' = Blank
    /\ jobCalls' = [c \in JobCalls |-> NoRefresh]
    /\ UNCHANGED <<table, clock, usePolling, inOrder, first>>

Answers(c) == CardAsks(c) \/ ServeJobs(c) \/ ReceiveJobs(c) \/ ReceiveDisplays(c)

JobsNext ==
    \/ \E j \in PageJobs, status \in Statuses : ChangeJob(j, status)
    \/ \E c \in JobCalls : Mount(c) \/ Message(c) \/ Poll(c) \/ Press(c) \/ Answers(c) \/ FailJobs(c)
    \/ Render \/ Connect \/ Onerror \/ Fallback \/ LeaveJobs

JobsSpec == JobsInit /\ [][JobsNext]_jobsVars

(* Requests are answered or fail, and the timers fire: the interval also if *)
(* all calls of the instance are taken again and again, for the browser has *)
(* no such bound.                                                           *)
JobsFairness ==
    /\ WF_jobsVars(Fallback)
    /\ SF_jobsVars(\E c \in JobCalls : Poll(c))
    /\ WF_jobsVars(\E c \in JobCalls : Answers(c) \/ FailJobs(c))
-----------------------------------------------------------------------------
(* A change the page no longer asks for is shown, unless a refresh wrote     *)
(* over what had been set since the render it began from, or failed between  *)
(* setting its time and its rows: refreshes may meet, fail and begin from    *)
(* old renders, and a reply have room for few.  A job that was too old for   *)
(* the first list and has not changed since is not shown (ListJob's limit).  *)
JobsUpToDate ==
    inOrder /\ page = "mounted" /\ render = queued /\ (\A c \in JobCalls : ~Owes(jobCalls[c])) =>
        LET jobs == render.jobs
        IN  \A j \in DOMAIN table :
                table[j].time <= render.latest /\ (j \in DOMAIN jobs \/ table[j].time > first) =>
                    IF Visible(table[j]) THEN j \in DOMAIN jobs /\ jobs[j] = table[j] ELSE j \notin DOMAIN jobs

(* At most one interval polls, and none once the page is left (the effect   *)
(* of jobs.tsx:95-159).                                                     *)
OneTimer == timers \in {0, 1} /\ (page = "left" => timers = 0)

(* A page that stays asks again and again, whatever becomes of the stream   *)
(* and of single requests.                                                  *)
PageKeepsAsking == page = "mounted" ~> (page = "left" \/ \E c \in JobCalls : jobCalls[c].pc = "asked")
=============================================================================
