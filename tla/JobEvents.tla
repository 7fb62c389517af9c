----------------------------- MODULE JobEvents ------------------------------
(***************************************************************************)
(* SaveJob and the bus (executor/job.go, executor/job_events.go): who      *)
(* saves a job whose status has changed is to tell the open pages.         *)
(***************************************************************************)
EXTENDS JobEventBus

CONSTANT
    Statuses        \* values of a job's status

VARIABLES
    status,         \* status of the job in the table
    changes,        \* how often it has changed
    news            \* page -> changes saved while it was subscribed

eventVars == <<vars, status, changes, news>>

(* SaveJob gets the job as its caller has changed it, takes the status of   *)
(* that for the old one, saves and compares the two.                        *)
SaveJob(p, newStatus) ==
    /\ event[p] = 0
    /\ changes < MaxEvents
    /\ newStatus # status
    /\ LET oldStatus == newStatus
       IN  IF oldStatus # newStatus THEN Publish(p) ELSE UNCHANGED vars
    /\ status' = newStatus
    /\ changes' = changes + 1
    /\ news' = [g \in Pages |-> news[g] \cup IF g \in subscribers THEN {changes + 1} ELSE {}]

EventInit ==
    /\ Init
    /\ status \in Statuses
    /\ changes = 0
    /\ news = [g \in Pages |-> {}]

Step ==
    \/ \E g \in Pages : Connect(g) \/ Show(g) \/ Disconnect(g) \/ Takes(g)
    \/ \E p \in Publishers : Sends(p)

EventNext ==
    \/ Step /\ UNCHANGED <<status, changes, news>>
    \/ \E p \in Publishers, s \in Statuses : SaveJob(p, s)

EventSpec == EventInit /\ [][EventNext]_eventVars /\ Fairness

(* A change of a job's status that is saved while a page is subscribed is   *)
(* sent to the page, unless it reads too slowly or leaves.                  *)
ChangesAreTold ==
    \A g \in Pages : \A n \in 1..MaxEvents :
        n \in news[g] ~> n \in Reached(g) \/ g \in slow \/ page[g] # "loop"
=============================================================================
