-------------------------------- MODULE App ---------------------------------
(***************************************************************************)
(* The application in the browser (frontend/src/app.tsx): a page is chosen *)
(* by the route, and pages share nothing but the client.  A behaviour is   *)
(* that of the part of the application its route names; the other parts    *)
(* rest.                                                                   *)
(***************************************************************************)
EXTENDS Calls, FilePage, JobsPage, LogConsole, TapesPage, Waitlist

CONSTANT Routes     \* the parts of the instance

VARIABLE route

appVars == <<route, callVars, filesVars, jobsVars, logVars, tapesVars, waitVars>>

AppInit ==
    /\ route \in Routes
    /\ CallsInit /\ FilesInit /\ JobsInit /\ LogInit /\ TapesInit /\ WaitInit

Rests(part, vars) == IF route = part THEN TRUE ELSE UNCHANGED vars
OnlyOn(part) ==
    /\ route = part /\ UNCHANGED route
    /\ Rests("calls", callVars) /\ Rests("files", filesVars) /\ Rests("jobs", jobsVars)
    /\ Rests("log", logVars) /\ Rests("tapes", tapesVars) /\ Rests("wait", waitVars)

AppNext ==
    \/ OnlyOn("calls") /\ CallsNext
    \/ OnlyOn("files") /\ FilesNext
    \/ OnlyOn("jobs") /\ JobsNext
    \/ OnlyOn("log") /\ LogNext
    \/ OnlyOn("tapes") /\ TapesNext
    \/ OnlyOn("wait") /\ WaitNext

AppSpec == AppInit /\ [][AppNext]_appVars /\ FilesFairness /\ JobsFairness
=============================================================================
