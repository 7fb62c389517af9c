------------------------------ MODULE Shutdown ------------------------------
(***************************************************************************)
(* The end of the server (end of main in cmd/httpd/main.go,                *)
(* tools/working.go, tools/context.go): a signal cancels the shutdown      *)
(* context; a goroutine then waits for the jobs that work and shuts the    *)
(* http server down, and main ends as soon as the listener is closed.      *)
(* Until then requests are served, and a dispatch starts a worker.         *)
(***************************************************************************)
EXTENDS Naturals, FiniteSets

CONSTANTS
    Handlers,       \* dispatches in flight
    Workers         \* makeTape and restoreTape goroutines, each used once

VARIABLES
    cancelled,      \* ShutdownContext is done
    wg,             \* the wait group's counter
    handler,        \* handler -> where the dispatch is
    worker,         \* worker -> where its goroutine is
    waiter,         \* where the goroutine that shuts down is
    listening,      \* the listener is open
    exited,         \* the process has ended
    early           \* workers started before the wait ended

vars == <<cancelled, wg, handler, worker, waiter, listening, exited, early>>

HandlerPCs == {"idle", "switched", "counted"}
WorkerPCs == {"off", "working", "over"}
WaiterPCs == {"signal", "wait", "shutdown", "over"}

Running == {w \in Workers : worker[w] = "working"}
Pending == {h \in Handlers : handler[h] # "idle"}

(* Mutants, never used by the model: what a plausible bug would make of the *)
(* definition of the same name below.                                       *)
MutMayEnd == TRUE
MutWorking == UNCHANGED wg
MutDone == UNCHANGED wg

Working == wg' = wg + 1
Done == wg' = wg - 1
MayEnd == wg = 0

-----------------------------------------------------------------------------
(* a request to dispatch is accepted and switchStep has saved (the bound:   *)
(* there is a worker left for it)                                           *)
Accept(h) ==
    /\ ~ exited
    /\ listening
    /\ handler[h] = "idle"
    /\ Cardinality(Pending) < Cardinality({w \in Workers : worker[w] = "off"})
    /\ handler' = [handler EXCEPT ![h] = "switched"]
    /\ UNCHANGED <<cancelled, wg, worker, waiter, listening, exited, early>>

Count(h) ==
    /\ ~ exited
    /\ handler[h] = "switched"
    /\ Working
    /\ handler' = [handler EXCEPT ![h] = "counted"]
    /\ UNCHANGED <<cancelled, worker, waiter, listening, exited, early>>

(* the go statement, and the reply *)
Go(h, w) ==
    /\ ~ exited
    /\ handler[h] = "counted"
    /\ worker[w] = "off"
    /\ worker' = [worker EXCEPT ![w] = "working"]
    /\ handler' = [handler EXCEPT ![h] = "idle"]
    /\ early' = IF waiter \in {"signal", "wait"} THEN early \cup {w} ELSE early
    /\ UNCHANGED <<cancelled, wg, waiter, listening, exited>>

(* makeTape or restoreTape has returned, its deferred calls included, and   *)
(* the row is marked when it has failed: tools.Done                         *)
Return(w) ==
    /\ ~ exited
    /\ worker[w] = "working"
    /\ Done
    /\ worker' = [worker EXCEPT ![w] = "over"]
    /\ UNCHANGED <<cancelled, handler, waiter, listening, exited, early>>

Signal ==
    /\ ~ cancelled
    /\ cancelled' = TRUE
    /\ UNCHANGED <<wg, handler, worker, waiter, listening, exited, early>>

StartWaiting ==
    /\ ~ exited
    /\ waiter = "signal"
    /\ cancelled
    /\ waiter' = "wait"
    /\ UNCHANGED <<cancelled, wg, handler, worker, listening, exited, early>>

Wait ==
    /\ ~ exited
    /\ waiter = "wait"
    /\ MayEnd
    /\ waiter' = "shutdown"
    /\ UNCHANGED <<cancelled, wg, handler, worker, listening, exited, early>>

(* srv.Shutdown first closes the listener *)
CloseListener ==
    /\ ~ exited
    /\ waiter = "shutdown"
    /\ waiter' = "over"
    /\ listening' = FALSE
    /\ UNCHANGED <<cancelled, wg, handler, worker, exited, early>>

(* ListenAndServe returns as soon as the listener is closed; log.Fatalf     *)
Exit ==
    /\ ~ exited
    /\ ~ listening
    /\ exited' = TRUE
    /\ UNCHANGED <<cancelled, wg, handler, worker, waiter, listening, early>>

Init ==
    /\ cancelled = FALSE
    /\ wg = 0
    /\ handler = [h \in Handlers |-> "idle"]
    /\ worker = [w \in Workers |-> "off"]
    /\ waiter = "signal"
    /\ listening = TRUE
    /\ exited = FALSE
    /\ early = {}

Next ==
    \/ \E h \in Handlers : Accept(h) \/ Count(h) \/ \E w \in Workers : Go(h, w)
    \/ \E w \in Workers : Return(w)
    \/ Signal
    \/ StartWaiting \/ Wait \/ CloseListener \/ Exit

(* A handler and a worker that run go on, makeTape returns (its commands    *)
(* are killed by the cancelled context), main's goroutines run.  Nobody     *)
(* need send a signal or a request.                                         *)
Fairness ==
    /\ \A h \in Handlers : WF_vars(Count(h)) /\ WF_vars(\E w \in Workers : Go(h, w))
    /\ \A w \in Workers : WF_vars(Return(w))
    /\ WF_vars(StartWaiting) /\ WF_vars(Wait) /\ WF_vars(CloseListener) /\ WF_vars(Exit)

Spec == Init /\ [][Next]_vars
FairSpec == Spec /\ Fairness
-----------------------------------------------------------------------------
TypeOK ==
    /\ cancelled \in BOOLEAN /\ listening \in BOOLEAN /\ exited \in BOOLEAN
    /\ wg \in 0..Cardinality(Workers)
    /\ handler \in [Handlers -> HandlerPCs]
    /\ worker \in [Workers -> WorkerPCs]
    /\ waiter \in WaiterPCs
    /\ early \subseteq Workers

(* Whoever worked when the signal came, or was started while the server     *)
(* waited, has ended before the process does: no such tape is left mounted  *)
(* and half written.                                                        *)
EarlyWorkEnds == exited => early \cap Running = {}

(* A signal ends the server, however many dispatches come late. *)
SignalEndsServer == cancelled ~> exited
=============================================================================
