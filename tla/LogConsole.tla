----------------------------- MODULE LogConsole -----------------------------
(***************************************************************************)
(* The dialog with the log of a job (LogConsole in                         *)
(* frontend/src/components/job-log.tsx), which asks JobGetLog for what     *)
(* came after its offset.  A React effect asks once, then sets an interval *)
(* of 2 s; it starts anew whenever the state has changed, and an effect    *)
(* that is left before its interval is set leaves the interval running.    *)
(* Bytes of the log are their positions.                                   *)
(***************************************************************************)
EXTENDS Integers, Sequences

CONSTANTS
    LogCalls,       \* requests the dialog may have open at once
    MaxLog,         \* bounds the log
    MaxStrays       \* intervals nobody clears are counted up to here

ASSUME LogAssumption == MaxLog \in Nat /\ MaxStrays \in Nat

VARIABLES
    written,        \* bytes in the log of the job
    mounted,        \* the dialog is open
    log, offset,    \* its state: what is shown, and where to read on
    effect,         \* what the effect of the latest render does
    strays,         \* intervals of effects that were left too early
    logCalls        \* call -> request of refresh

logVars == <<written, mounted, log, offset, effect, strays, logCalls>>

NoLogCall == [pc |-> "free"]
(* A request keeps what the render it was made in had for log and offset;  *)
(* effect tells whether the latest effect awaits it, an earlier one, none. *)
LogCall(by) == [pc |-> "asked", log |-> log, offset |-> offset, effect |-> by]

Upto(n) == [i \in 1..n |-> i]
Count(n) == IF strays + n > MaxStrays THEN MaxStrays ELSE strays + n

(* What refresh makes of a reply: the log it was made with, and what is new. *)
(* MutExtended, never used by the model, adds it to what is shown now.       *)
MutExtended(call) == log \o [i \in 1..(call.end - call.offset) |-> call.offset + i]
Extended(call) == call.log \o [i \in 1..(call.end - call.offset) |-> call.offset + i]
-----------------------------------------------------------------------------
LogInit ==
    /\ written = 0
    /\ mounted = FALSE
    /\ log = <<>> /\ offset = 0
    /\ effect = "none" /\ strays = 0
    /\ logCalls = [c \in LogCalls |-> NoLogCall]

(* The job logs. *)
WriteLog ==
    /\ written < MaxLog
    /\ written' = written + 1
    /\ UNCHANGED <<mounted, log, offset, effect, strays, logCalls>>

OpenLog(c) ==
    /\ effect = "none"
    /\ mounted' = TRUE
    /\ effect' = "fetching"
    /\ logCalls' = [logCalls EXCEPT ![c] = LogCall("latest")]
    /\ UNCHANGED <<written, log, offset, strays>>

(* An interval fires, the effect's own or a stray one, after the dialog is *)
(* closed too.                                                             *)
LogTick(c) ==
    /\ effect = "ticking" \/ strays > 0
    /\ logCalls[c] = NoLogCall
    /\ logCalls' = [logCalls EXCEPT ![c] = LogCall("none")]
    /\ UNCHANGED <<written, mounted, log, offset, effect, strays>>

(* JobGetLog reads from the offset to the end of the file. *)
ServeLog(c) ==
    /\ logCalls[c].pc = "asked"
    /\ logCalls' = [logCalls EXCEPT ![c] = [pc |-> "served", log |-> @.log, offset |-> @.offset,
                                            effect |-> @.effect, end |-> written]]
    /\ UNCHANGED <<written, mounted, log, offset, effect, strays>>

(* What cleaning up the latest effect leaves: an interval that is set later. *)
Left(calls) == [d \in LogCalls |-> IF calls[d].pc # "free" /\ calls[d].effect = "latest"
                                   THEN [calls[d] EXCEPT !.effect = "earlier"] ELSE calls[d]]

(* An answer changes nothing: no render, and the effect that waits sets its *)
(* interval a little later.                                                 *)
ReceiveNothing(c) ==
    /\ logCalls[c].pc = "served"
    /\ ~mounted \/ (logCalls[c].end = offset /\ Extended(logCalls[c]) = log)
    /\ effect' = IF logCalls[c].effect = "latest" THEN "resting" ELSE effect
    /\ strays' = IF logCalls[c].effect = "earlier" THEN Count(1) ELSE strays
    /\ logCalls' = [logCalls EXCEPT ![c] = NoLogCall]
    /\ UNCHANGED <<written, mounted, log, offset>>

(* An answer that changes the state: the effect is left, with its interval   *)
(* cleared if there is one, and the new one asks at once.                    *)
ReceiveLog(c) ==
    /\ logCalls[c].pc = "served"
    /\ mounted
    /\ logCalls[c].end # offset \/ Extended(logCalls[c]) # log
    /\ log' = Extended(logCalls[c])
    /\ offset' = logCalls[c].end
    /\ strays' = Count((IF logCalls[c].effect # "none" THEN 1 ELSE 0) + (IF effect = "resting" THEN 1 ELSE 0))
    /\ effect' = "fetching"
    /\ logCalls' = [Left(logCalls) EXCEPT ![c] =
                      [pc |-> "asked", log |-> log', offset |-> offset', effect |-> "latest"]]
    /\ UNCHANGED <<written, mounted>>

(* A request fails: an effect that awaits it sets no interval. *)
FailLog(c) ==
    /\ logCalls[c].pc # "free"
    /\ effect' = IF logCalls[c].effect = "latest" THEN "failed" ELSE effect
    /\ logCalls' = [logCalls EXCEPT ![c] = NoLogCall]
    /\ UNCHANGED <<written, mounted, log, offset, strays>>

SetInterval ==
    /\ effect = "resting"
    /\ effect' = "ticking"
    /\ UNCHANGED <<written, mounted, log, offset, strays, logCalls>>

CloseLog ==
    /\ mounted
    /\ mounted' = FALSE
    /\ effect' = "closed"
    /\ strays' = Count(IF effect = "resting" THEN 1 ELSE 0)
    /\ logCalls' = Left(logCalls)
    /\ UNCHANGED <<written, log, offset>>

LogNext ==
    \/ WriteLog \/ SetInterval \/ CloseLog
    \/ \E c \in LogCalls : \/ OpenLog(c) \/ LogTick(c) \/ ServeLog(c)
                           \/ ReceiveNothing(c) \/ ReceiveLog(c) \/ FailLog(c)

LogSpec == LogInit /\ [][LogNext]_logVars
-----------------------------------------------------------------------------
(* However many intervals run and in whatever order their answers come, what *)
(* is shown is the log up to the offset, each byte once: an answer replaces  *)
(* the log and the offset it was asked with together.                        *)
LogIsPrefix == offset \in 0..written /\ log = Upto(offset)
=============================================================================
