---------------------------- MODULE JobContract -----------------------------
(***************************************************************************)
(* What a job promises to somebody who sees its row alone: items get done  *)
(* while it is being worked on and stay done, it may wait, fail and be     *)
(* tried again any number of times, and it completes only when every item  *)
(* is done.                                                                *)
(*                                                                         *)
(* An attempt may report its failure late, when the next one has started   *)
(* or even completed the job: a job that has failed may still be making    *)
(* progress, and a completed one may turn failed, with every item done.    *)
(***************************************************************************)
CONSTANTS Jobs, Items

VARIABLES
    phase,          \* job -> the phase its status stands for
    done            \* job -> the items that are done

vars == <<phase, done>>

Phases == {"waiting", "working", "failed", "completed"}

Init ==
    /\ phase = [j \in Jobs |-> "waiting"]
    /\ done = [j \in Jobs |-> {}]

Enters(j, p) == phase' = [phase EXCEPT ![j] = p]

Start(j) ==
    /\ phase[j] \in {"waiting", "failed"}
    /\ Enters(j, "working")
    /\ UNCHANGED done

Progress(j) ==
    /\ phase[j] \in {"working", "failed"}
    /\ \E more \in SUBSET Items : done' = [done EXCEPT ![j] = @ \cup more]
    /\ UNCHANGED phase

Pause(j) ==
    /\ phase[j] \in {"working", "failed"}
    /\ Enters(j, "waiting")
    /\ UNCHANGED done

Fail(j) ==
    /\ Enters(j, "failed")
    /\ UNCHANGED done

Complete(j) ==
    /\ phase[j] \in {"working", "failed"}
    /\ done[j] = Items
    /\ Enters(j, "completed")
    /\ UNCHANGED done

Next == \E j \in Jobs : Start(j) \/ Progress(j) \/ Pause(j) \/ Fail(j) \/ Complete(j)

Spec == Init /\ [][Next]_vars
=============================================================================
