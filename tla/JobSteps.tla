------------------------------ MODULE JobSteps ------------------------------
(***************************************************************************)
(* What archive and restore executors have in common: the steps of a job,  *)
(* which are its lock, and the drives.  The two dispatch functions are the *)
(* same but for the type of the state (executor/job_archive_exe.go,        *)
(* executor/job_restore_exe.go).                                           *)
(***************************************************************************)
EXTENDS JobStore

CONSTANT
    Devices         \* tape drives

VARIABLE
    available       \* drives nobody has occupied

(* Mutants, never used by the model: what a plausible bug would make of the *)
(* definition of the same name below.                                       *)
MutMayCopy(row) == row.step \in {"WAIT_FOR_TAPE", "COPYING"}
MutMayWait(row) == row.step = "PENDING"
MutTakesDevice(dev) == UNCHANGED available
MutReturnsDevice(dev) == UNCHANGED available

(* the steps switchStep expects for Copying, WaitForTape and Finished       *)
MayCopy(row) == row.step = "WAIT_FOR_TAPE"
MayWait(row) == row.step \in {"PENDING", "COPYING"}
MayFinish(row) == row.step = "COPYING"

WaitForTape(e) ==
    /\ MayWait(mem[e])
    /\ Updates(e, Switched(mem[e], "WAIT_FOR_TAPE", "PENDING"))
    /\ UNCHANGED cache

(* Finished closes the executor, which removes what the cache holds for the *)
(* job, this executor or another                                            *)
Finished(e) ==
    LET row == Switched(mem[e], "FINISHED", "COMPLETED")
    IN  /\ MayFinish(mem[e])
        /\ \/ Saves(e, row) /\ Uncache(owner[e])
           \/ FailsToSave(e, row) /\ UNCHANGED cache

(* OccupyDevice and ReleaseDevice                                           *)
TakesDevice(dev) == available' = available \ {dev}
ReturnsDevice(dev) == available' = available \cup {dev}
=============================================================================
