---------------------------- MODULE MCRestoreJob ----------------------------
(* Instances of RestoreJob for TLC: the values of its CONSTANTS are in the *)
(* configurations restore_*.cfg.                                           *)
EXTENDS RestoreJob, TLC

(* one file on one tape *)
OneTape == 2 :> {1}
OneTapeItems == 1..2
(* two files, each on a tape of its own *)
TwoTapes == 3 :> {1} @@ 4 :> {2}
(* two files on one tape *)
WideTape == 3 :> {1, 2}
WideTapeItems == 1..3
TwoTapesItems == 1..4

(* Executors, clients, workers and drives are interchangeable. *)
Symmetry ==
    Permutations(Executors) \cup Permutations(Clients) \cup Permutations(Workers)
        \cup Permutations(Devices)
=============================================================================
