---------------------------- MODULE MCArchiveJob ----------------------------
(* Instances of ArchiveJob for TLC: the values of its CONSTANTS are in the *)
(* configurations archive_*.cfg.                                           *)
EXTENDS ArchiveJob, TLC

OneSource == 1..1
TwoSources == 1..2

(* Executors, clients, workers, drives and tapes are interchangeable. *)
Symmetry ==
    Permutations(Executors) \cup Permutations(Clients) \cup Permutations(Workers)
        \cup Permutations(Devices) \cup Permutations(Tapes)
=============================================================================
