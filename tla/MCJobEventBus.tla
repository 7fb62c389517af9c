--------------------------- MODULE MCJobEventBus ----------------------------
(* Instances of JobEventBus for TLC. *)
EXTENDS JobEventBus, TLC

(* Pages and publishers are interchangeable. *)
Symmetry == Permutations(Pages) \cup Permutations(Publishers)
=============================================================================
