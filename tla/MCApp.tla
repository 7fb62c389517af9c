------------------------------- MODULE MCApp --------------------------------
(* Instances of App for model checking. *)
EXTENDS App

(* A folder with a plain file in it, which someone else moves out. *)
FolderWithFile == {(1 :> Row(Root, 1, TRUE, 0)) @@ (2 :> Row(1, 2, FALSE, 1))}
FileMovesOut == {<<2, Root>>}
(* The left browser was last at the folder, the right one at one that has gone. *)
OneHasGone == {[left |-> 1, right |-> 9]}

(* Two tapes, one with a directory in a directory. *)
TapeTree == 1 :> 0 @@ 2 :> 1 @@ 3 :> 2 @@ 4 :> 0

(* Jobs change while a browser without event streams polls; with a stream   *)
(* the page asks no differently, only at other times.                       *)
ChangesWhenPolled == table' # table => stream = "closed" /\ ~usePolling

PagesSpec == AppInit /\ [][AppNext /\ ChangesWhenPolled]_appVars /\ FilesFairness /\ JobsFairness
=============================================================================
