--------------------------- MODULE MCFileLibrary ----------------------------
(* Instances of FileLibrary and LibraryTrim for model checking. *)
EXTENDS LibraryTrim

(* A folder with a plain file, next to an empty folder. *)
FolderWithFile == {(1 :> Row(Root, 1, TRUE, 0)) @@ (2 :> Row(1, 2, FALSE, 1)) @@ (3 :> Row(Root, 2, TRUE, 0))}

(* A tree with a folder in its trash, and a folder whose file has its name. *)
TrashAndFolder == {
    (TrashFileID :> Row(Root, TrashName, TRUE, 0)) @@ (1 :> Row(TrashFileID, 100, TRUE, 0))
        @@ (2 :> Row(1, 1, TRUE, 0)) @@ (3 :> Row(Root, 1, FALSE, 1)),
    (1 :> Row(Root, 1, TRUE, 0)) @@ (2 :> Row(1, 1, FALSE, 1))}

TwoSeconds == <<101, 102>>
=============================================================================
