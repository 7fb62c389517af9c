----------------------------- MODULE FileLibrary ----------------------------
(***************************************************************************)
(* The requests that change the files of the library: FileEdit, FileMkdir  *)
(* and FileDelete (apis/file_*.go) over library/file.go.  Requests run     *)
(* side by side; only moveFile is a transaction, so a handler may act on   *)
(* rows another one has changed since it read them.                        *)
(***************************************************************************)
EXTENDS FileTree

CONSTANTS
    Clients,        \* who sends requests, one at a time each
    Names,          \* numbers that stand for names of files
    Stamps,         \* names of the directories of the trash, one for each second
    Ops,            \* the requests of the instance
    MaxRequests,    \* bounds the requests
    InitialTrees    \* tables the library may start with

(* Ids are given from 1 on; the trash has an id of its own, and is a         *)
(* directory; a name is unique below a parent (the index idx_parent_name).   *)
IsLibrary(table) ==
    /\ IsFiniteSet(DOMAIN table) /\ DOMAIN table \subseteq {TrashFileID} \cup (Nat \ {Root})
    /\ table \in [DOMAIN table -> [parent : Int, name : Nat, dir : BOOLEAN, sign : Nat]]
    /\ TrashFileID \in DOMAIN table => table[TrashFileID].dir
    /\ \A a, b \in DOMAIN table :
          table[a].parent = table[b].parent /\ table[a].name = table[b].name => a = b

ASSUME LibraryAssumption ==
    /\ Names \subseteq Nat
    /\ Stamps \in Seq(Nat) /\ Stamps # <<>>
    /\ \A table \in InitialTrees : IsLibrary(table)

VARIABLES
    files,          \* id -> row
    made,           \* the last id the database has given
    second,         \* the clock, as an index of Stamps
    request,        \* client -> its handler
    asked           \* requests so far

treeVars == <<files, made, second, request, asked>>

Idle == [pc |-> "idle"]
Goes(c, to) == request' = [request EXCEPT ![c] = to]

(* A request arrives and its handler makes its first step. *)
Starts(c, op, to) ==
    /\ op \in Ops
    /\ request[c] = Idle
    /\ asked < MaxRequests
    /\ asked' = asked + 1
    /\ Goes(c, to)

Ends(c) == Goes(c, Idle)
-----------------------------------------------------------------------------
(* FileEdit reads the row; a parent it is given is not looked at. *)
EditGet(c, id, parent) ==
    /\ id \in DOMAIN files
    /\ Starts(c, "move", [pc |-> "move", id |-> id, row |-> [files[id] EXCEPT !.parent = parent]])
    /\ UNCHANGED <<files, made, second>>

EditName(c, id, name) ==
    /\ id \in DOMAIN files
    /\ Starts(c, "rename", [pc |-> "move", id |-> id, row |-> [files[id] EXCEPT !.name = name]])
    /\ UNCHANGED <<files, made, second>>

(* A new name with a slash names a directory, made if need be below the     *)
(* parent, which must be there; the file keeps its old name in it.          *)
EditPath(c, id, name) ==
    /\ id \in DOMAIN files
    /\ files[id].parent \in {Root} \cup DOMAIN files
    /\ Starts(c, "path", [pc |-> "into", id |-> id, row |-> files[id], name |-> name])
    /\ UNCHANGED <<files, made, second>>

EditInto(c) ==
    /\ request[c].pc = "into"
    /\ LET dir == mkdir(files, request[c].row.parent, request[c].name, made + 1)
       IN  /\ files' = dir.files
           /\ made' = IF dir.exists THEN made ELSE made + 1
           /\ IF dir.ok
              THEN Goes(c, [pc |-> "move", id |-> request[c].id,
                            row |-> [request[c].row EXCEPT !.parent = dir.id]])
              ELSE Ends(c)
    /\ UNCHANGED <<second, asked>>

EditMove(c) ==
    /\ request[c].pc = "move"
    /\ files' = moveFile(files, request[c].id, request[c].row).files
    /\ Ends(c)
    /\ UNCHANGED <<made, second, asked>>
-----------------------------------------------------------------------------
(* FileMkdir looks at the parent, then makes one directory after another. *)
MkdirGet(c, parent, path) ==
    /\ parent = Root \/ parent \in DOMAIN files
    /\ Starts(c, "mkdir", [pc |-> "mkdir", at |-> parent, path |-> path])
    /\ UNCHANGED <<files, made, second>>

Mkdir(c) ==
    /\ request[c].pc = "mkdir"
    /\ LET dir == mkdir(files, request[c].at, Head(request[c].path), made + 1)
           rest == Tail(request[c].path)
       IN  /\ files' = dir.files
           /\ made' = IF dir.exists THEN made ELSE made + 1
           /\ IF dir.ok /\ rest # <<>>
              THEN Goes(c, [request[c] EXCEPT !.at = dir.id, !.path = rest])
              ELSE Ends(c)
    /\ UNCHANGED <<second, asked>>
-----------------------------------------------------------------------------
(* FileDelete reads the rows.  left is what it has to look at, in any order  *)
(* (a Go map), doomed what it is about to delete for good, trash what it     *)
(* will move to the trash.                                                   *)
DeleteGet(c, ids) ==
    /\ LET rows == [id \in ids \cap DOMAIN files |-> files[id]]
       IN  Starts(c, "delete", [pc |-> "look", rows |-> rows, left |-> DOMAIN rows \ {TrashFileID},
                                doomed |-> {}, trash |-> <<>>, dir |-> Root])
    /\ UNCHANGED <<files, made, second>>

(* ListParents of one file: what is outside the trash will be moved there;   *)
(* in the trash, a directory without plain files below it is doomed.  A      *)
(* missing parent panics, and the request ends.                              *)
DeleteLook(c, id) ==
    /\ request[c].pc = "look"
    /\ request[c].doomed = {}
    /\ id \in request[c].left
    /\ LET parents == ListParents(files, id)
           below == Generations(files, {id})
           on == [request[c] EXCEPT !.left = @ \ {id}]
       IN  IF ~parents.ok THEN Ends(c)
           ELSE IF parents.chain[1] # TrashFileID THEN Goes(c, [on EXCEPT !.trash = Append(@, id)])
           ELSE IF request[c].rows[id].dir /\ below.empty THEN Goes(c, [on EXCEPT !.doomed = below.ids])
           ELSE Goes(c, on)
    /\ UNCHANGED <<files, made, second, asked>>

DeletePurge(c) ==
    /\ request[c].pc = "look"
    /\ request[c].doomed # {}
    /\ files' = Without(files, request[c].doomed)
    /\ Goes(c, [request[c] EXCEPT !.doomed = {}])
    /\ UNCHANGED <<made, second, asked>>

(* newTrash: the trash is saved, and a directory for this second is made;   *)
(* one that is there already is an error here.                              *)
DeleteTrash(c) ==
    /\ request[c].pc = "look"
    /\ request[c].left = {} /\ request[c].doomed = {}
    /\ IF request[c].trash = <<>> THEN Ends(c) /\ UNCHANGED <<files, made>>
       ELSE LET trash == Save(files, TrashFileID, Row(Root, TrashName, TRUE, 0))
                dir == mkdir(trash.files, TrashFileID, Stamps[second], made + 1)
            IN  IF trash.ok /\ dir.ok /\ ~dir.exists
                THEN /\ files' = dir.files
                     /\ made' = made + 1
                     /\ Goes(c, [request[c] EXCEPT !.pc = "put", !.dir = made + 1])
                ELSE /\ files' = trash.files
                     /\ Ends(c)
                     /\ UNCHANGED made
    /\ UNCHANGED <<second, asked>>

(* One file after another, each as it was read, in a transaction of its own; *)
(* the first error ends the request.                                         *)
DeletePut(c) ==
    /\ request[c].pc = "put"
    /\ LET id == Head(request[c].trash)
           rest == Tail(request[c].trash)
           put == moveFile(files, id, [request[c].rows[id] EXCEPT !.parent = request[c].dir])
       IN  /\ files' = put.files
           /\ IF put.ok /\ rest # <<>> THEN Goes(c, [request[c] EXCEPT !.trash = rest]) ELSE Ends(c)
    /\ UNCHANGED <<made, second, asked>>

Tick ==
    /\ second < Len(Stamps)
    /\ second' = second + 1
    /\ UNCHANGED <<files, made, request, asked>>
-----------------------------------------------------------------------------
TreeInit ==
    /\ files \in InitialTrees
    /\ made = Max(DOMAIN files \cup {0})
    /\ second = 1
    /\ request = [c \in Clients |-> Idle]
    /\ asked = 0

(* The pages send the ids they were shown: any that has existed. *)
Ids == (1..made) \cup {TrashFileID}

TreeHandler(c) ==
    \/ EditInto(c) \/ EditMove(c)
    \/ Mkdir(c)
    \/ \E id \in Ids : DeleteLook(c, id)
    \/ DeletePurge(c) \/ DeleteTrash(c) \/ DeletePut(c)

(* A page offers a directory as the target; it may have gone since. *)
Targets == {Root} \cup {id \in 1..made : id \notin DOMAIN files \/ files[id].dir}

TreeRequest(c) ==
    \/ \E id \in 1..made :
          \/ \E parent \in Targets : EditGet(c, id, parent)
          \/ \E name \in Names : EditName(c, id, name) \/ EditPath(c, id, name)
    \/ \E parent \in Targets, a, b \in Names : MkdirGet(c, parent, <<a, b>>)
    \/ \E a, b \in Ids : DeleteGet(c, {a, b})

TreeNext == Tick \/ \E c \in Clients : TreeHandler(c) \/ TreeRequest(c)
-----------------------------------------------------------------------------
(* A row and what it lies in, as far up as there are rows. *)
Ancestors(table, id) ==
    LET above[n \in 0..Cardinality(DOMAIN table)] ==
            IF n = 0 THEN {id} \cap DOMAIN table
            ELSE (UNION {{a, table[a].parent} : a \in above[n - 1]}) \cap DOMAIN table
    IN  above[Cardinality(DOMAIN table)]

(* A user comes to it from the root, opening one directory after another. *)
Reachable(table, id) == \E a \in Ancestors(table, id) : table[a].parent = Root

(* What a step of a handler is about to move, and where. *)
Moving(c) == CASE request[c].pc = "move" -> [id |-> request[c].id, row |-> request[c].row]
               [] request[c].pc = "put"  -> LET id == Head(request[c].trash)
                                            IN  [id |-> id, row |-> [request[c].rows[id] EXCEPT !.parent = request[c].dir]]
Moves(c) == request[c].pc \in {"move", "put"} /\ request'[c] # request[c]

ToNowhere(m) == m.row.parent # Root /\ ~Reachable(files, m.row.parent)
BelowItself(m) == m.id \in Ancestors(files, m.row.parent)
WithAncestor(m) == getByName(files, m.row.parent, m.row.name) \cap (Ancestors(files, m.id) \ {m.id}) # {}

(* a directory of the trash deleted for good after something came into it *)
PurgesTooMuch(c) ==
    /\ request[c].pc = "look" /\ request'[c] # request[c]
    /\ \E id \in DOMAIN files : files[id].parent \in request[c].doomed /\ id \notin request[c].doomed

(* a trim of a plain file that something was moved below (apis/file_edit.go  *)
(* takes any id for a parent)                                                *)
TrimsParent(c) ==
    /\ request[c].pc = "dropfiles" /\ request'[c] # request[c]
    /\ \E id \in DOMAIN files : files[id].parent \in request[c].ids /\ id \notin request[c].ids

Detached(id) == ~files[id].dir /\ Reachable(files, id) /\ id \in DOMAIN files' /\ ~Reachable(files', id)

(* A plain file a user could come to leaves the tree only where the code    *)
(* lets it: a move to a parent that has gone or lies below what is moved    *)
(* (apis/file_edit.go does not look), a merge with a directory it lies in,  *)
(* a purge of the trash, which is no transaction (library/file.go:186 to    *)
(* 209), or a trim of what something was moved below.  Other merges,        *)
(* renames, deletions and trims detach nothing.                             *)
NothingElseDetaches ==
    [][\A id \in DOMAIN files : Detached(id) =>
         \E c \in Clients : \/ PurgesTooMuch(c) \/ TrimsParent(c)
                            \/ Moves(c) /\ LET m == Moving(c)
                                           IN  ToNowhere(m) \/ BelowItself(m) \/ WithAncestor(m)]_treeVars

(* "El gestor de archivos permite organizar tus archivos en un sistema de   *)
(* archivos virtual" (README.md:13): a move to a directory that is there    *)
(* and not below what is moved takes every file along.                      *)
OrganisingKeepsFiles ==
    [][\A id \in DOMAIN files : Detached(id) =>
         \E c \in Clients : \/ PurgesTooMuch(c)
                            \/ Moves(c) /\ LET m == Moving(c) IN ToNowhere(m) \/ BelowItself(m)]_treeVars
=============================================================================
