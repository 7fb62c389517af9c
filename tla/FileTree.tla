------------------------------ MODULE FileTree ------------------------------
(***************************************************************************)
(* The table of files of the library (library/file.go): a row names its    *)
(* parent, so the rows make a tree for as long as nobody moves a directory *)
(* below itself.  Every operator maps one table to the next, as one        *)
(* transaction does; [ok |-> FALSE] is an error, which leaves the table    *)
(* alone.  Times and sizes are left out.                                   *)
(***************************************************************************)
EXTENDS Integers, Sequences, SequencesExt, FiniteSets, FiniteSetsExt, TLC

Root == 0
TrashFileID == -1
TrashName == 0          \* ".Trash"; the other names are positive numbers

(* A row; sign is the signature, hash and size, of a plain file. *)
Row(parent, name, dir, sign) == [parent |-> parent, name |-> name, dir |-> dir, sign |-> sign]

Done(files) == [ok |-> TRUE, files |-> files]
Fails(files) == [ok |-> FALSE, files |-> files]

list(files, parent) ==
    SetToSortSeq({id \in DOMAIN files : files[id].parent = parent},
                 LAMBDA a, b : files[a].name < files[b].name)
getByName(files, parent, name) ==
    {id \in DOMAIN files : files[id].parent = parent /\ files[id].name = name}

(* Save updates the row, or inserts it when it has gone meanwhile; a name is *)
(* unique below a parent (the index idx_parent_name).                        *)
Save(files, id, row) ==
    IF getByName(files, row.parent, row.name) \ {id} # {} THEN Fails(files)
    ELSE Done([i \in DOMAIN files \cup {id} |-> IF i = id THEN row ELSE files[i]])
With(files, id, row) == [i \in DOMAIN files \cup {id} |-> IF i = id THEN row ELSE files[i]]
Without(files, ids) == [i \in DOMAIN files \ ids |-> files[i]]

(* Mutants of moveFile, never used by the model: a merge that forgets the    *)
(* children, and a move that replaces what has the name.                     *)
MutForgets(files, id, row) ==
    LET there == getByName(files, row.parent, row.name)
    IN  IF there = {} THEN Save(files, id, row)
        ELSE IF row.dir /\ \A o \in there : files[o].dir THEN Done(Without(files, {id})) ELSE Fails(files)
MutReplaces(files, id, row) == Save(Without(files, getByName(files, row.parent, row.name) \ {id}), id, row)
-----------------------------------------------------------------------------
(* A directory that meets one of its name is merged with it, child by child *)
(* in the order of their names, and deleted.  The one it meets may be the    *)
(* directory itself.  calls is the stack of moveFile, which calls itself for *)
(* each child: a call has yet to look for the name, or moves the children it *)
(* has listed; left are those it has not come to, with the parent they get.  *)
Looks(id, row) == [at |-> "name", id |-> id, row |-> row, left |-> <<>>]
Merges(id, row, left) == [at |-> "children", id |-> id, row |-> row, left |-> left]
Contents(files, id, parent) ==
    [c \in {c \in DOMAIN files : files[c].parent = id} |-> [files[c] EXCEPT !.parent = parent]]

MoveStep(s) ==
    LET call == Head(s.calls)
        outer == Tail(s.calls)
        there == getByName(s.files, call.row.parent, call.row.name)
        origin == CHOOSE o \in there : TRUE
        child == CHOOSE c \in DOMAIN call.left :
                    \A d \in DOMAIN call.left : call.left[c].name <= call.left[d].name
    IN  IF ~s.ok \/ s.calls = <<>> THEN s
        ELSE IF call.at = "name" THEN
            IF there = {} THEN [s EXCEPT !.files = With(@, call.id, call.row), !.calls = outer]
            ELSE IF s.files[origin].dir /\ call.row.dir
            THEN [s EXCEPT !.calls = <<Merges(call.id, call.row, Contents(s.files, call.id, origin))>> \o outer]
            ELSE [s EXCEPT !.ok = FALSE]
        ELSE IF DOMAIN call.left = {} THEN [s EXCEPT !.files = Without(@, {call.id}), !.calls = outer]
        ELSE [s EXCEPT !.calls = <<Looks(child, call.left[child]),
                                   Merges(call.id, call.row, Without(call.left, {child}))>> \o outer]

(* Only a cycle of parents keeps it going longer. *)
MaxSteps(files) == LET n == Cardinality(DOMAIN files) IN 3 * (n + 1) * (n + 1)

(* A set of one state after each number of steps. *)
moveFile(files, id, row) ==
    LET run[n \in 0..MaxSteps(files)] ==
            IF n = 0 THEN {[ok |-> TRUE, files |-> files, calls |-> <<Looks(id, row)>>]}
            ELSE {MoveStep(s) : s \in run[n - 1]}
        end == CHOOSE s \in run[MaxSteps(files)] : TRUE
    IN  IF end.ok /\ end.calls = <<>> THEN Done(end.files) ELSE Fails(files)

(* One directory of a path: the one that is there, or a new one. *)
mkdir(files, parent, name, new) ==
    LET there == getByName(files, parent, name)
    IN  IF there = {}
        THEN [ok |-> TRUE, exists |-> FALSE, id |-> new,
              files |-> With(files, new, Row(parent, name, TRUE, 0))]
        ELSE [ok |-> \A id \in there : files[id].dir, exists |-> TRUE,
              id |-> CHOOSE id \in there : TRUE, files |-> files]

(* The way up from a file, outermost first; 32 steps at most, and an error   *)
(* when a parent has gone.                                                   *)
Climbs(files, way) ==
    IF way.at = Root THEN way
    ELSE IF way.at \notin DOMAIN files THEN [way EXCEPT !.ok = FALSE]
    ELSE [way EXCEPT !.chain = <<way.at>> \o @, !.at = files[way.at].parent]

ListParents(files, id) ==
    LET up[n \in 0..32] ==
            IF n = 0 THEN {[ok |-> TRUE, chain |-> <<>>, at |-> id]}
            ELSE {Climbs(files, way) : way \in up[n - 1]}
    IN  CHOOSE way \in up[32] : TRUE

(* All below a directory, generation by generation: the directories that may *)
(* be deleted for good, if no plain file is among what is below.             *)
Generations(files, current) ==
    LET generation[n \in 0..Cardinality(DOMAIN files)] ==
            IF n = 0 THEN current
            ELSE UNION {{id \in DOMAIN files : files[id].parent = p} : p \in generation[n - 1]}
        below == UNION {generation[n] : n \in 1..Cardinality(DOMAIN files)}
    IN  [empty |-> \A id \in below : files[id].dir, ids |-> current \cup below]
=============================================================================
