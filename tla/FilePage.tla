------------------------------ MODULE FilePage ------------------------------
(***************************************************************************)
(* The page of files (useDualSide, useFileBrowser and FileBrowser in       *)
(* frontend/src/pages/file.tsx): two browsers of one tree.  Opening a      *)
(* folder takes two requests, fileGet and fileListParents, which the       *)
(* server answers at different times; the tree changes meanwhile, by this  *)
(* page and by others.  The library's side is that of FileTree, a request  *)
(* in one step (FileLibrary has the steps).                                *)
(***************************************************************************)
EXTENDS FileTree

CONSTANTS
    Sides,          \* the browsers, "left" and "right"
    FolderNames,    \* names a user may give, numbers
    MaxOpens,       \* requests under way that the timer and the user add to
    OthersMoves,    \* what others do, each once: <<file, where to>>
    MaxActs,        \* bounds what the user does, and lost requests
    FirstTrees,     \* tables the library may start with
    LastVisits      \* side -> folder, as earlier visits may have left it

VARIABLES
    visit,          \* "new", "open" or "left": the page is mounted while open
    rows,           \* the library's table: id -> row
    lastID,         \* the last id it has given
    listing,        \* side -> what is listed, None before the first answer
    folderChain,    \* side -> ids of the path shown
    storedID,       \* side -> the folder of the last visit (localStorage)
    opens,          \* openFolder calls that await their answers
    edits,          \* edits under way: what each has yet to ask the server for
    acts,           \* what the user has done so far, and requests lost
    others          \* what others have yet to do

filesVars == <<visit, rows, lastID, listing, folderChain, storedID, opens, edits, acts, others>>

None == <<>>
currentID(side) == folderChain[side][Len(folderChain[side])]

Children(id) == {[id |-> c, name |-> rows[c].name, dir |-> rows[c].dir] : c \in ToSet(list(rows, id))}

(* openFolder; at the first visit a failure leads to the root. *)
OpenFolder(side, id, retry) == [side |-> side, id |-> id, retry |-> retry, get |-> None, parents |-> None]

(* Both browsers open what they show again, when something was edited and   *)
(* every 10 s.  MutRefreshAll, never used by the model, forgets one.        *)
MutRefreshAll == {OpenFolder("left", currentID("left"), FALSE)}
refreshAll == {OpenFolder(side, currentID(side), FALSE) : side \in Sides}

Acts == acts < MaxActs /\ acts' = acts + 1
HasRoomFor(n) == Cardinality(opens) + n <= MaxOpens
-----------------------------------------------------------------------------
FilesInit ==
    /\ visit = "new"
    /\ rows \in FirstTrees
    /\ lastID = Max(DOMAIN rows \cup {0})
    /\ listing = [side \in Sides |-> <<>>]
    /\ folderChain = [side \in Sides |-> <<Root>>]
    /\ storedID \in LastVisits
    /\ opens = {} /\ edits = {} /\ acts = 0 /\ others = OthersMoves

MountFiles ==
    /\ visit = "new"
    /\ visit' = "open"
    /\ opens' = {OpenFolder(side, storedID[side], TRUE) : side \in Sides}
    /\ UNCHANGED <<rows, lastID, listing, folderChain, storedID, edits, acts, others>>

(* The interval is cleared; what is under way is not. *)
LeaveFiles ==
    /\ visit = "open"
    /\ visit' = "left"
    /\ UNCHANGED <<rows, lastID, listing, folderChain, storedID, opens, edits, acts, others>>

UserOpens(side, id) ==
    /\ visit = "open" /\ Acts /\ HasRoomFor(1)
    /\ \/ id \in ToSet(folderChain[side])
       \/ listing[side] # None /\ \E child \in listing[side][1] : child.id = id /\ child.dir
    /\ opens' = opens \cup {OpenFolder(side, id, FALSE)}
    /\ UNCHANGED <<visit, rows, lastID, listing, folderChain, storedID, edits, others>>

(* setInterval *)
RefreshTimer ==
    /\ visit = "open"
    /\ HasRoomFor(Cardinality(Sides))
    /\ opens' = opens \cup refreshAll
    /\ UNCHANGED <<visit, rows, lastID, listing, folderChain, storedID, edits, acts, others>>

(* FileGet finds children of a folder that has gone too; FileListParents     *)
(* does not find the folder.                                                 *)
ServeGet(o) ==
    /\ o \in opens /\ o.get = None
    /\ opens' = (opens \ {o}) \cup {[o EXCEPT !.get = <<Children(o.id)>>]}
    /\ UNCHANGED <<visit, rows, lastID, listing, folderChain, storedID, edits, acts, others>>

GivesUp(o) == opens' = (opens \ {o}) \cup (IF o.retry THEN {OpenFolder(o.side, Root, FALSE)} ELSE {})

ServeParents(o) ==
    /\ o \in opens /\ o.parents = None
    /\ LET parents == ListParents(rows, o.id)
       IN  IF parents.ok THEN opens' = (opens \ {o}) \cup {[o EXCEPT !.parents = <<parents.chain>>]}
           ELSE GivesUp(o)
    /\ UNCHANGED <<visit, rows, lastID, listing, folderChain, storedID, edits, acts, others>>

LoseOpen(o) ==
    /\ o \in opens /\ Acts
    /\ GivesUp(o)
    /\ UNCHANGED <<visit, rows, lastID, listing, folderChain, storedID, edits, others>>

(* Both answers are here; the place is remembered though the page has been *)
(* left.                                                                   *)
ShowFolder(o) ==
    /\ o \in opens /\ o.get # None /\ o.parents # None
    /\ IF visit = "open"
       THEN /\ listing' = [listing EXCEPT ![o.side] = o.get]
            /\ folderChain' = [folderChain EXCEPT ![o.side] = <<Root>> \o o.parents[1]]
       ELSE UNCHANGED <<listing, folderChain>>
    /\ storedID' = [storedID EXCEPT ![o.side] = o.id]
    /\ opens' = opens \ {o}
    /\ UNCHANGED <<visit, rows, lastID, edits, acts, others>>
-----------------------------------------------------------------------------
(* What the server makes of an edit: [ok, files, made]. *)
Made(change, made) == [ok |-> change.ok, files |-> change.files, made |-> made]

(* FileDelete of one file: a directory of the trash goes for good when no   *)
(* plain file is below it, what lies elsewhere goes to the trash.           *)
Deleted(id) ==
    LET up == ListParents(rows, id)
        below == Generations(rows, {id})
        trash == mkdir((TrashFileID :> Row(Root, TrashName, TRUE, 0)) @@ rows,
                       TrashFileID, 100 + lastID, lastID + 1)
    IN  IF id \notin DOMAIN rows \ {TrashFileID} THEN Done(rows)
        ELSE IF ~up.ok THEN Fails(rows)
        ELSE IF up.chain[1] # TrashFileID
        THEN moveFile(trash.files, id, [rows[id] EXCEPT !.parent = trash.id])
        ELSE IF rows[id].dir /\ below.empty THEN Done(Without(rows, below.ids))
        ELSE Done(rows)

Edited(e) ==
    CASE e.op = "delete" -> Made(Deleted(e.id), lastID + 1)
      [] e.op = "mkdir" /\ e.id \in {Root} \cup DOMAIN rows ->
            Made(mkdir(rows, e.id, e.name, lastID + 1), lastID + 1)
      [] e.op = "rename" /\ e.id \in DOMAIN rows ->
            Made(moveFile(rows, e.id, [rows[e.id] EXCEPT !.name = e.name]), lastID)
      [] e.op = "move" /\ e.id \in DOMAIN rows ->
            Made(moveFile(rows, e.id, [rows[e.id] EXCEPT !.parent = e.to]), lastID)
      [] OTHER -> Made(Fails(rows), lastID)

Listed(side) == IF listing[side] = None THEN {} ELSE {child.id : child \in listing[side][1]}

(* The user creates a folder where the side stands, renames or deletes an   *)
(* entry, or drags entries to a folder of either side, one request each.    *)
UserEdits(side) ==
    /\ visit = "open" /\ Acts /\ edits = {}
    /\ \/ \E name \in FolderNames : edits' = {<<[op |-> "mkdir", id |-> currentID(side), name |-> name]>>}
       \/ \E id \in Listed(side), name \in FolderNames : edits' = {<<[op |-> "rename", id |-> id, name |-> name]>>}
       \/ \E id \in Listed(side) : edits' = {<<[op |-> "delete", id |-> id]>>}
       \/ \E other \in Sides, a, b \in Listed(side) :
             edits' = {IF a = b THEN <<[op |-> "move", id |-> a, to |-> currentID(other)]>>
                       ELSE <<[op |-> "move", id |-> a, to |-> currentID(other)],
                              [op |-> "move", id |-> b, to |-> currentID(other)]>>}
    /\ UNCHANGED <<visit, rows, lastID, listing, folderChain, storedID, opens, others>>

(* One request after another; an error ends the edit without a refresh. *)
ServeEdit(todo) ==
    /\ todo \in edits /\ todo # <<>>
    /\ LET change == Edited(Head(todo))
       IN  /\ rows' = change.files
           /\ lastID' = change.made
           /\ edits' = (edits \ {todo}) \cup (IF change.ok THEN {Tail(todo)} ELSE {})
    /\ UNCHANGED <<visit, listing, folderChain, storedID, opens, acts, others>>

EditDone ==
    /\ <<>> \in edits
    /\ edits' = edits \ {<<>>}
    /\ opens' = IF visit = "open" THEN opens \cup refreshAll ELSE opens
    /\ UNCHANGED <<visit, rows, lastID, listing, folderChain, storedID, acts, others>>

(* Someone else moves a file or a folder. *)
OthersEdit(move) ==
    /\ move \in others
    /\ others' = others \ {move}
    /\ rows' = moveFile(rows, move[1], [rows[move[1]] EXCEPT !.parent = move[2]]).files
    /\ UNCHANGED <<visit, lastID, listing, folderChain, storedID, opens, edits, acts>>

FilesNext ==
    \/ MountFiles \/ LeaveFiles \/ RefreshTimer \/ EditDone
    \/ \E side \in Sides : UserEdits(side) \/ \E id \in TrashFileID..lastID : UserOpens(side, id)
    \/ \E o \in opens : ServeGet(o) \/ ServeParents(o) \/ LoseOpen(o) \/ ShowFolder(o)
    \/ \E todo \in edits : ServeEdit(todo)
    \/ \E m \in OthersMoves : OthersEdit(m)

(* The interval fires, and requests of a side are answered. *)
FilesFairness ==
    /\ WF_filesVars(RefreshTimer)
    /\ \A side \in Sides :
          /\ WF_filesVars(\E o \in opens : o.side = side /\ (ServeGet(o) \/ ServeParents(o)))
          /\ WF_filesVars(\E o \in opens : o.side = side /\ ShowFolder(o))
-----------------------------------------------------------------------------
(* Once the library is left alone, each browser comes to show its folder as *)
(* it is, and keeps doing so, whatever answers were under way; a folder that *)
(* has gone, or whose way up has, stays as it was.                           *)
ListingsFresh ==
    <>[](visit = "open" => \A side \in Sides :
            \/ listing[side] = <<Children(currentID(side))>>
            \/ ~ListParents(rows, currentID(side)).ok)
=============================================================================
