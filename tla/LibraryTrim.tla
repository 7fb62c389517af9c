---------------------------- MODULE LibraryTrim -----------------------------
(***************************************************************************)
(* Tapes and positions of the library next to its files: CreateTape and    *)
(* TrimFiles at the end of an archive job, DeleteTapes, and Trim           *)
(* (library/tape.go, file.go, library.go).  A position links a file on a   *)
(* tape to a file of the tree, 0 until TrimFiles finds or makes one.  None *)
(* of it is a transaction; the steps are the queries.  A batch holds all   *)
(* positions of an instance.                                               *)
(***************************************************************************)
EXTENDS FileLibrary

CONSTANTS
    Barcodes,       \* of cartridges, numbers
    Signs,          \* signatures of what is archived, numbers
    MaxTapes

ASSUME TrimAssumption == Barcodes \subseteq Nat /\ Signs \subseteq Nat

VARIABLES
    tapes,          \* id -> barcode
    tapesMade,      \* tape ids given so far
    positions,      \* id -> [tape, path, sign, file]
    posMade

trimVars == <<treeVars, tapes, tapesMade, positions, posMade>>
tapeVars == <<tapes, tapesMade, positions, posMade>>

Unforged(barcode) == 50 + barcode       \* the directory "Unforged/<barcode>"

(* Mutants, never used by the model: what a plausible bug would make of the *)
(* definition of the same name below.                                       *)
MutDropped == {p \in DOMAIN positions : positions[p].file \notin DOMAIN files}
MutUnlinked == DOMAIN positions
-----------------------------------------------------------------------------
(* makeTape registers a tape with what it holds, then calls TrimFiles.  The  *)
(* barcode is unique among the tapes there are.                              *)
CreateTape(c, barcode, sign) ==
    /\ tapesMade < MaxTapes
    /\ \A t \in DOMAIN tapes : tapes[t] # barcode
    /\ Starts(c, "archive", [pc |-> "read"])
    /\ tapesMade' = tapesMade + 1
    /\ posMade' = posMade + 1
    /\ tapes' = With(tapes, tapesMade', barcode)
    /\ positions' = With(positions, posMade', [tape |-> tapesMade', path |-> 1, sign |-> sign, file |-> 0])
    /\ UNCHANGED <<files, made, second>>

DeleteTapes(c, t) ==
    /\ t \in DOMAIN tapes
    /\ "untape" \in Ops /\ request[c] = Idle /\ asked < MaxRequests
    /\ asked' = asked + 1
    /\ tapes' = Without(tapes, {t})
    /\ UNCHANGED <<files, made, second, request, tapesMade, positions, posMade>>
-----------------------------------------------------------------------------
(* TrimFiles reads the positions without a file; it ends when there is none. *)
(* Of two with one signature the later stays in the map.                     *)
Unlinked == {p \in DOMAIN positions : positions[p].file = 0}
Latest(batch) == {p \in batch : \A q \in batch : positions[q].sign = positions[p].sign => q <= p}

TrimRead(c) ==
    /\ request[c].pc = "read"
    /\ IF Unlinked = {} THEN Ends(c)
       ELSE Goes(c, [pc |-> "match", batch |-> [p \in Latest(Unlinked) |-> positions[p]]])
    /\ UNCHANGED <<files, made, second, asked, tapeVars>>

(* It reads the files with these signatures, *)
TrimMatch(c) ==
    /\ request[c].pc = "match"
    /\ LET batch == request[c].batch
           Same(p) == {id \in DOMAIN files : ~files[id].dir /\ files[id].sign = batch[p].sign}
       IN  Goes(c, [pc |-> "link", batch |-> batch,
                    found |-> [p \in {q \in DOMAIN batch : Same(q) # {}} |-> Min(Same(p))]])
    /\ UNCHANGED <<files, made, second, asked, tapeVars>>

(* saves each position with its file: the row it read, whether or not it is *)
(* still there,                                                             *)
TrimLink(c, p) ==
    /\ request[c].pc = "link"
    /\ p \in DOMAIN request[c].found
    /\ positions' = With(positions, p, [request[c].batch[p] EXCEPT !.file = request[c].found[p]])
    /\ Goes(c, [request[c] EXCEPT !.found = Without(@, {p}), !.batch = Without(@, {p})])
    /\ UNCHANGED <<files, made, second, asked, tapes, tapesMade, posMade>>

(* then reads the tapes of the others, *)
TrimTapes(c) ==
    /\ request[c].pc = "link"
    /\ request[c].found = <<>>
    /\ Goes(c, [pc |-> "create", batch |-> request[c].batch, tapes |-> tapes])
    /\ UNCHANGED <<files, made, second, asked, tapeVars>>

(* and makes a directory and a file for each whose tape is there, in any     *)
(* order (a Go map); a directory it cannot make is an error, and so is a     *)
(* file of that name.                                                        *)
Remaining(c) == {p \in DOMAIN request[c].batch : request[c].batch[p].tape \in DOMAIN request[c].tapes}

TrimMkdir(c, p) ==
    /\ request[c].pc = "create"
    /\ p \in Remaining(c)
    /\ LET dir == mkdir(files, Root, Unforged(request[c].tapes[request[c].batch[p].tape]), made + 1)
       IN  /\ files' = dir.files
           /\ made' = IF dir.exists THEN made ELSE made + 1
           /\ IF dir.ok THEN Goes(c, [pc |-> "new", batch |-> request[c].batch, tapes |-> request[c].tapes,
                                      p |-> p, dir |-> dir.id])
              ELSE Ends(c)
    /\ UNCHANGED <<second, asked, tapeVars>>

TrimCreate(c) ==
    /\ request[c].pc = "new"
    /\ LET posi == request[c].batch[request[c].p]
       IN  IF getByName(files, request[c].dir, posi.path) # {}
           THEN Ends(c) /\ UNCHANGED <<files, made>>
           ELSE /\ files' = With(files, made + 1, Row(request[c].dir, posi.path, FALSE, posi.sign))
                /\ made' = made + 1
                /\ Goes(c, [pc |-> "create", tapes |-> request[c].tapes,
                            batch |-> Without(request[c].batch, {request[c].p})])
    /\ UNCHANGED <<second, asked, tapeVars>>

TrimAgain(c) ==
    /\ request[c].pc = "create"
    /\ Remaining(c) = {}
    /\ Goes(c, [pc |-> "read"])
    /\ UNCHANGED <<files, made, second, asked, tapeVars>>
-----------------------------------------------------------------------------
(* LibraryTrim, as the page sends it: positions of tapes that have gone,     *)
Dropped == {p \in DOMAIN positions : positions[p].tape \notin DOMAIN tapes}

TrimScan(c) ==
    /\ Starts(c, "trim", [pc |-> "drop", ids |-> Dropped])
    /\ UNCHANGED <<files, made, second, tapeVars>>

TrimDrop(c) ==
    /\ request[c].pc = "drop"
    /\ positions' = Without(positions, request[c].ids)
    /\ Goes(c, [pc |-> "scan"])
    /\ UNCHANGED <<files, made, second, asked, tapes, tapesMade, posMade>>

(* then plain files without a position. *)
TrimScanFiles(c) ==
    /\ request[c].pc = "scan"
    /\ Goes(c, [pc |-> "dropfiles",
                ids |-> {id \in DOMAIN files : ~files[id].dir /\ \A p \in DOMAIN positions : positions[p].file # id}])
    /\ UNCHANGED <<files, made, second, asked, tapeVars>>

TrimDropFiles(c) ==
    /\ request[c].pc = "dropfiles"
    /\ files' = Without(files, request[c].ids)
    /\ Ends(c)
    /\ UNCHANGED <<made, second, asked, tapeVars>>
-----------------------------------------------------------------------------
TrimInit ==
    /\ TreeInit
    /\ tapes = <<>> /\ tapesMade = 0
    /\ positions = <<>> /\ posMade = 0

TrimHandler(c) ==
    \/ TrimRead(c) \/ TrimMatch(c) \/ TrimCreate(c) \/ TrimTapes(c) \/ TrimAgain(c)
    \/ \E p \in 1..posMade : TrimLink(c, p) \/ TrimMkdir(c, p)
    \/ TrimDrop(c) \/ TrimScanFiles(c) \/ TrimDropFiles(c)

TrimNext ==
    \/ TreeNext /\ UNCHANGED tapeVars
    \/ \E c \in Clients :
          \/ TrimHandler(c) \/ TrimScan(c)
          \/ \E barcode \in Barcodes, sign \in Signs : CreateTape(c, barcode, sign)
          \/ \E t \in 1..tapesMade : DeleteTapes(c, t)

(* A handler that has begun goes on: nothing in it waits. *)
LibrarySpec == TrimInit /\ [][TrimNext]_trimVars /\ \A c \in Clients : WF_trimVars(TrimHandler(c))
-----------------------------------------------------------------------------
(* Whatever runs beside it, a plain file is taken from the table only by the *)
(* trim a user asked for, which found it without a position; moves, merges  *)
(* and deletions keep every one (library/file.go:132-236).                   *)
FilesAreKept ==
    [][\A id \in DOMAIN files : ~files[id].dir /\ id \notin DOMAIN files' =>
         \E c \in Clients : request[c].pc = "dropfiles" /\ id \in request[c].ids]_trimVars

(* Trimming never takes the position of a tape that is in the library: it is *)
(* all that says where a file lies (library/library.go:103-140).             *)
PositionsAreKept ==
    [][\A p \in DOMAIN positions : p \notin DOMAIN positions' => positions[p].tape \notin DOMAIN tapes]_trimVars

(* TrimFiles ends, unless the tape of a position without a file has been     *)
(* deleted: then it reads the same positions for ever (library/file.go:498). *)
TrimEnds ==
    \A c \in Clients : request[c].pc = "read" ~>
        \/ request[c] = Idle
        \/ \E p \in Unlinked : positions[p].tape \notin DOMAIN tapes
=============================================================================
