\* Two users, a report of an archive job and a trim side by side, on trees with trash and with folders to merge.
CONSTANTS
    Clients = {c1, c2}
    Names = {1}
    Stamps <- TwoSeconds
    Ops = {"archive", "trim", "untape", "move", "rename", "path", "mkdir", "delete"}
    MaxRequests = 3
    InitialTrees <- TrashAndFolder
    Barcodes = {1}
    Signs = {1}
    MaxTapes = 2
SPECIFICATION LibrarySpec
PROPERTIES
    FilesAreKept
    PositionsAreKept
    NothingElseDetaches
    TrimEnds
\* users stop when the requests of the instance are used up
CHECK_DEADLOCK FALSE
