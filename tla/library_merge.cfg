\* One user makes folders and moves things.
CONSTANTS
    Clients = {c1}
    Names = {1, 2}
    Stamps <- TwoSeconds
    Ops = {"move", "mkdir"}
    MaxRequests = 3
    InitialTrees <- FolderWithFile
    Barcodes = {1}
    Signs = {1}
    MaxTapes = 1
SPECIFICATION LibrarySpec
PROPERTIES
    OrganisingKeepsFiles
\* users stop when the requests of the instance are used up
CHECK_DEADLOCK FALSE
