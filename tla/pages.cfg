\* Each page by itself, with a server that other users change.
CONSTANTS
    Routes = {"calls", "files", "jobs", "log", "tapes", "wait"}
    FieldNumbers = {1, 2, 3, 4, 5, 6, 17, 18, 19, 20, 21, 33, 34, 255}
    Picks = {1, 2, 3}
    Sides = {"left", "right"}
    FolderNames = {1}
    MaxOpens = 2
    OthersMoves <- FileMovesOut
    MaxActs = 1
    FirstTrees <- FolderWithFile
    LastVisits <- OneHasGone
    PageJobs = {1, 2}
    JobCalls = {r1, r2}
    Limit = 1
    Statuses = {"pending", "deleted"}
    MaxChanges = 2
    LogCalls = {l1, l2}
    MaxLog = 2
    MaxStrays = 1
    TapeRoot = 0
    Places = {1, 2, 3, 4}
    Above <- TapeTree
    TapeCalls = {p1, p2}
    Sources = {f1, d1, d2}
    Directories = {d1, d2}
    Drops = {drop1, drop2}
    MaxJobs = 1
SPECIFICATION PagesSpec
INVARIANTS
    MeaningArrives
    RollbackKeepsTheRest
    JobsUpToDate
    LogIsPrefix
    ChainIsAPath
    ListIsTheUsers
PROPERTIES
    ListingsFresh
    PageKeepsAsking
\* users leave a page, and requests of an instance are used up
CHECK_DEADLOCK FALSE
