\* The contract of a job and its liveness, two attempts on one drive, saves that do not fail.
CONSTANTS
    None = None
    Broken = Broken
    Jobs = {j1}
    Items <- OneSource
    Executors = {e1, e2}
    Clients = {c1, c2}
    Workers = {w1, w2}
    Devices = {d1}
    Tapes = {t1, t2}
    Ops = {"copy", "display"}
    MaxFaults = 0
    MaxCrashes = 0
    ReuseTapes = FALSE
SPECIFICATION FairSpec
INVARIANTS
    OneWorkerPerExecutor
    OneWorkerPerJob
    LibraryIsOnTape
PROPERTIES
    SubmittedStays
    CompletedIsArchived
    KeepsContract
    ProcessingEnds
    DeviceComesBack
\* users stop when the executors, workers or tapes of the instance are used up
CHECK_DEADLOCK FALSE
