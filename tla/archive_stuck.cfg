\* A failing save in makeTapeFinished leaves the job PROCESSING.
CONSTANTS
    None = None
    Broken = Broken
    Jobs = {j1}
    Items <- OneSource
    Executors = {e1}
    Clients = {c1}
    Workers = {w1}
    Devices = {d1}
    Tapes = {t1, t2}
    Ops = {"copy"}
    MaxFaults = 1
    MaxCrashes = 0
    ReuseTapes = FALSE
SPECIFICATION FairSpec
PROPERTIES
    ProcessingEnds
\* users stop when the executors, workers or tapes of the instance are used up
CHECK_DEADLOCK FALSE
