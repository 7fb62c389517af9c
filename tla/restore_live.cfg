\* The contract of a job and its liveness, with saves that do not fail.
CONSTANTS
    None = None
    Broken = Broken
    Foreign = Foreign
    Jobs = {j1}
    Items <- TwoTapesItems
    Lists <- TwoTapes
    Executors = {e1}
    Clients = {c1}
    Workers = {w1, w2}
    Devices = {d1, d2}
    Ops = {"copy", "display"}
    MaxFaults = 0
    MaxCrashes = 0
SPECIFICATION FairSpec
PROPERTIES
    CompletedIsRestored
    KeepsContract
    ProcessingEnds
\* users stop when the executors or workers of the instance are used up
CHECK_DEADLOCK FALSE
