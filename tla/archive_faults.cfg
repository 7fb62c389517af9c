\* Every request the pages can send, two restarts at any point, known tapes inserted again, a failing call anywhere.
CONSTANTS
    None = None
    Broken = Broken
    Jobs = {j1}
    Items <- OneSource
    Executors = {e1, e2}
    Clients = {c1}
    Workers = {w1, w2}
    Devices = {d1}
    Tapes = {t1}
    Ops = {"create","copy","wait","finish","display","delete","rollback"}
    MaxFaults = 1
    MaxCrashes = 2
    ReuseTapes = TRUE
SPECIFICATION Spec
SYMMETRY Symmetry
INVARIANTS
    TypeOK
    DevicesAccounted
    SubmittedInLibrary
\* users stop when the executors, workers or tapes of the instance are used up
CHECK_DEADLOCK FALSE
