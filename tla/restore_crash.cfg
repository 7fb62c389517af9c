\* A restart at any point, and dispatches sent by hand.
CONSTANTS
    None = None
    Broken = Broken
    Foreign = Foreign
    Jobs = {j1}
    Items <- WideTapeItems
    Lists <- WideTape
    Executors = {e1, e2}
    Clients = {c1}
    Workers = {w1, w2}
    Devices = {d1, d2}
    Ops = {"copy", "wait", "finish"}
    MaxFaults = 1
    MaxCrashes = 1
SPECIFICATION Spec
SYMMETRY Symmetry
INVARIANTS
    RestoredIsVerified
    RestoredTapeIsWhole
PROPERTIES
    RestoredStays
\* users stop when the executors or workers of the instance are used up
CHECK_DEADLOCK FALSE
