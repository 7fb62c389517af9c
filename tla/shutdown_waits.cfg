\* A signal at any point, dispatches before and after it.
CONSTANTS
    Handlers = {h1, h2}
    Workers = {w1, w2, w3}
SPECIFICATION FairSpec
INVARIANTS
    EarlyWorkEnds
PROPERTIES
    SignalEndsServer
\* the process has exited
CHECK_DEADLOCK FALSE
