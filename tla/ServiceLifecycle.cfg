SPECIFICATION FairSpec
CONSTANTS
    Execs = {e1}
    Closers = {c1, c2}
    Handlers = {h1}
    Server = Server
    MaxRuns = 2
INVARIANTS
    StoreClosedLast
    RequestsSeeStore
PROPERTIES
    NoAddAfterWait
    ShutdownCompletes
CHECK_DEADLOCK FALSE
