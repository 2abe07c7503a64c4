SPECIFICATION RFairSpec
CONSTANTS
    Handles = {h1, h2}
    Requests = {r1, r2}
    MaxRows = 2
    Threads = 1
    NoRequest = NoRequest
    NoHandle = NoHandle

INVARIANT BlockedOnWorker
PROPERTIES
    EveryCallReturns
    ConnectionReleased
CHECK_DEADLOCK FALSE
