SPECIFICATION Spec
CONSTANTS
    Handles = {h1, h2}
    Requests = {r1, r2}
    MaxRows = 1
    NoRequest = NoRequest
    NoHandle = NoHandle

INVARIANT StreamEndsComplete
CHECK_DEADLOCK FALSE
