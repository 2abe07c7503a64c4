SPECIFICATION TFairSpec
CONSTANTS
    Calls = {c1, c2}
    Connections = {n1, n2}
    Script <- MCScript
    Needs <- MCNeeds
    Undoes <- MCUndoes
    Broken <- MCBroken
    Releases = {2}
    NoConnection = NoConnection
    MaxTransactions = 1
INVARIANTS
    DuplicatesAreMixed
    LossIsAccountedForInFile
    OkIsDurable
PROPERTY EveryCallEnds
CHECK_DEADLOCK FALSE
