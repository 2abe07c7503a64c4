SPECIFICATION Spec
CONSTANTS
    Calls = {c1, c2}
    Connections = {n1}
    Script <- MCScript
    Needs <- MCNeeds
    Undoes <- MCUndoes
    Broken <- MCBroken
    Releases = {2, 4}
    NoConnection = NoConnection
SYMMETRY Symmetry
INVARIANT OkMeansMigrated
CHECK_DEADLOCK FALSE
