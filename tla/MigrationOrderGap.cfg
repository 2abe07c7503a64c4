SPECIFICATION Spec
CONSTANTS
    Calls = {c1, c2}
    Connections = {n1}
    Script <- MCTables
    Needs <- MCUnrelated
    Undoes <- MCUnrelated
    Broken <- MCSound
    Releases = {2}
    NoConnection = NoConnection
SYMMETRY Symmetry
INVARIANT TopToBottom
CHECK_DEADLOCK FALSE
