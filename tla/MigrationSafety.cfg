SPECIFICATION Spec
CONSTANTS
    Calls = {c1, c2, c3}
    Connections = {n1, n2}
    Script <- MCScript
    Needs <- MCNeeds
    Undoes <- MCUndoes
    Broken <- MCBroken
    Releases = {1, 4}
    NoConnection = NoConnection
SYMMETRY Symmetry
INVARIANTS
    TypeOK
    AppliedAtMostOnce
    OkMeansRecorded
    LossIsAccountedFor
    AllOkIsComplete
    SoloIsInOrder
PROPERTY ErrorsAreExplained
CHECK_DEADLOCK FALSE
