SPECIFICATION Spec
CONSTANTS
    Connections = {n1, n2}
    Ops = {o1, o2, o3}
    NoConnection = NoConnection
SYMMETRY Symmetry
INVARIANTS
    TypeOK
    RefusedIsNotCommitted
    LocksAreAccountedFor
    LeaksAreReported
    AckedIsCommitted
CHECK_DEADLOCK FALSE
