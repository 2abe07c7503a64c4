SPECIFICATION Spec
CONSTANTS
    Handles = {h1, h2}
    Requests = {r1, r2, r3}
    MaxRows = 1
    NoRequest = NoRequest
    NoHandle = NoHandle
SYMMETRY Symmetry
INVARIANTS
    TypeOK
    ServedInSendOrder
    AnswersAreTruthful
    ClosedOnlyAfterPanic
    GracefulDrain
    CloseIsLast
    NobodyIsStranded
PROPERTIES
    RepliesAreFinal
    ImplementsService
CHECK_DEADLOCK FALSE
