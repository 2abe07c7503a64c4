SPECIFICATION Spec
CONSTANTS
    Calls = {c1, c2, c3}
    Releases = {1, 2, 3}
SYMMETRY Symmetry
INVARIANTS
    TypeOK
    VersionIsBacked
    OkMeansExecuted
    RepeatsAreExplained
PROPERTY VersionNeverFalls
CHECK_DEADLOCK FALSE
