SPECIFICATION Spec
CONSTANTS
    Programs <- Orders
    Samples <- MCSamples
    MaxRows = 1
    Keywords <- MCKeywords
    Prelude <- MCPrelude
INVARIANTS
    EveryLetBecomesAFunction
CHECK_DEADLOCK FALSE
