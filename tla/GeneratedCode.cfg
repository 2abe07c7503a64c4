SPECIFICATION Spec
CONSTANTS
    Programs <- MCPrograms
    Samples <- MCSamples
    MaxRows = 1
    Keywords <- MCKeywords
    Prelude <- MCPrelude
INVARIANTS
    TypeOK
    MismatchIsExplained
    ReadsWhatWasWritten
    NoDanglingReference
    MigrateMakesTheSchema
    LetsAreAccountedFor
    PlainProgramsCompile
CHECK_DEADLOCK FALSE
