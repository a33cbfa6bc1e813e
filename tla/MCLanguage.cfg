SPECIFICATION Spec
CONSTANTS
    LabelOrder <- MCLabels
    Loaded <- MCLoaded
    Programs <- MCPrograms
    Width = 5
    BuiltinNames <- MCBuiltinNames
INVARIANTS
    CheckerNeverPanics
    WellTypedDoesNotGetStuck
    NormalFormsMeanTheSame
    ResultsAreTheirMeaning
    CachedFormIsTheSame
    AssertionsDecideEquality
CHECK_DEADLOCK FALSE
