SPECIFICATION Spec
CONSTANTS
    LabelOrder <- MCLabels
    Loaded <- MCLoaded
    Programs <- MCMerges
    Width = 5
    BuiltinNames <- MCBuiltinNames
INVARIANT TypesMatchThemselves
CHECK_DEADLOCK FALSE
