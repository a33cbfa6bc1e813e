SPECIFICATION Spec
CONSTANTS
    Width = 5
    BuiltinNames <- MCBuiltins
    LabelOrder <- MCLabels
    Exprs <- MCExprs
    ForeignFiles <- MCForeign
INVARIANTS
    ReadsBack
    ShortFilesAreRefused
    ReencodingIsStable
CHECK_DEADLOCK FALSE
