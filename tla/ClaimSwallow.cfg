SPECIFICATION Spec
CONSTANTS
    LabelOrder <- MCLabels
    Loaded <- MCLoaded
    Width = 3
    BuiltinNames <- MCBuiltinNames
    Jobs <- MCOversized
    MaxCalls = 3
INVARIANT RefuseRatherThanTruncate
CHECK_DEADLOCK FALSE
