SPECIFICATION Spec
CONSTANTS
    LabelOrder <- MCLabels
    Loaded <- MCLoaded
    Width = 3
    BuiltinNames <- MCBuiltinNames
    Jobs <- MCJobs
    MaxCalls = 3
INVARIANTS
    ReadsBackWhatWasWritten
    StaticTypesFit
    PrintedValueIsTheSame
    CallsCompose
    RefusalsStand
    RefuseRatherThanTruncate
CHECK_DEADLOCK FALSE
