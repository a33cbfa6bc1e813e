SPECIFICATION Spec
CONSTANTS
    BuiltinWords <- MCBuiltinWords
    PlainLabels <- MCPlainLabels
    OddLabels <- MCOddLabels
    PathWords <- MCPathWords
    Literals <- MCLiterals
    Hashes <- MCHashes
    Numbers = {0, 1, 2, 3}
    LabelOrder <- MCLabelOrder
    Texts <- MCTexts
    Exprs <- MCExprs
INVARIANTS
    PrintedTextReadsBack
    OperatorsBindAsInTheStandard
CHECK_DEADLOCK FALSE
