SPECIFICATION Spec
CONSTANTS
    Labels = {"x", "_"}
    Underscore = "_"
    Indices = {0, 1, 2}
    MaxNodes = 3
INVARIANTS
    ScopesAgree
    NamesComeBack
PROPERTIES
    AlphaKeepsMeaning
