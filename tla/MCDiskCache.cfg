SPECIFICATION Spec
CONSTANTS
    Procs = {p, q}
    Hashes = {"h"}
    Nodes = {m, n}
    NoNode = NoNode
    Blocks = {"a", "b", "c", "hole"}
    Hole = "hole"
    Encodings <- MCEncodings
    Found <- MCFound
    Digest <- MCDigest
INVARIANTS
    HitsAreVerified
    WholeUnlessInterrupted
PROPERTIES
    CallsEnd
    Heals
