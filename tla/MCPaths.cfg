SPECIFICATION Spec
CONSTANTS
    Names = {"a", "b", "w", "h"}
    Cwd <- MCCwd
    Home <- MCHome
    Starts <- MCStarts
    Imports <- MCImports
    MaxHops = 6
INVARIANTS
    NeighbourIsOpened
    PathsStayShort
CHECK_DEADLOCK FALSE
