SPECIFICATION Spec
CONSTANTS
    Paths <- WorldPaths
    NoPath = "nil"
    Hosts = {"none", "p", "q", "refused", "*"}
    NoHost = "none"
    RefusedHosts = {"refused"}
    Headers = {"none", "token"}
    NoHeaders = "none"
    Ids = {1, 2, 3, 4, 5, 6, 7}
    Documents <- WorldDocuments
    Values <- WorldValues
    Hashes <- WorldValues
    Settings <- WorldSettings
    DiskContents <- WorldDisks
    Roots <- WorldRoots
    Join <- MCJoin
    Serve <- WorldServe
    Eval <- MCEval
    TextOf <- MCTextOf
    PlaceOf <- MCPlaceOf
    Alpha <- MCAlpha
    Sha <- MCSha
PROPERTIES
    CacheFilesVerify
