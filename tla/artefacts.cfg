SPECIFICATION FairSpec
CONSTANTS
    Contents = {"c1", "c2"}
    Attests = {"a1", "a2"}
    NoAttest = "noattest"
    Partial = "partial"
    NoFile = "nofile"
    Paths = {"f", "g"}
    Versions = {"v1", "v2"}
    Absent = "absent"
    FileIn <- MCFileIn
    Images = {"app", "db"}
    Replaced <- MCReplaced
    Prefix <- MCPrefix
    Prefixes = {"p"}
    Pushes = {"first", "second"}
    Package <- MCPackage
    Pulls = {"out"}
    Wanted = {"out"}
    Asked <- MCAsked
    Views = {"look"}
    NoPackage = NoPackage
    Nothing = Nothing
    MaxRepeats = 1
INVARIANTS TypeOK StoreClosed
PROPERTIES StoreSpec CommandsAdvance CommandsEnd
CHECK_DEADLOCK FALSE
