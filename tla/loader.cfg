SPECIFICATION Spec
CONSTANTS
    Files = {"a", "sub/b", "sub/c"}
    Dirs = {".", "sub"}
    Root = "."
    Below <- MCBelow
    DirOf <- MCDirOf
    Start = 2
    MaxTime = 4
INVARIANTS TypeOK QuietFilesLoaded UnscannedAreNew TimesNotLater
CHECK_DEADLOCK FALSE
