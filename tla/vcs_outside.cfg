SPECIFICATION Spec
CONSTANTS
    Files = {"m", "n"}
    InDir = {"m", "n"}
    Manifests = {"m", "n"}
    Ignored = {}
    Contents = {"images", "plain", "packaged"}
    Absent = "absent"
    HasImages = {"images", "packaged"}
    Updated <- MCUpdated
    Remotes = {"origin", "mirror", "backup"}
    Origin = "origin"
    URLs = {"hub", "lab"}
    NoURL = "none"
    InGit = FALSE
    Initial <- CleanTree
    MaxChanges = 0
INVARIANTS OutsideGitWarned
CHECK_DEADLOCK FALSE
