SPECIFICATION Spec
CONSTANTS
    Files = {"m", "n", "notes", "elsewhere"}
    InDir = {"m", "n", "notes"}
    Manifests = {"m", "n"}
    Ignored = {"notes"}
    Contents = {"images", "plain", "packaged"}
    Absent = "absent"
    HasImages = {"images", "packaged"}
    Updated <- MCUpdated
    Remotes = {"origin", "mirror"}
    Origin = "origin"
    URLs = {"hub", "lab"}
    NoURL = "none"
    InGit = TRUE
    Initial <- UsualTrees
    MaxChanges = 2
INVARIANTS TypeOK QuietFilesTold QuietDirTold UnmodifiedIsCommitted StatementsAboutPackage CheckedInNotRefused
CHECK_DEADLOCK FALSE
