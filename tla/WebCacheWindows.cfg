SPECIFICATION LiveSpec
CONSTANTS
    Procs = {p1, p2}
    Inodes = {i1, i2, i3, i4}
    Versions = {v1}
    Logon = Logon
    Hole = Hole
    None = None
    NBlocks = 2
    RetryCount = 2
    Gui = {p2}
    XmlExtension = FALSE
    Encodings = {"length"}
    OpenFileRemovable = FALSE
    FilesystemErrors = FALSE
    MaxCalls = 1
    MaxClears = 0
    Hung = p1
INVARIANTS MutualExclusion NewerCopyUsed DownloadedFileThere
PROPERTIES ReplacesWhenReady OtherCallsReturn
CHECK_DEADLOCK FALSE
