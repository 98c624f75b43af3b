SPECIFICATION Spec
CONSTANTS
    Procs = {p1, p2}
    Inodes = {i1, i2, i3, i4}
    Versions = {v1}
    Logon = Logon
    Hole = Hole
    None = None
    NBlocks = 2
    RetryCount = 1
    Gui = {p1}
    XmlExtension = TRUE
    Encodings = {"length", "gzip", "close"}
    OpenFileRemovable = TRUE
    FilesystemErrors = TRUE
    MaxCalls = 1
    MaxClears = 1
    Hung = None
SYMMETRY FileSymmetry
INVARIANTS CachedFileWhole NoLogonPageCached PriorCopyReplaced
CHECK_DEADLOCK FALSE
