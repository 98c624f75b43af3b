SPECIFICATION Spec
CONSTANTS
    Procs = {p1, p2}
    Inodes = {i1, i2, i3, i4}
    Versions = {v1}
    Logon = Logon
    Hole = Hole
    None = None
    NBlocks = 2
    RetryCount = 1
    Gui = {}
    XmlExtension = TRUE
    Encodings = {"length"}
    OpenFileRemovable = TRUE
    FilesystemErrors = FALSE
    MaxCalls = 2
    MaxClears = 0
    Hung = None
SYMMETRY FileSymmetry
INVARIANT MutualExclusion
CHECK_DEADLOCK FALSE
