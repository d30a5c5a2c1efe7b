CONSTANTS
    VFS_MAX_NODES = 6
    VFS_PATH_LEN = 2
    VFS_MAX_PATH_LEN = 3
    VFS_DATA_MAX = 6
    BufSize = 4
    Names <- MCNames
    Chars <- MCChars
    Paths <- MCPaths
    UserPaths <- MCUserPaths
    Texts <- MCTexts
    Modes <- MCModes
SPECIFICATION Spec
INVARIANT AppendKeeps
