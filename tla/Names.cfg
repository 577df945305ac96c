SPECIFICATION Spec
CONSTANTS
    Byte <- MCByte
    Content <- MCContent
    Rewritten <- MCRewritten
    MaxContents = 2
    Directory <- MCDirectory
    Watch <- MCWatch
    Directories <- MCDirectories
    Cwd <- MCCwd
    Destination <- MCDestination
    Options <- MCOptions
    Time <- MCTime
    LogPath <- MCLogPath
    Blank = " "
    PATH_MAX = 27
    NAME_MAX = 19
    PIPE_BUFF_SIZE = 9
    NULL = NULL
INVARIANTS
    NamesInv
    NamesInput
    ToldIsOpened
    StaysInPlace
    FindsOwn
    MatchersAgree
    StampOrder
    LogOfOptions
