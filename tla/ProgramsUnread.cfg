SPECIFICATION Spec
CONSTANTS
    p1 = p1
    p2 = p2
    f1 = f1
    f2 = f2
    f3 = f3
    Proc = {p1, p2}
    Runs <- MCReaders
    Name <- MCName
    Subdir <- MCSubdir
    Inode = {f1, f2, f3}
    Argv0 <- MCArgv0
    Arg <- MCArg
    TestName <- MCTestName
    Line <- MCLine
    Output <- MCOutput
    Present <- MCPresent
    Content <- MCContent
    Byte <- MCByte
    BINARY_NAME <- MCBinary
    Option <- MCOption
    PASSWORD <- MCPassword
    Nul = "0"
    HighByte = "FF"
    NewLine = "n"
    BUF_LEN = 4
    BAD_MAX = 1
    Faults = {}
    NULL = NULL
INVARIANTS
    ReadsWhatItReports
