SPECIFICATION Spec
CONSTANTS
    Char <- MCChar
    Slash = "/"
    FileName <- MCFileName
    Subdir <- MCSubdir
    Input <- MCInput
    NULL = NULL
INVARIANTS
    AnswerFits
    NothingMissed
    SearchInv
PROPERTIES
    DeletesFittingFile
