SPECIFICATION FairSpec
CONSTANTS
    BaseSize = 2
    SizeMax = 255
    MaxBlock = 16
    MaxOutput = 10
INVARIANTS
    InBounds
    TestCaseContent
    FillInv
PROPERTIES
    Terminates
