SPECIFICATION Spec
CONSTANTS
    Harness = {h1, h2}
    Input = {"x", "yx", "z", "/x", "./x", "//..z", ""}
    Entry = {"x", "yx", "z"}
    NoEntry = NoEntry
    Leaf <- MCLeaf
    Told <- MCTold
    Ends <- MCEnds
    MaxClock = 1
    Faults = {"setup", "create", "write", "tell", "user", "fork", "read", "kill", "abort", "stop", "wait",
              "stat", "move", "search", "remove"}
SYMMETRY HarnessSymmetry
INVARIANTS
    IInv
    DaemonOverFirst
    KeptOnlyByFailure
    ExitStatus
PROPERTIES
    SparesOthers
