SPECIFICATION FairSpec
CONSTANTS
    Harness = {h1, h2}
    Input = {"x", "yx", "/x", "//..z", ""}
    Entry = {"x", "yx", "z"}
    NoEntry = NoEntry
    Leaf <- MCLeaf
    Told <- MCTold
    Ends <- MCEnds
    MaxClock = 0
    Faults = {"setup", "create", "write", "tell", "user", "fork", "kill", "abort", "wait",
              "search", "remove"}
PROPERTIES
    Terminates
    GetsProcessed
    ImplementsTestCase
