SPECIFICATION Spec
CONSTANTS
    Harness = {h1, h2}
    Input = {"x"}
    Entry = {"x", "yx", "z"}
    NoEntry = NoEntry
    Leaf <- MCLeaf
    Told <- MCTold
    Ends <- MCEnds
    MaxClock = 1
    Faults = {}
INVARIANTS
    LeavesNoLitter
