SPECIFICATION Spec
CONSTANTS
    Name <- MCName
    Word <- MCWord
    Matched <- MCMatched
    Saved <- MCSaved
    Campaign = {1, 2, 3}
    Script <- MCScript
    NUM_INPUTS <- MCNumInputs
    Present <- MCPresent
    Faults = {"rm_log", "rm", "printf", "cp"}
    NULL = NULL
INVARIANTS
    OwnFinding
    SavedWasWanting
    LeavesDirectory
    SavesCounted
    CampaignInv
PROPERTIES
    SparesFound
