SPECIFICATION FairSpec
CONSTANTS
    Terms = {1, 2}
    Docs = {1, 2}
    InitVocab <- Borrowed
    HasPositions = TRUE
    Caps = {0, 4}
    ArenaSpillCap = 3
    SlimDf = 2
    StreamTokens = 3
    SpillFaults = {"none", "space", "open", "write"}
    MaxTokens = 3
CHECK_DEADLOCK FALSE
INVARIANTS
    DrainExact
PROPERTY MergeTerminates
